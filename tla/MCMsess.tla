------------------------------ MODULE MCMsess ------------------------------
(* Small instances of Msess for TLC. *)
EXTENDS Msess

\* Every byte of an instance is distinct, so that a misplaced one shows.
Bytes == {"a", "b", "c", "d", "x", "y"}
Upload4 == [e \in End |-> IF e = "client" THEN <<"a", "b", "c", "d">> ELSE <<>>]
Upload2 == [e \in End |-> IF e = "client" THEN <<"a", "b">> ELSE <<>>]
Upload1 == [e \in End |-> IF e = "client" THEN <<"a">> ELSE <<>>]
NoData == [e \in End |-> <<>>]
Download1 == [e \in End |-> IF e = "client" THEN <<>> ELSE <<"x">>]
=============================================================================

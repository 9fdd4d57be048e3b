--------------------------- MODULE MCMsessServer ---------------------------
(* Small instances of MsessServer for TLC. *)
EXTENDS MsessServer

CONSTANTS h1, h2, s1, s2
Handlers == {h1, h2}
Sids == {s1, s2}
Opens(x) == [kind |-> "open", sid |-> x]
OpensPacket(x) == [kind |-> "packet", sid |-> x]
Joins(x) == [kind |-> "join", sid |-> x]

\* what the two subflows ask for: the same session twice, a session and a
\* join, two sessions; the same of a packet session
Pairs ==
  {<<Opens(s1), Opens(s1)>>, <<Opens(s1), Joins(s1)>>, <<Opens(s1), Opens(s2)>>,
   <<OpensPacket(s1), OpensPacket(s1)>>, <<OpensPacket(s1), Joins(s1)>>}
Asks == {[h \in Handlers |-> IF h = h1 THEN p[1] ELSE p[2]] : p \in Pairs}
=============================================================================

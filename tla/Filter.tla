-------------------------------- MODULE Filter -------------------------------
(***************************************************************************)
(* JavaScript's filter over a sequence, with the set of what is kept in    *)
(* the place of SelectSeq's operator: so a lemma can speak of it           *)
(* (FilterProofs).                                                         *)
(***************************************************************************)
EXTENDS Integers, Sequences

\* The values of s that are in S, in their order.
Only(s, S) ==
  LET F[i \in 0..Len(s)] == IF i = 0 THEN <<>> ELSE IF s[i] \in S THEN Append(F[i - 1], s[i]) ELSE F[i - 1]
  IN  F[Len(s)]
=============================================================================

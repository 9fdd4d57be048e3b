-------------------------- MODULE MCSubflowHealth --------------------------
(* Small instances of SubflowHealth for TLC: deadlines a full table of     *)
(* PINGs outlasts (DeadMin against MaxPings ticks), and longer ones.       *)
EXTENDS SubflowHealth

ShortDeadlines == {1, 2}
LongDeadlines == {2, 6}
=============================================================================

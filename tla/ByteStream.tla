---------------------------- MODULE ByteStream -----------------------------
(***************************************************************************)
(* What the session layer promises its two applications: a reliable byte   *)
(* pipe in each direction.  No subflows, no acknowledgements, no windows:  *)
(* an end pushes bytes, the other end pulls the next ones, and reads       *)
(* io.EOF after the last one once the pushing end has finished.            *)
(***************************************************************************)
EXTENDS Integers, Sequences

CONSTANT Byte

Ends == {"client", "server"}
Other(e) == IF e = "client" THEN "server" ELSE "client"

VARIABLES
  sent,   \* sent[e]: the bytes e's application has written
  got,    \* got[e]: the bytes e's application has read
  fin,    \* fin[e]: e will write no more
  eof     \* eof[e]: e's application has read io.EOF

pipe == <<sent, got, fin, eof>>

Init ==
  /\ sent = [e \in Ends |-> <<>>] /\ got = [e \in Ends |-> <<>>]
  /\ fin = [e \in Ends |-> FALSE] /\ eof = [e \in Ends |-> FALSE]

Push(e) ==
  /\ ~fin[e]
  /\ Len(sent'[e]) > Len(sent[e])
  /\ SubSeq(sent'[e], 1, Len(sent[e])) = sent[e]
  /\ sent' = [sent EXCEPT ![e] = sent'[e]]
  /\ UNCHANGED <<got, fin, eof>>

Pull(e) ==
  /\ ~eof[e]
  /\ \E k \in 1 .. (Len(sent[Other(e)]) - Len(got[e])) :
       got' = [got EXCEPT ![e] = @ \o SubSeq(sent[Other(e)], Len(@) + 1, Len(@) + k)]
  /\ UNCHANGED <<sent, fin, eof>>

Finish(e) ==
  /\ ~fin[e]
  /\ fin' = [fin EXCEPT ![e] = TRUE]
  /\ UNCHANGED <<sent, got, eof>>

ReadEnd(e) ==
  /\ fin[Other(e)] /\ got[e] = sent[Other(e)]
  /\ eof' = [eof EXCEPT ![e] = TRUE]
  /\ UNCHANGED <<sent, got, fin>>

Next == \E e \in Ends : Push(e) \/ Pull(e) \/ Finish(e) \/ ReadEnd(e)

Spec == Init /\ [][Next]_pipe
=============================================================================

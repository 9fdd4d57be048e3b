--------------------------- MODULE MsessEndProofs ---------------------------
(***************************************************************************)
(* Proofs about the two ends of a session (Msess), for the same constants  *)
(* as MsessProofs: what they tell each other, what they hold, what their   *)
(* carriers owe and how they end.  A byte is let go of only once the peer  *)
(* has consumed it, every FIN names the end of its sender's data, and      *)
(* io.EOF comes after the last byte: what each frame on the way says of    *)
(* its sender stays true, because the receive offset and the bytes written *)
(* only grow and a FIN offset is set once (AckInv).  What is received lies *)
(* within the window (WindowInv).  A FIN that is acknowledged was consumed *)
(* by the peer; an end is "finished" only when both directions were; and   *)
(* unless somebody gave up, nothing else ends a session but a reset by an  *)
(* application that closed, a RST, or a join refused because the exit had  *)
(* already ended it (EndInv).  No byte in flight is forgotten (CarrierInv),*)
(* and the session is the pipe of ByteStream.                              *)
(***************************************************************************)
EXTENDS MsessProofs

\* an end has consumed all of its peer's data
Done(e) == peerFinAt[e] # NoFin /\ rRead[e] >= peerFinAt[e]

\* what a frame says of an end that has consumed rr, finishes at fo and wrote w,
\* has consumed everything if done, and has ended if over
Sound(f, rr, fo, w, done, over) ==
  /\ f.type = "ack" => f.next <= rr /\ (f.fin => done)
  /\ f.type = "rst" => over
  /\ f.type = "fin" => f.off = fo
  /\ f.type = "data" => SegEnd(f) <= w

FramesSound(d) ==
  \A x \in Sub : \A i \in 1 .. Len(net[d][x]) : Sound(net[d][x][i], rRead[d], finOff[d], Written(d), Done(d), ~Open(d))

\* what a HELLO under way, a FIN offset and a received byte say
HelloSound == \A s \in Sub : rxNext[s] <= rRead["client"]
FinSound(e) ==
  /\ peerFinAt[e] \in {NoFin, finOff[Peer(e)]}
  /\ finOff[e] # NoFin => finOff[e] = Written(e)
ReceivedWritten(e) ==
  /\ Next0(e) <= Written(Peer(e))
  /\ \A sg \in ooo[e] : SegEnd(sg) <= Written(Peer(e))
EofSound(e) ==
  /\ rDiscard[e] => closed[e]
  /\ eof[e] => finOff[Peer(e)] = Len(got[e])

AckInv ==
  /\ StreamInv /\ AckedIsConsumed /\ HelloSound
  /\ \A e \in End : FramesSound(e) /\ FinSound(e) /\ ReceivedWritten(e) /\ EofSound(e)

----------------------------------------------------------------------------
(* Which actions change what the invariant speaks of.                      *)

streamVars == <<sq, sBase, finOff, rq, rRead, ooo, peerFinAt, rDiscard, closed, got, eof, rxNext>>

LEMMA Movers ==
  ASSUME [Next]_vars
  PROVE  \/ UNCHANGED streamVars
         \/ \E e \in End : App(e)
         \/ \E e \in End, s \in Sub : RecvInOrder(e, s) \/ RecvOutOfOrder(e, s) \/ RecvAck(e, s) \/ RecvFin(e, s)
         \/ \E s \in Sub : ServerJoin(s) \/ \E k \in {"spare", "failover", "switch"} : StartJoin(s, k)
<1>1. CASE UNCHANGED vars
  BY <1>1 DEF vars, streamVars, sendVars, recvVars, sessVars, histVars, joinVars
<1>2. ASSUME NEW e \in End, Tick(e) PROVE UNCHANGED streamVars
  BY <1>2 DEF Tick, TickAck, TickRescue, TickFinish, TickReset, GiveUp, streamVars, sendVars, recvVars, sessVars,
              histVars, joinVars
<1>3. ASSUME NEW e \in End, NEW s \in Sub,
             \/ WriteLoop(e, s) \/ RecvOldData(e, s) \/ RecvRst(e, s) \/ RecvRole(s)
             \/ RecvGap(e, s) \/ ReadError(e, s) \/ ReaderExit(e, s)
             \/ PathDies(e, s) \/ Splice(e, s) \/ CloseCarrier(e, s)
      PROVE  UNCHANGED streamVars
  BY <1>3 DEF WriteLoop, SendData, SendFin, RecvOldData, RecvRst, RecvRole, RecvGap, ReadError, ReaderExit,
              PathDies, Splice, CloseCarrier, streamVars, sendVars, recvVars, sessVars, histVars, joinVars
<1>4. ASSUME NEW s \in Sub,
             ClientAttach(s) \/ JoinSettle(s) \/ Failover(s) \/ JoinFail(s) \/ JoinRefused(s) \/ RetireKill(s)
      PROVE  UNCHANGED streamVars
  BY <1>4 DEF ClientAttach, JoinSettle, Failover, JoinFail, JoinRefused, RetireKill, streamVars, sendVars, recvVars,
              sessVars, histVars, joinVars
<1>5. ASSUME NEW e \in End, NEW s \in Sub, ReadLoop(e, s)
      PROVE  \/ UNCHANGED streamVars
             \/ RecvInOrder(e, s) \/ RecvOutOfOrder(e, s) \/ RecvAck(e, s) \/ RecvFin(e, s)
  BY <1>3, <1>5 DEF ReadLoop
<1> QED BY <1>1, <1>2, <1>3, <1>4, <1>5 DEF Next, PathManager

----------------------------------------------------------------------------
(* The receive offset and the bytes written only grow; a FIN offset is set *)
(* once, to all that is ever written.                                      *)

\* the ACK a handler takes in, from a frame or from a HELLO
Acknowledges(e) == \E next \in Nat, fin \in BOOLEAN : OnAck(e, next, fin)

LEMMA WhoAcknowledges ==
  ASSUME TypeOK
  PROVE  /\ \A e \in End, s \in Sub : RecvAck(e, s) => Acknowledges(e)
         /\ \A s \in Sub : ServerJoin(s) => Acknowledges("server") /\ OnAck("server", rxNext[s], FALSE) /\ rxNext[s] \in Nat
<1>1. ASSUME NEW e \in End, NEW s \in Sub, RecvAck(e, s) PROVE Acknowledges(e)
  <2>1. Receive(e, s, "ack") /\ OnAck(e, Received(e, s).next, Received(e, s).fin)
    BY <1>1 DEF RecvAck
  <2>2. Received(e, s).next \in Nat /\ Received(e, s).fin \in BOOLEAN
    BY <2>1, ReceiveType, FrameFields
  <2> QED BY <2>1, <2>2 DEF Acknowledges
<1>2. ASSUME NEW s \in Sub, ServerJoin(s)
      PROVE  Acknowledges("server") /\ OnAck("server", rxNext[s], FALSE) /\ rxNext[s] \in Nat
  <2>1. OnAck("server", rxNext[s], FALSE) /\ rxNext[s] \in Nat
    BY <1>2 DEF ServerJoin, TypeOK, JoinType
  <2> QED BY <2>1 DEF Acknowledges
<1> QED BY <1>1, <1>2

LEMMA WrittenGrows ==
  ASSUME TypeOK, TypeOK', [Next]_vars, NEW d \in End
  PROVE  /\ Written(d) \in Nat /\ Written(d)' \in Nat /\ Written(d) <= Written(d)'
         /\ finOff[d] # NoFin => Written(d)' = Written(d)
<1>0. /\ Written(d) \in Nat /\ Written(d)' \in Nat
      /\ Len(sq[d]) \in Nat /\ sBase[d] \in Nat
  BY LenProperties DEF TypeOK, SendType, Written
<1>1. CASE UNCHANGED <<sq, sBase>>
  BY <1>0, <1>1, WrittenSame
<1>2. ASSUME NEW e \in End, Write(e) PROVE Written(d) <= Written(d)' /\ (finOff[d] # NoFin => Written(d)' = Written(d))
  <2>1. PICK k \in Nat :
          /\ sq' = [sq EXCEPT ![e] = sq[e] \o SubSeq(Data[e], Written(e) + 1, Written(e) + k)]
          /\ Len(sq'[e]) = Len(sq[e]) + k
    BY <1>2, WriteStep
  <2>2. finOff[e] = NoFin /\ UNCHANGED sBase
    BY <1>2 DEF Write
  <2>3. CASE d = e
    <3>1. sBase'[d] = sBase[d] /\ Len(sq'[d]) = Len(sq[d]) + k
      BY <2>1, <2>2, <2>3
    <3>2. Written(d)' = sBase'[d] + Len(sq'[d]) /\ Written(d) = sBase[d] + Len(sq[d])
      BY DEF Written
    <3> QED BY <1>0, <2>2, <2>3, <3>1, <3>2
  <2>4. CASE d # e
    <3>1. sq'[d] = sq[d]
      BY <2>1, <2>4 DEF TypeOK, SendType
    <3> QED BY <1>0, <2>2, <3>1 DEF Written
  <2> QED BY <2>3, <2>4
<1>3. ASSUME NEW e \in End, Acknowledges(e) PROVE Written(d)' = Written(d)
  <2>1. PICK next \in Nat, fin \in BOOLEAN : OnAck(e, next, fin)
    BY <1>3 DEF Acknowledges
  <2>2. /\ sBase'[e] \in Nat /\ Len(sq'[e]) = Written(e) - sBase'[e]
        /\ d # e => sq'[d] = sq[d] /\ sBase'[d] = sBase[d]
    BY <2>1, OnAckStep
  <2> QED BY <1>0, <2>2 DEF Written
<1>4. ASSUME NEW e \in End, Read(e) \/ ReadEOF(e) \/ CloseWrite(e) \/ Close(e) PROVE UNCHANGED <<sq, sBase>>
  BY <1>4 DEF Read, ReadEOF, CloseWrite, Close, sendVars
<1>5. ASSUME NEW e \in End, NEW s \in Sub, RecvInOrder(e, s) \/ RecvOutOfOrder(e, s) \/ RecvFin(e, s)
      PROVE  UNCHANGED <<sq, sBase>>
  BY <1>5 DEF RecvInOrder, RecvOutOfOrder, RecvFin, sendVars
<1>6. ASSUME NEW s \in Sub, NEW k, StartJoin(s, k) PROVE UNCHANGED <<sq, sBase>>
  BY <1>6 DEF StartJoin, sendVars
<1>7. CASE UNCHANGED streamVars
  BY <1>1, <1>7 DEF streamVars
<1>8. "server" \in End
  BY DEF End
<1>9. ASSUME NEW e \in End, App(e) PROVE Written(d) <= Written(d)' /\ (finOff[d] # NoFin => Written(d)' = Written(d))
  BY <1>0, <1>1, <1>2, <1>4, <1>9 DEF App
<1>10. ASSUME NEW e \in End, NEW s \in Sub,
              RecvInOrder(e, s) \/ RecvOutOfOrder(e, s) \/ RecvAck(e, s) \/ RecvFin(e, s)
       PROVE  Written(d)' = Written(d)
  BY <1>1, <1>3, <1>5, <1>10, WhoAcknowledges, WrittenSame
<1>11. ASSUME NEW s \in Sub, ServerJoin(s) \/ \E k \in {"spare", "failover", "switch"} : StartJoin(s, k)
       PROVE  Written(d)' = Written(d)
  BY <1>3, <1>6, <1>8, <1>11, WhoAcknowledges, WrittenSame
<1>12. Written(d) <= Written(d)' /\ (finOff[d] # NoFin => Written(d)' = Written(d))
  BY <1>0, <1>7, <1>9, <1>10, <1>11, Movers
<1> QED BY <1>0, <1>12

LEMMA ReceivedGrows ==
  ASSUME TypeOK, TypeOK', [Next]_vars, NEW d \in End
  PROVE  rRead[d] \in Nat /\ rRead'[d] \in Nat /\ rRead[d] <= rRead'[d]
<1>0. rRead[d] \in Nat /\ rRead'[d] \in Nat /\ Len(rq[d]) \in Nat /\ \A e \in End : Len(rq[e]) \in Nat
  BY LenProperties DEF TypeOK, RecvType
<1>1. CASE UNCHANGED rRead
  BY <1>0, <1>1
<1>2. ASSUME NEW e \in End, Read(e) \/ Close(e) PROVE rRead[d] <= rRead'[d]
  <2>1. CASE Read(e)
    <3>1. PICK k \in 1 .. Len(rq[e]) : rRead' = [rRead EXCEPT ![e] = @ + k]
      BY <2>1 DEF Read
    <3> QED BY <1>0, <3>1 DEF TypeOK, RecvType
  <2>2. CASE Close(e)
    <3>1. rRead' = [rRead EXCEPT ![e] = rRead[e] + Len(rq[e])]
      BY <2>2 DEF Close
    <3> QED BY <1>0, <3>1 DEF TypeOK, RecvType
  <2> QED BY <1>2, <2>1, <2>2
<1>3. ASSUME NEW e \in End, NEW s \in Sub, RecvInOrder(e, s) PROVE rRead[d] <= rRead'[d]
  <2>1. PICK b \in Nat : InOrderStep(e, s, b)
    BY <1>3, RecvInOrderStep
  <2>2. b > Next0(e) /\ (UNCHANGED rRead \/ rRead' = [rRead EXCEPT ![e] = b])
    BY <2>1 DEF InOrderStep
  <2>3. Next0(e) = rRead[e] + Len(rq[e]) /\ rRead[e] \in Nat /\ Len(rq[e]) \in Nat
    BY <1>0 DEF Next0, TypeOK, RecvType
  <2>4. rRead'[d] = rRead[d] \/ (d = e /\ rRead'[d] = b)
    BY <2>2 DEF TypeOK, RecvType
  <2> QED BY <1>0, <2>2, <2>3, <2>4
<1>4. ASSUME NEW e \in End, App(e) PROVE rRead[d] <= rRead'[d]
  <2>1. CASE Write(e) \/ ReadEOF(e) \/ CloseWrite(e)
    BY <1>1, <2>1 DEF Write, ReadEOF, CloseWrite, recvVars
  <2> QED BY <1>2, <1>4, <2>1 DEF App
<1>5. ASSUME NEW e \in End, NEW s \in Sub, RecvOutOfOrder(e, s) \/ RecvAck(e, s) \/ RecvFin(e, s) PROVE UNCHANGED rRead
  BY <1>5 DEF RecvOutOfOrder, RecvAck, RecvFin, recvVars
<1>6. ASSUME NEW s \in Sub, ServerJoin(s) \/ \E k \in {"spare", "failover", "switch"} : StartJoin(s, k)
      PROVE  UNCHANGED rRead
  BY <1>6 DEF ServerJoin, StartJoin, recvVars
<1>7. CASE UNCHANGED streamVars
  BY <1>1, <1>7 DEF streamVars
<1> QED BY <1>0, <1>1, <1>3, <1>4, <1>5, <1>6, <1>7, Movers

LEMMA FinSetOnce ==
  ASSUME TypeOK, TypeOK', [Next]_vars, NEW d \in End
  PROVE  /\ finOff[d] \in Nat \cup {NoFin} /\ finOff'[d] \in Nat \cup {NoFin}
         /\ finOff'[d] = finOff[d] \/ (finOff[d] = NoFin /\ finOff'[d] = Written(d)')
<1>0. finOff[d] \in Nat \cup {NoFin} /\ finOff'[d] \in Nat \cup {NoFin}
  BY DEF TypeOK, SendType
<1>1. CASE UNCHANGED finOff
  BY <1>0, <1>1
<1>2. ASSUME NEW e \in End, CloseWrite(e) \/ Close(e)
      PROVE  finOff'[d] = finOff[d] \/ (finOff[d] = NoFin /\ finOff'[d] = Written(d)')
  <2>1. /\ finOff' = [finOff EXCEPT ![e] = IF @ = NoFin THEN Written(e) ELSE @]
        /\ UNCHANGED <<sq, sBase>>
    BY <1>2 DEF CloseWrite, Close
  <2>2. Written(d)' = Written(d)
    BY <2>1, WrittenSame
  <2> QED BY <2>1, <2>2 DEF TypeOK, SendType
<1>3. ASSUME NEW e \in End, App(e)
      PROVE  finOff'[d] = finOff[d] \/ (finOff[d] = NoFin /\ finOff'[d] = Written(d)')
  <2>1. CASE Write(e) \/ Read(e) \/ ReadEOF(e)
    BY <1>1, <2>1 DEF Write, Read, ReadEOF, sendVars
  <2> QED BY <1>2, <1>3, <2>1 DEF App
<1>4. ASSUME NEW e \in End, NEW s \in Sub, RecvInOrder(e, s) \/ RecvOutOfOrder(e, s) \/ RecvAck(e, s) \/ RecvFin(e, s)
      PROVE  UNCHANGED finOff
  BY <1>4 DEF RecvInOrder, RecvOutOfOrder, RecvAck, RecvFin, sendVars
<1>5. ASSUME NEW s \in Sub, ServerJoin(s) \/ \E k \in {"spare", "failover", "switch"} : StartJoin(s, k)
      PROVE  UNCHANGED finOff
  BY <1>5 DEF ServerJoin, StartJoin, sendVars
<1>6. CASE UNCHANGED streamVars
  BY <1>1, <1>6 DEF streamVars
<1> QED BY <1>0, <1>1, <1>3, <1>4, <1>5, <1>6, Movers

----------------------------------------------------------------------------
(* A frame that a step puts on the network says what is true after it.     *)

TrueNow(d, f) == Sound(f, rRead'[d], finOff'[d], Written(d)', Done(d)', ~Open(d)')

\* every frame of q was in r or is true now
From(d, q, r) == \A i \in 1 .. Len(q) : TrueNow(d, q[i]) \/ \E j \in 1 .. Len(r) : q[i] = r[j]

NothingFalse == \A d \in End, x \in Sub : From(d, net'[d][x], net[d][x])

LEMMA FromFacts ==
  ASSUME NEW d, NEW q \in Seq(Frame)
  PROVE  /\ From(d, q, q)
         /\ From(d, <<>>, q)
         /\ q # <<>> => From(d, Tail(q), q)
         /\ \A f \in Frame : TrueNow(d, f) => From(d, Append(q, f), q)
<1>1. From(d, q, q)
  BY DEF From
<1>2. From(d, <<>>, q)
  BY EmptySeq DEF From
<1>3. ASSUME q # <<>> PROVE From(d, Tail(q), q)
  <2>1. Len(Tail(q)) = Len(q) - 1 /\ \A i \in 1 .. Len(Tail(q)) : Tail(q)[i] = q[i + 1]
    BY <1>3, HeadTailProperties
  <2>2. Len(q) \in Nat
    BY LenProperties
  <2>3. ASSUME NEW i \in 1 .. Len(Tail(q)) PROVE \E j \in 1 .. Len(q) : Tail(q)[i] = q[j]
    <3>1. i + 1 \in 1 .. Len(q)
      BY <2>1, <2>2
    <3> QED BY <2>1, <3>1
  <2> QED BY <2>3 DEF From
<1>4. ASSUME NEW f \in Frame, TrueNow(d, f) PROVE From(d, Append(q, f), q)
  <2>1. /\ Len(q) \in Nat /\ Len(Append(q, f)) = Len(q) + 1
        /\ \A i \in 1 .. Len(q) : Append(q, f)[i] = q[i]
        /\ Append(q, f)[Len(q) + 1] = f
    BY AppendProperties, LenProperties
  <2>2. ASSUME NEW i \in 1 .. Len(Append(q, f)), i # Len(q) + 1
        PROVE  \E j \in 1 .. Len(q) : Append(q, f)[i] = q[j]
    <3>1. i \in 1 .. Len(q)
      BY <2>1, <2>2
    <3> QED BY <2>1, <3>1
  <2> QED BY <1>4, <2>1, <2>2 DEF From
<1> QED BY <1>1, <1>2, <1>3, <1>4

LEMMA FromTrans ==
  ASSUME NEW d, NEW q, NEW r, NEW t, From(d, q, r), From(d, r, t)
  PROVE  From(d, q, t)
BY DEF From

\* frames that say nothing of their sender
LEMMA PlainFrames ==
  \A d \in End : \A type \in {"role", "lost"} : TrueNow(d, [type |-> type])
BY DEF TrueNow, Sound

(* Frames only leave, or the frame that is added is true.                  *)
LEMMA NetGrows ==
  ASSUME TypeOK,
         \A d \in End, x \in Sub :
           \/ net'[d][x] = net[d][x] \/ net'[d][x] = <<>>
           \/ net[d][x] # <<>> /\ net'[d][x] = Tail(net[d][x])
           \/ \E f \in Frame : TrueNow(d, f) /\ net'[d][x] = Append(net[d][x], f)
  PROVE  NothingFalse
<1> SUFFICES ASSUME NEW d \in End, NEW x \in Sub PROVE From(d, net'[d][x], net[d][x])
  BY DEF NothingFalse
<1>1. net[d][x] \in Seq(Frame)
  BY DEF TypeOK, NetType
<1>2. CASE net'[d][x] = net[d][x] \/ net'[d][x] = <<>>
  BY <1>1, <1>2, FromFacts
<1>3. CASE net[d][x] # <<>> /\ net'[d][x] = Tail(net[d][x])
  BY <1>1, <1>3, FromFacts
<1>4. CASE \E f \in Frame : TrueNow(d, f) /\ net'[d][x] = Append(net[d][x], f)
  BY <1>1, <1>4, FromFacts
<1> QED BY <1>2, <1>3, <1>4

LEMMA NetUnchanged == ASSUME TypeOK, UNCHANGED net PROVE NothingFalse
BY NetGrows

(* An ACK names a receive offset the session has reached.                  *)
LEMMA AckIsTrue ==
  ASSUME NEW e \in End, NEW force, NEW rr \in Nat, NEW finAt, NEW re, NEW n \in [End -> [Sub -> Seq(Frame)]],
         MaybeAck(e, force, rr, finAt, re, n), rr = rRead'[e], finAt = peerFinAt'[e]
  PROVE  \A d \in End, x \in Sub :
           \/ net'[d][x] = n[d][x]
           \/ \E f \in Frame : TrueNow(d, f) /\ net'[d][x] = Append(n[d][x], f)
<1> DEFINE ack == [type |-> "ack", next |-> rr, fin |-> finAt # NoFin /\ rr >= finAt]
<1>1. ack \in Frame /\ TrueNow(e, ack)
  <2>1. ack \in Frame
    <3> DEFINE told == finAt # NoFin /\ rr >= finAt
    <3>1. told \in BOOLEAN
      OBVIOUS
    <3> HIDE DEF told
    <3>2. [type |-> "ack", next |-> rr, fin |-> told] \in Frame
      BY <3>1, FrameMakers
    <3> QED BY <3>2 DEF told
  <2>2. ack.type = "ack" /\ ack.next = rr /\ (ack.fin => Done(e)')
    BY DEF Done
  <2> HIDE DEF ack
  <2> QED BY <2>1, <2>2 DEF TrueNow, Sound
<1>2. net' = n \/ \E c \in AckCarriers(e) : net' = [n EXCEPT ![e][c] = Append(@, ack)]
  BY DEF MaybeAck
<1> HIDE DEF ack
<1>3. CASE net' = n
  BY <1>3
<1>4. ASSUME NEW c \in AckCarriers(e), net' = [n EXCEPT ![e][c] = Append(@, ack)],
             NEW d \in End, NEW x \in Sub
      PROVE  net'[d][x] = n[d][x] \/ (d = e /\ net'[d][x] = Append(n[d][x], ack))
  <2>1. CASE d = e /\ x = c
    BY <1>4, <2>1
  <2>2. CASE ~(d = e /\ x = c)
    BY <1>4, <2>2
  <2> QED BY <2>1, <2>2
<1> QED BY <1>1, <1>2, <1>3, <1>4

LEMMA ConsumeKeeps ==
  ASSUME TypeOK, NEW e \in End, NEW s \in Sub, NEW type, Receive(e, s, type)
  PROVE  \A d \in End, x \in Sub : From(d, Consumed(e, s)[d][x], net[d][x])
<1> SUFFICES ASSUME NEW d \in End, NEW x \in Sub PROVE From(d, Consumed(e, s)[d][x], net[d][x])
  OBVIOUS
<1>1. net[d][x] \in Seq(Frame) /\ net[Peer(e)][s] # <<>>
  BY ReceiveType DEF TypeOK, NetType
<1>2. Consumed(e, s)[d][x] = net[d][x] \/ (d = Peer(e) /\ x = s /\ Consumed(e, s)[d][x] = Tail(net[d][x]))
  BY PeerType DEF Consumed, TypeOK, NetType
<1> QED BY <1>1, <1>2, FromFacts

LEMMA ConsumeNet ==
  ASSUME TypeOK, NEW e \in End, NEW s \in Sub, NEW type, Receive(e, s, type), net' = Consumed(e, s)
  PROVE  NothingFalse
BY ConsumeKeeps DEF NothingFalse

LEMMA ConsumeAckNet ==
  ASSUME TypeOK, NEW e \in End, NEW s \in Sub, NEW type, Receive(e, s, type),
         NEW force, NEW rr \in Nat, NEW finAt, NEW re,
         MaybeAck(e, force, rr, finAt, re, Consumed(e, s)), rr = rRead'[e], finAt = peerFinAt'[e]
  PROVE  NothingFalse
<1>1. Consumed(e, s) \in [End -> [Sub -> Seq(Frame)]]
  BY ReceiveType
<1> SUFFICES ASSUME NEW d \in End, NEW x \in Sub PROVE From(d, net'[d][x], net[d][x])
  BY DEF NothingFalse
<1>2. \/ net'[d][x] = Consumed(e, s)[d][x]
      \/ \E f \in Frame : TrueNow(d, f) /\ net'[d][x] = Append(Consumed(e, s)[d][x], f)
  BY <1>1, AckIsTrue
<1>3. Consumed(e, s)[d][x] \in Seq(Frame)
  BY <1>1
<1>4. From(d, net'[d][x], Consumed(e, s)[d][x])
  BY <1>2, <1>3, FromFacts
<1>5. From(d, Consumed(e, s)[d][x], net[d][x])
  BY ConsumeKeeps
<1> QED BY <1>4, <1>5, FromTrans

LEMMA AckOnlyNet ==
  ASSUME TypeOK, NEW e \in End, NEW force, NEW rr \in Nat, NEW finAt, NEW re,
         MaybeAck(e, force, rr, finAt, re, net), rr = rRead'[e], finAt = peerFinAt'[e]
  PROVE  NothingFalse
<1>1. net \in [End -> [Sub -> Seq(Frame)]]
  BY DEF TypeOK, NetType
<1>2. \A d \in End, x \in Sub :
        \/ net'[d][x] = net[d][x]
        \/ \E f \in Frame : TrueNow(d, f) /\ net'[d][x] = Append(net[d][x], f)
  BY <1>1, AckIsTrue
<1> QED BY <1>2, NetGrows

LEMMA AbortKeeps == ASSUME TypeOK, NEW e \in End, Abort(e) PROVE NothingFalse
<1> DEFINE rst == [type |-> "rst"]
<1>1. rst \in Frame /\ TrueNow(e, rst)
  <2>1. ~Open(e)'
    BY DEF Abort, Open, TypeOK, SessType
  <2> QED BY <2>1, FrameMakers DEF TrueNow, Sound
<1>2. net' = [net EXCEPT ![e] = [s \in Sub |-> IF Live(e, s) THEN Append(net[e][s], rst) ELSE net[e][s]]]
  BY DEF Abort
<1> HIDE DEF rst
<1>3. ASSUME NEW d \in End, NEW x \in Sub
      PROVE  net'[d][x] = net[d][x] \/ (d = e /\ net'[d][x] = Append(net[d][x], rst))
  BY <1>2 DEF TypeOK, NetType
<1> QED BY <1>1, <1>3, NetGrows

LEMMA SetActiveKeeps == ASSUME TypeOK, NEW s \in Sub, SetActive(s) PROVE NothingFalse
<1> DEFINE role == [type |-> "role"]
<1>1. role \in Frame /\ \A d \in End : TrueNow(d, role)
  BY FrameMakers, PlainFrames
<1>2. net' = Put(net, "client", s, role)
  BY DEF SetActive
<1> HIDE DEF role
<1>3. ASSUME NEW d \in End, NEW x \in Sub
      PROVE  net'[d][x] = net[d][x] \/ net'[d][x] = Append(net[d][x], role)
  BY <1>2 DEF Put, TypeOK, NetType
<1> QED BY <1>1, <1>3, NetGrows

LEMMA AppKeeps == ASSUME TypeOK, TypeOK', [Next]_vars, NEW e \in End, App(e) PROVE NothingFalse
<1>0. rRead[e] \in Nat /\ Len(rq[e]) \in Nat /\ rRead \in [End -> Nat]
  BY LenProperties DEF TypeOK, RecvType
<1>1. CASE Write(e) \/ ReadEOF(e) \/ CloseWrite(e)
  <2>1. UNCHANGED net
    BY <1>1 DEF Write, ReadEOF, CloseWrite
  <2> QED BY <2>1, NetUnchanged
<1>2. CASE Read(e)
  <2>1. PICK k \in 1 .. Len(rq[e]) :
          /\ rRead' = [rRead EXCEPT ![e] = @ + k]
          /\ MaybeAck(e, FALSE, rRead[e] + k, peerFinAt[e], reAck[e], net)
    BY <1>2 DEF Read
  <2>2. rRead[e] + k \in Nat /\ rRead'[e] = rRead[e] + k
    BY <1>0, <2>1
  <2>3. peerFinAt'[e] = peerFinAt[e]
    BY <1>2 DEF Read
  <2> QED BY <2>1, <2>2, <2>3, AckOnlyNet
<1>3. CASE Close(e)
  <2>1. /\ rRead' = [rRead EXCEPT ![e] = rRead[e] + Len(rq[e])]
        /\ MaybeAck(e, TRUE, rRead[e] + Len(rq[e]), peerFinAt[e], reAck[e], net)
    BY <1>3 DEF Close
  <2>2. rRead[e] + Len(rq[e]) \in Nat /\ rRead'[e] = rRead[e] + Len(rq[e])
    BY <1>0, <2>1
  <2>3. peerFinAt'[e] = peerFinAt[e]
    BY <1>3 DEF Close
  <2> QED BY <2>1, <2>2, <2>3, AckOnlyNet
<1> QED BY <1>1, <1>2, <1>3 DEF App

LEMMA ReadLoopKeeps ==
  ASSUME TypeOK, TypeOK', [Next]_vars, NEW e \in End, NEW s \in Sub, ReadLoop(e, s) PROVE NothingFalse
<1>0. rRead[e] \in Nat /\ rRead \in [End -> Nat] /\ net \in [End -> [Sub -> Seq(Frame)]]
  BY DEF TypeOK, RecvType, NetType
<1>1. CASE RecvOldData(e, s) \/ RecvOutOfOrder(e, s) \/ RecvAck(e, s) \/ RecvRst(e, s)
  <2>1. (\E type : Receive(e, s, type)) /\ net' = Consumed(e, s)
    BY <1>1 DEF RecvOldData, RecvOutOfOrder, RecvAck, RecvRst
  <2> QED BY <2>1, ConsumeNet
<1>2. CASE RecvInOrder(e, s)
  <2>1. Receive(e, s, "data")
    BY <1>2 DEF RecvInOrder
  <2>2. PICK b \in Nat : InOrderStep(e, s, b)
    BY <1>2, RecvInOrderStep
  <2>3. CASE rDiscard[e]
    <3>1. /\ rRead' = [rRead EXCEPT ![e] = b]
          /\ MaybeAck(e, FALSE, b, peerFinAt[e], reAck[e], Consumed(e, s))
      BY <2>2, <2>3 DEF InOrderStep
    <3>2. b = rRead'[e] /\ peerFinAt'[e] = peerFinAt[e]
      BY <1>0, <1>2, <3>1 DEF RecvInOrder
    <3> QED BY <2>1, <3>1, <3>2, ConsumeAckNet
  <2>4. CASE ~rDiscard[e]
    <3>1. net' = Consumed(e, s)
      BY <2>2, <2>4 DEF InOrderStep
    <3> QED BY <2>1, <3>1, ConsumeNet
  <2> QED BY <2>3, <2>4
<1>3. CASE RecvFin(e, s)
  <2>1. /\ Receive(e, s, "fin") /\ UNCHANGED rRead
        /\ peerFinAt' = [peerFinAt EXCEPT ![e] = Received(e, s).off]
        /\ MaybeAck(e, TRUE, rRead[e], Received(e, s).off, reAck[e], Consumed(e, s))
    BY <1>3 DEF RecvFin
  <2>2. rRead[e] = rRead'[e] /\ Received(e, s).off = peerFinAt'[e]
    BY <2>1 DEF TypeOK, RecvType
  <2> QED BY <1>0, <2>1, <2>2, ConsumeAckNet
<1>4. CASE e = "server" /\ RecvRole(s)
  <2>1. Receive(e, s, "role") /\ net' = Consumed(e, s)
    BY <1>4 DEF RecvRole
  <2> QED BY <2>1, ConsumeNet
<1>5. CASE RecvGap(e, s)
  <2>1. \A d \in End, x \in Sub : net'[d][x] = net[d][x] \/ net'[d][x] = <<>>
    BY <1>0, <1>5, PeerType DEF RecvGap
  <2> QED BY <2>1, NetGrows
<1>6. CASE ReadError(e, s) \/ ReaderExit(e, s)
  <2>1. net' = Forget(e, s)
    BY <1>6 DEF ReadError, ReaderExit
  <2>2. \A d \in End, x \in Sub : net'[d][x] = net[d][x] \/ net'[d][x] = <<>>
    BY <1>0, <2>1, PeerType DEF Forget
  <2> QED BY <2>2, NetGrows
<1> QED BY <1>1, <1>2, <1>3, <1>4, <1>5, <1>6 DEF ReadLoop

(* The payload of a DATA frame ends where its span does.                   *)
LEMMA WriteLoopKeeps ==
  ASSUME TypeOK, TypeOK', SpansWritten, [Next]_vars, NEW e \in End, NEW s \in Sub, WriteLoop(e, s)
  PROVE  NothingFalse
<1>0. net \in [End -> [Sub -> Seq(Frame)]]
  BY DEF TypeOK, NetType
<1>1. ASSUME NEW f \in Frame, TrueNow(e, f), net' = [net EXCEPT ![e][s] = Append(@, f)] PROVE NothingFalse
  <2>1. ASSUME NEW d \in End, NEW x \in Sub
        PROVE  net'[d][x] = net[d][x] \/ (d = e /\ net'[d][x] = Append(net[d][x], f))
    BY <1>0, <1>1
  <2> QED BY <1>1, <2>1, NetGrows
<1>2. CASE SendFin(e, s)
  <2> DEFINE f == [type |-> "fin", off |-> finOff[e]]
  <2>1. finOff[e] \in Nat /\ UNCHANGED finOff /\ net' = [net EXCEPT ![e][s] = Append(@, f)]
    BY <1>2 DEF SendFin, TypeOK, SendType
  <2>2. f \in Frame /\ TrueNow(e, f)
    BY <2>1, FrameMakers DEF TrueNow, Sound
  <2> QED BY <1>1, <2>1, <2>2
<1>3. CASE SendData(e, s)
  <2>1. PICK sp \in Span : Sends(e, s, sp)
    BY <1>3, SendDataStep
  <2> DEFINE f == [type |-> "data", off |-> sp.off, bytes |-> Payload(e, sp)]
  <2>2. Buffered(e, sp) /\ net' = [net EXCEPT ![e][s] = Append(@, f)]
    BY <2>1 DEF Sends
  <2>3. Payload(e, sp) \in Seq(Byte) /\ Len(Payload(e, sp)) = sp.n
    BY <2>2, PayloadType
  <2>4. Written(e)' = Written(e)
    <3>1. UNCHANGED <<sq, sBase>>
      BY <1>3 DEF SendData
    <3> QED BY <3>1, WrittenSame
  <2>5. f \in Frame
    BY <2>3, FrameMakers DEF Span
  <2>6. SegEnd(f) <= Written(e)'
    BY <2>2, <2>3, <2>4 DEF Buffered, SpanEnd, SegEnd
  <2>7. TrueNow(e, f)
    BY <2>6 DEF TrueNow, Sound
  <2> HIDE DEF f
  <2> QED BY <1>1, <2>2, <2>5, <2>7
<1> QED BY <1>2, <1>3 DEF WriteLoop

LEMMA OtherKeeps ==
  ASSUME TypeOK, NEW e \in End, NEW s \in Sub,
         \/ PathDies(e, s) \/ Splice(e, s) \/ CloseCarrier(e, s)
         \/ Tick(e) \/ PathManager(s)
  PROVE  NothingFalse
<1>0. /\ "client" \in End /\ "server" \in End /\ net \in [End -> [Sub -> Seq(Frame)]]
      /\ rRead[e] \in Nat
  BY DEF End, TypeOK, NetType, RecvType
<1>1. CASE Splice(e, s)
  <2>1. PICK i \in 1 .. (Len(net[e][s]) - 1) : net' = [net EXCEPT ![e][s][i] = [type |-> "lost"]]
    BY <1>1 DEF Splice
  <2>2. net[e][s] \in Seq(Frame) /\ i \in 1 .. Len(net[e][s])
    BY <1>0, <2>1, LenProperties
  <2>3. [type |-> "lost"] \in Frame /\ TrueNow(e, [type |-> "lost"])
    BY FrameMakers, PlainFrames
  <2>4. /\ Len([net[e][s] EXCEPT ![i] = [type |-> "lost"]]) = Len(net[e][s])
        /\ \A j \in 1 .. Len(net[e][s]) :
             [net[e][s] EXCEPT ![i] = [type |-> "lost"]][j] = IF j = i THEN [type |-> "lost"] ELSE net[e][s][j]
    BY <2>2, <2>3, ExceptSeq
  <2>5. From(e, [net[e][s] EXCEPT ![i] = [type |-> "lost"]], net[e][s])
    BY <2>3, <2>4 DEF From
  <2>6. ASSUME NEW d \in End, NEW x \in Sub PROVE From(d, net'[d][x], net[d][x])
    <3>1. CASE d = e /\ x = s
      BY <1>0, <2>1, <2>5, <3>1
    <3>2. CASE ~(d = e /\ x = s)
      <4>1. net'[d][x] = net[d][x]
        BY <1>0, <2>1, <3>2
      <4> QED BY <4>1 DEF From
    <3> QED BY <3>1, <3>2
  <2> QED BY <2>6 DEF NothingFalse
<1>2. CASE Tick(e)
  <2>1. CASE TickAck(e)
    <3>1. MaybeAck(e, TRUE, rRead[e], peerFinAt[e], reAck[e], net) /\ UNCHANGED <<rRead, peerFinAt>>
      BY <2>1 DEF TickAck, recvVars
    <3>2. rRead[e] = rRead'[e] /\ peerFinAt[e] = peerFinAt'[e]
      BY <3>1
    <3> QED BY <1>0, <3>1, <3>2, AckOnlyNet
  <2>2. CASE TickRescue(e) \/ TickFinish(e)
    <3>1. UNCHANGED net
      BY <2>2 DEF TickRescue, TickFinish
    <3> QED BY <3>1, NetUnchanged
  <2>3. CASE TickReset(e) \/ GiveUp(e)
    BY <2>3, AbortKeeps DEF TickReset, GiveUp
  <2> QED BY <1>2, <2>1, <2>2, <2>3 DEF Tick
<1>3. CASE PathDies(e, s) \/ CloseCarrier(e, s) \/ RetireKill(s) \/ ServerJoin(s)
           \/ \E k \in {"spare", "failover", "switch"} : StartJoin(s, k)
  <2>1. UNCHANGED net
    BY <1>3 DEF PathDies, CloseCarrier, RetireKill, ServerJoin, StartJoin
  <2> QED BY <2>1, NetUnchanged
<1>4. CASE ClientAttach(s) \/ JoinFail(s)
  <2>1. net' = net \/ net' = [net EXCEPT !["server"][s] = <<>>]
    BY <1>4 DEF ClientAttach, JoinFail
  <2>2. \A d \in End, x \in Sub : net'[d][x] = net[d][x] \/ net'[d][x] = <<>>
    BY <1>0, <2>1
  <2> QED BY <2>2, NetGrows
<1>5. CASE JoinSettle(s) \/ Failover(s)
  <2>1. SetActive(s) \/ UNCHANGED net
    BY <1>5 DEF JoinSettle, Failover
  <2> QED BY <2>1, SetActiveKeeps, NetUnchanged
<1>6. CASE JoinRefused(s)
  <2>1. Abort("client") \/ UNCHANGED net
    BY <1>6 DEF JoinRefused
  <2> QED BY <1>0, <2>1, AbortKeeps, NetUnchanged
<1> QED BY <1>1, <1>2, <1>3, <1>4, <1>5, <1>6 DEF PathManager

LEMMA ReceivedIsSound ==
  ASSUME AckInv, NEW e \in End, NEW s \in Sub, NEW type, Receive(e, s, type)
  PROVE  /\ Received(e, s) \in Frame /\ Received(e, s).type = type
         /\ Sound(Received(e, s), rRead[Peer(e)], finOff[Peer(e)], Written(Peer(e)),
                  Done(Peer(e)), ~Open(Peer(e)))
<1>1. TypeOK /\ FramesSound(Peer(e))
  BY PeerType DEF AckInv, StreamInv
<1>2. net[Peer(e)][s] \in Seq(Frame) /\ net[Peer(e)][s] # <<>> /\ Received(e, s) \in Frame /\ Received(e, s).type = type
  BY <1>1, ReceiveType
<1>3. 1 \in 1 .. Len(net[Peer(e)][s]) /\ Received(e, s) = net[Peer(e)][s][1]
  BY <1>2, HeadTailProperties, LenProperties, EmptySeq DEF Received
<1> QED BY <1>1, <1>2, <1>3 DEF FramesSound

(* An end that has ended stays so, and one that has consumed everything has *)
(* done so for good: a FIN that comes again names the same offset.         *)
LEMMA OverLasts ==
  ASSUME TypeOK, [Next]_vars, NEW d \in End, ~Open(d) PROVE ~Open(d)'
<1>0. status \in [End -> {"open", "finished", "aborted"}] /\ status[d] # "open"
  BY DEF TypeOK, SessType, Open
<1>1. CASE UNCHANGED status
  BY <1>0, <1>1 DEF Open
<1>2. ASSUME NEW e \in End, \E v \in {"finished", "aborted"} : status' = [status EXCEPT ![e] = v] PROVE ~Open(d)'
  BY <1>0, <1>2 DEF Open
<1>3. ASSUME NEW e \in End, App(e) PROVE UNCHANGED status
  BY <1>3 DEF App, Write, Read, ReadEOF, CloseWrite, Close, sessVars
<1>4. ASSUME NEW e \in End, Tick(e) PROVE ~Open(d)'
  <2>1. TickAck(e) \/ TickRescue(e) => UNCHANGED status
    BY DEF TickAck, TickRescue, sessVars
  <2>2. TickFinish(e) \/ TickReset(e) \/ GiveUp(e) => \E v \in {"finished", "aborted"} : status' = [status EXCEPT ![e] = v]
    BY DEF TickFinish, TickReset, GiveUp, Abort
  <2> QED BY <1>1, <1>2, <1>4, <2>1, <2>2 DEF Tick
<1>5. ASSUME NEW e \in End, NEW s \in Sub, RecvRst(e, s) PROVE ~Open(d)'
  <2>1. status' = [status EXCEPT ![e] = IF @ = "open" THEN "aborted" ELSE @]
    BY <1>5 DEF RecvRst
  <2> QED BY <1>0, <2>1 DEF Open
<1>6. ASSUME NEW e \in End, NEW s \in Sub,
             \/ WriteLoop(e, s) \/ RecvOldData(e, s) \/ RecvInOrder(e, s) \/ RecvOutOfOrder(e, s)
             \/ RecvAck(e, s) \/ RecvFin(e, s) \/ ReaderExit(e, s) \/ RecvGap(e, s) \/ ReadError(e, s)
             \/ RecvRole(s) \/ PathDies(e, s) \/ Splice(e, s) \/ CloseCarrier(e, s)
      PROVE  UNCHANGED status
  BY <1>6 DEF WriteLoop, SendData, SendFin, RecvOldData, RecvInOrder, RecvOutOfOrder, RecvAck, RecvFin,
              ReaderExit, RecvGap, ReadError, RecvRole, PathDies, Splice, CloseCarrier, sessVars
<1>7. ASSUME NEW s \in Sub, PathManager(s) PROVE ~Open(d)'
  <2>1. JoinRefused(s) => UNCHANGED status \/ status' = [status EXCEPT !["client"] = "aborted"]
    BY DEF JoinRefused, Abort
  <2>2. \/ \E k \in {"spare", "failover", "switch"} : StartJoin(s, k)
        \/ ServerJoin(s) \/ ClientAttach(s) \/ JoinSettle(s) \/ Failover(s) \/ JoinFail(s) \/ RetireKill(s)
        => UNCHANGED status
    BY DEF StartJoin, ServerJoin, ClientAttach, JoinSettle, Failover, JoinFail, RetireKill, sessVars
  <2>3. "client" \in End
    BY DEF End
  <2> QED BY <1>1, <1>2, <1>7, <2>1, <2>2, <2>3 DEF PathManager
<1>8. CASE UNCHANGED vars
  BY <1>1, <1>8 DEF vars, sessVars
<1>9. ASSUME NEW e \in End, NEW s \in Sub,
             ReadLoop(e, s) \/ WriteLoop(e, s) \/ PathDies(e, s) \/ Splice(e, s) \/ CloseCarrier(e, s)
      PROVE  ~Open(d)'
  BY <1>1, <1>5, <1>6, <1>9 DEF ReadLoop
<1> QED BY <1>1, <1>3, <1>4, <1>7, <1>8, <1>9 DEF Next

LEMMA FinOffsetStays ==
  ASSUME AckInv, TypeOK', [Next]_vars, NEW d \in End
  PROVE  peerFinAt'[d] = peerFinAt[d] \/ (peerFinAt[d] = NoFin /\ peerFinAt'[d] = finOff[Peer(d)])
<1>0. TypeOK /\ FinSound(d) /\ Peer(d) \in End
  BY PeerType DEF AckInv, StreamInv
<1>3. UNCHANGED peerFinAt => peerFinAt'[d] = peerFinAt[d]
  OBVIOUS
<1>4. ASSUME NEW e \in End, NEW s \in Sub, RecvFin(e, s)
      PROVE  peerFinAt'[d] = peerFinAt[d] \/ (peerFinAt[d] = NoFin /\ peerFinAt'[d] = finOff[Peer(d)])
  <2>1. Receive(e, s, "fin") /\ peerFinAt' = [peerFinAt EXCEPT ![e] = Received(e, s).off]
    BY <1>4 DEF RecvFin
  <2>2. Received(e, s).off = finOff[Peer(e)]
    BY <2>1, ReceivedIsSound DEF Sound
  <2>3. peerFinAt'[d] = peerFinAt[d] \/ (d = e /\ peerFinAt'[d] = finOff[Peer(d)])
    BY <1>0, <2>1, <2>2 DEF TypeOK, RecvType
  <2> QED BY <1>0, <2>3 DEF FinSound
<1>5. ASSUME NEW e \in End, App(e) PROVE UNCHANGED peerFinAt
  BY <1>5 DEF App, Write, Read, ReadEOF, CloseWrite, Close, recvVars
<1>6. ASSUME NEW e \in End, NEW s \in Sub, RecvInOrder(e, s) \/ RecvOutOfOrder(e, s) \/ RecvAck(e, s)
      PROVE  UNCHANGED peerFinAt
  BY <1>6 DEF RecvInOrder, RecvOutOfOrder, RecvAck, recvVars
<1>7. ASSUME NEW s \in Sub, ServerJoin(s) \/ \E k \in {"spare", "failover", "switch"} : StartJoin(s, k)
      PROVE  UNCHANGED peerFinAt
  BY <1>7 DEF ServerJoin, StartJoin, recvVars
<1>8. UNCHANGED streamVars => UNCHANGED peerFinAt
  BY DEF streamVars
<1> QED BY <1>3, <1>4, <1>5, <1>6, <1>7, <1>8, Movers

LEMMA DoneLasts ==
  ASSUME AckInv, TypeOK', [Next]_vars, NEW d \in End, Done(d) PROVE Done(d)'
<1>0. TypeOK /\ peerFinAt[d] \in Nat \cup {NoFin} /\ NoFin \in Int
  BY DEF AckInv, StreamInv, TypeOK, RecvType, NoFin
<1>1. rRead[d] \in Nat /\ rRead'[d] \in Nat /\ rRead[d] <= rRead'[d]
  BY <1>0, ReceivedGrows
<1>2. peerFinAt'[d] = peerFinAt[d]
  BY FinOffsetStays DEF Done
<1> QED BY <1>0, <1>1, <1>2 DEF Done

(* What a frame says stays true while it is on its way.                    *)
LEMMA StaysTrue ==
  ASSUME AckInv, TypeOK', [Next]_vars, NEW d \in End, NEW f \in Frame,
         Sound(f, rRead[d], finOff[d], Written(d), Done(d), ~Open(d))
  PROVE  TrueNow(d, f)
<1>0. TypeOK
  BY DEF AckInv, StreamInv
<1>1. ASSUME f.type = "ack" PROVE f.next <= rRead'[d] /\ (f.fin => Done(d)')
  BY <1>0, <1>1, ReceivedGrows, DoneLasts, FrameFields DEF Sound
<1>4. ASSUME f.type = "rst" PROVE ~Open(d)'
  BY <1>0, <1>4, OverLasts DEF Sound
<1>2. ASSUME f.type = "fin" PROVE f.off = finOff'[d]
  <2>1. f.off \in Nat /\ f.off = finOff[d]
    BY <1>2, FrameFields DEF Sound
  <2>2. finOff[d] # NoFin
    BY <2>1 DEF NoFin
  <2> QED BY <1>0, <2>1, <2>2, FinSetOnce
<1>3. ASSUME f.type = "data" PROVE SegEnd(f) <= Written(d)'
  <2>1. f.off \in Nat /\ Len(f.bytes) \in Nat
    BY <1>3, FrameFields, LenProperties
  <2>2. SegEnd(f) \in Nat /\ SegEnd(f) <= Written(d)
    BY <1>3, <2>1 DEF Sound, SegEnd
  <2> QED BY <1>0, <2>2, WrittenGrows
<1> QED BY <1>1, <1>2, <1>3, <1>4 DEF TrueNow, Sound

LEMMA FramesStaySound ==
  ASSUME AckInv, TypeOK', [Next]_vars, NEW d \in End PROVE FramesSound(d)'
<1>0. TypeOK /\ SpansWritten /\ FramesSound(d)
  BY DEF AckInv, StreamInv
<1>1. NothingFalse
  <2>1. CASE UNCHANGED vars
    BY <1>0, <2>1, NetUnchanged DEF vars
  <2>2. ASSUME NEW e \in End, App(e) \/ Tick(e) PROVE NothingFalse
    BY <1>0, <2>2, AppKeeps, OtherKeeps, SubFacts
  <2>3. ASSUME NEW e \in End, NEW s \in Sub,
               ReadLoop(e, s) \/ WriteLoop(e, s) \/ PathDies(e, s) \/ Splice(e, s) \/ CloseCarrier(e, s)
        PROVE  NothingFalse
    BY <1>0, <2>3, ReadLoopKeeps, WriteLoopKeeps, OtherKeeps
  <2>4. ASSUME NEW s \in Sub, PathManager(s) PROVE NothingFalse
    <3>1. "client" \in End
      BY DEF End
    <3> QED BY <1>0, <2>4, <3>1, OtherKeeps
  <2> QED BY <2>1, <2>2, <2>3, <2>4 DEF Next
<1>2. ASSUME NEW x \in Sub, NEW i \in 1 .. Len(net'[d][x]) PROVE TrueNow(d, net'[d][x][i])
  <2>1. TrueNow(d, net'[d][x][i]) \/ \E j \in 1 .. Len(net[d][x]) : net'[d][x][i] = net[d][x][j]
    BY <1>1 DEF NothingFalse, From
  <2>2. ASSUME NEW j \in 1 .. Len(net[d][x]) PROVE TrueNow(d, net[d][x][j])
    <3>1. net[d][x][j] \in Frame
      BY <1>0, ElementOfSeq DEF TypeOK, NetType
    <3> QED BY <1>0, <3>1, StaysTrue DEF FramesSound
  <2> QED BY <2>1, <2>2
<1> QED BY <1>2 DEF FramesSound, TrueNow

----------------------------------------------------------------------------
(* What an end believes of its peer.                                       *)

LEMMA OnAckBound ==
  ASSUME TypeOK, NEW e \in End, NEW next \in Nat, NEW fin, OnAck(e, next, fin)
  PROVE  sBase'[e] <= sBase[e] \/ sBase'[e] <= next
<1>1. sBase \in [End -> Nat] /\ Written(e) \in Nat
  BY LenProperties DEF TypeOK, SendType, Written
<1>2. sBase'[e] = IF next > sBase[e] THEN Lesser(next, Written(e)) ELSE sBase[e]
  BY <1>1 DEF OnAck
<1> QED BY <1>1, <1>2 DEF Lesser

LEMMA StaysConsumed ==
  ASSUME AckInv, TypeOK', [Next]_vars, NEW d \in End PROVE sBase'[d] <= rRead'[Peer(d)]
<1>0. /\ TypeOK /\ HelloSound /\ Peer(d) \in End
      /\ sBase[d] \in Nat /\ sBase'[d] \in Nat /\ sBase[d] <= rRead[Peer(d)]
      /\ rRead[Peer(d)] \in Nat /\ rRead'[Peer(d)] \in Nat /\ rRead[Peer(d)] <= rRead'[Peer(d)]
  BY PeerType, ReceivedGrows DEF AckInv, StreamInv, AckedIsConsumed, TypeOK, SendType
<1>1. CASE UNCHANGED sBase
  BY <1>0, <1>1
<1>2. ASSUME NEW e \in End, NEW next \in Nat, NEW fin \in BOOLEAN, OnAck(e, next, fin), next <= rRead[Peer(e)]
      PROVE  sBase'[d] <= rRead'[Peer(d)]
  <2>1. CASE d = e
    <3>1. sBase'[d] <= sBase[d] \/ sBase'[d] <= next
      BY <1>0, <1>2, <2>1, OnAckBound
    <3> QED BY <1>0, <1>2, <2>1, <3>1
  <2>2. CASE d # e
    <3>1. sBase'[d] = sBase[d]
      BY <1>0, <1>2, <2>2, OnAckStep
    <3> QED BY <1>0, <3>1
  <2> QED BY <2>1, <2>2
<1>3. ASSUME NEW e \in End, NEW s \in Sub, RecvAck(e, s) PROVE sBase'[d] <= rRead'[Peer(d)]
  <2>1. Receive(e, s, "ack") /\ OnAck(e, Received(e, s).next, Received(e, s).fin)
    BY <1>3 DEF RecvAck
  <2>2. /\ Received(e, s).next \in Nat /\ Received(e, s).fin \in BOOLEAN
        /\ Received(e, s).next <= rRead[Peer(e)]
    BY <2>1, ReceivedIsSound, FrameFields DEF Sound
  <2> QED BY <1>2, <2>1, <2>2
<1>4. ASSUME NEW s \in Sub, ServerJoin(s) PROVE sBase'[d] <= rRead'[Peer(d)]
  <2>1. OnAck("server", rxNext[s], FALSE) /\ rxNext[s] \in Nat /\ "server" \in End
    BY <1>0, <1>4 DEF ServerJoin, TypeOK, JoinType, End
  <2>2. rxNext[s] <= rRead[Peer("server")]
    BY <1>0 DEF HelloSound, Peer
  <2> QED BY <1>2, <2>1, <2>2
<1>5. ASSUME NEW e \in End, App(e) PROVE UNCHANGED sBase
  BY <1>5 DEF App, Write, Read, ReadEOF, CloseWrite, Close, sendVars
<1>6. ASSUME NEW e \in End, NEW s \in Sub, RecvInOrder(e, s) \/ RecvOutOfOrder(e, s) \/ RecvFin(e, s)
      PROVE  UNCHANGED sBase
  BY <1>6 DEF RecvInOrder, RecvOutOfOrder, RecvFin, sendVars
<1>7. ASSUME NEW s \in Sub, NEW k, StartJoin(s, k) PROVE UNCHANGED sBase
  BY <1>7 DEF StartJoin, sendVars
<1>8. CASE UNCHANGED streamVars
  BY <1>1, <1>8 DEF streamVars
<1>9. ASSUME NEW e \in End, NEW s \in Sub,
             RecvInOrder(e, s) \/ RecvOutOfOrder(e, s) \/ RecvAck(e, s) \/ RecvFin(e, s)
      PROVE  sBase'[d] <= rRead'[Peer(d)]
  BY <1>1, <1>3, <1>6, <1>9
<1>10. ASSUME NEW s \in Sub, ServerJoin(s) \/ \E k \in {"spare", "failover", "switch"} : StartJoin(s, k)
       PROVE  sBase'[d] <= rRead'[Peer(d)]
  BY <1>1, <1>4, <1>7, <1>10
<1> QED BY <1>1, <1>5, <1>8, <1>9, <1>10, Movers

LEMMA HelloStaysSound == ASSUME AckInv, TypeOK', [Next]_vars PROVE HelloSound'
<1>0. TypeOK /\ HelloSound /\ "client" \in End
  BY DEF AckInv, StreamInv, End
<1>1. rRead["client"] \in Nat /\ rRead'["client"] \in Nat /\ rRead["client"] <= rRead'["client"]
  BY <1>0, ReceivedGrows
<1>2. CASE UNCHANGED rxNext
  BY <1>0, <1>1, <1>2 DEF HelloSound, TypeOK, JoinType
<1>3. ASSUME NEW s \in Sub, NEW k, StartJoin(s, k) PROVE HelloSound'
  <2>1. rxNext' = [rxNext EXCEPT ![s] = rRead["client"]]
    BY <1>3 DEF StartJoin
  <2>2. ASSUME NEW x \in Sub PROVE rxNext'[x] <= rRead'["client"]
    <3>1. rxNext'[x] = rxNext[x] \/ rxNext'[x] = rRead["client"]
      BY <1>0, <2>1 DEF TypeOK, JoinType
    <3> QED BY <1>0, <1>1, <3>1 DEF HelloSound, TypeOK, JoinType
  <2> QED BY <2>2 DEF HelloSound
<1>4. ASSUME NEW e \in End, App(e) PROVE UNCHANGED rxNext
  BY <1>4 DEF App, Write, Read, ReadEOF, CloseWrite, Close, joinVars
<1>5. ASSUME NEW e \in End, NEW s \in Sub,
             RecvInOrder(e, s) \/ RecvOutOfOrder(e, s) \/ RecvAck(e, s) \/ RecvFin(e, s)
      PROVE  UNCHANGED rxNext
  BY <1>5 DEF RecvInOrder, RecvOutOfOrder, RecvAck, RecvFin, joinVars
<1>6. ASSUME NEW s \in Sub, ServerJoin(s) PROVE UNCHANGED rxNext
  BY <1>6 DEF ServerJoin
<1>7. CASE UNCHANGED streamVars
  BY <1>2, <1>7 DEF streamVars
<1>8. ASSUME NEW s \in Sub, ServerJoin(s) \/ \E k \in {"spare", "failover", "switch"} : StartJoin(s, k)
      PROVE  HelloSound'
  BY <1>2, <1>3, <1>6, <1>8
<1>9. ASSUME NEW e \in End, NEW s \in Sub,
             RecvInOrder(e, s) \/ RecvOutOfOrder(e, s) \/ RecvAck(e, s) \/ RecvFin(e, s)
      PROVE  HelloSound'
  BY <1>2, <1>5, <1>9
<1> QED BY <1>2, <1>4, <1>7, <1>8, <1>9, Movers

LEMMA FinStaysSound == ASSUME AckInv, TypeOK', [Next]_vars, NEW d \in End PROVE FinSound(d)'
<1>0. TypeOK /\ FinSound(d) /\ Peer(d) \in End
  BY PeerType DEF AckInv, StreamInv
<1>1. finOff'[d] # NoFin => finOff'[d] = Written(d)'
  <2>1. finOff'[d] = finOff[d] \/ (finOff[d] = NoFin /\ finOff'[d] = Written(d)')
    BY <1>0, FinSetOnce
  <2>2. finOff[d] # NoFin => Written(d)' = Written(d)
    BY <1>0, WrittenGrows
  <2> QED BY <1>0, <2>1, <2>2 DEF FinSound
<1>2. finOff'[Peer(d)] = finOff[Peer(d)] \/ finOff[Peer(d)] = NoFin
  BY <1>0, FinSetOnce
<1>3. peerFinAt'[d] \in {NoFin, finOff'[Peer(d)]}
  BY <1>0, <1>2, FinOffsetStays DEF FinSound
<1> QED BY <1>1, <1>3 DEF FinSound

(* The next byte in order stays the next one when bytes are read or        *)
(* discarded, and moves to where the bytes that have come end.             *)
LEMMA ReadKeepsNext ==
  ASSUME TypeOK, NEW e \in End, Read(e) \/ Close(e), NEW d \in End
  PROVE  Next0(d)' = Next0(d) /\ ooo'[d] = ooo[d]
<1>0. /\ rq \in [End -> Seq(Byte)] /\ rRead \in [End -> Nat]
      /\ rq[d] \in Seq(Byte) /\ Len(rq[d]) \in Nat /\ rRead[d] \in Nat
      /\ Next0(d) = rRead[d] + Len(rq[d]) /\ Next0(d)' = rRead'[d] + Len(rq'[d])
  BY LenProperties DEF TypeOK, RecvType, Next0
<1>1. CASE Read(e)
  <2>1. PICK k \in 1 .. Len(rq[e]) :
          /\ rq' = [rq EXCEPT ![e] = SubSeq(@, k + 1, Len(@))]
          /\ rRead' = [rRead EXCEPT ![e] = @ + k]
    BY <1>1 DEF Read
  <2>2. UNCHANGED ooo
    BY <1>1 DEF Read
  <2>3. CASE d # e
    BY <1>0, <2>1, <2>2, <2>3
  <2>4. CASE d = e
    <3>1. rq'[d] = SubSeq(rq[d], k + 1, Len(rq[d])) /\ rRead'[d] = rRead[d] + k /\ k \in 1 .. Len(rq[d])
      BY <1>0, <2>1, <2>4
    <3>2. \A i \in (k + 1) .. Len(rq[d]) : rq[d][i] \in Byte
      BY <1>0, <3>1, ElementOfSeq
    <3>3. /\ k + 1 \in Int /\ Len(rq[d]) \in Int
          /\ Len(rq[d]) - (k + 1) + 1 = Len(rq[d]) - k
          /\ (~ k + 1 <= Len(rq[d]) => Len(rq[d]) - k = 0)
      BY <1>0, <3>1
    <3>4. Len(rq'[d]) = Len(rq[d]) - k
      BY <3>1, <3>2, <3>3, SubSeqProperties
    <3> QED BY <1>0, <2>2, <3>1, <3>4
  <2> QED BY <2>3, <2>4
<1>2. CASE Close(e)
  <2>1. /\ rRead' = [rRead EXCEPT ![e] = rRead[e] + Len(rq[e])]
        /\ rq' = [rq EXCEPT ![e] = <<>>]
        /\ UNCHANGED ooo
    BY <1>2 DEF Close
  <2>2. CASE d # e
    BY <1>0, <2>1, <2>2
  <2>3. CASE d = e
    <3>1. rq'[d] = <<>> /\ rRead'[d] = rRead[d] + Len(rq[d])
      BY <1>0, <2>1, <2>3
    <3> QED BY <1>0, <2>1, <3>1, EmptySeq
  <2> QED BY <2>2, <2>3
<1> QED BY <1>1, <1>2

LEMMA InOrderNext ==
  ASSUME TypeOK, BytesInPlace, NEW e \in End, NEW s \in Sub, RecvInOrder(e, s), NEW b \in Nat, InOrderStep(e, s, b)
  PROVE  /\ Next0(e)' = b /\ ooo'[e] = {sg \in ooo[e] : sg.off > b}
         /\ \A d \in End \ {e} : Next0(d)' = Next0(d) /\ ooo'[d] = ooo[d]
<1> DEFINE segs == ooo[e] \cup {[off |-> Received(e, s).off, bytes |-> Received(e, s).bytes]}
           a == Next0(e)
<1>1. /\ rq \in [End -> Seq(Byte)] /\ rRead \in [End -> Nat] /\ ooo \in [End -> SUBSET Segment]
      /\ rq[e] \in Seq(Byte) /\ Len(rq[e]) \in Nat /\ rRead[e] \in Nat
  BY LenProperties DEF TypeOK, RecvType
<1>2. Receive(e, s, "data") /\ segs \in SUBSET Segment /\ a \in Nat /\ a = rRead[e] + Len(rq[e])
  BY RecvInOrderStep DEF RecvInOrder
<1>3. /\ b > a /\ Covers(segs, a, b)
      /\ ooo' = [ooo EXCEPT ![e] = {sg \in ooo[e] : sg.off > b}]
      /\ IF rDiscard[e]
         THEN rRead' = [rRead EXCEPT ![e] = b] /\ rq' = rq
         ELSE rq' = [rq EXCEPT ![e] = @ \o BytesOf(segs, a, b)] /\ rRead' = rRead
  BY DEF InOrderStep
<1>4. ASSUME NEW d \in End \ {e} PROVE Next0(d)' = Next0(d) /\ ooo'[d] = ooo[d]
  <2>1. rq'[d] = rq[d] /\ rRead'[d] = rRead[d] /\ ooo'[d] = ooo[d]
    BY <1>1, <1>3
  <2> QED BY <2>1 DEF Next0
<1> HIDE DEF segs
<1>5. Next0(e)' = b
  <2>0. Next0(e)' = rRead'[e] + Len(rq'[e])
    BY DEF Next0
  <2>1. CASE rDiscard[e]
    <3>1. rRead'[e] = b /\ rq'[e] = rq[e]
      BY <1>1, <1>3, <2>1
    <3>2. rq[e] = <<>>
      BY <2>1 DEF BytesInPlace
    <3> QED BY <2>0, <3>1, <3>2, EmptySeq
  <2>2. CASE ~rDiscard[e]
    <3>1. a <= b
      BY <1>2, <1>3
    <3> DEFINE add == BytesOf(segs, a, b)
    <3>2. add \in Seq(Byte) /\ Len(add) = b - a
      BY <1>2, <1>3, <3>1, BytesOfPick
    <3>3. rq'[e] = rq[e] \o add /\ rRead'[e] = rRead[e]
      BY <1>1, <1>3, <2>2
    <3> HIDE DEF add
    <3>4. Len(rq[e] \o add) = Len(rq[e]) + Len(add)
      BY <1>1, <3>2, ConcatProperties
    <3> QED BY <1>1, <1>2, <2>0, <3>2, <3>3, <3>4
  <2> QED BY <2>1, <2>2
<1> QED BY <1>1, <1>3, <1>4, <1>5

(* What is received in order, or held out of order, has been written.      *)
LEMMA StaysWritten ==
  ASSUME AckInv, TypeOK', [Next]_vars, NEW d \in End PROVE ReceivedWritten(d)'
<1> DEFINE w == Written(Peer(d))
           w1 == Written(Peer(d))'
<1>0. TypeOK /\ BytesInPlace /\ ReceivedWritten(d) /\ Peer(d) \in End
  BY PeerType DEF AckInv, StreamInv
<1>1. w \in Nat /\ w1 \in Nat /\ w <= w1
  BY <1>0, WrittenGrows
<1>2. Next0(d) \in Nat /\ Next0(d) <= w
  BY <1>0, LenProperties DEF TypeOK, RecvType, Next0, ReceivedWritten
<1>3. \A sg \in ooo[d] : SegEnd(sg) \in Nat /\ SegEnd(sg) <= w
  BY <1>0, LenProperties DEF TypeOK, RecvType, Segment, SegEnd, ReceivedWritten
<1> HIDE DEF w, w1
<1>4. ASSUME Next0(d)' <= w, \A sg \in ooo'[d] : SegEnd(sg) \in Nat /\ SegEnd(sg) <= w, Next0(d)' \in Nat
      PROVE  ReceivedWritten(d)'
  BY <1>1, <1>4 DEF ReceivedWritten, w1
<1>5. Next0(d)' = Next0(d) /\ ooo'[d] = ooo[d] => ReceivedWritten(d)'
  BY <1>2, <1>3, <1>4
\* the segment a handler takes in
<1>6. ASSUME NEW s \in Sub, Receive(d, s, "data")
      PROVE  LET new == [off |-> Received(d, s).off, bytes |-> Received(d, s).bytes]
             IN  SegEnd(new) \in Nat /\ SegEnd(new) <= w
  <2>1. /\ Received(d, s).off \in Nat /\ Received(d, s).bytes \in Seq(Byte)
        /\ SegEnd(Received(d, s)) <= w
    BY <1>6, ReceivedIsSound, FrameFields DEF Sound, w
  <2> QED BY <2>1, LenProperties DEF SegEnd
<1>7. ASSUME NEW e \in End, NEW s \in Sub, RecvInOrder(e, s) PROVE ReceivedWritten(d)'
  <2> DEFINE new == [off |-> Received(e, s).off, bytes |-> Received(e, s).bytes]
             segs == ooo[e] \cup {new}
             a == Next0(e)
  <2>1. PICK b \in Nat : InOrderStep(e, s, b)
    BY <1>0, <1>7, RecvInOrderStep
  <2>2. Receive(e, s, "data") /\ a \in Nat
    BY <1>0, <1>7, RecvInOrderStep DEF RecvInOrder
  <2>3. b > a /\ Covers(segs, a, b)
    BY <2>1 DEF InOrderStep
  <2>4. CASE d # e
    BY <1>0, <1>5, <1>7, <2>1, <2>4, InOrderNext
  <2>5. CASE d = e
    <3>1. \A sg \in segs : SegEnd(sg) \in Nat /\ SegEnd(sg) <= w
      BY <1>3, <1>6, <2>2, <2>5
    <3>2. Next0(d)' = b /\ \A sg \in ooo'[d] : SegEnd(sg) \in Nat /\ SegEnd(sg) <= w
      BY <1>0, <1>3, <1>7, <2>1, <2>5, InOrderNext
    <3> HIDE DEF segs
    <3>3. b <= w
      <4>1. b - 1 \in a .. (b - 1)
        BY <2>2, <2>3
      <4>2. PICK sg \in segs : sg.off <= b - 1 /\ b - 1 < SegEnd(sg)
        BY <2>3, <4>1 DEF Covers
      <4>3. SegEnd(sg) \in Nat /\ SegEnd(sg) <= w
        BY <3>1
      <4> QED BY <1>1, <4>2, <4>3 DEF w
    <3> QED BY <1>4, <3>2, <3>3
  <2> QED BY <2>4, <2>5
<1>8. ASSUME NEW e \in End, NEW s \in Sub, RecvOutOfOrder(e, s) PROVE ReceivedWritten(d)'
  <2> DEFINE new == [off |-> Received(e, s).off, bytes |-> Received(e, s).bytes]
  <2>1. /\ Receive(e, s, "data") /\ UNCHANGED <<rq, rRead>>
        /\ \/ ooo' = ooo
           \/ ooo' = [ooo EXCEPT ![e] = (@ \ {sg \in ooo[e] : sg.off = Received(e, s).off}) \cup {new}]
    BY <1>8 DEF RecvOutOfOrder
  <2>2. Next0(d)' = Next0(d)
    BY <2>1 DEF Next0
  <2>3. CASE d # e
    BY <1>0, <1>5, <2>1, <2>2, <2>3 DEF TypeOK, RecvType
  <2>4. CASE d = e
    <3>1. \A sg \in ooo'[d] : sg \in ooo[d] \/ sg = new
      BY <1>0, <2>1, <2>4 DEF TypeOK, RecvType
    <3>2. SegEnd(new) \in Nat /\ SegEnd(new) <= w
      BY <1>6, <2>1, <2>4
    <3> QED BY <1>2, <1>3, <1>4, <2>2, <3>1, <3>2
  <2> QED BY <2>3, <2>4
<1>9. UNCHANGED <<rq, rRead, ooo>> => ReceivedWritten(d)'
  BY <1>5 DEF Next0
<1>10. ASSUME NEW e \in End, App(e) PROVE ReceivedWritten(d)'
  <2>1. Write(e) \/ ReadEOF(e) \/ CloseWrite(e) => UNCHANGED <<rq, rRead, ooo>>
    BY DEF Write, ReadEOF, CloseWrite, recvVars
  <2>2. Read(e) \/ Close(e) => ReceivedWritten(d)'
    BY <1>0, <1>5, ReadKeepsNext
  <2> QED BY <1>9, <1>10, <2>1, <2>2 DEF App
<1>11. ASSUME NEW e \in End, NEW s \in Sub,
              RecvInOrder(e, s) \/ RecvOutOfOrder(e, s) \/ RecvAck(e, s) \/ RecvFin(e, s)
       PROVE  ReceivedWritten(d)'
  <2>1. RecvAck(e, s) \/ RecvFin(e, s) => UNCHANGED <<rq, rRead, ooo>>
    BY DEF RecvAck, RecvFin, recvVars
  <2> QED BY <1>7, <1>8, <1>9, <1>11, <2>1
<1>12. ASSUME NEW s \in Sub, ServerJoin(s) \/ \E k \in {"spare", "failover", "switch"} : StartJoin(s, k)
       PROVE  UNCHANGED <<rq, rRead, ooo>>
  BY <1>12 DEF ServerJoin, StartJoin, recvVars
<1>13. UNCHANGED streamVars => UNCHANGED <<rq, rRead, ooo>>
  BY DEF streamVars
<1> QED BY <1>9, <1>10, <1>11, <1>12, <1>13, Movers

(* io.EOF: the FIN offset is where the peer's data ends, and all before it *)
(* has been read; nothing is left to read afterwards.                      *)
LEMMA EofStaysSound == ASSUME AckInv, TypeOK', [Next]_vars, NEW d \in End PROVE EofSound(d)'
<1> DEFINE p == Peer(d)
<1>0. /\ TypeOK /\ BytesInPlace /\ EofSound(d) /\ FinSound(d) /\ FinSound(p) /\ ReceivedWritten(d) /\ p \in End
  BY PeerType DEF AckInv, StreamInv
<1>1. /\ Len(rq[d]) \in Nat /\ rRead[d] \in Nat /\ Len(got[d]) \in Nat /\ Written(p) \in Nat
      /\ Next0(d) = rRead[d] + Len(rq[d]) /\ Next0(d) <= Written(p)
      /\ finOff[p] \in Nat \cup {NoFin}
  BY <1>0, LenProperties, WrittenGrows, FinSetOnce DEF TypeOK, RecvType, HistType, Next0, ReceivedWritten
<1>2. IF rDiscard[d] THEN rq[d] = <<>> ELSE Len(got[d]) = rRead[d]
  BY <1>0 DEF BytesInPlace
\* a FIN offset that equals a length is set, and stays
<1>3. ASSUME finOff[p] = Len(got[d]) PROVE finOff'[p] = Len(got[d])
  <2>1. finOff[p] # NoFin
    BY <1>1, <1>3 DEF NoFin
  <2> QED BY <1>0, <1>3, <2>1, FinSetOnce
<1> HIDE DEF p
<1>4. ASSUME rDiscard'[d] = rDiscard[d], closed'[d] = closed[d], got'[d] = got[d], eof'[d] = eof[d] PROVE EofSound(d)'
  BY <1>0, <1>3, <1>4 DEF EofSound, p
<1>5. ASSUME NEW e \in End, ReadEOF(e) PROVE EofSound(d)'
  <2>1. /\ UNCHANGED <<rDiscard, closed, got>> /\ eof' = [eof EXCEPT ![e] = TRUE]
        /\ ~closed[e] /\ rq[e] = <<>> /\ peerFinAt[e] # NoFin /\ rRead[e] >= peerFinAt[e]
    BY <1>5 DEF ReadEOF, recvVars, sessVars
  <2>2. CASE d # e
    <3>1. eof'[d] = eof[d]
      BY <1>0, <2>1, <2>2 DEF TypeOK, HistType
    <3> QED BY <1>4, <2>1, <3>1
  <2>3. CASE d = e
    <3>1. ~rDiscard[d] /\ Len(got[d]) = rRead[d]
      BY <1>0, <1>2, <2>1, <2>3 DEF EofSound
    <3>2. peerFinAt[d] = finOff[p] /\ finOff[p] # NoFin /\ finOff[p] = Written(p)
      BY <1>0, <2>1, <2>3 DEF FinSound, p
    <3>3. finOff[p] = Len(got[d])
      BY <1>1, <2>1, <2>3, <3>1, <3>2, EmptySeq
    <3> QED BY <1>0, <1>3, <2>1, <3>3 DEF EofSound, p
  <2> QED BY <2>2, <2>3
<1>6. ASSUME NEW e \in End, Read(e) PROVE EofSound(d)'
  <2>1. PICK k \in 1 .. Len(rq[e]) : got' = [got EXCEPT ![e] = @ \o SubSeq(rq[e], 1, k)]
    BY <1>6 DEF Read
  <2>2. UNCHANGED <<rDiscard, closed, eof>>
    BY <1>6 DEF Read, sessVars
  <2>3. CASE d # e
    <3>1. got'[d] = got[d]
      BY <1>0, <2>1, <2>3 DEF TypeOK, HistType
    <3> QED BY <1>4, <2>2, <3>1
  <2>4. CASE d = e
    <3>1. Len(rq[d]) >= 1
      BY <1>1, <2>1, <2>4
    <3>2. ~rDiscard[d] /\ Len(got[d]) = rRead[d]
      BY <1>2, <3>1, EmptySeq
    <3>3. ~eof[d]
      <4>1. SUFFICES ASSUME eof[d] PROVE FALSE
        OBVIOUS
      <4>2. finOff[p] = Len(got[d])
        BY <1>0, <4>1 DEF EofSound, p
      <4>3. finOff[p] # NoFin
        BY <1>1, <4>2 DEF NoFin
      <4>4. finOff[p] = Written(p)
        BY <1>0, <4>3 DEF FinSound
      <4> QED BY <1>1, <3>1, <3>2, <4>2, <4>4
    <3> QED BY <1>0, <2>2, <3>3 DEF EofSound
  <2> QED BY <2>3, <2>4
<1>7. ASSUME NEW e \in End, Close(e) PROVE EofSound(d)'
  <2>1. /\ rDiscard' = [rDiscard EXCEPT ![e] = TRUE] /\ closed' = [closed EXCEPT ![e] = TRUE]
        /\ UNCHANGED <<got, eof>>
    BY <1>7 DEF Close, histVars
  <2>2. rDiscard'[d] => closed'[d]
    BY <1>0, <2>1 DEF TypeOK, RecvType, SessType, EofSound
  <2> QED BY <1>0, <1>3, <2>1, <2>2 DEF EofSound, p
<1>8. UNCHANGED <<rDiscard, closed, got, eof>> => EofSound(d)'
  BY <1>4
<1>9. ASSUME NEW e \in End, App(e) PROVE EofSound(d)'
  <2>1. Write(e) \/ CloseWrite(e) => UNCHANGED <<rDiscard, closed, got, eof>>
    BY DEF Write, CloseWrite, recvVars, sessVars, histVars
  <2> QED BY <1>5, <1>6, <1>7, <1>8, <1>9, <2>1 DEF App
<1>10. ASSUME NEW e \in End, NEW s \in Sub,
              RecvInOrder(e, s) \/ RecvOutOfOrder(e, s) \/ RecvAck(e, s) \/ RecvFin(e, s)
       PROVE  UNCHANGED <<rDiscard, closed, got, eof>>
  BY <1>10 DEF RecvInOrder, RecvOutOfOrder, RecvAck, RecvFin, recvVars, sessVars, histVars
<1>11. ASSUME NEW s \in Sub, ServerJoin(s) \/ \E k \in {"spare", "failover", "switch"} : StartJoin(s, k)
       PROVE  UNCHANGED <<rDiscard, closed, got, eof>>
  BY <1>11 DEF ServerJoin, StartJoin, recvVars, sessVars, histVars
<1>12. UNCHANGED streamVars => UNCHANGED <<rDiscard, closed, got, eof>>
  BY DEF streamVars
<1> QED BY <1>8, <1>9, <1>10, <1>11, <1>12, Movers

----------------------------------------------------------------------------
(* The theorems.                                                           *)

LEMMA InitAcks == Init => AckInv
<1> SUFFICES ASSUME Init PROVE AckInv
  OBVIOUS
<1>1. StreamInv
  BY InitStream
<1>2. Len(<<>>) = 0
  BY EmptySeq
<1>3. AckedIsConsumed /\ HelloSound
  BY PeerType DEF Init, AckedIsConsumed, HelloSound, End
<1>4. ASSUME NEW e \in End PROVE FramesSound(e) /\ FinSound(e) /\ ReceivedWritten(e) /\ EofSound(e)
  <2>1. Peer(e) \in End
    BY PeerType
  <2>2. FramesSound(e)
    BY <1>2 DEF Init, FramesSound
  <2>3. Next0(e) = 0 /\ Written(Peer(e)) = 0
    BY <1>2, <2>1 DEF Init, Next0, Written
  <2>4. ooo[e] = {} /\ peerFinAt[e] = NoFin /\ finOff[e] = NoFin /\ ~rDiscard[e] /\ ~eof[e]
    BY DEF Init
  <2> QED BY <2>2, <2>3, <2>4 DEF FinSound, ReceivedWritten, EofSound
<1> QED BY <1>1, <1>3, <1>4 DEF AckInv

LEMMA NextAcks == AckInv /\ [Next]_vars => AckInv'
<1> SUFFICES ASSUME AckInv, [Next]_vars PROVE AckInv'
  OBVIOUS
<1>1. StreamInv'
  BY NextStream DEF AckInv
<1>2. TypeOK'
  BY <1>1 DEF StreamInv
<1>3. AckedIsConsumed'
  BY <1>2, StaysConsumed DEF AckedIsConsumed
<1>4. HelloSound'
  BY <1>2, HelloStaysSound
<1>5. ASSUME NEW e \in End PROVE FramesSound(e)' /\ FinSound(e)' /\ ReceivedWritten(e)' /\ EofSound(e)'
  BY <1>2, FramesStaySound, FinStaysSound, StaysWritten, EofStaysSound
<1> QED BY <1>1, <1>3, <1>4, <1>5 DEF AckInv

(* What the frames on the way, the HELLOs, the FIN offsets and the bytes   *)
(* received say of the other end is true in every state.                   *)
THEOREM AckInvariant == Spec => []AckInv
<1>1. Init => AckInv
  BY InitAcks
<1>2. AckInv /\ [Next]_vars => AckInv'
  BY NextAcks
<1> QED BY <1>1, <1>2, PTL DEF Spec

(* The send queue lets go of a byte only after the peer's application has  *)
(* consumed it, whichever ACK or HELLO told it so, for every window, mode  *)
(* and number of subflows.                                                 *)
THEOREM AckedMeansConsumed == Spec => []AckedIsConsumed
<1>1. AckInv => AckedIsConsumed
  BY DEF AckInv
<1> QED BY <1>1, AckInvariant, PTL

(* Every FIN, however often it is sent again, names one offset: the        *)
(* readLoop's "conflicting FIN" error cannot happen between two of these   *)
(* ends.                                                                   *)
THEOREM FinsAgree == Spec => []OneFin
<1>1. AckInv => OneFin
  BY DEF AckInv, FinSound, FramesSound, Sound, OneFin
<1> QED BY <1>1, AckInvariant, PTL

(* An application that has seen io.EOF has read all the peer wrote before  *)
(* its CloseWrite.                                                         *)
THEOREM EofAfterAll == Spec => []EofMeansAll
<1>1. AckInv => EofMeansAll
  BY DEF AckInv, EofSound, EofMeansAll
<1> QED BY <1>1, AckInvariant, PTL

----------------------------------------------------------------------------
(* The receiver's window. WindowInv says that beyond what is acknowledged   *)
(* the data is cut once: two pieces of it, wherever they are, are the same  *)
(* or apart. It needs that no span on its way is longer than SegmentSize,   *)
(* or SendData would cut it again, and that what is held out of order       *)
(* starts beyond the next byte, one segment to an offset.                   *)

\* where a piece of e's data starts and where it ends, wherever the piece is: waiting to
\* be sent again, in flight, on the way or held out of order
Piece(e, o, z) ==
  \/ \E sp \in retx[e] : o = sp.off /\ z = SpanEnd(sp)
  \/ \E s \in Sub : \E sp \in infl[e][s] : o = sp.off /\ z = SpanEnd(sp)
  \/ \E s \in Sub : \E i \in 1 .. Len(net[e][s]) :
       net[e][s][i].type = "data" /\ o = net[e][s][i].off /\ z = SegEnd(net[e][s][i])
  \/ \E sg \in ooo[Peer(e)] : o = sg.off /\ z = SegEnd(sg)

\* what is not acknowledged was cut once: pieces that start there are the same or apart
PiecesApart(e) ==
  \A o, z, o2, z2 \in Nat :
    (Piece(e, o, z) /\ Piece(e, o2, z2) /\ sBase[e] < o /\ sBase[e] < o2) =>
      (o = o2 /\ z = z2) \/ z <= o2 \/ z2 <= o
PiecesSent(e) == \A o, z \in Nat : Piece(e, o, z) => z <= sNext[e]

\* no span has to be cut again
ShortSpans(e) ==
  /\ \A sp \in retx[e] : sp.n <= SegmentSize
  /\ \A s \in Sub : \A sp \in infl[e][s] : sp.n <= SegmentSize

OooBeyond(e) ==
  /\ \A sg \in ooo[e] : Next0(e) < sg.off
  /\ \A a, b \in ooo[e] : a.off = b.off => a = b

WindowInv ==
  /\ AckInv
  /\ \A e \in End : PiecesApart(e) /\ PiecesSent(e) /\ ShortSpans(e) /\ OooBeyond(e) /\ Len(sq[e]) <= Window

LEMMA PiecesStep ==
  ASSUME NEW d \in End, PiecesApart(d), PiecesSent(d), NEW fresh \in Nat,
         sBase[d] \in Nat, sBase'[d] \in Nat, sNext[d] \in Nat, sNext'[d] \in Nat,
         sBase[d] <= sBase'[d], sNext[d] <= fresh, sNext[d] <= sNext'[d],
         \A o, z \in Nat : Piece(d, o, z)' =>
           Piece(d, o, z) \/ (o <= sBase'[d] /\ z <= sNext[d]) \/ (o = fresh /\ z = sNext'[d])
  PROVE  PiecesApart(d)' /\ PiecesSent(d)'
<1>1. ASSUME NEW o \in Nat, NEW z \in Nat, Piece(d, o, z)' PROVE z <= sNext'[d]
  <2>1. Piece(d, o, z) => z <= sNext[d]
    BY DEF PiecesSent
  <2> QED BY <1>1, <2>1
<1>2. ASSUME NEW o \in Nat, NEW z \in Nat, NEW o2 \in Nat, NEW z2 \in Nat,
             Piece(d, o, z)', Piece(d, o2, z2)', sBase'[d] < o, sBase'[d] < o2
      PROVE  (o = o2 /\ z = z2) \/ z <= o2 \/ z2 <= o
  <2>1. Piece(d, o, z) \/ (o = fresh /\ z = sNext'[d])
    BY <1>2
  <2>2. Piece(d, o2, z2) \/ (o2 = fresh /\ z2 = sNext'[d])
    BY <1>2
  <2>3. CASE Piece(d, o, z) /\ Piece(d, o2, z2)
    <3>1. sBase[d] < o /\ sBase[d] < o2
      BY <1>2
    <3> QED BY <2>3, <3>1 DEF PiecesApart
  <2>4. Piece(d, o, z) => z <= fresh
    BY DEF PiecesSent
  <2>5. Piece(d, o2, z2) => z2 <= fresh
    BY DEF PiecesSent
  <2> QED BY <2>1, <2>2, <2>3, <2>4, <2>5
<1>3. PiecesSent(d)'
  BY <1>1 DEF PiecesSent
<1>4. PiecesApart(d)'
  BY <1>2 DEF PiecesApart
<1> QED BY <1>3, <1>4

----------------------------------------------------------------------------
(* Where the spans come from: only SendData makes one out of new bytes.    *)

\* x is what is left of a span y of d
LeftOf(d, x, y) == SpanEnd(x) = SpanEnd(y) /\ x.n <= y.n /\ (x.off = y.off \/ x.off <= sBase[d])
IsSpan(d, y) == y \in retx[d] \/ \E s \in Sub : y \in infl[d][s]
Left(d, x) == \E y \in Span : IsSpan(d, y) /\ LeftOf(d, x, y)

SpansLeft(d) ==
  /\ \A x \in retx'[d] : Left(d, x)
  /\ \A s \in Sub : \A x \in infl'[d][s] : Left(d, x)

LEMMA SpanLeft ==
  ASSUME TypeOK, NEW d \in End
  PROVE  /\ \A x \in retx[d] : Left(d, x)
         /\ \A s \in Sub : \A x \in infl[d][s] : Left(d, x)
<1>1. ASSUME NEW x \in Span PROVE LeftOf(d, x, x)
  BY DEF Span, LeftOf
<1>2. retx[d] \subseteq Span /\ \A s \in Sub : infl[d][s] \subseteq Span
  BY DEF TypeOK, SendType, SubType
<1> QED BY <1>1, <1>2 DEF Left, IsSpan

LEMMA ClipLeft ==
  ASSUME NEW d \in End, sBase[d] \in Nat, NEW S \in SUBSET Span, \A y \in S : IsSpan(d, y)
  PROVE  \A x \in Clip(S, sBase[d]) : Left(d, x)
<1> SUFFICES ASSUME NEW x \in Clip(S, sBase[d]) PROVE Left(d, x)
  OBVIOUS
<1>1. PICK y \in S : x = [off |-> IF y.off < sBase[d] THEN sBase[d] ELSE y.off,
                          n |-> SpanEnd(y) - (IF y.off < sBase[d] THEN sBase[d] ELSE y.off)]
  BY DEF Clip
<1>2. y.off \in Nat /\ y.n \in Nat /\ SpanEnd(y) = y.off + y.n
  BY DEF Span, SpanEnd
<1>3. x.off = (IF y.off < sBase[d] THEN sBase[d] ELSE y.off) /\ x.n = SpanEnd(y) - x.off
  BY <1>1
<1>4. SpanEnd(x) = SpanEnd(y) /\ x.n <= y.n /\ (x.off = y.off \/ x.off <= sBase[d])
  BY <1>2, <1>3 DEF SpanEnd
<1> QED BY <1>4 DEF Left, LeftOf

LEMMA SpansSame == ASSUME TypeOK, UNCHANGED <<retx, infl>> PROVE \A d \in End : SpansLeft(d)
BY SpanLeft DEF SpansLeft

\* the spans of one carrier, or one span, are clipped and wait again
LEMMA RequeueLeft ==
  ASSUME TypeOK, NEW e \in End, NEW S \in SUBSET Span, \A y \in S : IsSpan(e, y),
         retx' = [retx EXCEPT ![e] = @ \cup Clip(S, sBase[e])],
         \A d \in End, s \in Sub : infl'[d][s] \subseteq infl[d][s]
  PROVE  \A d \in End : SpansLeft(d)
<1> SUFFICES ASSUME NEW d \in End PROVE SpansLeft(d)
  OBVIOUS
<1>1. sBase[e] \in Nat /\ retx \in [End -> SUBSET Span]
  BY DEF TypeOK, SendType
<1>2. \A x \in Clip(S, sBase[e]) : Left(e, x)
  BY <1>1, ClipLeft
<1>3. \A x \in retx'[d] : x \in retx[d] \/ (d = e /\ x \in Clip(S, sBase[e]))
  BY <1>1
<1> QED BY <1>2, <1>3, SpanLeft DEF SpansLeft

LEMMA KillLeft ==
  ASSUME TypeOK, NEW e \in End, NEW s \in Sub, NEW after, KillSub(e, s, after)
  PROVE  \A d \in End : SpansLeft(d)
<1>1. infl[e][s] \in SUBSET Span /\ \A y \in infl[e][s] : IsSpan(e, y)
  BY DEF TypeOK, SubType, IsSpan
<1>2. retx' = [retx EXCEPT ![e] = @ \cup Clip(infl[e][s], sBase[e])] /\ infl' = [infl EXCEPT ![e][s] = {}]
  BY DEF KillSub
<1>3. \A d \in End, x \in Sub : infl'[d][x] \subseteq infl[d][x]
  BY <1>2 DEF TypeOK, SubType
<1> QED BY <1>1, <1>2, <1>3, RequeueLeft

LEMMA MoveLeft ==
  ASSUME TypeOK, NEW e \in End, NEW old \in Sub,
         retx' = [retx EXCEPT ![e] = @ \cup Clip(infl[e][old], sBase[e])],
         infl' = [infl EXCEPT ![e][old] = {}]
  PROVE  \A d \in End : SpansLeft(d)
<1>1. infl[e][old] \in SUBSET Span /\ \A y \in infl[e][old] : IsSpan(e, y)
  BY DEF TypeOK, SubType, IsSpan
<1>2. \A d \in End, x \in Sub : infl'[d][x] \subseteq infl[d][x]
  BY DEF TypeOK, SubType
<1> QED BY <1>1, <1>2, RequeueLeft

LEMMA AckLeft ==
  ASSUME TypeOK, NEW e \in End, NEW next \in Nat, NEW fin \in BOOLEAN, OnAck(e, next, fin), UNCHANGED retx
  PROVE  \A d \in End : SpansLeft(d)
<1>1. \A d \in End, s \in Sub : infl'[d][s] \subseteq infl[d][s]
  BY OnAckStep
<1> QED BY <1>1, SpanLeft DEF SpansLeft

LEMMA OthersLeave ==
  ASSUME TypeOK, [Next]_vars, ~ \E e \in End, s \in Sub : SendData(e, s)
  PROVE  UNCHANGED sNext /\ \A d \in End : SpansLeft(d)
<1>0. "client" \in End /\ "server" \in End
  BY DEF End
<1> DEFINE Goal == UNCHANGED sNext /\ \A d \in End : SpansLeft(d)
<1>1. CASE UNCHANGED <<sNext, retx, infl>>
  BY <1>1, SpansSame
<1>2. ASSUME NEW e \in End, NEW s \in Sub, RecvAck(e, s) PROVE Goal
  <2>1. Receive(e, s, "ack") /\ OnAck(e, Received(e, s).next, Received(e, s).fin) /\ UNCHANGED <<sNext, retx>>
    BY <1>2 DEF RecvAck
  <2>2. Received(e, s).next \in Nat /\ Received(e, s).fin \in BOOLEAN
    BY <2>1, ReceiveType, FrameFields
  <2> QED BY <2>1, <2>2, AckLeft
<1>3. ASSUME NEW s \in Sub, ServerJoin(s) PROVE Goal
  <2>1. OnAck("server", rxNext[s], FALSE) /\ UNCHANGED <<sNext, retx>> /\ rxNext[s] \in Nat
    BY <1>3 DEF ServerJoin, TypeOK, JoinType
  <2> QED BY <1>0, <2>1, AckLeft
<1>4. ASSUME NEW e \in End, NEW s \in Sub,
             RecvGap(e, s) \/ ReadError(e, s) \/ PathDies(e, s) \/ CloseCarrier(e, s)
      PROVE  Goal
  <2>1. (KillSub(e, s, "off") \/ KillSub(e, s, "killed")) /\ UNCHANGED sNext
    BY <1>4 DEF RecvGap, ReadError, PathDies, CloseCarrier
  <2> QED BY <2>1, KillLeft
<1>5. ASSUME NEW s \in Sub, RetireKill(s) PROVE Goal
  <2>1. KillSub("client", s, "killed") /\ UNCHANGED sNext
    BY <1>5 DEF RetireKill
  <2> QED BY <1>0, <2>1, KillLeft
<1>6. ASSUME NEW s \in Sub, JoinSettle(s) \/ Failover(s) PROVE Goal
  <2>1. UNCHANGED sNext
    BY <1>6 DEF JoinSettle, Failover
  <2>2. \/ UNCHANGED <<retx, infl>>
        \/ /\ active["client"] \in Sub
           /\ retx' = [retx EXCEPT !["client"] = @ \cup Clip(infl["client"][active["client"]], sBase["client"])]
           /\ infl' = [infl EXCEPT !["client"][active["client"]] = {}]
    BY <1>6 DEF JoinSettle, Failover, SetActive, LiveSubs
  <2> QED BY <1>0, <1>1, <2>1, <2>2, MoveLeft
<1>7. ASSUME NEW s \in Sub, RecvRole(s) PROVE Goal
  <2>1. UNCHANGED sNext
    BY <1>7 DEF RecvRole
  <2>2. \/ UNCHANGED <<retx, infl>>
        \/ /\ active["server"] \in Sub
           /\ retx' = [retx EXCEPT !["server"] = @ \cup Clip(infl["server"][active["server"]], sBase["server"])]
           /\ infl' = [infl EXCEPT !["server"][active["server"]] = {}]
    BY <1>0, <1>7 DEF RecvRole, TypeOK, SubType
  <2> QED BY <1>0, <1>1, <2>1, <2>2, MoveLeft
<1>8. ASSUME NEW e \in End, TickRescue(e) PROVE Goal
  <2>1. PICK s \in LiveSubs(e) : \E sp \in infl[e][s] : retx' = [retx EXCEPT ![e] = @ \cup Clip({sp}, sBase[e])]
    BY <1>8 DEF TickRescue
  <2>2. PICK sp \in infl[e][s] : retx' = [retx EXCEPT ![e] = @ \cup Clip({sp}, sBase[e])]
    BY <2>1
  <2>3. {sp} \in SUBSET Span /\ \A y \in {sp} : IsSpan(e, y)
    BY DEF LiveSubs, TypeOK, SubType, IsSpan
  <2>4. UNCHANGED <<sNext, infl>>
    BY <1>8 DEF TickRescue, subVars
  <2>5. \A d \in End, x \in Sub : infl'[d][x] \subseteq infl[d][x]
    BY <2>4
  <2> QED BY <2>2, <2>3, <2>4, <2>5, RequeueLeft
<1>9. ASSUME NEW e \in End, App(e) PROVE UNCHANGED <<sNext, retx, infl>>
  BY <1>9 DEF App, Write, Read, ReadEOF, CloseWrite, Close, sendVars, subVars
<1>10. ASSUME NEW e \in End, TickAck(e) \/ TickFinish(e) \/ TickReset(e) \/ GiveUp(e)
       PROVE  UNCHANGED <<sNext, retx, infl>>
  BY <1>10 DEF TickAck, TickFinish, TickReset, GiveUp, sendVars, subVars
<1>11. ASSUME NEW e \in End, NEW s \in Sub,
              \/ SendFin(e, s) \/ RecvOldData(e, s) \/ RecvInOrder(e, s) \/ RecvOutOfOrder(e, s)
              \/ RecvFin(e, s) \/ RecvRst(e, s) \/ ReaderExit(e, s) \/ Splice(e, s)
       PROVE  UNCHANGED <<sNext, retx, infl>>
  BY <1>11 DEF SendFin, RecvOldData, RecvInOrder, RecvOutOfOrder, RecvFin, RecvRst, ReaderExit, Splice,
               sendVars, subVars
<1>12. ASSUME NEW s \in Sub,
              \/ \E k \in {"spare", "failover", "switch"} : StartJoin(s, k)
              \/ ClientAttach(s) \/ JoinFail(s) \/ JoinRefused(s)
       PROVE  UNCHANGED <<sNext, retx, infl>>
  BY <1>12 DEF StartJoin, ClientAttach, JoinFail, JoinRefused, sendVars, subVars
<1>13. ASSUME UNCHANGED vars PROVE Goal
  BY <1>1, <1>13 DEF vars, sendVars, subVars
<1>14. ASSUME NEW e \in End, App(e) \/ Tick(e) PROVE Goal
  BY <1>1, <1>8, <1>9, <1>10, <1>14 DEF Tick
<1>15. ASSUME NEW e \in End, NEW s \in Sub,
              ReadLoop(e, s) \/ SendFin(e, s) \/ PathDies(e, s) \/ Splice(e, s) \/ CloseCarrier(e, s)
       PROVE  Goal
  BY <1>1, <1>2, <1>4, <1>7, <1>11, <1>15 DEF ReadLoop
<1>16. ASSUME NEW s \in Sub, PathManager(s) PROVE Goal
  BY <1>1, <1>3, <1>5, <1>6, <1>12, <1>16 DEF PathManager
<1> HIDE DEF Goal
<1>17. ASSUME NEW e \in End, NEW s \in Sub, WriteLoop(e, s) PROVE SendFin(e, s)
  BY <1>17 DEF WriteLoop
<1>18. \/ UNCHANGED vars
       \/ \E e \in End : App(e) \/ Tick(e)
       \/ \E e \in End, s \in Sub :
            ReadLoop(e, s) \/ WriteLoop(e, s) \/ PathDies(e, s) \/ Splice(e, s) \/ CloseCarrier(e, s)
       \/ \E s \in Sub : PathManager(s)
  BY DEF Next
<1>19. ASSUME NEW e \in End, NEW s \in Sub,
              ReadLoop(e, s) \/ WriteLoop(e, s) \/ PathDies(e, s) \/ Splice(e, s) \/ CloseCarrier(e, s)
       PROVE  Goal
  <2>1. CASE WriteLoop(e, s)
    BY <1>15, <1>17, <2>1
  <2> QED BY <1>15, <1>19, <2>1
<1>20. Goal
  <2>1. CASE UNCHANGED vars
    BY <1>13, <2>1
  <2>2. CASE \E e \in End : App(e) \/ Tick(e)
    <3>1. PICK e \in End : App(e) \/ Tick(e)
      BY <2>2
    <3> QED BY <1>14, <3>1
  <2>3. CASE \E s \in Sub : PathManager(s)
    <3>1. PICK s \in Sub : PathManager(s)
      BY <2>3
    <3> QED BY <1>16, <3>1
  <2> QED BY <1>18, <1>19, <2>1, <2>2, <2>3
<1> QED BY <1>20 DEF Goal

(* What is held out of order came from a frame.                            *)
LEMMA OooFrom ==
  ASSUME TypeOK, [Next]_vars, NEW d \in End, NEW sg \in ooo'[d]
  PROVE  \/ sg \in ooo[d]
         \/ \E s \in Sub : \E i \in 1 .. Len(net[Peer(d)][s]) :
              /\ net[Peer(d)][s][i].type = "data"
              /\ sg.off = net[Peer(d)][s][i].off /\ SegEnd(sg) = SegEnd(net[Peer(d)][s][i])
<1> DEFINE Here == \/ sg \in ooo[d]
                   \/ \E s \in Sub : /\ Receive(d, s, "data")
                                     /\ sg = [off |-> Received(d, s).off, bytes |-> Received(d, s).bytes]
<1>1. CASE UNCHANGED ooo
  BY <1>1
<1>2. ASSUME NEW e \in End, NEW s \in Sub, RecvInOrder(e, s) PROVE Here
  <2>1. ooo'[d] \subseteq ooo[d]
    BY <1>2 DEF RecvInOrder, TypeOK, RecvType
  <2> QED BY <2>1
<1>3. ASSUME NEW e \in End, NEW s \in Sub, RecvOutOfOrder(e, s) PROVE Here
  <2> DEFINE new == [off |-> Received(e, s).off, bytes |-> Received(e, s).bytes]
  <2>1. Receive(e, s, "data")
    BY <1>3 DEF RecvOutOfOrder
  <2>2. ooo' = ooo \/ ooo' = [ooo EXCEPT ![e] = (@ \ {x \in ooo[e] : x.off = Received(e, s).off}) \cup {new}]
    BY <1>3 DEF RecvOutOfOrder
  <2> HIDE DEF new
  <2>3. sg \in ooo[d] \/ (d = e /\ sg = new)
    BY <2>2 DEF TypeOK, RecvType
  <2> QED BY <2>1, <2>3 DEF new
<1>4. ASSUME NEW e \in End, App(e) PROVE UNCHANGED ooo
  BY <1>4 DEF App, Write, Read, ReadEOF, CloseWrite, Close, recvVars
<1>5. ASSUME NEW e \in End, NEW s \in Sub, RecvAck(e, s) \/ RecvFin(e, s) PROVE UNCHANGED ooo
  BY <1>5 DEF RecvAck, RecvFin, recvVars
<1>6. ASSUME NEW s \in Sub, ServerJoin(s) \/ \E k \in {"spare", "failover", "switch"} : StartJoin(s, k)
      PROVE  UNCHANGED ooo
  BY <1>6 DEF ServerJoin, StartJoin, recvVars
<1>7. UNCHANGED streamVars => UNCHANGED ooo
  BY DEF streamVars
<1> HIDE DEF Here
<1>8. Here
  <2>1. UNCHANGED ooo => Here
    BY <1>1 DEF Here
  <2> QED BY <2>1, <1>2, <1>3, <1>4, <1>5, <1>6, <1>7, Movers
<1>9. ASSUME NEW s \in Sub, Receive(d, s, "data"),
             sg = [off |-> Received(d, s).off, bytes |-> Received(d, s).bytes]
      PROVE  \E i \in 1 .. Len(net[Peer(d)][s]) :
               /\ net[Peer(d)][s][i].type = "data"
               /\ sg.off = net[Peer(d)][s][i].off /\ SegEnd(sg) = SegEnd(net[Peer(d)][s][i])
  <2>1. /\ net[Peer(d)][s] \in Seq(Frame) /\ net[Peer(d)][s] # <<>>
        /\ Received(d, s).type = "data"
    BY <1>9, ReceiveType
  <2>2. 1 \in 1 .. Len(net[Peer(d)][s]) /\ Received(d, s) = net[Peer(d)][s][1]
    BY <2>1, HeadTailProperties, LenProperties, EmptySeq DEF Received
  <2>3. sg.off = Received(d, s).off /\ SegEnd(sg) = SegEnd(Received(d, s))
    BY <1>9 DEF SegEnd
  <2> QED BY <2>1, <2>2, <2>3
<1> QED BY <1>8, <1>9 DEF Here

(* What is acknowledged stays so.                                          *)
LEMMA BaseGrows ==
  ASSUME TypeOK, TypeOK', [Next]_vars, NEW d \in End
  PROVE  sBase[d] \in Nat /\ sBase'[d] \in Nat /\ sBase[d] <= sBase'[d]
<1>0. sBase[d] \in Nat /\ sBase'[d] \in Nat /\ "server" \in End
  BY DEF TypeOK, SendType, End
<1>1. CASE UNCHANGED sBase
  BY <1>0, <1>1
<1>2. ASSUME NEW e \in End, Acknowledges(e) PROVE sBase[d] <= sBase'[d]
  <2>1. PICK next \in Nat, fin \in BOOLEAN : OnAck(e, next, fin)
    BY <1>2 DEF Acknowledges
  <2>2. sBase[e] <= sBase'[e] /\ (d # e => sBase'[d] = sBase[d])
    BY <2>1, OnAckStep
  <2> QED BY <1>0, <2>2
<1>3. ASSUME NEW e \in End, App(e) PROVE UNCHANGED sBase
  BY <1>3 DEF App, Write, Read, ReadEOF, CloseWrite, Close, sendVars
<1>4. ASSUME NEW e \in End, NEW s \in Sub,
             RecvInOrder(e, s) \/ RecvOutOfOrder(e, s) \/ RecvAck(e, s) \/ RecvFin(e, s)
      PROVE  UNCHANGED sBase \/ Acknowledges(e)
  BY <1>4, WhoAcknowledges DEF RecvInOrder, RecvOutOfOrder, RecvFin, sendVars
<1>5. ASSUME NEW s \in Sub, ServerJoin(s) \/ \E k \in {"spare", "failover", "switch"} : StartJoin(s, k)
      PROVE  UNCHANGED sBase \/ Acknowledges("server")
  BY <1>5, WhoAcknowledges DEF StartJoin, sendVars
<1>6. UNCHANGED streamVars => UNCHANGED sBase
  BY DEF streamVars
<1> QED BY <1>0, <1>1, <1>2, <1>3, <1>4, <1>5, <1>6, Movers

\* a piece that was there, or that starts where everything is acknowledged
Old(d, o, z) == Piece(d, o, z) \/ (o <= sBase[d] /\ z <= sNext[d])

LEMMA LeftIsOld ==
  ASSUME NEW d \in End, PiecesSent(d), NEW x, Left(d, x) PROVE Old(d, x.off, SpanEnd(x))
<1>1. PICK y \in Span : IsSpan(d, y) /\ LeftOf(d, x, y)
  BY DEF Left
<1>2. y.off \in Nat /\ SpanEnd(y) \in Nat
  BY DEF Span, SpanEnd
<1>3. Piece(d, y.off, SpanEnd(y))
  BY <1>1 DEF IsSpan, Piece
<1>4. SpanEnd(y) <= sNext[d]
  BY <1>2, <1>3 DEF PiecesSent
<1>5. SpanEnd(x) = SpanEnd(y) /\ (x.off = y.off \/ x.off <= sBase[d])
  BY <1>1 DEF LeftOf
<1> QED BY <1>3, <1>4, <1>5 DEF Old

LEMMA LeftIsShort ==
  ASSUME NEW d \in End, ShortSpans(d), NEW x \in Span, Left(d, x) PROVE x.n <= SegmentSize
<1>1. PICK y \in Span : IsSpan(d, y) /\ LeftOf(d, x, y)
  BY DEF Left
<1>2. y.n <= SegmentSize
  BY <1>1 DEF IsSpan, ShortSpans
<1> QED BY <1>1, <1>2, SizeAssumption DEF LeftOf, Span

LEMMA OthersKeepPieces ==
  ASSUME WindowInv, TypeOK', [Next]_vars, ~ \E e \in End, s \in Sub : SendData(e, s), NEW d \in End
  PROVE  PiecesApart(d)' /\ PiecesSent(d)' /\ ShortSpans(d)'
<1>0. /\ TypeOK /\ PiecesApart(d) /\ PiecesSent(d) /\ ShortSpans(d)
      /\ Peer(d) \in End /\ Peer(Peer(d)) = d
  BY PeerType DEF WindowInv, AckInv, StreamInv
<1>1. UNCHANGED sNext /\ SpansLeft(d)
  BY <1>0, OthersLeave
<1>2. sBase[d] \in Nat /\ sBase'[d] \in Nat /\ sBase[d] <= sBase'[d] /\ sNext[d] \in Nat /\ sNext'[d] = sNext[d]
  BY <1>0, <1>1, BaseGrows DEF TypeOK, SendType
<1>3. NoNewData
  <2>1. CASE UNCHANGED vars
    BY <1>0, <2>1, NetSame DEF vars
  <2>2. ASSUME NEW e \in End, App(e) \/ Tick(e) PROVE NoNewData
    BY <1>0, <2>2, AppNet, OtherNet, SubFacts
  <2>3. ASSUME NEW e \in End, NEW s \in Sub,
               ReadLoop(e, s) \/ WriteLoop(e, s) \/ PathDies(e, s) \/ Splice(e, s) \/ CloseCarrier(e, s)
        PROVE  NoNewData
    <3>1. WriteLoop(e, s) => SendFin(e, s)
      BY DEF WriteLoop
    <3> QED BY <1>0, <2>3, <3>1, ReadLoopNet, OtherNet
  <2>4. ASSUME NEW s \in Sub, PathManager(s) PROVE NoNewData
    <3>1. "client" \in End
      BY DEF End
    <3> QED BY <1>0, <2>4, <3>1, OtherNet
  <2> HIDE DEF NoNewData
  <2> QED BY <2>1, <2>2, <2>3, <2>4 DEF Next
<1>4. ASSUME NEW o \in Nat, NEW z \in Nat, Piece(d, o, z)' PROVE Old(d, o, z)
  <2>1. ASSUME NEW sp \in retx'[d], o = sp.off, z = SpanEnd(sp) PROVE Old(d, o, z)
    BY <1>0, <1>1, <2>1, LeftIsOld DEF SpansLeft
  <2>2. ASSUME NEW s \in Sub, NEW sp \in infl'[d][s], o = sp.off, z = SpanEnd(sp) PROVE Old(d, o, z)
    BY <1>0, <1>1, <2>2, LeftIsOld DEF SpansLeft
  <2>3. ASSUME NEW s \in Sub, NEW i \in 1 .. Len(net'[d][s]),
               net'[d][s][i].type = "data", o = net'[d][s][i].off, z = SegEnd(net'[d][s][i])
        PROVE  Old(d, o, z)
    <3>1. PICK j \in 1 .. Len(net[d][s]) : net'[d][s][i] = net[d][s][j]
      BY <1>3, <2>3 DEF NoNewData, DataFrom
    <3> QED BY <2>3, <3>1 DEF Old, Piece
  <2>4. ASSUME NEW sg \in ooo'[Peer(d)], o = sg.off, z = SegEnd(sg) PROVE Old(d, o, z)
    <3>1. \/ sg \in ooo[Peer(d)]
          \/ \E s \in Sub : \E i \in 1 .. Len(net[d][s]) :
               /\ net[d][s][i].type = "data"
               /\ sg.off = net[d][s][i].off /\ SegEnd(sg) = SegEnd(net[d][s][i])
      BY <1>0, OooFrom
    <3> QED BY <2>4, <3>1 DEF Old, Piece
  <2>5. \/ \E sp \in retx'[d] : o = sp.off /\ z = SpanEnd(sp)
        \/ \E s \in Sub : \E sp \in infl'[d][s] : o = sp.off /\ z = SpanEnd(sp)
        \/ \E s \in Sub : \E i \in 1 .. Len(net'[d][s]) :
             net'[d][s][i].type = "data" /\ o = net'[d][s][i].off /\ z = SegEnd(net'[d][s][i])
        \/ \E sg \in ooo'[Peer(d)] : o = sg.off /\ z = SegEnd(sg)
    BY <1>4 DEF Piece, SpanEnd, SegEnd
  <2> QED BY <2>1, <2>2, <2>3, <2>4, <2>5
<1>5. PiecesApart(d)' /\ PiecesSent(d)'
  <2>1. \A o, z \in Nat : Piece(d, o, z)' =>
          Piece(d, o, z) \/ (o <= sBase'[d] /\ z <= sNext[d]) \/ (o = sNext[d] /\ z = sNext'[d])
    BY <1>2, <1>4 DEF Old
  <2> QED BY <1>0, <1>2, <2>1, PiecesStep
<1>6. ShortSpans(d)'
  <2>1. retx'[d] \subseteq Span /\ \A s \in Sub : infl'[d][s] \subseteq Span
    BY DEF TypeOK, SendType, SubType
  <2> QED BY <1>0, <1>1, <2>1, LeftIsShort DEF ShortSpans, SpansLeft
<1> QED BY <1>5, <1>6

\* SendData sends a whole span again, or the next new bytes
Emits(e, s, sp) ==
  /\ Buffered(e, sp) /\ sp.n <= SegmentSize
  /\ net' = [net EXCEPT ![e][s] =
               Append(@, [type |-> "data", off |-> sp.off, bytes |-> Payload(e, sp)])]
  /\ infl' = [infl EXCEPT ![e][s] = @ \cup {sp}]
  /\ \A d \in End \ {e} : retx'[d] = retx[d] /\ sNext'[d] = sNext[d]
  /\ \A x \in retx'[e] : Left(e, x)
  /\ sNext[e] <= sNext'[e]
  /\ \/ Left(e, sp)
     \/ sBase[e] <= sp.off /\ sNext[e] <= sp.off /\ sNext'[e] = SpanEnd(sp)

LEMMA SendDataEmits ==
  ASSUME TypeOK, SpansWritten, NEW e \in End, NEW s \in Sub, ShortSpans(e), SendData(e, s)
  PROVE  \E sp \in Span : Emits(e, s, sp)
<1> DEFINE again == Clip(retx[e], sBase[e])
           fresh == IF sNext[e] < sBase[e] THEN sBase[e] ELSE sNext[e]
           f(sp) == [type |-> "data", off |-> sp.off, bytes |-> Payload(e, sp)]
<1>1. /\ retx \in [End -> SUBSET Span] /\ sBase[e] \in Nat /\ sNext \in [End -> Nat] /\ sNext[e] \in Nat
      /\ Len(sq[e]) \in Nat /\ Written(e) = sBase[e] + Len(sq[e])
      /\ SegmentSize \in Nat \ {0}
  BY LenProperties, SizeAssumption DEF TypeOK, SendType, Written
<1>2. again \in SUBSET Span /\ \A x \in again : Left(e, x)
  <2>1. \A y \in retx[e] : IsSpan(e, y)
    BY DEF IsSpan
  <2> QED BY <1>1, <2>1, ClipType, ClipLeft
<1>3. \A sp \in again : Buffered(e, sp)
  <2>1. ASSUME NEW sp \in again PROVE Buffered(e, sp)
    <3>1. PICK x \in retx[e] :
            /\ SpanEnd(x) > sBase[e]
            /\ sp = [off |-> IF x.off < sBase[e] THEN sBase[e] ELSE x.off,
                     n |-> SpanEnd(x) - (IF x.off < sBase[e] THEN sBase[e] ELSE x.off)]
      BY <2>1 DEF Clip
    <3>2. sp.off = (IF x.off < sBase[e] THEN sBase[e] ELSE x.off) /\ sp.n = SpanEnd(x) - sp.off
      BY <3>1
    <3>3. x.off \in Nat /\ x.n \in Nat \ {0} /\ SpanEnd(x) = x.off + x.n /\ SpanEnd(x) <= Written(e)
      BY <1>1 DEF SpanEnd, Span, SpansWritten
    <3> QED BY <1>1, <1>2, <2>1, <3>1, <3>2, <3>3 DEF Buffered, SpanEnd
  <2> QED BY <2>1
<1> HIDE DEF again
<1>4. CASE \E sp \in again :
             LET n == Lesser(sp.n, SegmentSize)
                 rest == {[off |-> sp.off + k, n |-> sp.n - k] : k \in {n} \ {sp.n}}
             IN  /\ net' = [net EXCEPT ![e][s] =
                              Append(@, [type |-> "data", off |-> sp.off,
                                         bytes |-> Payload(e, [off |-> sp.off, n |-> n])])]
                 /\ infl' = [infl EXCEPT ![e][s] = @ \cup {[off |-> sp.off, n |-> n]}]
                 /\ retx' = [retx EXCEPT ![e] = (again \ {sp}) \cup rest]
                 /\ sNext' = sNext
  <2>1. PICK sp \in again :
             LET n == Lesser(sp.n, SegmentSize)
                 rest == {[off |-> sp.off + k, n |-> sp.n - k] : k \in {n} \ {sp.n}}
             IN  /\ net' = [net EXCEPT ![e][s] =
                              Append(@, [type |-> "data", off |-> sp.off,
                                         bytes |-> Payload(e, [off |-> sp.off, n |-> n])])]
                 /\ infl' = [infl EXCEPT ![e][s] = @ \cup {[off |-> sp.off, n |-> n]}]
                 /\ retx' = [retx EXCEPT ![e] = (again \ {sp}) \cup rest]
                 /\ sNext' = sNext
    BY <1>4
  <2>2. sp \in Span /\ sp.n \in Nat /\ Left(e, sp) /\ Buffered(e, sp)
    BY <1>2, <1>3, <2>1 DEF Span
  <2>3. sp.n <= SegmentSize
    BY <2>2, LeftIsShort
  <2>4. Lesser(sp.n, SegmentSize) = sp.n
    BY <1>1, <2>2, <2>3 DEF Lesser
  <2>5. [off |-> sp.off, n |-> Lesser(sp.n, SegmentSize)] = sp
    BY <2>2, <2>4 DEF Span
  <2>6. {[off |-> sp.off + k, n |-> sp.n - k] : k \in {Lesser(sp.n, SegmentSize)} \ {sp.n}} = {}
    BY <2>4
  <2>7. /\ net' = [net EXCEPT ![e][s] = Append(@, f(sp))]
        /\ infl' = [infl EXCEPT ![e][s] = @ \cup {sp}]
        /\ retx' = [retx EXCEPT ![e] = again \ {sp}]
        /\ sNext' = sNext
    BY <2>1, <2>5, <2>6
  <2>8. /\ \A d \in End \ {e} : retx'[d] = retx[d] /\ sNext'[d] = sNext[d]
        /\ \A x \in retx'[e] : Left(e, x)
        /\ sNext[e] <= sNext'[e]
    BY <1>1, <1>2, <2>7
  <2> QED BY <2>2, <2>3, <2>7, <2>8 DEF Emits
<1>5. CASE /\ fresh < Written(e)
           /\ LET out == [off |-> fresh, n |-> Lesser(Written(e) - fresh, SegmentSize)]
              IN  /\ net' = [net EXCEPT ![e][s] =
                               Append(@, [type |-> "data", off |-> fresh, bytes |-> Payload(e, out)])]
                  /\ infl' = [infl EXCEPT ![e][s] = @ \cup {out}]
                  /\ sNext' = [sNext EXCEPT ![e] = fresh + Lesser(Written(e) - fresh, SegmentSize)]
           /\ retx' = [retx EXCEPT ![e] = {}]
  <2> DEFINE out == [off |-> fresh, n |-> Lesser(Written(e) - fresh, SegmentSize)]
  <2>1. /\ out \in Span /\ Buffered(e, out) /\ out.n <= SegmentSize
        /\ SpanEnd(out) = fresh + Lesser(Written(e) - fresh, SegmentSize)
        /\ out.off = fresh /\ sBase[e] <= fresh /\ sNext[e] <= fresh /\ sNext[e] <= SpanEnd(out)
    BY <1>1, <1>5 DEF Buffered, Span, SpanEnd, Lesser
  <2>2. /\ net' = [net EXCEPT ![e][s] = Append(@, f(out))]
        /\ infl' = [infl EXCEPT ![e][s] = @ \cup {out}]
        /\ sNext' = [sNext EXCEPT ![e] = SpanEnd(out)]
        /\ retx' = [retx EXCEPT ![e] = {}]
    BY <1>5, <2>1
  <2> HIDE DEF out
  <2>3. /\ \A d \in End \ {e} : retx'[d] = retx[d] /\ sNext'[d] = sNext[d]
        /\ \A x \in retx'[e] : Left(e, x)
        /\ sNext'[e] = SpanEnd(out)
    BY <1>1, <2>2
  <2> QED BY <2>1, <2>2, <2>3 DEF Emits
<1> QED BY <1>4, <1>5 DEF SendData, Payload, again

LEMMA SendKeepsPieces ==
  ASSUME WindowInv, TypeOK', NEW e \in End, NEW s \in Sub, SendData(e, s), NEW d \in End
  PROVE  PiecesApart(d)' /\ PiecesSent(d)' /\ ShortSpans(d)'
<1>0. /\ TypeOK /\ SpansWritten /\ PiecesApart(d) /\ PiecesSent(d) /\ ShortSpans(d) /\ ShortSpans(e)
      /\ Peer(d) \in End
  BY PeerType DEF WindowInv, AckInv, StreamInv
<1>1. PICK sp \in Span : Emits(e, s, sp)
  BY <1>0, SendDataEmits
<1> DEFINE f == [type |-> "data", off |-> sp.off, bytes |-> Payload(e, sp)]
<1>2. /\ UNCHANGED <<sBase, ooo>>
      /\ net' = [net EXCEPT ![e][s] = Append(@, f)]
      /\ infl' = [infl EXCEPT ![e][s] = @ \cup {sp}]
  BY <1>1 DEF SendData, Emits, recvVars
<1>3. sBase[d] \in Nat /\ sNext[d] \in Nat /\ sNext'[d] \in Nat /\ sBase'[d] = sBase[d]
  BY <1>0, <1>2 DEF TypeOK, SendType
<1>4. f \in Frame /\ f.type = "data" /\ f.off = sp.off /\ SegEnd(f) = SpanEnd(sp)
  BY <1>0, <1>1, PayloadType, FrameMakers DEF Emits, Span, SegEnd, SpanEnd
<1> HIDE DEF f
<1>5. \A x \in retx'[d] : x \in retx[d] \/ Left(d, x)
  BY <1>1 DEF Emits
<1>6. \A x \in Sub : \A y \in infl'[d][x] : y \in infl[d][x] \/ (d = e /\ y = sp)
  BY <1>0, <1>2 DEF TypeOK, SubType
<1>7. ASSUME NEW x \in Sub, NEW i \in 1 .. Len(net'[d][x])
      PROVE  (\E j \in 1 .. Len(net[d][x]) : net'[d][x][i] = net[d][x][j]) \/ (d = e /\ net'[d][x][i] = f)
  <2>1. CASE d = e /\ x = s
    <3>1. net'[d][x] = Append(net[d][x], f) /\ net[d][x] \in Seq(Frame)
      BY <1>0, <1>2, <2>1 DEF TypeOK, NetType
    <3>2. /\ Len(net'[d][x]) = Len(net[d][x]) + 1 /\ Len(net[d][x]) \in Nat
          /\ \A j \in 1 .. Len(net[d][x]) : net'[d][x][j] = net[d][x][j]
          /\ net'[d][x][Len(net[d][x]) + 1] = f
      BY <1>4, <3>1, AppendProperties, LenProperties
    <3>3. i = Len(net[d][x]) + 1 \/ i \in 1 .. Len(net[d][x])
      BY <3>2
    <3> QED BY <2>1, <3>2, <3>3
  <2>2. CASE ~(d = e /\ x = s)
    <3>1. net'[d][x] = net[d][x]
      BY <1>0, <1>2, <2>2 DEF TypeOK, NetType
    <3> QED BY <3>1
  <2> QED BY <2>1, <2>2
\* what e has sent now
<1> DEFINE New(o, z) == d = e /\ o = sp.off /\ z = SpanEnd(sp)
<1>8. ASSUME NEW o \in Nat, NEW z \in Nat, Piece(d, o, z)' PROVE Old(d, o, z) \/ New(o, z)
  <2>1. ASSUME NEW x \in retx'[d], o = x.off, z = SpanEnd(x) PROVE Old(d, o, z)
    BY <1>0, <1>5, <2>1, LeftIsOld DEF Old, Piece
  <2>2. ASSUME NEW x \in Sub, NEW y \in infl'[d][x], o = y.off, z = SpanEnd(y) PROVE Old(d, o, z) \/ New(o, z)
    BY <1>6, <2>2 DEF Old, Piece
  <2>3. ASSUME NEW x \in Sub, NEW i \in 1 .. Len(net'[d][x]),
               net'[d][x][i].type = "data", o = net'[d][x][i].off, z = SegEnd(net'[d][x][i])
        PROVE  Old(d, o, z) \/ New(o, z)
    BY <1>4, <1>7, <2>3 DEF Old, Piece
  <2>4. ASSUME NEW sg \in ooo'[Peer(d)], o = sg.off, z = SegEnd(sg) PROVE Old(d, o, z)
    BY <1>2, <2>4 DEF Old, Piece
  <2>5. \/ \E x \in retx'[d] : o = x.off /\ z = SpanEnd(x)
        \/ \E x \in Sub : \E y \in infl'[d][x] : o = y.off /\ z = SpanEnd(y)
        \/ \E x \in Sub : \E i \in 1 .. Len(net'[d][x]) :
             net'[d][x][i].type = "data" /\ o = net'[d][x][i].off /\ z = SegEnd(net'[d][x][i])
        \/ \E sg \in ooo'[Peer(d)] : o = sg.off /\ z = SegEnd(sg)
    BY <1>8 DEF Piece, SpanEnd, SegEnd
  <2> HIDE DEF New
  <2> QED BY <2>1, <2>2, <2>3, <2>4, <2>5
<1>9. PICK fresh \in Nat : /\ sNext[d] <= fresh /\ sNext[d] <= sNext'[d]
                           /\ \A o, z : New(o, z) => Old(d, o, z) \/ (o = fresh /\ z = sNext'[d])
  <2>1. CASE d = e /\ ~Left(e, sp)
    <3>1. sNext[e] <= sp.off /\ sNext'[e] = SpanEnd(sp) /\ sp.off \in Nat /\ sNext[e] <= sNext'[e]
      BY <1>1, <2>1 DEF Emits, Span
    <3> QED BY <2>1, <3>1
  <2>2. CASE d = e /\ Left(e, sp)
    <3>1. Old(e, sp.off, SpanEnd(sp)) /\ sNext[e] <= sNext'[e]
      BY <1>0, <1>1, <2>2, LeftIsOld DEF Emits
    <3> QED BY <1>3, <2>2, <3>1
  <2>3. CASE d # e
    <3>1. sNext'[d] = sNext[d]
      BY <1>1, <2>3 DEF Emits
    <3> QED BY <1>3, <2>3, <3>1
  <2> QED BY <2>1, <2>2, <2>3
<1>10. PiecesApart(d)' /\ PiecesSent(d)'
  <2>1. \A o, z \in Nat : Piece(d, o, z)' =>
          Piece(d, o, z) \/ (o <= sBase'[d] /\ z <= sNext[d]) \/ (o = fresh /\ z = sNext'[d])
    BY <1>3, <1>8, <1>9 DEF Old
  <2> QED BY <1>0, <1>3, <1>9, <2>1, PiecesStep
<1>11. ShortSpans(d)'
  <2>1. retx'[d] \subseteq Span
    BY DEF TypeOK, SendType
  <2>2. sp.n <= SegmentSize
    BY <1>1 DEF Emits
  <2> QED BY <1>0, <1>5, <1>6, <2>1, <2>2, LeftIsShort DEF ShortSpans
<1> QED BY <1>10, <1>11

(* What is held out of order starts beyond the next byte, one segment to   *)
(* an offset.                                                              *)
LEMMA StaysBeyond ==
  ASSUME WindowInv, [Next]_vars, NEW d \in End PROVE OooBeyond(d)'
<1>0. TypeOK /\ BytesInPlace /\ OooBeyond(d)
  BY DEF WindowInv, AckInv, StreamInv
<1>1. Next0(d)' = Next0(d) /\ ooo'[d] = ooo[d] => OooBeyond(d)'
  BY <1>0 DEF OooBeyond
<1>2. ASSUME NEW e \in End, NEW s \in Sub, RecvInOrder(e, s) PROVE OooBeyond(d)'
  <2>1. PICK b \in Nat : InOrderStep(e, s, b)
    BY <1>0, <1>2, RecvInOrderStep
  <2>2. CASE d # e
    BY <1>0, <1>1, <1>2, <2>1, <2>2, InOrderNext
  <2>3. CASE d = e
    <3>1. Next0(d)' = b /\ ooo'[d] = {sg \in ooo[d] : sg.off > b}
      BY <1>0, <1>2, <2>1, <2>3, InOrderNext
    <3>2. \A sg \in ooo[d] : sg.off \in Nat
      BY <1>0 DEF TypeOK, RecvType, Segment
    <3>3. (\A sg \in ooo'[d] : b < sg.off) /\ \A x, y \in ooo'[d] : x.off = y.off => x = y
      BY <1>0, <3>1, <3>2 DEF OooBeyond
    <3> QED BY <3>1, <3>3 DEF OooBeyond
  <2> QED BY <2>2, <2>3
<1>3. ASSUME NEW e \in End, NEW s \in Sub, RecvOutOfOrder(e, s) PROVE OooBeyond(d)'
  <2> DEFINE new == [off |-> Received(e, s).off, bytes |-> Received(e, s).bytes]
  <2>1. /\ Received(e, s).off > Next0(e) /\ UNCHANGED <<rq, rRead>>
        /\ \/ ooo' = ooo
           \/ ooo' = [ooo EXCEPT ![e] = (@ \ {sg \in ooo[e] : sg.off = Received(e, s).off}) \cup {new}]
    BY <1>3 DEF RecvOutOfOrder
  <2>2. Next0(d)' = Next0(d)
    BY <2>1 DEF Next0
  <2>3. new.off = Received(e, s).off
    OBVIOUS
  <2>4. Received(e, s).off \in Nat /\ Next0(e) \in Nat
    BY <1>0, <1>3, ReceiveType, FrameFields, LenProperties DEF RecvOutOfOrder, Next0, TypeOK, RecvType
  <2> HIDE DEF new
  <2>5. CASE ooo'[d] = ooo[d]
    BY <1>1, <2>2, <2>5
  <2>6. CASE d = e /\ ooo'[d] = (ooo[d] \ {sg \in ooo[d] : sg.off = new.off}) \cup {new}
    <3>1. \A sg \in ooo'[d] : sg = new \/ (sg \in ooo[d] /\ sg.off # new.off)
      BY <2>6
    <3>2. Next0(d) < new.off
      BY <2>1, <2>3, <2>4, <2>6
    <3> QED BY <1>0, <2>2, <3>1, <3>2 DEF OooBeyond
  <2>7. ooo'[d] = ooo[d] \/ (d = e /\ ooo'[d] = (ooo[d] \ {sg \in ooo[d] : sg.off = new.off}) \cup {new})
    BY <1>0, <2>1, <2>3 DEF TypeOK, RecvType
  <2> QED BY <2>5, <2>6, <2>7
<1>4. UNCHANGED <<rq, rRead, ooo>> => OooBeyond(d)'
  BY <1>1 DEF Next0
<1>5. ASSUME NEW e \in End, App(e) PROVE OooBeyond(d)'
  <2>1. Write(e) \/ ReadEOF(e) \/ CloseWrite(e) => UNCHANGED <<rq, rRead, ooo>>
    BY DEF Write, ReadEOF, CloseWrite, recvVars
  <2>2. Read(e) \/ Close(e) => OooBeyond(d)'
    BY <1>0, <1>1, ReadKeepsNext
  <2> QED BY <1>4, <1>5, <2>1, <2>2 DEF App
<1>6. ASSUME NEW e \in End, NEW s \in Sub,
             RecvInOrder(e, s) \/ RecvOutOfOrder(e, s) \/ RecvAck(e, s) \/ RecvFin(e, s)
      PROVE  OooBeyond(d)'
  <2>1. RecvAck(e, s) \/ RecvFin(e, s) => UNCHANGED <<rq, rRead, ooo>>
    BY DEF RecvAck, RecvFin, recvVars
  <2> QED BY <1>2, <1>3, <1>4, <1>6, <2>1
<1>7. ASSUME NEW s \in Sub, ServerJoin(s) \/ \E k \in {"spare", "failover", "switch"} : StartJoin(s, k)
      PROVE  UNCHANGED <<rq, rRead, ooo>>
  BY <1>7 DEF ServerJoin, StartJoin, recvVars
<1>8. UNCHANGED streamVars => UNCHANGED <<rq, rRead, ooo>>
  BY DEF streamVars
<1> QED BY <1>4, <1>5, <1>6, <1>7, <1>8, Movers

(* No more is queued to be sent than the window holds.                     *)
LEMMA QueueWithinWindow ==
  ASSUME WindowInv, TypeOK', [Next]_vars, NEW d \in End PROVE Len(sq'[d]) <= Window
<1>0. /\ TypeOK /\ Len(sq[d]) \in Nat /\ Len(sq[d]) <= Window /\ Window \in Nat
      /\ sBase[d] \in Nat /\ Written(d) = sBase[d] + Len(sq[d]) /\ "server" \in End
  BY SizeAssumption, LenProperties DEF WindowInv, AckInv, StreamInv, TypeOK, SendType, Written, End
<1>1. sq'[d] = sq[d] => Len(sq'[d]) <= Window
  BY <1>0
<1>2. ASSUME NEW e \in End, Write(e) PROVE Len(sq'[d]) <= Window
  <2>1. PICK k \in 1 .. Lesser(Window - Len(sq[e]), Len(Data[e]) - Written(e)) :
          sq' = [sq EXCEPT ![e] = @ \o SubSeq(Data[e], Written(e) + 1, Written(e) + k)]
    BY <1>2 DEF Write
  <2>2. CASE d # e
    BY <1>0, <1>1, <2>1, <2>2 DEF TypeOK, SendType
  <2>3. CASE d = e
    <3> DEFINE w == Written(d)
               n == Len(Data[d])
    <3>1. /\ Data[d] \in Seq(Byte) /\ n \in Nat /\ sq[d] \in Seq(Byte)
      BY <1>0, DataAssumption, LenProperties DEF TypeOK, SendType
    <3>a. w \in Nat
      BY <1>0
    <3>b. k \in 1 .. Lesser(Window - Len(sq[d]), n - w)
      BY <2>3
    <3> HIDE DEF w, n
    <3>2. k \in Nat /\ k >= 1 /\ k <= Window - Len(sq[d]) /\ w + k <= n
      BY <1>0, <3>1, <3>a, <3>b DEF Lesser
    <3>3. \A i \in (w + 1) .. (w + k) : Data[d][i] \in Byte
      <4>1. \A i \in (w + 1) .. (w + k) : i \in 1 .. n
        BY <3>1, <3>a, <3>2
      <4> QED BY <3>1, <4>1, ElementOfSeq DEF n
    <3> DEFINE new == SubSeq(Data[d], w + 1, w + k)
    <3>4. w + 1 \in Int /\ w + k \in Int /\ w + 1 <= w + k /\ (w + k) - (w + 1) + 1 = k
      BY <3>a, <3>2
    <3>5. new \in Seq(Byte) /\ Len(new) = k
      BY <3>3, <3>4, SubSeqProperties
    <3>6. sq'[d] = sq[d] \o new
      BY <1>0, <2>1, <2>3 DEF TypeOK, SendType, w
    <3> HIDE DEF new
    <3>7. Len(sq'[d]) = Len(sq[d]) + k
      BY <3>1, <3>5, <3>6, ConcatProperties
    <3> QED BY <1>0, <3>2, <3>7
  <2> QED BY <2>2, <2>3
<1>3. ASSUME NEW e \in End, Acknowledges(e) PROVE Len(sq'[d]) <= Window
  <2>1. PICK next \in Nat, fin \in BOOLEAN : OnAck(e, next, fin)
    BY <1>3 DEF Acknowledges
  <2>2. /\ sBase'[e] \in Nat /\ sBase[e] <= sBase'[e] /\ Len(sq'[e]) = Written(e) - sBase'[e]
        /\ d # e => sq'[d] = sq[d]
    BY <1>0, <2>1, OnAckStep
  <2> QED BY <1>0, <1>1, <2>2
<1>4. ASSUME NEW e \in End, App(e) PROVE Write(e) \/ UNCHANGED sq
  BY <1>4 DEF App, Read, ReadEOF, CloseWrite, Close, sendVars
<1>5. ASSUME NEW e \in End, NEW s \in Sub,
             RecvInOrder(e, s) \/ RecvOutOfOrder(e, s) \/ RecvAck(e, s) \/ RecvFin(e, s)
      PROVE  UNCHANGED sq \/ Acknowledges(e)
  BY <1>0, <1>5, WhoAcknowledges DEF RecvInOrder, RecvOutOfOrder, RecvFin, sendVars
<1>6. ASSUME NEW s \in Sub, ServerJoin(s) \/ \E k \in {"spare", "failover", "switch"} : StartJoin(s, k)
      PROVE  UNCHANGED sq \/ Acknowledges("server")
  BY <1>0, <1>6, WhoAcknowledges DEF StartJoin, sendVars
<1>7. UNCHANGED streamVars => UNCHANGED sq
  BY DEF streamVars
<1> QED BY <1>0, <1>1, <1>2, <1>3, <1>4, <1>5, <1>6, <1>7, Movers

LEMMA InitWindow == Init => WindowInv
<1> SUFFICES ASSUME Init PROVE WindowInv
  OBVIOUS
<1>1. AckInv
  BY InitAcks
<1>2. Len(<<>>) = 0
  BY EmptySeq
<1>3. ASSUME NEW e \in End
      PROVE  PiecesApart(e) /\ PiecesSent(e) /\ ShortSpans(e) /\ OooBeyond(e) /\ Len(sq[e]) <= Window
  <2>1. /\ retx[e] = {} /\ ooo[e] = {} /\ ooo[Peer(e)] = {} /\ sq[e] = <<>>
        /\ \A s \in Sub : infl[e][s] = {} /\ net[e][s] = <<>>
    BY PeerType DEF Init
  <2>2. \A o, z \in Nat : ~Piece(e, o, z)
    BY <1>2, <2>1 DEF Piece
  <2> QED BY <1>2, <2>1, <2>2, SizeAssumption DEF PiecesApart, PiecesSent, ShortSpans, OooBeyond
<1> QED BY <1>1, <1>3 DEF WindowInv

LEMMA NextWindow == WindowInv /\ [Next]_vars => WindowInv'
<1> SUFFICES ASSUME WindowInv, [Next]_vars PROVE WindowInv'
  OBVIOUS
<1>1. AckInv'
  BY NextAcks DEF WindowInv
<1>2. TypeOK'
  BY <1>1 DEF AckInv, StreamInv
<1>3. ASSUME NEW d \in End PROVE PiecesApart(d)' /\ PiecesSent(d)' /\ ShortSpans(d)'
  BY <1>2, OthersKeepPieces, SendKeepsPieces
<1>4. ASSUME NEW d \in End PROVE OooBeyond(d)' /\ (Len(sq[d]) <= Window)'
  BY <1>2, StaysBeyond, QueueWithinWindow
<1> QED BY <1>1, <1>3, <1>4 DEF WindowInv

(* What was sent and is not acknowledged was cut into pieces once, and an  *)
(* end queues no more than the window.                                     *)
THEOREM WindowInvariant == Spec => []WindowInv
<1>1. Init => WindowInv
  BY InitWindow
<1>2. WindowInv /\ [Next]_vars => WindowInv'
  BY NextWindow
<1> QED BY <1>1, <1>2, PTL DEF Spec

(* What an end holds, in order and out of order, lies within the window    *)
(* that starts at the next byte to be read, without overlaps: "receive     *)
(* window exceeded" never kills a subflow between two of these ends.       *)
THEOREM WindowHolds == Spec => []WindowRespected
<1>1. ASSUME WindowInv PROVE WindowRespected
  <2>1. SUFFICES ASSUME NEW e \in End
                 PROVE  /\ Next0(e) <= rRead[e] + Window
                        /\ \A sg \in ooo[e] : Next0(e) < sg.off /\ SegEnd(sg) <= rRead[e] + Window
                        /\ \A a, b \in ooo[e] : a = b \/ SegEnd(a) <= b.off \/ SegEnd(b) <= a.off
    BY DEF WindowRespected
  <2> DEFINE p == Peer(e)
  <2>2. /\ p \in End /\ Peer(p) = e /\ TypeOK /\ AckedIsConsumed /\ ReceivedWritten(e)
        /\ PiecesApart(p) /\ OooBeyond(e) /\ Len(sq[p]) <= Window
    BY <1>1, PeerType DEF WindowInv, AckInv, StreamInv
  <2> HIDE DEF p
  <2>3. /\ sBase[p] \in Nat /\ rRead[e] \in Nat /\ Len(sq[p]) \in Nat /\ Len(rq[e]) \in Nat
        /\ Next0(e) = rRead[e] + Len(rq[e]) /\ Written(p) = sBase[p] + Len(sq[p])
        /\ \A sg \in ooo[e] : sg.off \in Nat /\ SegEnd(sg) \in Nat
        /\ Window \in Nat
    BY <2>2, SizeAssumption, LenProperties DEF TypeOK, SendType, RecvType, Next0, Written, Segment, SegEnd
  <2>4. sBase[p] <= rRead[e]
    BY <2>2 DEF AckedIsConsumed
  <2>5. Next0(e) <= Written(p) /\ \A sg \in ooo[e] : SegEnd(sg) <= Written(p)
    BY <2>2 DEF ReceivedWritten, p
  <2>6. Next0(e) <= rRead[e] + Window /\ \A sg \in ooo[e] : SegEnd(sg) <= rRead[e] + Window
    BY <2>2, <2>3, <2>4, <2>5
  <2>7. \A sg \in ooo[e] : Next0(e) < sg.off /\ sBase[p] < sg.off /\ Piece(p, sg.off, SegEnd(sg))
    BY <2>2, <2>3, <2>4 DEF OooBeyond, Piece
  <2>8. ASSUME NEW a \in ooo[e], NEW b \in ooo[e] PROVE a = b \/ SegEnd(a) <= b.off \/ SegEnd(b) <= a.off
    <3>1. (a.off = b.off /\ SegEnd(a) = SegEnd(b)) \/ SegEnd(a) <= b.off \/ SegEnd(b) <= a.off
      BY <2>2, <2>3, <2>7 DEF PiecesApart
    <3> QED BY <2>2, <3>1 DEF OooBeyond
  <2> QED BY <2>6, <2>7, <2>8
<1> QED BY <1>1, WindowInvariant, PTL

----------------------------------------------------------------------------
(* How a session ends.                                                     *)

\* what an acknowledged FIN, a finished session and a refused join say
FinAckedSound(e) == finAcked[e] => Done(Peer(e))
FinishedSound(e) == status[e] = "finished" => finAcked[e] /\ Done(e)
RefusedSound == \A s \in Sub : join[s] = "unknown" => ~Open("server")
EndedSound ==
  (resets = 0 /\ \E x \in End : ~Open(x)) => \A e \in End : closed[e] \/ Done(e)

EndInv ==
  /\ AckInv /\ RefusedSound /\ EndedSound
  /\ \A e \in End : FinAckedSound(e) /\ FinishedSound(e)

----------------------------------------------------------------------------
(* Which actions change the status, the acknowledged FIN and the joins.    *)

endVars == <<status, finAcked, resets, join>>

LEMMA EndMovers ==
  ASSUME [Next]_vars
  PROVE  \/ UNCHANGED endVars
         \/ \E e \in End : TickFinish(e) \/ TickReset(e) \/ GiveUp(e)
         \/ \E e \in End, s \in Sub : RecvAck(e, s) \/ RecvRst(e, s)
         \/ \E s \in Sub : \/ ServerJoin(s) \/ JoinRefused(s)
                           \/ \E k \in {"spare", "failover", "switch"} : StartJoin(s, k)
                           \/ ClientAttach(s) \/ JoinSettle(s) \/ JoinFail(s)
<1>1. CASE UNCHANGED vars
  BY <1>1 DEF vars, endVars, sendVars, sessVars, joinVars, boundVars
<1>2. ASSUME NEW e \in End, App(e) PROVE UNCHANGED endVars
  BY <1>2 DEF App, Write, Read, ReadEOF, CloseWrite, Close, endVars, sendVars, sessVars, joinVars, boundVars
<1>3. ASSUME NEW e \in End, TickAck(e) \/ TickRescue(e) PROVE UNCHANGED endVars
  BY <1>3 DEF TickAck, TickRescue, endVars, sendVars, sessVars, joinVars, boundVars
<1>4. ASSUME NEW e \in End, NEW s \in Sub,
             \/ WriteLoop(e, s) \/ RecvOldData(e, s) \/ RecvInOrder(e, s) \/ RecvOutOfOrder(e, s)
             \/ RecvFin(e, s) \/ RecvRole(s) \/ RecvGap(e, s) \/ ReadError(e, s) \/ ReaderExit(e, s)
             \/ PathDies(e, s) \/ Splice(e, s) \/ CloseCarrier(e, s)
      PROVE  UNCHANGED endVars
  BY <1>4 DEF WriteLoop, SendData, SendFin, RecvOldData, RecvInOrder, RecvOutOfOrder, RecvFin, RecvRole, RecvGap,
              ReadError, ReaderExit, PathDies, Splice, CloseCarrier, endVars, sendVars, sessVars, joinVars, boundVars
<1>5. ASSUME NEW s \in Sub, Failover(s) \/ RetireKill(s) PROVE UNCHANGED endVars
  BY <1>5 DEF Failover, RetireKill, endVars, sendVars, sessVars, joinVars, boundVars
<1>6. ASSUME NEW e \in End, NEW s \in Sub, ReadLoop(e, s)
      PROVE  UNCHANGED endVars \/ RecvAck(e, s) \/ RecvRst(e, s)
  BY <1>4, <1>6 DEF ReadLoop
<1>7. ASSUME NEW e \in End, Tick(e) PROVE UNCHANGED endVars \/ TickFinish(e) \/ TickReset(e) \/ GiveUp(e)
  BY <1>3, <1>7 DEF Tick
<1> QED BY <1>1, <1>2, <1>4, <1>5, <1>6, <1>7 DEF Next, PathManager

(* An application that closed stays closed.                                *)
LEMMA ClosedLasts ==
  ASSUME TypeOK, [Next]_vars, NEW d \in End, closed[d] PROVE closed'[d]
<1>0. closed \in [End -> BOOLEAN]
  BY DEF TypeOK, SessType
<1>1. CASE UNCHANGED closed
  BY <1>1
<1>2. ASSUME NEW e \in End, App(e) PROVE closed'[d]
  <2>1. Close(e) => closed' = [closed EXCEPT ![e] = TRUE]
    BY DEF Close
  <2>2. Write(e) \/ Read(e) \/ ReadEOF(e) \/ CloseWrite(e) => UNCHANGED closed
    BY DEF Write, Read, ReadEOF, CloseWrite, sessVars
  <2> QED BY <1>0, <1>2, <2>1, <2>2 DEF App
<1>3. ASSUME NEW e \in End, NEW s \in Sub, RecvInOrder(e, s) \/ RecvOutOfOrder(e, s) \/ RecvAck(e, s) \/ RecvFin(e, s)
      PROVE  UNCHANGED closed
  BY <1>3 DEF RecvInOrder, RecvOutOfOrder, RecvAck, RecvFin, sessVars
<1>4. ASSUME NEW s \in Sub, ServerJoin(s) \/ \E k \in {"spare", "failover", "switch"} : StartJoin(s, k)
      PROVE  UNCHANGED closed
  BY <1>4 DEF ServerJoin, StartJoin, sessVars
<1>5. UNCHANGED streamVars => UNCHANGED closed
  BY DEF streamVars
<1> QED BY <1>1, <1>2, <1>3, <1>4, <1>5, Movers

----------------------------------------------------------------------------
(* What an end believes of its peer's reading, and of its own end.         *)

LEMMA FinAckedStays == ASSUME EndInv, TypeOK', [Next]_vars, NEW d \in End PROVE FinAckedSound(d)'
<1>0. TypeOK /\ AckInv /\ FinAckedSound(d) /\ Peer(d) \in End /\ "server" \in End
  BY PeerType DEF EndInv, AckInv, StreamInv, End
<1>1. finAcked[d] => Done(Peer(d))'
  BY <1>0, DoneLasts DEF FinAckedSound
<1>2. CASE finAcked'[d] = finAcked[d]
  BY <1>1, <1>2 DEF FinAckedSound
<1>3. ASSUME NEW e \in End, NEW s \in Sub, RecvAck(e, s) PROVE FinAckedSound(d)'
  <2>1. /\ Receive(e, s, "ack")
        /\ \E a : finAcked' = [finAcked EXCEPT ![e] = @ \/ (Received(e, s).fin /\ a)]
    BY <1>3 DEF RecvAck, OnAck
  <2>2. Received(e, s).fin => Done(Peer(e))
    BY <1>0, <2>1, ReceivedIsSound DEF Sound
  <2>3. CASE d # e
    <3>1. finAcked'[d] = finAcked[d]
      BY <1>0, <2>1, <2>3 DEF TypeOK, SendType
    <3> QED BY <1>2, <3>1
  <2>4. CASE d = e
    <3>1. finAcked'[d] => finAcked[d] \/ Received(e, s).fin
      BY <1>0, <2>1, <2>4 DEF TypeOK, SendType
    <3>2. finAcked'[d] => Done(Peer(d))
      BY <1>0, <2>2, <2>4, <3>1 DEF FinAckedSound
    <3> QED BY <1>0, <3>2, DoneLasts DEF FinAckedSound
  <2> QED BY <2>3, <2>4
<1>4. ASSUME NEW s \in Sub, ServerJoin(s) PROVE FinAckedSound(d)'
  <2>1. \E a : finAcked' = [finAcked EXCEPT !["server"] = @ \/ (FALSE /\ a)]
    BY <1>4 DEF ServerJoin, OnAck
  <2>2. finAcked'[d] = finAcked[d]
    BY <1>0, <2>1 DEF TypeOK, SendType
  <2> QED BY <1>2, <2>2
<1>5. UNCHANGED finAcked => FinAckedSound(d)'
  BY <1>2
<1>6. ASSUME NEW e \in End, TickFinish(e) \/ TickReset(e) \/ GiveUp(e) PROVE UNCHANGED finAcked
  BY <1>6 DEF TickFinish, TickReset, GiveUp, sendVars
<1>7. ASSUME NEW e \in End, NEW s \in Sub, RecvRst(e, s) PROVE UNCHANGED finAcked
  BY <1>7 DEF RecvRst, sendVars
<1>8. ASSUME NEW s \in Sub,
             \/ JoinRefused(s) \/ ClientAttach(s) \/ JoinSettle(s) \/ JoinFail(s)
             \/ \E k \in {"spare", "failover", "switch"} : StartJoin(s, k)
      PROVE  UNCHANGED finAcked
  BY <1>8 DEF JoinRefused, StartJoin, ClientAttach, JoinSettle, JoinFail, sendVars
<1>9. UNCHANGED endVars => UNCHANGED finAcked
  BY DEF endVars
<1> QED BY <1>3, <1>4, <1>5, <1>6, <1>7, <1>8, <1>9, EndMovers

(* An acknowledged FIN stays acknowledged.                                 *)
LEMMA FinAckedLasts == ASSUME TypeOK, [Next]_vars, NEW d \in End, finAcked[d] PROVE finAcked'[d]
<1>0. finAcked \in [End -> BOOLEAN] /\ "server" \in End
  BY DEF TypeOK, SendType, End
<1>1. UNCHANGED finAcked => finAcked'[d]
  OBVIOUS
<1>2. ASSUME NEW e \in End, \E a : finAcked' = [finAcked EXCEPT ![e] = @ \/ a] PROVE finAcked'[d]
  BY <1>0, <1>2
<1>3. ASSUME NEW e \in End, NEW s \in Sub, RecvAck(e, s) \/ RecvRst(e, s) PROVE finAcked'[d]
  <2>1. RecvAck(e, s) => \E a : finAcked' = [finAcked EXCEPT ![e] = @ \/ a]
    BY DEF RecvAck, OnAck
  <2>2. RecvRst(e, s) => UNCHANGED finAcked
    BY DEF RecvRst, sendVars
  <2> QED BY <1>1, <1>2, <1>3, <2>1, <2>2
<1>4. ASSUME NEW s \in Sub, ServerJoin(s) PROVE finAcked'[d]
  <2>1. \E a : finAcked' = [finAcked EXCEPT !["server"] = @ \/ a]
    BY <1>4 DEF ServerJoin, OnAck
  <2> QED BY <1>0, <1>2, <2>1
<1>5. ASSUME NEW s \in Sub,
             \/ JoinRefused(s) \/ ClientAttach(s) \/ JoinSettle(s) \/ JoinFail(s)
             \/ \E k \in {"spare", "failover", "switch"} : StartJoin(s, k)
      PROVE  UNCHANGED finAcked
  BY <1>5 DEF JoinRefused, StartJoin, ClientAttach, JoinSettle, JoinFail, sendVars
<1>6. ASSUME NEW e \in End, TickFinish(e) \/ TickReset(e) \/ GiveUp(e) PROVE UNCHANGED finAcked
  BY <1>6 DEF TickFinish, TickReset, GiveUp, sendVars
<1>7. UNCHANGED endVars => UNCHANGED finAcked
  BY DEF endVars
<1> QED BY <1>1, <1>3, <1>4, <1>5, <1>6, <1>7, EndMovers

(* An end calls itself finished by its own tick only.                      *)
LEMMA FinishedStays == ASSUME EndInv, TypeOK', [Next]_vars, NEW d \in End PROVE FinishedSound(d)'
<1>0. TypeOK /\ AckInv /\ FinishedSound(d)
  BY DEF EndInv, AckInv, StreamInv
<1>1. CASE status'[d] = status[d] \/ status'[d] # "finished"
  BY <1>0, <1>1, DoneLasts, FinAckedLasts DEF FinishedSound
<1>2. ASSUME NEW e \in End, TickFinish(e) PROVE FinishedSound(d)'
  <2>1. Complete(e) /\ status' = [status EXCEPT ![e] = "finished"]
    BY <1>2 DEF TickFinish
  <2>2. CASE d # e
    <3>1. status'[d] = status[d]
      BY <1>0, <2>1, <2>2 DEF TypeOK, SessType
    <3> QED BY <1>1, <3>1
  <2>3. CASE d = e
    <3>1. finAcked[d] /\ Done(d)
      BY <2>1, <2>3 DEF Complete, Done
    <3> QED BY <1>0, <3>1, DoneLasts, FinAckedLasts DEF FinishedSound
  <2> QED BY <2>2, <2>3
\* every other change of status is to "aborted"
<1>3. ASSUME NEW e \in End, \E v : v # "finished" /\ status' = [status EXCEPT ![e] = v] PROVE FinishedSound(d)'
  <2>1. status'[d] = status[d] \/ status'[d] # "finished"
    BY <1>0, <1>3 DEF TypeOK, SessType
  <2> QED BY <1>1, <2>1
<1>4. ASSUME NEW e \in End, TickReset(e) \/ GiveUp(e) PROVE FinishedSound(d)'
  <2>1. status' = [status EXCEPT ![e] = "aborted"]
    BY <1>4 DEF TickReset, GiveUp, Abort
  <2> QED BY <1>3, <2>1
<1>5. ASSUME NEW e \in End, NEW s \in Sub, RecvRst(e, s) PROVE FinishedSound(d)'
  <2>1. status' = [status EXCEPT ![e] = IF status[e] = "open" THEN "aborted" ELSE status[e]]
    BY <1>5 DEF RecvRst
  <2>2. status'[d] = status[d] \/ status'[d] = "aborted"
    BY <1>0, <2>1 DEF TypeOK, SessType
  <2> QED BY <1>1, <2>2
<1>6. UNCHANGED status => FinishedSound(d)'
  BY <1>1
<1>7. ASSUME NEW s \in Sub, JoinRefused(s) PROVE FinishedSound(d)'
  <2>1. UNCHANGED status \/ status' = [status EXCEPT !["client"] = "aborted"]
    BY <1>7 DEF JoinRefused, Abort
  <2>2. "client" \in End
    BY DEF End
  <2> QED BY <1>3, <1>6, <2>1, <2>2
<1>8. ASSUME NEW s \in Sub,
             \/ ServerJoin(s) \/ ClientAttach(s) \/ JoinSettle(s) \/ JoinFail(s)
             \/ \E k \in {"spare", "failover", "switch"} : StartJoin(s, k)
      PROVE  UNCHANGED status
  BY <1>8 DEF ServerJoin, StartJoin, ClientAttach, JoinSettle, JoinFail, sessVars
<1>9. ASSUME NEW e \in End, NEW s \in Sub, RecvAck(e, s) PROVE UNCHANGED status
  BY <1>9 DEF RecvAck, sessVars
<1>10. UNCHANGED endVars => UNCHANGED status
  BY DEF endVars
<1> QED BY <1>2, <1>4, <1>5, <1>6, <1>7, <1>8, <1>9, <1>10, EndMovers

(* The exit answers "unknown" only when it has ended the session.          *)
LEMMA RefusedStays == ASSUME TypeOK, RefusedSound, [Next]_vars PROVE RefusedSound'
<1> SUFFICES ASSUME NEW x \in Sub, join'[x] = "unknown" PROVE ~Open("server")'
  BY DEF RefusedSound
<1>0. join \in [Sub -> {"idle", "hello", "ok", "unknown", "attached"}] /\ "server" \in End
  BY DEF TypeOK, JoinType, End
<1>1. CASE join'[x] = join[x]
  BY <1>0, <1>1, OverLasts DEF RefusedSound
<1>2. ASSUME NEW s \in Sub, \E v : v # "unknown" /\ join' = [join EXCEPT ![s] = v] PROVE join'[x] = join[x]
  BY <1>0, <1>2
<1>3. ASSUME NEW s \in Sub, ServerJoin(s) PROVE join'[x] = join[x] \/ ~Open("server")'
  <2>1. IF Open("server") THEN join' = [join EXCEPT ![s] = "ok"] ELSE join' = [join EXCEPT ![s] = "unknown"]
    BY <1>3 DEF ServerJoin
  <2>2. CASE Open("server")
    BY <1>2, <2>1, <2>2
  <2>3. CASE ~Open("server")
    BY <1>0, <2>3, OverLasts
  <2> QED BY <2>2, <2>3
<1>4. ASSUME NEW s \in Sub, ClientAttach(s) \/ JoinSettle(s) \/ JoinFail(s) \/ JoinRefused(s) PROVE join'[x] = join[x]
  <2>1. \E v \in {"attached", "idle"} : join' = [join EXCEPT ![s] = v]
    BY <1>4 DEF ClientAttach, JoinSettle, JoinFail, JoinRefused
  <2> QED BY <1>2, <2>1
<1>5. ASSUME NEW s \in Sub, NEW k, StartJoin(s, k) PROVE join'[x] = join[x]
  <2>1. join' = [join EXCEPT ![s] = "hello"]
    BY <1>5 DEF StartJoin
  <2> QED BY <1>2, <2>1
<1>6. ASSUME NEW e \in End, TickFinish(e) \/ TickReset(e) \/ GiveUp(e) PROVE UNCHANGED join
  BY <1>6 DEF TickFinish, TickReset, GiveUp, joinVars
<1>7. ASSUME NEW e \in End, NEW s \in Sub, RecvAck(e, s) \/ RecvRst(e, s) PROVE UNCHANGED join
  BY <1>7 DEF RecvAck, RecvRst, joinVars
<1>8. UNCHANGED endVars => UNCHANGED join
  BY DEF endVars
<1> QED BY <1>1, <1>3, <1>4, <1>5, <1>6, <1>7, <1>8, EndMovers

(* The first end to end, when nobody has given up.                         *)
LEMMA EndedStays == ASSUME EndInv, TypeOK', [Next]_vars PROVE EndedSound'
<1> SUFFICES ASSUME resets' = 0, NEW x \in End, ~Open(x)' PROVE \A e \in End : closed'[e] \/ Done(e)'
  BY DEF EndedSound
<1>0. /\ TypeOK /\ AckInv /\ EndedSound /\ RefusedSound /\ "server" \in End /\ "client" \in End
      /\ resets \in Nat /\ status \in [End -> {"open", "finished", "aborted"}]
      /\ \A e \in End : Peer(e) \in End /\ FinAckedSound(e)
  BY PeerType DEF EndInv, AckInv, StreamInv, TypeOK, BoundType, SessType, End
<1>1. ASSUME \A e \in End : closed[e] \/ Done(e) PROVE \A e \in End : closed'[e] \/ Done(e)'
  BY <1>0, <1>1, ClosedLasts, DoneLasts
<1>2. ASSUME resets' = resets, NEW y \in End, ~Open(y) PROVE \A e \in End : closed[e] \/ Done(e)
  BY <1>0, <1>2 DEF EndedSound
<1>3. ASSUME UNCHANGED <<status, resets>> PROVE \A e \in End : closed'[e] \/ Done(e)'
  <2>1. ~Open(x)
    BY <1>3 DEF Open
  <2> QED BY <1>1, <1>2, <1>3, <2>1
\* only e changes its status
<1>4. ASSUME NEW e \in End, NEW v, status' = [status EXCEPT ![e] = v], x # e PROVE ~Open(x)
  BY <1>0, <1>4 DEF Open
<1>5. ASSUME NEW e \in End, TickFinish(e) \/ TickReset(e) PROVE \A d \in End : closed'[d] \/ Done(d)'
  <2>1. resets' = resets
    BY <1>5 DEF TickFinish, TickReset, boundVars
  <2>2. Done(Peer(e)) /\ (closed[e] \/ Done(e))
    BY <1>0, <1>5 DEF TickFinish, TickReset, Complete, Done, FinAckedSound
  <2>3. \A d \in End : d = e \/ d = Peer(e)
    BY DEF End, Peer
  <2> QED BY <1>1, <2>2, <2>3
<1>6. ASSUME NEW e \in End, GiveUp(e) PROVE FALSE
  BY <1>0, <1>6 DEF GiveUp
<1>7. ASSUME NEW e \in End, NEW s \in Sub, RecvRst(e, s) PROVE \A d \in End : closed'[d] \/ Done(d)'
  <2>1. Receive(e, s, "rst") /\ resets' = resets
    BY <1>7 DEF RecvRst, boundVars
  <2>2. ~Open(Peer(e))
    BY <1>0, <2>1, ReceivedIsSound DEF Sound
  <2> QED BY <1>0, <1>1, <1>2, <2>1, <2>2
<1>8. ASSUME NEW s \in Sub, JoinRefused(s) PROVE \A d \in End : closed'[d] \/ Done(d)'
  <2>1. join[s] = "unknown" /\ resets' = resets
    BY <1>8 DEF JoinRefused, boundVars
  <2> QED BY <1>0, <1>1, <1>2, <2>1 DEF RefusedSound
<1>9. ASSUME NEW s \in Sub,
             \/ ServerJoin(s) \/ ClientAttach(s) \/ JoinSettle(s)
      PROVE  UNCHANGED <<status, resets>>
  BY <1>9 DEF ServerJoin, ClientAttach, JoinSettle, sessVars, boundVars
<1>10. ASSUME NEW s \in Sub, JoinFail(s) \/ \E k \in {"spare", "failover", "switch"} : StartJoin(s, k)
       PROVE  UNCHANGED <<status, resets>>
  BY <1>10 DEF StartJoin, JoinFail, sessVars
<1>11. ASSUME NEW e \in End, NEW s \in Sub, RecvAck(e, s) PROVE UNCHANGED <<status, resets>>
  BY <1>11 DEF RecvAck, sessVars, boundVars
<1>12. UNCHANGED endVars => UNCHANGED <<status, resets>>
  BY DEF endVars
<1> QED BY <1>3, <1>5, <1>6, <1>7, <1>8, <1>9, <1>10, <1>11, <1>12, EndMovers

----------------------------------------------------------------------------
(* The theorems.                                                           *)

LEMMA InitEnd == Init => EndInv
<1> SUFFICES ASSUME Init PROVE EndInv
  OBVIOUS
<1>1. AckInv
  BY InitAcks
<1>2. \A e \in End : status[e] = "open" /\ ~finAcked[e]
  BY DEF Init
<1>3. \A s \in Sub : join[s] = "idle"
  BY DEF Init
<1> QED BY <1>1, <1>2, <1>3 DEF EndInv, FinAckedSound, FinishedSound, RefusedSound, EndedSound, Open

LEMMA NextEnd == EndInv /\ [Next]_vars => EndInv'
<1> SUFFICES ASSUME EndInv, [Next]_vars PROVE EndInv'
  OBVIOUS
<1>1. AckInv /\ AckInv' /\ RefusedSound
  BY NextAcks DEF EndInv
<1>2. TypeOK /\ TypeOK'
  BY <1>1 DEF AckInv, StreamInv
<1>3. RefusedSound'
  BY <1>1, <1>2, RefusedStays
<1>4. EndedSound'
  BY <1>2, EndedStays
<1>5. ASSUME NEW e \in End PROVE FinAckedSound(e)' /\ FinishedSound(e)'
  BY <1>2, FinAckedStays, FinishedStays
<1> QED BY <1>1, <1>3, <1>4, <1>5 DEF EndInv

(* What an acknowledged FIN, a finished end, a refused join and an ended   *)
(* session say of the bytes they leave behind is true in every state.      *)
THEOREM EndInvariant == Spec => []EndInv
<1>1. Init => EndInv
  BY InitEnd
<1>2. EndInv /\ [Next]_vars => EndInv'
  BY NextEnd
<1> QED BY <1>1, <1>2, PTL DEF Spec

(* An end that has consumed everything has read exactly to its peer's FIN. *)
LEMMA DoneIsExact ==
  ASSUME AckInv, NEW e \in End, Done(Peer(e)) PROVE finOff[e] # NoFin /\ rRead[Peer(e)] = finOff[e]
<1>0. Peer(e) \in End /\ Peer(Peer(e)) = e /\ TypeOK
  BY PeerType DEF AckInv, StreamInv
<1>1. peerFinAt[Peer(e)] = finOff[e] /\ finOff[e] # NoFin /\ finOff[e] = Written(e)
  BY <1>0 DEF AckInv, FinSound, Done
<1>2. rRead[Peer(e)] + Len(rq[Peer(e)]) <= Written(e)
  BY <1>0 DEF AckInv, ReceivedWritten, Next0
<1>3. rRead[Peer(e)] \in Nat /\ Len(rq[Peer(e)]) \in Nat /\ Written(e) \in Nat
  BY <1>0, LenProperties DEF TypeOK, SendType, RecvType, Written
<1> QED BY <1>1, <1>2, <1>3 DEF Done

(* A session that calls itself finished has delivered both directions      *)
(* completely, to both applications.                                       *)
THEOREM FinishMeansDelivered == Spec => []FinishedIsDelivered
<1>1. EndInv => FinishedIsDelivered
  <2> SUFFICES ASSUME EndInv, NEW e \in End, status[e] = "finished", NEW x \in End
               PROVE  finOff[x] # NoFin /\ rRead[Peer(x)] = finOff[x]
    BY DEF FinishedIsDelivered
  <2>1. AckInv /\ Done(e) /\ Done(Peer(e))
    BY DEF EndInv, FinishedSound, FinAckedSound
  <2>2. Peer(x) = e \/ Peer(x) = Peer(e)
    BY DEF End, Peer
  <2> QED BY <2>1, <2>2, DoneIsExact
<1> QED BY <1>1, EndInvariant, PTL

(* Unless somebody gives up, a session ends only after everything that was *)
(* written has been consumed by the other application, or that application *)
(* closed: dying subflows, late joins and a close do not cut it short.     *)
THEOREM EndAfterDelivery == Spec => []EndsAfterDelivery
<1>1. EndInv => EndsAfterDelivery
  <2> SUFFICES ASSUME EndInv, resets = 0, NEW x \in End, ~Open(x), NEW e \in End
               PROVE  closed[Peer(e)] \/ (finOff[e] # NoFin /\ rRead[Peer(e)] = finOff[e])
    BY DEF EndsAfterDelivery
  <2>1. AckInv /\ (closed[Peer(e)] \/ Done(Peer(e)))
    BY PeerType DEF EndInv, EndedSound
  <2> QED BY <2>1, DoneIsExact
<1> QED BY <1>1, EndInvariant, PTL

----------------------------------------------------------------------------
(***************************************************************************)
(* A session implements ByteStream, for every Data, window, mode and bound *)
(* of Msess: each step of the session layer is a step of the pipe or       *)
(* leaves it alone. Only the application's calls move the pipe; whatever   *)
(* frames, deaths and joins do is a stutter.                               *)
(***************************************************************************)

LEMMA PrefixFacts ==
  ASSUME NEW D \in Seq(Byte), NEW n \in Nat, n <= Len(D)
  PROVE  /\ SubSeq(D, 1, n) \in Seq(Byte) /\ Len(SubSeq(D, 1, n)) = n
         /\ \A i \in 1 .. n : SubSeq(D, 1, n)[i] = D[i]
<1>1. Len(D) \in Nat
  BY LenProperties
<1>2. /\ 1 \in Int /\ n \in Int /\ n - 1 + 1 = n /\ (~ 1 <= n => n = 0)
      /\ \A i \in 1 .. n : 1 + i - 1 = i
  OBVIOUS
<1>3. \A i \in 1 .. n : D[i] \in Byte
  BY <1>1, ElementOfSeq
<1> QED BY <1>2, <1>3, SubSeqProperties

\* a part of a prefix is that part of the whole
LEMMA PartOfPrefix ==
  ASSUME NEW D \in Seq(Byte), NEW n \in Nat, n <= Len(D), NEW a \in Nat, NEW k \in Nat, a + k <= n
  PROVE  LET S == SubSeq(SubSeq(D, 1, n), a + 1, a + k)
         IN  S \in Seq(Byte) /\ Len(S) = k /\ \A i \in 1 .. k : S[i] = D[a + i]
<1> DEFINE P == SubSeq(D, 1, n)
<1>1. P \in Seq(Byte) /\ Len(P) = n /\ \A i \in 1 .. n : P[i] = D[i]
  BY PrefixFacts
<1>2. /\ a + 1 \in Int /\ a + k \in Int /\ (a + k) - (a + 1) + 1 = k /\ (~ a + 1 <= a + k => k = 0)
      /\ \A i \in 1 .. k : a + 1 + i - 1 = a + i /\ a + i \in 1 .. n
  OBVIOUS
<1> HIDE DEF P
<1>3. \A i \in (a + 1) .. (a + k) : P[i] \in Byte
  BY <1>1, ElementOfSeq
<1>4. /\ SubSeq(P, a + 1, a + k) \in Seq(Byte) /\ Len(SubSeq(P, a + 1, a + k)) = k
      /\ \A i \in 1 .. k : SubSeq(P, a + 1, a + k)[i] = P[a + i]
  BY <1>2, <1>3, SubSeqProperties
<1>5. \A i \in 1 .. k : SubSeq(P, a + 1, a + k)[i] = D[a + i]
  BY <1>1, <1>2, <1>4
<1> QED BY <1>4, <1>5 DEF P

LEMMA Facts ==
  ASSUME AckInv, NEW e \in End
  PROVE  /\ Data[e] \in Seq(Byte) /\ Len(Data[e]) \in Nat
         /\ Written(e) \in Nat /\ Written(e) <= Len(Data[e])
         /\ got[e] \in Seq(Byte) /\ Len(got[e]) \in Nat
         /\ rRead[e] \in Nat /\ Len(rq[e]) \in Nat /\ rRead[e] + Len(rq[e]) <= Written(Peer(e))
         /\ rDiscard[e] \/ Len(got[e]) = rRead[e]
         /\ \A i \in 1 .. Len(got[e]) : got[e][i] = Data[Peer(e)][i]
<1>0. TypeOK /\ BytesInPlace /\ ReceivedWritten(e) /\ Peer(e) \in End
  BY PeerType DEF AckInv, StreamInv
<1>1. Data[e] \in Seq(Byte) /\ Len(Data[e]) \in Nat /\ Len(Data[Peer(e)]) \in Nat
  BY <1>0, DataFacts DEF DataTypes
<1>2. Written(e) = sBase[e] + Len(sq[e]) /\ Written(e) \in Nat /\ sBase[e] \in Nat /\ Len(sq[e]) \in Nat
  BY <1>0, LenProperties DEF TypeOK, SendType, Written
<1>3. Written(e) <= Len(Data[e])
  BY <1>0, <1>2 DEF BytesInPlace, Slice
<1>4. got[e] \in Seq(Byte) /\ Len(got[e]) \in Nat /\ rRead[e] \in Nat /\ Len(rq[e]) \in Nat
  BY <1>0, LenProperties DEF TypeOK, HistType, RecvType
<1>5. \A i \in 1 .. Len(got[e]) : got[e][i] = Data[Peer(e)][0 + i] /\ 0 + i = i
  BY <1>0, <1>4 DEF BytesInPlace, Slice
<1>6. rDiscard[e] \/ Len(got[e]) = rRead[e]
  BY <1>0 DEF BytesInPlace
<1>7. rRead[e] + Len(rq[e]) <= Written(Peer(e))
  BY <1>0 DEF ReceivedWritten, Next0
<1> QED BY <1>1, <1>2, <1>3, <1>4, <1>5, <1>6, <1>7

----------------------------------------------------------------------------
(* The application's calls.                                                *)

\* nothing the pipe speaks of moves
Still == /\ \A e \in End : Written(e)' = Written(e)
         /\ UNCHANGED <<finOff, got, eof>>

LEMMA StillIsStutter == Still => UNCHANGED Pipe!pipe
BY DEF Still, Pipe!pipe

LEMMA WriteIsPush ==
  ASSUME AckInv, NEW e \in End, Write(e) PROVE Pipe!Push(e)
<1>1. PICK k \in 1 .. Lesser(Window - Len(sq[e]), Len(Data[e]) - Written(e)) :
        sq' = [sq EXCEPT ![e] = sq[e] \o SubSeq(Data[e], Written(e) + 1, Written(e) + k)]
  BY DEF Write
<1>2. finOff[e] = NoFin /\ UNCHANGED <<sBase, finOff, got, eof>>
  BY DEF Write, histVars
<1>3. /\ sq \in [End -> Seq(Byte)] /\ sq[e] \in Seq(Byte) /\ Len(sq[e]) \in Nat /\ sBase[e] \in Nat
      /\ Data[e] \in Seq(Byte) /\ Len(Data[e]) \in Nat /\ Written(e) \in Nat /\ Written(e) <= Len(Data[e])
  BY Facts, LenProperties DEF AckInv, StreamInv, TypeOK, SendType
<1>4. k \in Nat /\ k >= 1 /\ Written(e) + k <= Len(Data[e]) /\ Written(e) + k \in Nat
  <2>1. Window - Len(sq[e]) \in Int /\ Len(Data[e]) - Written(e) \in Int
    BY <1>3, SizeAssumption
  <2>2. /\ Lesser(Window - Len(sq[e]), Len(Data[e]) - Written(e)) \in Int
        /\ Lesser(Window - Len(sq[e]), Len(Data[e]) - Written(e)) <= Len(Data[e]) - Written(e)
    BY <2>1 DEF Lesser
  <2>3. k \in Nat /\ k >= 1 /\ k <= Len(Data[e]) - Written(e)
    BY <1>1, <2>1, <2>2
  <2> QED BY <1>3, <2>3
<1> DEFINE new == SubSeq(Data[e], Written(e) + 1, Written(e) + k)
<1>5. new \in Seq(Byte) /\ Len(new) = k
  <2>1. \A i \in (Written(e) + 1) .. (Written(e) + k) : Data[e][i] \in Byte
    BY <1>3, <1>4, ElementOfSeq
  <2>2. /\ Written(e) + 1 \in Int /\ Written(e) + k \in Int /\ Written(e) + 1 <= Written(e) + k
        /\ (Written(e) + k) - (Written(e) + 1) + 1 = k
    BY <1>3, <1>4
  <2> QED BY <2>1, <2>2, SubSeqProperties
<1> HIDE DEF new
<1>6. Len(sq[e] \o new) = Len(sq[e]) + k
  BY <1>3, <1>5, ConcatProperties
<1>7. sq'[e] = sq[e] \o new /\ \A d \in End : d # e => sq'[d] = sq[d]
  BY <1>1, <1>3 DEF new
<1>8. Written(e)' = Written(e) + k /\ \A d \in End : d # e => Written(d)' = Written(d)
  <2>1. Written(e)' = sBase[e] + Len(sq'[e]) /\ Written(e) = sBase[e] + Len(sq[e])
    BY <1>2 DEF Written
  <2> QED BY <1>2, <1>3, <1>4, <1>6, <1>7, <2>1 DEF Written
<1> DEFINE S == [d \in End |-> SubSeq(Data[d], 1, Written(d))]
           T == [d \in End |-> SubSeq(Data[d], 1, Written(d)')]
<1>9. /\ S[e] = SubSeq(Data[e], 1, Written(e)) /\ T[e] = SubSeq(Data[e], 1, Written(e) + k)
      /\ \A d \in End : d # e => T[d] = S[d]
  BY <1>8
<1>10. Len(S[e]) = Written(e) /\ Len(T[e]) = Written(e) + k
  <2>1. Len(SubSeq(Data[e], 1, Written(e))) = Written(e)
    BY <1>3, PrefixFacts
  <2>2. Len(SubSeq(Data[e], 1, Written(e) + k)) = Written(e) + k
    BY <1>3, <1>4, PrefixFacts
  <2> QED BY <1>9, <2>1, <2>2
<1>11. SubSeq(T[e], 1, Len(S[e])) = S[e]
  <2> DEFINE n == Written(e)
             P == SubSeq(SubSeq(Data[e], 1, n + k), 0 + 1, 0 + n)
  <2>1. n \in Nat /\ n + k \in Nat /\ n + k <= Len(Data[e]) /\ 0 + n <= n + k /\ 0 + n = n /\ 0 \in Nat /\ 0 + 1 = 1
    BY <1>3, <1>4
  <2> HIDE DEF n
  <2>2. P \in Seq(Byte) /\ Len(P) = n /\ \A i \in 1 .. n : P[i] = Data[e][0 + i]
    BY <1>3, <2>1, PartOfPrefix
  <2>3. \A i \in 1 .. n : 0 + i = i
    BY <2>1
  <2>4. /\ SubSeq(Data[e], 1, n) \in Seq(Byte) /\ Len(SubSeq(Data[e], 1, n)) = n
        /\ \A i \in 1 .. n : SubSeq(Data[e], 1, n)[i] = Data[e][i]
    BY <1>3, <2>1, PrefixFacts
  <2> HIDE DEF P
  <2>5. P = SubSeq(Data[e], 1, n)
    BY <2>2, <2>3, <2>4, SeqEqual
  <2> QED BY <1>9, <1>10, <2>1, <2>5 DEF P, n
<1>12. T = [S EXCEPT ![e] = T[e]]
  BY <1>9
<1> HIDE DEF S, T
<1>13. /\ Len(T[e]) > Len(S[e]) /\ SubSeq(T[e], 1, Len(S[e])) = S[e] /\ T = [S EXCEPT ![e] = T[e]]
       /\ finOff[e] = NoFin /\ UNCHANGED <<got, finOff, eof>>
  BY <1>2, <1>3, <1>4, <1>10, <1>11, <1>12
<1> QED BY <1>13 DEF Pipe!Push, S, T

LEMMA OthersAreEnds ==
  /\ End = Pipe!Ends
  /\ \A e \in End : Pipe!Other(e) = Peer(e) /\ Peer(e) \in End
BY PeerType DEF End, Peer, Pipe!Ends, Pipe!Other

\* the bytes that Read returns are the next ones the peer wrote
LEMMA ReadIsPull ==
  ASSUME AckInv, NEW e \in End, Read(e) PROVE Pipe!Pull(e)
<1> DEFINE d == Data[Peer(e)]
           w == Written(Peer(e))
           g == Len(got[e])
<1>1. PICK k \in 1 .. Len(rq[e]) : got' = [got EXCEPT ![e] = @ \o SubSeq(rq[e], 1, k)]
  BY DEF Read
<1>2. UNCHANGED <<sq, sBase, finOff, eof>>
  BY DEF Read, sendVars
<1>3. /\ TypeOK /\ BytesInPlace /\ EofSound(e) /\ FinSound(Peer(e)) /\ Peer(e) \in End
  BY PeerType DEF AckInv, StreamInv
<1>4. /\ rq[e] \in Seq(Byte) /\ Len(rq[e]) \in Nat /\ rRead[e] \in Nat /\ g \in Nat /\ got \in [End -> Seq(Byte)]
      /\ rRead[e] + Len(rq[e]) <= w /\ w \in Nat /\ w <= Len(d) /\ d \in Seq(Byte) /\ Len(d) \in Nat
  BY <1>3, Facts, LenProperties DEF TypeOK, RecvType, HistType
<1>5. k \in Nat /\ k >= 1 /\ k <= Len(rq[e]) /\ rq[e] # <<>>
  BY <1>1, <1>4, EmptySeq
<1>6. g = rRead[e]
  <2>1. ~rDiscard[e]
    BY <1>3, <1>5 DEF BytesInPlace
  <2> QED BY <1>3, <2>1 DEF BytesInPlace
<1> HIDE DEF d, w, g
<1>7. ~eof[e]
  <2>1. SUFFICES ASSUME eof[e] PROVE FALSE
    OBVIOUS
  <2>2. finOff[Peer(e)] = g
    BY <1>3, <2>1 DEF EofSound, g
  <2>3. finOff[Peer(e)] # NoFin
    BY <1>4, <2>2 DEF NoFin
  <2>4. finOff[Peer(e)] = w
    BY <1>3, <2>3 DEF FinSound, w
  <2> QED BY <1>4, <1>5, <1>6, <2>2, <2>4
<1>8. g + k <= w /\ k \in 1 .. (w - g)
  BY <1>4, <1>5, <1>6
<1> DEFINE S == SubSeq(SubSeq(d, 1, w), g + 1, g + k)
           taken == SubSeq(rq[e], 1, k)
<1>9. S \in Seq(Byte) /\ Len(S) = k /\ \A i \in 1 .. k : S[i] = d[g + i]
  BY <1>4, <1>5, <1>8, PartOfPrefix
<1>10. taken \in Seq(Byte) /\ Len(taken) = k /\ \A i \in 1 .. k : taken[i] = rq[e][i]
  BY <1>4, <1>5, PrefixFacts
<1>11. \A i \in 1 .. k : rq[e][i] = d[g + i]
  <2>1. Slice(rq[e], d, g)
    BY <1>3, <1>6 DEF BytesInPlace, d
  <2>2. \A i \in 1 .. k : i \in 1 .. Len(rq[e])
    BY <1>4, <1>5
  <2> QED BY <2>1, <2>2 DEF Slice
<1> HIDE DEF S, taken
<1>12. taken = S
  BY <1>9, <1>10, <1>11, SeqEqual
<1>13. got' = [got EXCEPT ![e] = got[e] \o S]
  BY <1>1, <1>12 DEF taken
<1>14. Len(SubSeq(d, 1, w)) = w
  BY <1>4, PrefixFacts
<1>15. \A x \in End : Written(x)' = Written(x)
  BY <1>2 DEF Written
<1> DEFINE all == [x \in End |-> SubSeq(Data[x], 1, Written(x))]
<1>16. all[Pipe!Other(e)] = SubSeq(d, 1, w)
  BY <1>3, OthersAreEnds DEF d, w
<1>17. all' = all
  BY <1>15
<1> HIDE DEF all
<1>18. /\ ~eof[e] /\ k \in 1 .. (Len(all[Pipe!Other(e)]) - Len(got[e]))
       /\ got' = [got EXCEPT ![e] = @ \o SubSeq(all[Pipe!Other(e)], Len(@) + 1, Len(@) + k)]
       /\ all' = all /\ UNCHANGED <<finOff, eof>>
  BY <1>2, <1>7, <1>8, <1>13, <1>14, <1>16, <1>17 DEF g, S
<1> QED BY <1>18 DEF Pipe!Pull, all

LEMMA ReadEOFIsReadEnd ==
  ASSUME AckInv, NEW e \in End, ReadEOF(e) PROVE Pipe!ReadEnd(e)
<1> DEFINE d == Data[Peer(e)]
           w == Written(Peer(e))
           g == Len(got[e])
<1>1. /\ eof' = [eof EXCEPT ![e] = TRUE] /\ UNCHANGED <<sq, sBase, finOff, got>>
      /\ ~closed[e] /\ rq[e] = <<>> /\ peerFinAt[e] # NoFin /\ rRead[e] >= peerFinAt[e]
  BY DEF ReadEOF, sendVars
<1>2. TypeOK /\ BytesInPlace /\ EofSound(e) /\ FinSound(e) /\ FinSound(Peer(e)) /\ Peer(e) \in End
  BY PeerType DEF AckInv, StreamInv
<1>3. /\ rRead[e] \in Nat /\ g \in Nat /\ got[e] \in Seq(Byte)
      /\ rRead[e] + Len(rq[e]) <= w /\ w \in Nat /\ w <= Len(d) /\ d \in Seq(Byte)
      /\ \A i \in 1 .. g : got[e][i] = d[i]
  BY <1>2, Facts
<1>4. g = rRead[e]
  BY <1>1, <1>2 DEF EofSound, BytesInPlace
<1>5. finOff[Peer(e)] # NoFin /\ peerFinAt[e] = w
  BY <1>1, <1>2 DEF FinSound
<1> HIDE DEF d, w, g
<1>6. g = w
  BY <1>1, <1>3, <1>4, <1>5, EmptySeq
<1>7. got[e] = SubSeq(d, 1, w)
  <2>1. /\ SubSeq(d, 1, w) \in Seq(Byte) /\ Len(SubSeq(d, 1, w)) = w
        /\ \A i \in 1 .. w : SubSeq(d, 1, w)[i] = d[i]
    BY <1>3, PrefixFacts
  <2> QED BY <1>3, <1>6, <2>1, SeqEqual DEF g
<1> DEFINE all == [x \in End |-> SubSeq(Data[x], 1, Written(x))]
           fins == [x \in End |-> finOff[x] # NoFin]
<1>8. all[Pipe!Other(e)] = SubSeq(d, 1, w) /\ fins[Pipe!Other(e)]
  BY <1>2, <1>5, OthersAreEnds DEF d, w
<1>9. all' = all /\ fins' = fins
  BY <1>1 DEF Written
<1> HIDE DEF all, fins
<1>10. fins[Pipe!Other(e)] /\ got[e] = all[Pipe!Other(e)] /\ all' = all /\ fins' = fins
  BY <1>7, <1>8, <1>9
<1> QED BY <1>1, <1>10 DEF Pipe!ReadEnd, all, fins

\* closing finishes the end's direction, unless it was finished before
LEMMA ClosingIsFinish ==
  ASSUME AckInv, NEW e \in End, CloseWrite(e) \/ Close(e)
  PROVE  Pipe!Finish(e) \/ UNCHANGED Pipe!pipe
<1> DEFINE all == [x \in End |-> SubSeq(Data[x], 1, Written(x))]
           fins == [x \in End |-> finOff[x] # NoFin]
<1>1. /\ UNCHANGED <<sq, sBase, got, eof>>
      /\ finOff' = [finOff EXCEPT ![e] = IF @ = NoFin THEN Written(e) ELSE @]
  BY DEF CloseWrite, Close, histVars
<1>2. finOff \in [End -> Nat \cup {NoFin}] /\ Written(e) \in Nat
  BY Facts DEF AckInv, StreamInv, TypeOK, SendType
<1>3. Written(e) # NoFin
  BY <1>2 DEF NoFin
<1>4. all' = all
  BY <1>1 DEF Written
<1>5. CASE finOff[e] = NoFin
  <2>1. finOff' = [finOff EXCEPT ![e] = Written(e)]
    BY <1>1, <1>5
  <2>2. fins' = [fins EXCEPT ![e] = TRUE] /\ ~fins[e]
    BY <1>2, <1>3, <1>5, <2>1
  <2> QED BY <1>1, <1>4, <2>2 DEF Pipe!Finish
<1>6. CASE finOff[e] # NoFin
  <2>1. finOff' = finOff
    BY <1>1, <1>2, <1>6
  <2> QED BY <1>1, <1>4, <2>1 DEF Pipe!pipe
<1> QED BY <1>5, <1>6

----------------------------------------------------------------------------
(* Everything else leaves the pipe alone.                                  *)

LEMMA QueuesStill ==
  ASSUME UNCHANGED <<sq, sBase, finOff, got, eof>> PROVE Still
BY DEF Still, Written

LEMMA AckIsStill ==
  ASSUME TypeOK, NEW e \in End, Acknowledges(e), UNCHANGED <<finOff, got, eof>> PROVE Still
<1>1. PICK next \in Nat, fin \in BOOLEAN : OnAck(e, next, fin)
  BY DEF Acknowledges
<1>2. /\ sBase'[e] \in Nat /\ Len(sq'[e]) = Written(e) - sBase'[e] /\ Written(e) \in Nat
      /\ \A d \in End \ {e} : sq'[d] = sq[d] /\ sBase'[d] = sBase[d]
  BY <1>1, OnAckStep, LenProperties DEF TypeOK, SendType, Written
<1>3. Written(e)' = sBase'[e] + Len(sq'[e])
  BY DEF Written
<1>4. Written(e)' = Written(e)
  BY <1>2, <1>3
<1>5. \A d \in End : d # e => Written(d)' = Written(d)
  BY <1>2 DEF Written
<1> QED BY <1>4, <1>5 DEF Still

LEMMA StepRefines == AckInv /\ [Next]_vars => [Pipe!Next]_(Pipe!pipe)
<1> SUFFICES ASSUME AckInv, [Next]_vars PROVE [Pipe!Next]_(Pipe!pipe)
  OBVIOUS
<1>0. TypeOK /\ "server" \in End
  BY DEF AckInv, StreamInv, End
<1>1. Still => [Pipe!Next]_(Pipe!pipe)
  BY StillIsStutter
<1>2. ASSUME NEW e \in End, App(e) PROVE [Pipe!Next]_(Pipe!pipe)
  <2>1. e \in Pipe!Ends
    BY OthersAreEnds
  <2>2. \/ Pipe!Push(e) \/ Pipe!Pull(e) \/ Pipe!ReadEnd(e) \/ Pipe!Finish(e)
        \/ UNCHANGED Pipe!pipe
    BY <1>2, WriteIsPush, ReadIsPull, ReadEOFIsReadEnd, ClosingIsFinish DEF App
  <2> QED BY <2>1, <2>2 DEF Pipe!Next
<1>3. ASSUME NEW e \in End, NEW s \in Sub,
             RecvInOrder(e, s) \/ RecvOutOfOrder(e, s) \/ RecvAck(e, s) \/ RecvFin(e, s)
      PROVE  Still
  <2>1. UNCHANGED <<finOff, got, eof>>
    BY <1>3 DEF RecvInOrder, RecvOutOfOrder, RecvAck, RecvFin, sendVars, histVars
  <2>2. RecvInOrder(e, s) \/ RecvOutOfOrder(e, s) \/ RecvFin(e, s) => UNCHANGED <<sq, sBase>>
    BY DEF RecvInOrder, RecvOutOfOrder, RecvFin, sendVars
  <2> QED BY <1>0, <1>3, <2>1, <2>2, QueuesStill, AckIsStill, WhoAcknowledges
<1>4. ASSUME NEW s \in Sub, ServerJoin(s) PROVE Still
  <2>1. UNCHANGED <<finOff, got, eof>>
    BY <1>4 DEF ServerJoin, histVars
  <2> QED BY <1>0, <1>4, <2>1, AckIsStill, WhoAcknowledges
<1>5. ASSUME NEW s \in Sub, NEW k, StartJoin(s, k) PROVE Still
  <2>1. UNCHANGED <<sq, sBase, finOff, got, eof>>
    BY <1>5 DEF StartJoin, sendVars, histVars
  <2> QED BY <2>1, QueuesStill
<1>6. UNCHANGED streamVars => Still
  BY QueuesStill DEF streamVars
<1>7. \/ Still \/ \E e \in End : App(e)
  BY <1>3, <1>4, <1>5, <1>6, Movers
<1> QED BY <1>1, <1>2, <1>7

(* The session is a reliable byte pipe: every behaviour of the two ends,   *)
(* their carriers and their path manager is one of ByteStream, for all     *)
(* constants. In particular Read never returns after io.EOF, and io.EOF    *)
(* comes when all that was written has been read.                          *)
THEOREM SessionIsPipe == Spec => ImplementsByteStream
<1>1. Init => Pipe!Init
  <2> SUFFICES ASSUME Init PROVE Pipe!Init
    OBVIOUS
  <2>1. ASSUME NEW e \in End PROVE SubSeq(Data[e], 1, Written(e)) = <<>>
    <3>1. Written(e) = 0
      BY EmptySeq DEF Init, Written
    <3>2. Data[e] \in Seq(Byte) /\ 0 <= Len(Data[e])
      BY DataFacts DEF DataTypes
    <3>3. SubSeq(Data[e], 1, 0) \in Seq(Byte) /\ Len(SubSeq(Data[e], 1, 0)) = 0
      BY <3>2, PrefixFacts
    <3> QED BY <3>1, <3>3, EmptySeq
  <2> QED BY <2>1, OthersAreEnds DEF Init, Pipe!Init
<1>2. AckInv /\ [Next]_vars => [Pipe!Next]_(Pipe!pipe)
  BY StepRefines
<1> QED BY <1>1, <1>2, AckInvariant, PTL DEF Spec, ImplementsByteStream, Pipe!Spec

---------------------------------------------------------------------------
(* What the carriers of a session owe its bytes, for every Data, window,   *)
(* segment size, number of subflow slots and mode.  Every byte sent and    *)
(* not acknowledged waits in retx or is in flight on a subflow that lives; *)
(* the FIN is outstanding only on such a subflow; and the selector has     *)
(* data in flight on its active carrier only.  The three facts hold        *)
(* together: a carrier's spans are requeued when it dies because spans and *)
(* FIN are on live carriers only.                                          *)

\* byte k is part of the span; byte k of e is somebody's job
Holds(sp, k) == sp.off <= k /\ k < SpanEnd(sp)
Kept(e, k) ==
  \/ \E sp \in retx[e] : Holds(sp, k)
  \/ \E s \in Sub : \E sp \in infl[e][s] : Holds(sp, k)

AllKept(e) == \A k \in Nat : sBase[e] <= k /\ k < sNext[e] => Kept(e, k)
OnLive(e) == \A s \in Sub : infl[e][s] # {} => Live(e, s)
FinLive(e) == finOn[e] # None => Live(e, finOn[e])
OnActive(e) == Mode = "selector" => \A s \in Sub : infl[e][s] # {} => active[e] = s

Carried(e) == AllKept(e) /\ OnLive(e) /\ FinLive(e) /\ OnActive(e)

CarrierInv == StreamInv /\ \A e \in End : Carried(e)

----------------------------------------------------------------------------
(* Operators.                                                              *)

\* the variables the invariant speaks of
carryVars == <<sBase, sNext, retx, infl, st, active, finOn>>

SameAt(d) ==
  /\ sBase'[d] = sBase[d] /\ sNext'[d] = sNext[d] /\ retx'[d] = retx[d] /\ infl'[d] = infl[d]
  /\ st'[d] = st[d] /\ active'[d] = active[d] /\ finOn'[d] = finOn[d]

LEMMA CarriedSame == ASSUME NEW d \in End, Carried(d), SameAt(d) PROVE Carried(d)'
BY DEF Carried, SameAt, AllKept, Kept, OnLive, FinLive, OnActive, Live, Holds, SpanEnd

(* What is left of a span after clipping still holds the bytes that are    *)
(* not acknowledged.                                                       *)
LEMMA ClipKeeps ==
  ASSUME NEW S \in SUBSET Span, NEW base \in Nat, NEW x \in S, NEW k \in Nat, base <= k, Holds(x, k)
  PROVE  \E y \in Clip(S, base) : Holds(y, k)
<1> DEFINE o == IF x.off < base THEN base ELSE x.off
           y == [off |-> o, n |-> SpanEnd(x) - o]
<1>1. x.off \in Nat /\ x.n \in Nat /\ SpanEnd(x) = x.off + x.n /\ x.off <= k /\ k < SpanEnd(x)
  BY DEF Span, SpanEnd, Holds
<1>2. SpanEnd(x) > base
  BY <1>1
<1>3. y \in Clip(S, base)
  BY <1>2 DEF Clip
<1>4. o \in Nat /\ o <= k
  BY <1>1
<1>5. y.off = o /\ SpanEnd(y) = o + (SpanEnd(x) - o)
  BY DEF SpanEnd
<1> HIDE DEF o, y
<1>6. Holds(y, k)
  BY <1>1, <1>4, <1>5 DEF Holds
<1> QED BY <1>3, <1>6

(* Moving a carrier's spans back to retx keeps them.                       *)
LEMMA MoveKeeps ==
  ASSUME TypeOK, NEW e \in End, NEW old \in Sub, NEW k \in Nat, sBase[e] <= k, Kept(e, k),
         retx' = [retx EXCEPT ![e] = @ \cup Clip(infl[e][old], sBase[e])],
         infl' = [infl EXCEPT ![e][old] = {}]
  PROVE  Kept(e, k)'
<1>1. /\ infl[e][old] \in SUBSET Span /\ sBase[e] \in Nat
      /\ retx'[e] = retx[e] \cup Clip(infl[e][old], sBase[e])
      /\ \A s \in Sub \ {old} : infl'[e][s] = infl[e][s]
  BY DEF TypeOK, SubType, SendType
<1>2. CASE \E sp \in retx[e] : Holds(sp, k)
  BY <1>1, <1>2 DEF Kept, Holds, SpanEnd
<1>3. ASSUME NEW s \in Sub, NEW sp \in infl[e][s], Holds(sp, k), s # old PROVE Kept(e, k)'
  BY <1>1, <1>3 DEF Kept, Holds, SpanEnd
<1>4. ASSUME NEW sp \in infl[e][old], Holds(sp, k) PROVE Kept(e, k)'
  <2>1. \E y \in Clip(infl[e][old], sBase[e]) : Holds(y, k)
    BY <1>1, <1>4, ClipKeeps
  <2> QED BY <1>1, <2>1 DEF Kept, Holds, SpanEnd
<1> QED BY <1>2, <1>3, <1>4 DEF Kept

----------------------------------------------------------------------------
(* The actions that move, add or drop spans.                               *)

LEMMA KillCarried ==
  ASSUME TypeOK, NEW e \in End, NEW s \in Sub, NEW after \in {"off", "killed"}, KillSub(e, s, after),
         UNCHANGED <<sBase, sNext>>, NEW d \in End, Carried(d)
  PROVE  Carried(d)'
<1>0. /\ st' = [st EXCEPT ![e][s] = after]
      /\ retx' = [retx EXCEPT ![e] = @ \cup Clip(infl[e][s], sBase[e])]
      /\ infl' = [infl EXCEPT ![e][s] = {}]
      /\ finOn' = [finOn EXCEPT ![e] = IF @ = s THEN None ELSE @]
      /\ active' = [active EXCEPT ![e] = IF @ = s THEN None ELSE @]
  BY DEF KillSub
<1>1. CASE d # e
  <2>1. SameAt(d)
    BY <1>0, <1>1 DEF SameAt, TypeOK, SendType, SubType
  <2> QED BY <2>1, CarriedSame
<1>2. CASE d = e
  <2>1. /\ infl'[e][s] = {} /\ \A x \in Sub \ {s} : infl'[e][x] = infl[e][x] /\ st'[e][x] = st[e][x]
        /\ finOn'[e] = (IF finOn[e] = s THEN None ELSE finOn[e])
        /\ active'[e] = (IF active[e] = s THEN None ELSE active[e])
        /\ finOn[e] \in Sub \cup {None}
    BY <1>0 DEF TypeOK, SubType, SendType
  <2>2. AllKept(e)'
    BY <1>0, <1>2, MoveKeeps DEF Carried, AllKept
  <2>3. OnLive(e)'
    BY <1>2, <2>1 DEF Carried, OnLive, Live
  <2>4. FinLive(e)'
    BY <1>2, <2>1 DEF Carried, FinLive, Live
  <2>5. OnActive(e)'
    BY <1>2, <2>1 DEF Carried, OnActive
  <2> QED BY <1>2, <2>2, <2>3, <2>4, <2>5 DEF Carried
<1> QED BY <1>1, <1>2

\* what an ACK leaves of the spans
LEMMA OnAckKeeps ==
  ASSUME TypeOK, NEW e \in End, NEW next \in Nat, NEW fin \in BOOLEAN, OnAck(e, next, fin), UNCHANGED <<sNext, retx>>
  PROVE  /\ \A d \in End : AllKept(d) => AllKept(d)'
         /\ \A d \in End, s \in Sub : infl'[d][s] \subseteq infl[d][s]
         /\ \A d \in End \ {e} : infl'[d] = infl[d] /\ sBase'[d] = sBase[d]
<1>1. /\ sBase[e] \in Nat /\ sBase'[e] \in Nat /\ sBase[e] <= sBase'[e]
      /\ \A d \in End \ {e} : sBase'[d] = sBase[d]
      /\ \A d \in End, s \in Sub : infl'[d][s] \subseteq infl[d][s]
  BY OnAckStep DEF TypeOK, SendType
<1>2. /\ infl' = [infl EXCEPT ![e] = [s \in Sub |-> {sp \in infl[e][s] : SpanEnd(sp) > sBase'[e]}]]
  BY DEF OnAck, TypeOK, SendType
<1>3. /\ \A d \in End \ {e} : infl'[d] = infl[d]
      /\ \A s \in Sub : infl'[e][s] = {sp \in infl[e][s] : SpanEnd(sp) > sBase'[e]}
  BY <1>2 DEF TypeOK, SubType
<1>4. ASSUME NEW d \in End, AllKept(d) PROVE AllKept(d)'
  <2>1. CASE d # e
    BY <1>1, <1>3, <1>4, <2>1 DEF AllKept, Kept, Holds, SpanEnd
  <2>2. CASE d = e
    <3>1. ASSUME NEW k \in Nat, sBase'[e] <= k, k < sNext'[e] PROVE Kept(e, k)'
      <4>1. Kept(e, k) /\ sBase[e] <= k
        BY <1>1, <1>4, <2>2, <3>1 DEF AllKept
      <4>2. CASE \E sp \in retx[e] : Holds(sp, k)
        BY <4>2 DEF Kept, Holds, SpanEnd
      <4>3. ASSUME NEW s \in Sub, NEW sp \in infl[e][s], Holds(sp, k) PROVE sp \in infl'[e][s]
        <5>1. SpanEnd(sp) \in Nat
          BY <4>3 DEF TypeOK, SubType, Span, SpanEnd
        <5> QED BY <1>1, <1>3, <3>1, <4>3, <5>1 DEF Holds
      <4> QED BY <4>1, <4>2, <4>3 DEF Kept, Holds, SpanEnd
    <3> QED BY <2>2, <3>1 DEF AllKept
  <2> QED BY <2>1, <2>2
<1> QED BY <1>1, <1>3, <1>4

LEMMA RecvAckCarried ==
  ASSUME TypeOK, NEW e \in End, NEW s \in Sub, RecvAck(e, s), NEW d \in End, Carried(d)
  PROVE  Carried(d)'
<1>1. /\ Receive(e, s, "ack") /\ OnAck(e, Received(e, s).next, Received(e, s).fin)
      /\ UNCHANGED <<sNext, retx, st, active, finOn>>
  BY DEF RecvAck
<1>2. Received(e, s).next \in Nat /\ Received(e, s).fin \in BOOLEAN
  BY <1>1, ReceiveType, FrameFields
<1>3. AllKept(d)' /\ \A x \in Sub : infl'[d][x] \subseteq infl[d][x]
  BY <1>1, <1>2, OnAckKeeps DEF Carried
<1> QED BY <1>1, <1>3 DEF Carried, OnLive, FinLive, OnActive, Live

(* A HELLO is an ACK, and its subflow may become the server's carrier when *)
(* it has none.                                                            *)
LEMMA ServerJoinCarried ==
  ASSUME TypeOK, NEW s \in Sub, ServerJoin(s), NEW d \in End, Carried(d)
  PROVE  Carried(d)'
<1>0. "server" \in End /\ None \notin Sub
  BY SubFacts DEF End
<1>1. OnAck("server", rxNext[s], FALSE) /\ UNCHANGED <<sNext, retx, finOn>> /\ rxNext[s] \in Nat
  BY DEF ServerJoin, TypeOK, JoinType
<1>2. AllKept(d)' /\ \A x \in Sub : infl'[d][x] \subseteq infl[d][x]
  BY <1>0, <1>1, OnAckKeeps DEF Carried
<1>3. \/ UNCHANGED <<st, active>>
      \/ /\ st' = [st EXCEPT !["server"][s] = "up"]
         /\ active' = [active EXCEPT !["server"] = IF Mode = "selector" /\ @ = None THEN s ELSE @]
  BY DEF ServerJoin
<1>4. ASSUME NEW x \in Sub, Live(d, x) PROVE Live(d, x)'
  <2>1. st' = st \/ st' = [st EXCEPT !["server"][s] = "up"]
    BY <1>3
  <2>2. st \in [End -> [Sub -> {"off", "up", "retiring", "killed"}]]
    BY DEF TypeOK, SubType
  <2>3. st'[d][x] = st[d][x] \/ st'[d][x] = "up"
    BY <2>1, <2>2
  <2> QED BY <1>4, <2>3 DEF Live
<1>5. active'[d] = active[d] \/ active[d] = None
  BY <1>3 DEF TypeOK, SubType
<1>6. OnLive(d)'
  BY <1>2, <1>4 DEF Carried, OnLive
<1>7. FinLive(d)'
  BY <1>1, <1>4 DEF Carried, FinLive, TypeOK, SendType
<1>8. OnActive(d)'
  BY <1>0, <1>2, <1>5 DEF Carried, OnActive
<1> QED BY <1>2, <1>6, <1>7, <1>8 DEF Carried

LEMMA ClientAttachCarried ==
  ASSUME TypeOK, NEW s \in Sub, ClientAttach(s), NEW d \in End, Carried(d)
  PROVE  Carried(d)'
<1>0. None \notin Sub
  BY SubFacts
<1>1. UNCHANGED <<sBase, sNext, retx, infl, finOn>>
  BY DEF ClientAttach, sendVars
<1>2. \/ UNCHANGED <<st, active>>
      \/ /\ st' = [st EXCEPT !["client"][s] = "up"]
         /\ active' = [active EXCEPT !["client"] = IF Mode = "selector" /\ @ = None THEN s ELSE @]
  BY DEF ClientAttach
<1>3. ASSUME NEW x \in Sub, Live(d, x) PROVE Live(d, x)'
  <2>1. st' = st \/ st' = [st EXCEPT !["client"][s] = "up"]
    BY <1>2
  <2>2. st \in [End -> [Sub -> {"off", "up", "retiring", "killed"}]]
    BY DEF TypeOK, SubType
  <2>3. st'[d][x] = st[d][x] \/ st'[d][x] = "up"
    BY <2>1, <2>2
  <2> QED BY <1>3, <2>3 DEF Live
<1>4. active'[d] = active[d] \/ active[d] = None
  BY <1>2 DEF TypeOK, SubType
<1>5. AllKept(d)'
  BY <1>1 DEF Carried, AllKept, Kept, Holds, SpanEnd
<1>6. OnLive(d)' /\ FinLive(d)'
  BY <1>1, <1>3 DEF Carried, OnLive, FinLive, TypeOK, SendType
<1>7. OnActive(d)'
  BY <1>0, <1>1, <1>4 DEF Carried, OnActive
<1> QED BY <1>5, <1>6, <1>7 DEF Carried

(* The client's switch: the old carrier's spans are requeued, or there are *)
(* none because it does not live.                                          *)
LEMMA SetActiveCarried ==
  ASSUME TypeOK, NEW s \in Sub, SetActive(s), UNCHANGED <<sBase, sNext, finOn>>, NEW d \in End, Carried(d)
  PROVE  Carried(d)'
<1> DEFINE old == active["client"]
<1>0. "client" \in End /\ None \notin Sub
  BY SubFacts DEF End
<1>1. active' = [active EXCEPT !["client"] = s]
  BY DEF SetActive
<1>2. CASE d # "client"
  <2>1. /\ \/ UNCHANGED <<retx, infl, st>>
           \/ /\ retx' = [retx EXCEPT !["client"] = @ \cup Clip(infl["client"][old], sBase["client"])]
              /\ infl' = [infl EXCEPT !["client"][old] = {}]
              /\ st' = [st EXCEPT !["client"][old] = "retiring"]
    BY DEF SetActive
  <2>2. SameAt(d)
    BY <1>1, <1>2, <2>1 DEF SameAt, TypeOK, SendType, SubType
  <2> QED BY <2>2, CarriedSame
<1>3. CASE d = "client" /\ old \in LiveSubs("client") \ {s}
  <2>1. /\ old \in Sub /\ old # s /\ Live("client", old)
        /\ retx' = [retx EXCEPT !["client"] = @ \cup Clip(infl["client"][old], sBase["client"])]
        /\ infl' = [infl EXCEPT !["client"][old] = {}]
        /\ st' = [st EXCEPT !["client"][old] = "retiring"]
    BY <1>3 DEF SetActive, LiveSubs
  <2>2. /\ infl'["client"][old] = {} /\ \A x \in Sub \ {old} : infl'["client"][x] = infl["client"][x]
        /\ \A x \in Sub : Live("client", x) => Live("client", x)'
    BY <1>0, <2>1 DEF TypeOK, SubType, Live
  <2>3. AllKept("client")'
    BY <1>0, <1>3, <2>1, MoveKeeps DEF Carried, AllKept
  <2>4. OnLive("client")' /\ FinLive("client")'
    BY <1>0, <1>3, <2>2 DEF Carried, OnLive, FinLive, TypeOK, SendType
  <2>5. OnActive("client")'
    BY <1>3, <2>2 DEF Carried, OnActive
  <2> QED BY <1>3, <2>3, <2>4, <2>5 DEF Carried
<1>4. CASE d = "client" /\ old \notin LiveSubs("client") \ {s}
  <2>1. UNCHANGED <<retx, infl, st>>
    BY <1>4 DEF SetActive
  <2>2. active'["client"] = s /\ active["client"] \in Sub \cup {None}
    BY <1>0, <1>1 DEF TypeOK, SubType
  <2>3. old = s \/ ~Live("client", old) \/ old = None
    BY <1>4, <2>2 DEF LiveSubs
  <2>4. OnActive("client")'
    BY <1>0, <1>4, <2>1, <2>2, <2>3 DEF Carried, OnActive, OnLive
  <2>5. AllKept("client")' /\ OnLive("client")' /\ FinLive("client")'
    BY <1>4, <2>1 DEF Carried, AllKept, Kept, Holds, SpanEnd, OnLive, FinLive, Live
  <2> QED BY <1>4, <2>4, <2>5 DEF Carried
<1> QED BY <1>2, <1>3, <1>4

LEMMA JoinSettleCarried ==
  ASSUME TypeOK, NEW s \in Sub, JoinSettle(s) \/ Failover(s), NEW d \in End, Carried(d)
  PROVE  Carried(d)'
<1>1. UNCHANGED <<sBase, sNext, finOn>>
  BY DEF JoinSettle, Failover
<1>2. CASE SetActive(s)
  BY <1>1, <1>2, SetActiveCarried
<1>3. CASE /\ st' = [st EXCEPT !["client"][s] = IF Live("client", s) THEN "retiring" ELSE @]
           /\ UNCHANGED <<active, retx, infl>>
  <2>1. \A x \in Sub : Live(d, x) => Live(d, x)'
    BY <1>3 DEF Live, TypeOK, SubType
  <2>2. OnLive(d)' /\ FinLive(d)' /\ OnActive(d)'
    BY <1>1, <1>3, <2>1 DEF Carried, OnLive, FinLive, OnActive, TypeOK, SendType
  <2>3. AllKept(d)'
    BY <1>1, <1>3 DEF Carried, AllKept, Kept, Holds, SpanEnd
  <2> QED BY <2>2, <2>3 DEF Carried
<1> QED BY <1>2, <1>3 DEF JoinSettle, Failover

(* ROLE at the server: the same move, to the subflow the client named.     *)
LEMMA RecvRoleCarried ==
  ASSUME TypeOK, NEW s \in Sub, RecvRole(s), NEW d \in End, Carried(d)
  PROVE  Carried(d)'
<1> DEFINE old == active["server"]
<1>0. "server" \in End /\ None \notin Sub /\ old \in Sub \cup {None}
  BY SubFacts DEF End, TypeOK, SubType
<1>1. UNCHANGED <<sBase, sNext, finOn, st>>
  BY DEF RecvRole
<1>2. CASE old = s
  <2>1. UNCHANGED <<active, retx, infl>>
    BY <1>2 DEF RecvRole
  <2> QED BY <1>1, <2>1, CarriedSame DEF SameAt
<1>3. CASE old = None /\ old # s
  <2>1. active' = [active EXCEPT !["server"] = s] /\ UNCHANGED <<retx, infl>>
    BY <1>3 DEF RecvRole
  <2>2. OnActive(d)'
    BY <1>0, <1>3, <2>1 DEF Carried, OnActive, TypeOK, SubType
  <2>3. AllKept(d)' /\ OnLive(d)' /\ FinLive(d)'
    BY <1>1, <2>1 DEF Carried, AllKept, Kept, Holds, SpanEnd, OnLive, FinLive, Live
  <2> QED BY <2>2, <2>3 DEF Carried
<1>4. CASE old \in Sub /\ old # s
  <2>1. /\ active' = [active EXCEPT !["server"] = s]
        /\ retx' = [retx EXCEPT !["server"] = @ \cup Clip(infl["server"][old], sBase["server"])]
        /\ infl' = [infl EXCEPT !["server"][old] = {}]
    BY <1>0, <1>4 DEF RecvRole
  <2>2. CASE d # "server"
    <3>1. SameAt(d)
      BY <1>1, <2>1, <2>2 DEF SameAt, TypeOK, SendType, SubType
    <3> QED BY <3>1, CarriedSame
  <2>3. CASE d = "server"
    <3>1. infl'["server"][old] = {} /\ \A x \in Sub \ {old} : infl'["server"][x] = infl["server"][x]
      BY <1>0, <1>4, <2>1 DEF TypeOK, SubType
    <3>2. AllKept("server")'
      BY <1>0, <1>1, <1>4, <2>1, <2>3, MoveKeeps DEF Carried, AllKept
    <3>3. OnLive("server")' /\ FinLive("server")'
      BY <1>1, <2>3, <3>1 DEF Carried, OnLive, FinLive, Live
    <3>4. OnActive("server")'
      BY <2>3, <3>1 DEF Carried, OnActive
    <3> QED BY <2>3, <3>2, <3>3, <3>4 DEF Carried
  <2> QED BY <2>2, <2>3
<1> QED BY <1>0, <1>2, <1>3, <1>4

(* writeLoop: a span is split, sent again or sent for the first time, and  *)
(* no byte between the two falls out.                                      *)
LEMMA SendDataCarried ==
  ASSUME TypeOK, NEW e \in End, NEW s \in Sub, SendData(e, s), NEW d \in End, Carried(d)
  PROVE  Carried(d)'
<1> DEFINE again == Clip(retx[e], sBase[e])
           fresh == IF sNext[e] < sBase[e] THEN sBase[e] ELSE sNext[e]
<1>0. /\ retx[e] \in SUBSET Span /\ sBase[e] \in Nat /\ sNext[e] \in Nat /\ Written(e) \in Nat
      /\ SegmentSize \in Nat \ {0} /\ None \notin Sub
  BY LenProperties, SizeAssumption, SubFacts DEF TypeOK, SendType, Written
<1>1. again \in SUBSET Span /\ fresh \in Nat
  BY <1>0, ClipType
<1>2. UNCHANGED <<sBase, finOn, st, active>> /\ Live(e, s) /\ (Mode = "selector" => active[e] = s)
  BY DEF SendData, Eligible, Live
<1>3. \A k \in Nat : sBase[e] <= k /\ (\E x \in retx[e] : Holds(x, k)) => \E y \in again : Holds(y, k)
  BY <1>0, ClipKeeps
<1>4. \E out : /\ infl' = [infl EXCEPT ![e][s] = @ \cup {out}]
               /\ \/ /\ UNCHANGED sNext
                     /\ \E sp \in again, n \in Nat :
                          /\ n >= 1 /\ n <= sp.n /\ out = [off |-> sp.off, n |-> n]
                          /\ retx' = [retx EXCEPT ![e] = (again \ {sp}) \cup
                                        {[off |-> sp.off + k, n |-> sp.n - k] : k \in {n} \ {sp.n}}]
                  \/ /\ again = {} /\ retx' = [retx EXCEPT ![e] = {}]
                     /\ \E n \in Nat : /\ n >= 1 /\ out = [off |-> fresh, n |-> n]
                                       /\ sNext' = [sNext EXCEPT ![e] = fresh + n]
  <2>1. CASE \E sp \in again :
               LET n == Lesser(sp.n, SegmentSize)
                   rest == {[off |-> sp.off + k, n |-> sp.n - k] : k \in {n} \ {sp.n}}
               IN  /\ infl' = [infl EXCEPT ![e][s] = @ \cup {[off |-> sp.off, n |-> n]}]
                   /\ retx' = [retx EXCEPT ![e] = (again \ {sp}) \cup rest]
                   /\ UNCHANGED sNext
    <3>1. PICK sp \in again :
               LET n == Lesser(sp.n, SegmentSize)
                   rest == {[off |-> sp.off + k, n |-> sp.n - k] : k \in {n} \ {sp.n}}
               IN  /\ infl' = [infl EXCEPT ![e][s] = @ \cup {[off |-> sp.off, n |-> n]}]
                   /\ retx' = [retx EXCEPT ![e] = (again \ {sp}) \cup rest]
                   /\ UNCHANGED sNext
      BY <2>1
    <3>2. sp.n \in Nat \ {0}
      BY <1>1 DEF Span
    <3>3. Lesser(sp.n, SegmentSize) \in Nat /\ Lesser(sp.n, SegmentSize) >= 1 /\ Lesser(sp.n, SegmentSize) <= sp.n
      BY <1>0, <3>2 DEF Lesser
    <3> HIDE DEF again
    <3> QED BY <3>1, <3>3
  <2>2. CASE /\ again = {} /\ fresh < Written(e) /\ retx' = [retx EXCEPT ![e] = {}]
             /\ LET n == Lesser(Written(e) - fresh, SegmentSize)
                IN  /\ infl' = [infl EXCEPT ![e][s] = @ \cup {[off |-> fresh, n |-> n]}]
                    /\ sNext' = [sNext EXCEPT ![e] = fresh + n]
    <3> DEFINE n == Lesser(Written(e) - fresh, SegmentSize)
    <3>1. n \in Nat /\ n >= 1
      BY <1>0, <1>1, <2>2 DEF Lesser
    <3>2. /\ infl' = [infl EXCEPT ![e][s] = @ \cup {[off |-> fresh, n |-> n]}]
          /\ sNext' = [sNext EXCEPT ![e] = fresh + n]
      BY <2>2
    <3> HIDE DEF n, fresh, again
    <3> QED BY <2>2, <3>1, <3>2
  <2> QED BY <2>1, <2>2 DEF SendData
<1>5. PICK out : /\ infl' = [infl EXCEPT ![e][s] = @ \cup {out}]
                 /\ \/ /\ UNCHANGED sNext
                       /\ \E sp \in again, n \in Nat :
                            /\ n >= 1 /\ n <= sp.n /\ out = [off |-> sp.off, n |-> n]
                            /\ retx' = [retx EXCEPT ![e] = (again \ {sp}) \cup
                                          {[off |-> sp.off + k, n |-> sp.n - k] : k \in {n} \ {sp.n}}]
                    \/ /\ again = {} /\ retx' = [retx EXCEPT ![e] = {}]
                       /\ \E n \in Nat : /\ n >= 1 /\ out = [off |-> fresh, n |-> n]
                                         /\ sNext' = [sNext EXCEPT ![e] = fresh + n]
  BY <1>4
<1> HIDE DEF again
<1>6. CASE d # e
  <2>1. \A x \in End \ {e} : infl'[x] = infl[x] /\ retx'[x] = retx[x] /\ sNext'[x] = sNext[x]
    BY <1>5 DEF TypeOK, SendType, SubType
  <2>2. SameAt(d)
    BY <1>2, <1>6, <2>1 DEF SameAt
  <2> QED BY <2>2, CarriedSame
<1>7. CASE d = e
  <2>1. infl'[e][s] = infl[e][s] \cup {out} /\ \A x \in Sub \ {s} : infl'[e][x] = infl[e][x]
    BY <1>5 DEF TypeOK, SubType
  <2>2. OnLive(e)' /\ FinLive(e)' /\ OnActive(e)'
    BY <1>2, <1>7, <2>1 DEF Carried, OnLive, FinLive, OnActive, Live
  <2>3. ASSUME NEW k \in Nat, sBase[e] <= k,
               (\E y \in again : Holds(y, k)) => (\E y \in retx'[e] : Holds(y, k)) \/ Holds(out, k), Kept(e, k)
        PROVE  Kept(e, k)'
    BY <1>3, <2>1, <2>3 DEF Kept, Holds, SpanEnd
  <2>4. CASE /\ UNCHANGED sNext
             /\ \E sp \in again, n \in Nat :
                  /\ n >= 1 /\ n <= sp.n /\ out = [off |-> sp.off, n |-> n]
                  /\ retx' = [retx EXCEPT ![e] = (again \ {sp}) \cup
                                {[off |-> sp.off + k, n |-> sp.n - k] : k \in {n} \ {sp.n}}]
    <3>1. PICK sp \in again, n \in Nat :
                  /\ n >= 1 /\ n <= sp.n /\ out = [off |-> sp.off, n |-> n]
                  /\ retx' = [retx EXCEPT ![e] = (again \ {sp}) \cup
                                {[off |-> sp.off + k, n |-> sp.n - k] : k \in {n} \ {sp.n}}]
      BY <2>4
    <3>2. sp.off \in Nat /\ sp.n \in Nat
      BY <1>1 DEF Span
    <3>3. retx'[e] = (again \ {sp}) \cup {[off |-> sp.off + k, n |-> sp.n - k] : k \in {n} \ {sp.n}}
      BY <3>1 DEF TypeOK, SendType
    <3>4. ASSUME NEW k \in Nat, NEW y \in again, Holds(y, k)
          PROVE  (\E z \in retx'[e] : Holds(z, k)) \/ Holds(out, k)
      <4>1. CASE y # sp
        BY <3>3, <3>4, <4>1
      <4>2. CASE y = sp /\ k < sp.off + n
        BY <3>1, <3>2, <3>4, <4>2 DEF Holds, SpanEnd
      <4>3. CASE y = sp /\ ~(k < sp.off + n)
        <5> DEFINE z == [off |-> sp.off + n, n |-> sp.n - n]
        <5>1. n # sp.n /\ k < sp.off + sp.n
          BY <3>1, <3>2, <3>4, <4>3 DEF Holds, SpanEnd
        <5>2. z \in retx'[e]
          BY <3>3, <5>1
        <5>3. Holds(z, k)
          BY <3>1, <3>2, <4>3, <5>1 DEF Holds, SpanEnd
        <5> QED BY <5>2, <5>3
      <4> QED BY <4>1, <4>2, <4>3
    <3>5. AllKept(e)'
      BY <1>2, <1>7, <2>3, <2>4, <3>4 DEF Carried, AllKept
    <3> QED BY <1>7, <2>2, <3>5 DEF Carried
  <2>5. CASE /\ again = {} /\ retx' = [retx EXCEPT ![e] = {}]
             /\ \E n \in Nat : /\ n >= 1 /\ out = [off |-> fresh, n |-> n]
                               /\ sNext' = [sNext EXCEPT ![e] = fresh + n]
    <3>1. PICK n \in Nat : out = [off |-> fresh, n |-> n] /\ sNext' = [sNext EXCEPT ![e] = fresh + n]
      BY <2>5
    <3>2. sNext'[e] = fresh + n
      BY <3>1 DEF TypeOK, SendType
    <3>3. ASSUME NEW k \in Nat, sBase[e] <= k, k < sNext'[e] PROVE Kept(e, k)'
      <4>1. CASE k < sNext[e]
        BY <1>7, <2>3, <2>5, <3>3, <4>1 DEF Carried, AllKept
      <4>2. CASE ~(k < sNext[e])
        <5>1. Holds(out, k)
          BY <1>0, <1>1, <3>1, <3>2, <3>3, <4>2 DEF Holds, SpanEnd
        <5> QED BY <2>1, <5>1 DEF Kept, Holds, SpanEnd
      <4> QED BY <4>1, <4>2
    <3>4. AllKept(e)'
      BY <1>2, <3>3 DEF AllKept
    <3> QED BY <1>7, <2>2, <3>4 DEF Carried
  <2> QED BY <1>5, <2>4, <2>5
<1> QED BY <1>6, <1>7

LEMMA SendFinCarried ==
  ASSUME TypeOK, NEW e \in End, NEW s \in Sub, SendFin(e, s), NEW d \in End, Carried(d)
  PROVE  Carried(d)'
<1>1. UNCHANGED <<sBase, sNext, retx, infl, st, active>> /\ Live(e, s) /\ finOn' = [finOn EXCEPT ![e] = s]
  BY DEF SendFin, subVars, Eligible, Live
<1>2. FinLive(d)'
  BY <1>1 DEF Carried, FinLive, Live, TypeOK, SendType
<1>3. AllKept(d)' /\ OnLive(d)' /\ OnActive(d)'
  BY <1>1 DEF Carried, AllKept, Kept, Holds, SpanEnd, OnLive, OnActive, Live
<1> QED BY <1>2, <1>3 DEF Carried

LEMMA ReaderExitCarried ==
  ASSUME TypeOK, NEW e \in End, NEW s \in Sub, ReaderExit(e, s), NEW d \in End, Carried(d)
  PROVE  Carried(d)'
<1>1. UNCHANGED <<sBase, sNext, retx, infl, active, finOn>> /\ st[e][s] = "killed" /\ st' = [st EXCEPT ![e][s] = "off"]
  BY DEF ReaderExit, sendVars
<1>2. \A x \in Sub : Live(d, x) => Live(d, x)'
  BY <1>1 DEF Live, TypeOK, SubType
<1>3. OnLive(d)' /\ FinLive(d)' /\ OnActive(d)'
  BY <1>1, <1>2 DEF Carried, OnLive, FinLive, OnActive, TypeOK, SendType
<1>4. AllKept(d)'
  BY <1>1 DEF Carried, AllKept, Kept, Holds, SpanEnd
<1> QED BY <1>3, <1>4 DEF Carried

LEMMA TickRescueCarried ==
  ASSUME TypeOK, NEW e \in End, TickRescue(e), NEW d \in End, Carried(d)
  PROVE  Carried(d)'
<1>1. UNCHANGED <<sBase, sNext, infl, st, active, finOn>>
  BY DEF TickRescue, subVars
<1>2. \E more : retx' = [retx EXCEPT ![e] = @ \cup more]
  BY DEF TickRescue
<1>3. retx[d] \subseteq retx'[d]
  BY <1>2 DEF TypeOK, SendType
<1>4. AllKept(d)'
  BY <1>1, <1>3 DEF Carried, AllKept, Kept, Holds, SpanEnd
<1>5. OnLive(d)' /\ FinLive(d)' /\ OnActive(d)'
  BY <1>1 DEF Carried, OnLive, FinLive, OnActive, Live
<1> QED BY <1>4, <1>5 DEF Carried

----------------------------------------------------------------------------
(* Every step.                                                             *)

LEMMA NextCarried == ASSUME TypeOK, [Next]_vars, NEW d \in End, Carried(d) PROVE Carried(d)'
<1>0. "client" \in End
  BY DEF End
<1>1. CASE UNCHANGED carryVars
  BY <1>1, CarriedSame DEF SameAt, carryVars
<1>2. ASSUME NEW e \in End, App(e) PROVE UNCHANGED carryVars
  BY <1>2 DEF App, Write, Read, ReadEOF, CloseWrite, Close, sendVars, subVars, carryVars
<1>3. ASSUME NEW e \in End, TickAck(e) \/ TickFinish(e) \/ TickReset(e) \/ GiveUp(e) PROVE UNCHANGED carryVars
  BY <1>3 DEF TickAck, TickFinish, TickReset, GiveUp, sendVars, subVars, carryVars
<1>4. ASSUME NEW e \in End, NEW s \in Sub,
             \/ RecvOldData(e, s) \/ RecvInOrder(e, s) \/ RecvOutOfOrder(e, s)
             \/ RecvFin(e, s) \/ RecvRst(e, s) \/ Splice(e, s)
      PROVE  UNCHANGED carryVars
  BY <1>4 DEF RecvOldData, RecvInOrder, RecvOutOfOrder, RecvFin, RecvRst, Splice, sendVars, subVars, carryVars
<1>5. ASSUME NEW s \in Sub,
             (\E k \in {"spare", "failover", "switch"} : StartJoin(s, k)) \/ JoinFail(s) \/ JoinRefused(s)
      PROVE  UNCHANGED carryVars
  BY <1>5 DEF StartJoin, JoinFail, JoinRefused, sendVars, subVars, carryVars
<1>6. ASSUME NEW e \in End, NEW s \in Sub,
             RecvGap(e, s) \/ ReadError(e, s) \/ PathDies(e, s) \/ CloseCarrier(e, s)
      PROVE  Carried(d)'
  <2>1. (KillSub(e, s, "off") \/ KillSub(e, s, "killed")) /\ UNCHANGED <<sBase, sNext>>
    BY <1>6 DEF RecvGap, ReadError, PathDies, CloseCarrier
  <2> QED BY <2>1, KillCarried
<1>7. ASSUME NEW s \in Sub, RetireKill(s) PROVE Carried(d)'
  <2>1. KillSub("client", s, "killed") /\ UNCHANGED <<sBase, sNext>>
    BY <1>7 DEF RetireKill
  <2> QED BY <1>0, <2>1, KillCarried
<1>8. CASE UNCHANGED vars
  BY <1>1, <1>8 DEF vars, sendVars, subVars, carryVars
<1>9. ASSUME NEW e \in End, App(e) \/ Tick(e) PROVE Carried(d)'
  BY <1>1, <1>2, <1>3, <1>9, TickRescueCarried DEF Tick
<1>10. ASSUME NEW e \in End, NEW s \in Sub,
              ReadLoop(e, s) \/ WriteLoop(e, s) \/ PathDies(e, s) \/ Splice(e, s) \/ CloseCarrier(e, s)
       PROVE  Carried(d)'
  BY <1>1, <1>4, <1>6, <1>10, RecvAckCarried, RecvRoleCarried, ReaderExitCarried, SendDataCarried, SendFinCarried
     DEF ReadLoop, WriteLoop
<1>11. ASSUME NEW s \in Sub, PathManager(s) PROVE Carried(d)'
  BY <1>1, <1>5, <1>7, <1>11, ServerJoinCarried, ClientAttachCarried, JoinSettleCarried DEF PathManager
<1> QED BY <1>8, <1>9, <1>10, <1>11 DEF Next

LEMMA InitCarried == Init => CarrierInv
<1> SUFFICES ASSUME Init PROVE CarrierInv
  OBVIOUS
<1>1. StreamInv
  BY InitStream
<1>2. ASSUME NEW e \in End PROVE Carried(e)
  BY <1>2 DEF Init, Carried, AllKept, OnLive, FinLive, OnActive
<1> QED BY <1>1, <1>2 DEF CarrierInv

(* What is sent and not acknowledged is on a carrier that will requeue it, *)
(* in every state.                                                         *)
THEOREM CarrierInvariant == Spec => []CarrierInv
<1>1. Init => CarrierInv
  BY InitCarried
<1>2. CarrierInv /\ [Next]_vars => CarrierInv'
  BY NextStream, NextCarried DEF CarrierInv, StreamInv
<1> QED BY <1>1, <1>2, PTL DEF Spec

(* No unacknowledged byte is ever without a carrier that lives or a place  *)
(* in the retransmission queue: whichever subflows die, retire or are      *)
(* switched, and however spans are split, nothing is forgotten.            *)
THEOREM NothingIsForgotten == Spec => []NothingForgotten
<1>1. CarrierInv => NothingForgotten
  <2> SUFFICES ASSUME CarrierInv, NEW e \in End, NEW k \in sBase[e] .. (sNext[e] - 1)
               PROVE  \E sp \in retx[e] \cup UNION {infl[e][s] : s \in LiveSubs(e)} :
                        sp.off <= k /\ k < SpanEnd(sp)
    BY DEF NothingForgotten
  <2>1. Carried(e) /\ sBase[e] \in Nat /\ sNext[e] \in Nat
    BY DEF CarrierInv, StreamInv, TypeOK, SendType
  <2>2. Kept(e, k)
    BY <2>1 DEF Carried, AllKept
  <2>3. \A s \in Sub : infl[e][s] # {} => s \in LiveSubs(e)
    BY <2>1 DEF Carried, OnLive, LiveSubs
  <2> QED BY <2>2, <2>3 DEF Kept, Holds
<1> QED BY <1>1, CarrierInvariant, PTL

(* The selector has data in flight on its active carrier only.             *)
THEOREM SelectorHasOneCarrier == Spec => []OneCarrier
<1>1. CarrierInv => OneCarrier
  BY DEF CarrierInv, Carried, OnActive, OneCarrier
<1> QED BY <1>1, CarrierInvariant, PTL

(* The FIN counts as sent only while the carrier it went out on lives.     *)
THEOREM FinHasLiveCarrier == Spec => []FinOnLive
<1>1. CarrierInv => FinOnLive
  BY DEF CarrierInv, Carried, FinLive, FinOnLive
<1> QED BY <1>1, CarrierInvariant, PTL
=============================================================================

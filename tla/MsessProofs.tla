---------------------------- MODULE MsessProofs ----------------------------
(***************************************************************************)
(* Proofs about Msess, for every Data, window, segment size, number of     *)
(* subflow slots and mode: its variables keep their types, and what Read   *)
(* returns is a prefix of what the peer wrote.  The inductive invariant is *)
(* StreamInv: types, SpansWritten (nothing is sent that was not written)   *)
(* and BytesInPlace (wherever a byte is, it is the one its sender wrote at *)
(* that offset).                                                           *)
(***************************************************************************)
EXTENDS Msess, SequenceTheorems, TLAPS

----------------------------------------------------------------------------
(* Operators.                                                              *)

LEMMA PeerType == \A e \in End : Peer(e) \in End /\ Peer(e) # e /\ Peer(Peer(e)) = e
BY DEF End, Peer

LEMMA SubFacts == None \notin Sub /\ 1 \in Sub
BY SubAssumption DEF None, Sub

LEMMA ClipType ==
  ASSUME NEW S \in SUBSET Span, NEW base \in Nat
  PROVE  Clip(S, base) \in SUBSET Span
BY DEF Clip, Span, SpanEnd

LEMMA FrameMakers ==
  /\ \A o \in Nat, b \in Seq(Byte) : [type |-> "data", off |-> o, bytes |-> b] \in Frame
  /\ \A o \in Nat, b \in BOOLEAN : [type |-> "ack", next |-> o, fin |-> b] \in Frame
  /\ \A o \in Nat : [type |-> "fin", off |-> o] \in Frame
  /\ [type |-> "rst"] \in Frame /\ [type |-> "role"] \in Frame /\ [type |-> "lost"] \in Frame
BY DEF Frame

LEMMA FrameFields ==
  ASSUME NEW f \in Frame
  PROVE  /\ f.type = "data" => f.off \in Nat /\ f.bytes \in Seq(Byte)
         /\ f.type = "ack" => f.next \in Nat /\ f.fin \in BOOLEAN
         /\ f.type = "fin" => f.off \in Nat
BY DEF Frame

LEMMA ReceiveType ==
  ASSUME TypeOK, NEW e \in End, NEW s \in Sub, NEW type, Receive(e, s, type)
  PROVE  /\ net[Peer(e)][s] \in Seq(Frame) /\ net[Peer(e)][s] # <<>>
         /\ Received(e, s) \in Frame /\ Received(e, s).type = type
         /\ Consumed(e, s) \in [End -> [Sub -> Seq(Frame)]]
<1>1. net[Peer(e)][s] \in Seq(Frame) /\ net[Peer(e)][s] # <<>>
  BY PeerType DEF TypeOK, NetType, Receive
<1>2. Received(e, s) \in Frame /\ Tail(net[Peer(e)][s]) \in Seq(Frame)
  BY <1>1, HeadTailProperties DEF Received
<1>3. Consumed(e, s) \in [End -> [Sub -> Seq(Frame)]]
  BY <1>2, PeerType DEF Consumed, TypeOK, NetType
<1> QED BY <1>1, <1>2, <1>3 DEF Receive, Received

LEMMA MaybeAckType ==
  ASSUME TypeOK, NEW e \in End, NEW force \in BOOLEAN, NEW rr \in Nat,
         NEW finAt \in Nat \cup {NoFin}, NEW re \in BOOLEAN,
         NEW n \in [End -> [Sub -> Seq(Frame)]],
         MaybeAck(e, force, rr, finAt, re, n)
  PROVE  AckType' /\ NetType'
<1> DEFINE fin == finAt # NoFin /\ rr >= finAt
           ack == [type |-> "ack", next |-> rr, fin |-> fin]
<1>1. fin \in BOOLEAN /\ ack \in Frame
  BY FrameMakers
<1>2. AckCarriers(e) \subseteq Sub
  BY DEF AckCarriers, LiveSubs
<1>3. ASSUME NEW c \in AckCarriers(e) PROVE [n EXCEPT ![e][c] = Append(@, ack)] \in [End -> [Sub -> Seq(Frame)]]
  BY <1>1, <1>2, AppendProperties
<1>4. NetType'
  <2>1. \/ net' = n
        \/ \E c \in AckCarriers(e) : net' = [n EXCEPT ![e][c] = Append(@, ack)]
    BY DEF MaybeAck
  <2>2. CASE net' = n
    BY <2>2 DEF NetType
  <2>3. ASSUME NEW c \in AckCarriers(e), net' = [n EXCEPT ![e][c] = Append(@, ack)]
        PROVE  NetType'
    BY <1>3, <2>3 DEF NetType
  <2> QED BY <2>1, <2>2, <2>3
<1>5. AckType'
  BY <1>1 DEF MaybeAck, AckType, TypeOK
<1> QED BY <1>4, <1>5

LEMMA KillType ==
  ASSUME TypeOK, NEW e \in End, NEW s \in Sub, NEW after \in {"off", "killed"},
         KillSub(e, s, after)
  PROVE  /\ SubType'
         /\ retx' \in [End -> SUBSET Span] /\ finOn' \in [End -> Sub \cup {None}]
         /\ reAck' \in [End -> BOOLEAN]
<1>1. Clip(infl[e][s], sBase[e]) \in SUBSET Span
  BY ClipType DEF TypeOK, SubType, SendType
<1>2. retx' \in [End -> SUBSET Span]
  BY <1>1 DEF KillSub, TypeOK, SendType
<1> QED BY <1>2 DEF KillSub, TypeOK, SubType, SendType, AckType

LEMMA AbortType ==
  ASSUME TypeOK, NEW e \in End, Abort(e)
  PROVE  status' \in [End -> {"open", "finished", "aborted"}] /\ NetType'
<1>1. \A s \in Sub : Append(net[e][s], [type |-> "rst"]) \in Seq(Frame)
  BY FrameMakers, AppendProperties DEF TypeOK, NetType
<1>2. [s \in Sub |-> IF Live(e, s) THEN Append(net[e][s], [type |-> "rst"]) ELSE net[e][s]]
        \in [Sub -> Seq(Frame)]
  BY <1>1 DEF TypeOK, NetType
<1> QED BY <1>2 DEF Abort, TypeOK, NetType, SessType

LEMMA OnAckType ==
  ASSUME TypeOK, NEW e \in End, NEW next \in Nat, NEW fin \in BOOLEAN, OnAck(e, next, fin)
  PROVE  /\ sq' \in [End -> Seq(Byte)] /\ sBase' \in [End -> Nat]
         /\ infl' \in [End -> [Sub -> SUBSET Span]] /\ finAcked' \in [End -> BOOLEAN]
<1> DEFINE to == IF next > sBase[e] THEN Lesser(next, Written(e)) ELSE sBase[e]
<1>1. sBase[e] \in Nat /\ sq[e] \in Seq(Byte) /\ Len(sq[e]) \in Nat /\ Written(e) \in Nat
  BY LenProperties DEF TypeOK, SendType, Written
<1>2. to \in Nat /\ to >= sBase[e] /\ to <= Written(e)
  BY <1>1 DEF Lesser, Written
<1>3. SubSeq(sq[e], to - sBase[e] + 1, Len(sq[e])) \in Seq(Byte)
  <2>1. \A i \in (to - sBase[e] + 1) .. Len(sq[e]) : sq[e][i] \in Byte
    BY <1>1, <1>2, ElementOfSeq
  <2> HIDE DEF to
  <2> QED BY <2>1, <1>1, <1>2, SubSeqProperties
<1>4. sq' \in [End -> Seq(Byte)]
  BY <1>3 DEF OnAck, TypeOK, SendType
<1>5. sBase' \in [End -> Nat]
  BY <1>2 DEF OnAck, TypeOK, SendType
<1>6. infl' \in [End -> [Sub -> SUBSET Span]]
  BY DEF OnAck, TypeOK, SubType
<1>7. finAcked' \in [End -> BOOLEAN]
  BY DEF OnAck, TypeOK, SendType
<1> QED BY <1>4, <1>5, <1>6, <1>7

LEMMA PutType ==
  ASSUME NEW n \in [End -> [Sub -> Seq(Frame)]], NEW e \in End, NEW s \in Sub, NEW f \in Frame
  PROVE  Put(n, e, s, f) \in [End -> [Sub -> Seq(Frame)]]
BY AppendProperties DEF Put

LEMMA SetActiveType ==
  ASSUME TypeOK, NEW s \in Sub, SetActive(s)
  PROVE  SubType' /\ NetType' /\ retx' \in [End -> SUBSET Span]
<1> DEFINE old == active["client"]
<1>0. "client" \in End
  BY DEF End
<1>1. NetType'
  BY <1>0, PutType, FrameMakers DEF SetActive, TypeOK, NetType
<1>2. active' \in [End -> Sub \cup {None}]
  BY DEF SetActive, TypeOK, SubType
<1>3. CASE old \in LiveSubs("client") \ {s}
  <2>1. old \in Sub
    BY <1>3 DEF LiveSubs
  <2>2. Clip(infl["client"][old], sBase["client"]) \in SUBSET Span
    BY <1>0, <2>1, ClipType DEF TypeOK, SubType, SendType
  <2>a. retx' = [retx EXCEPT !["client"] = @ \cup Clip(infl["client"][old], sBase["client"])]
    BY <1>3 DEF SetActive
  <2>b. retx \in [End -> SUBSET Span]
    BY DEF TypeOK, SendType
  <2>3. retx' \in [End -> SUBSET Span]
    BY <1>0, <2>2, <2>a, <2>b
  <2>c. /\ infl' = [infl EXCEPT !["client"][old] = {}]
        /\ st' = [st EXCEPT !["client"][old] = "retiring"]
    BY <1>3 DEF SetActive
  <2>d. /\ infl \in [End -> [Sub -> SUBSET Span]]
        /\ st \in [End -> [Sub -> {"off", "up", "retiring", "killed"}]]
    BY DEF TypeOK, SubType
  <2>4. infl' \in [End -> [Sub -> SUBSET Span]]
    BY <1>0, <2>1, <2>c, <2>d
  <2>5. st' \in [End -> [Sub -> {"off", "up", "retiring", "killed"}]]
    BY <1>0, <2>1, <2>c, <2>d
  <2> QED BY <1>1, <1>2, <2>3, <2>4, <2>5 DEF SubType
<1>4. CASE old \notin LiveSubs("client") \ {s}
  BY <1>1, <1>2, <1>4 DEF SetActive, TypeOK, SubType, SendType
<1> QED BY <1>3, <1>4

LEMMA ForgetType ==
  ASSUME TypeOK, NEW e \in End, NEW s \in Sub
  PROVE  Forget(e, s) \in [End -> [Sub -> Seq(Frame)]]
BY PeerType, EmptySeq DEF Forget, TypeOK, NetType

(* The segment BytesOf takes a byte from holds that byte.                  *)
LEMMA BytesOfPick ==
  ASSUME NEW segs \in SUBSET Segment, NEW a \in Nat, NEW b \in Nat, Covers(segs, a, b), a <= b
  PROVE  /\ BytesOf(segs, a, b) \in Seq(Byte)
         /\ Len(BytesOf(segs, a, b)) = b - a
         /\ \A i \in 1 .. (b - a) : \E sg \in segs :
              /\ a + i - sg.off \in 1 .. Len(sg.bytes)
              /\ sg.off + (a + i - sg.off) = a + i
              /\ BytesOf(segs, a, b)[i] = sg.bytes[a + i - sg.off]
<1> DEFINE pick(i) == CHOOSE x \in segs : x.off <= a + i - 1 /\ a + i - 1 < SegEnd(x)
<1>1. ASSUME NEW i \in 1 .. (b - a)
      PROVE  /\ pick(i) \in segs
             /\ a + i - pick(i).off \in 1 .. Len(pick(i).bytes)
             /\ pick(i).bytes[a + i - pick(i).off] \in Byte
             /\ pick(i).off + (a + i - pick(i).off) = a + i
  <2>1. a + i - 1 \in a .. (b - 1)
    OBVIOUS
  <2>2. \E x \in segs : x.off <= a + i - 1 /\ a + i - 1 < SegEnd(x)
    BY <2>1 DEF Covers
  <2>3. pick(i) \in segs /\ pick(i).off <= a + i - 1 /\ a + i - 1 < SegEnd(pick(i))
    BY <2>2
  <2> HIDE DEF pick
  <2>4. pick(i).off \in Nat /\ pick(i).bytes \in Seq(Byte) /\ Len(pick(i).bytes) \in Nat
    BY <2>3 DEF Segment
  <2>5. a + i - pick(i).off \in 1 .. Len(pick(i).bytes)
    BY <2>3, <2>4 DEF SegEnd
  <2>6. pick(i).bytes[a + i - pick(i).off] \in Byte
    BY <2>4, <2>5, ElementOfSeq
  <2>7. pick(i).off + (a + i - pick(i).off) = a + i
    BY <2>4
  <2> QED BY <2>3, <2>5, <2>6, <2>7
<1>2. BytesOf(segs, a, b) = [i \in 1 .. (b - a) |-> pick(i).bytes[a + i - pick(i).off]]
  BY DEF BytesOf
<1> HIDE DEF pick
<1>3. b - a \in Nat
  OBVIOUS
<1>4. BytesOf(segs, a, b) \in [1 .. (b - a) -> Byte]
  BY <1>1, <1>2
<1>5. BytesOf(segs, a, b) \in Seq(Byte)
  BY <1>3, <1>4, SeqDef
<1>6. Len(BytesOf(segs, a, b)) = b - a
  BY <1>3, <1>4, <1>5, LenProperties
<1> QED BY <1>1, <1>2, <1>5, <1>6

----------------------------------------------------------------------------
(* Type correctness.                                                       *)

LEMMA KeepTypes ==
  ASSUME TypeOK
  PROVE  /\ UNCHANGED sendVars => SendType'
         /\ UNCHANGED recvVars => RecvType'
         /\ UNCHANGED ackVars => AckType'
         /\ UNCHANGED subVars => SubType'
         /\ UNCHANGED sessVars => SessType'
         /\ UNCHANGED net => NetType'
         /\ UNCHANGED joinVars => JoinType'
         /\ UNCHANGED histVars => HistType'
         /\ UNCHANGED boundVars => BoundType'
<1> USE DEF TypeOK
<1>1. UNCHANGED sendVars => SendType'
  BY DEF sendVars, SendType
<1>2. UNCHANGED recvVars => RecvType'
  BY DEF recvVars, RecvType
<1>3. UNCHANGED ackVars => AckType'
  BY DEF ackVars, AckType
<1>4. UNCHANGED subVars => SubType'
  BY DEF subVars, SubType
<1>5. UNCHANGED sessVars => SessType'
  BY DEF sessVars, SessType
<1>6. UNCHANGED net => NetType'
  BY DEF NetType
<1>7. UNCHANGED joinVars => JoinType'
  BY DEF joinVars, JoinType
<1>8. UNCHANGED histVars => HistType'
  BY DEF histVars, HistType
<1>9. UNCHANGED boundVars => BoundType'
  BY DEF boundVars, BoundType
<1> QED BY <1>1, <1>2, <1>3, <1>4, <1>5, <1>6, <1>7, <1>8, <1>9

LEMMA InitType == Init => TypeOK
<1> SUFFICES ASSUME Init PROVE TypeOK
  OBVIOUS
<1> USE SubFacts, EmptySeq DEF Init
<1>1. SendType
  BY DEF SendType, NoFin
<1>2. RecvType
  BY DEF RecvType, NoFin
<1>3. AckType
  BY DEF AckType
<1>4. SubType
  BY DEF SubType
<1>5. SessType /\ NetType
  BY DEF SessType, NetType
<1>6. JoinType
  BY DEF JoinType
<1>7. HistType /\ BoundType
  BY DEF HistType, BoundType
<1> QED BY <1>1, <1>2, <1>3, <1>4, <1>5, <1>6, <1>7 DEF TypeOK

LEMMA WriteType == ASSUME TypeOK, NEW e \in End, Write(e) PROVE TypeOK'
<1>1. PICK k \in 1 .. Lesser(Window - Len(sq[e]), Len(Data[e]) - Written(e)) :
        sq' = [sq EXCEPT ![e] = @ \o SubSeq(Data[e], Written(e) + 1, Written(e) + k)]
  BY DEF Write
<1>2. Data[e] \in Seq(Byte) /\ Len(Data[e]) \in Nat /\ sq[e] \in Seq(Byte) /\ Written(e) \in Nat
  BY DataAssumption, LenProperties DEF TypeOK, SendType, Written
<1>3. k \in Nat /\ Written(e) + k <= Len(Data[e])
  BY <1>1, <1>2, SizeAssumption, LenProperties DEF Lesser
<1>4. \A i \in (Written(e) + 1) .. (Written(e) + k) : Data[e][i] \in Byte
  BY <1>2, <1>3, ElementOfSeq
<1>5. SubSeq(Data[e], Written(e) + 1, Written(e) + k) \in Seq(Byte)
  BY <1>2, <1>3, <1>4, SubSeqProperties
<1>6. sq' \in [End -> Seq(Byte)]
  BY <1>1, <1>2, <1>5, ConcatProperties DEF TypeOK, SendType
<1>7. SendType'
  BY <1>6 DEF TypeOK, SendType, Write
<1> QED BY <1>7, KeepTypes DEF TypeOK, Write

LEMMA ReadType == ASSUME TypeOK, NEW e \in End, Read(e) PROVE TypeOK'
<1>1. PICK k \in 1 .. Len(rq[e]) :
        /\ rq' = [rq EXCEPT ![e] = SubSeq(@, k + 1, Len(@))]
        /\ rRead' = [rRead EXCEPT ![e] = @ + k]
        /\ got' = [got EXCEPT ![e] = @ \o SubSeq(rq[e], 1, k)]
        /\ MaybeAck(e, FALSE, rRead[e] + k, peerFinAt[e], reAck[e], net)
  BY DEF Read
<1>2. rq[e] \in Seq(Byte) /\ Len(rq[e]) \in Nat /\ got[e] \in Seq(Byte) /\ rRead[e] + k \in Nat
  BY LenProperties DEF TypeOK, RecvType, HistType
<1>3. \A i \in 1 .. Len(rq[e]) : rq[e][i] \in Byte
  BY <1>2, ElementOfSeq
<1>4. SubSeq(rq[e], k + 1, Len(rq[e])) \in Seq(Byte) /\ SubSeq(rq[e], 1, k) \in Seq(Byte)
  BY <1>2, <1>3, SubSeqProperties
<1>a. peerFinAt[e] \in Nat \cup {NoFin} /\ reAck[e] \in BOOLEAN
        /\ net \in [End -> [Sub -> Seq(Frame)]]
  BY DEF TypeOK, RecvType, AckType, NetType
<1>5. AckType' /\ NetType'
  BY <1>1, <1>2, <1>a, MaybeAckType
<1>6. RecvType'
  BY <1>1, <1>2, <1>4 DEF TypeOK, RecvType, Read
<1>7. HistType'
  BY <1>1, <1>2, <1>4, ConcatProperties DEF TypeOK, HistType, Read
<1> QED BY <1>5, <1>6, <1>7, KeepTypes DEF TypeOK, Read

LEMMA AppType == ASSUME TypeOK, NEW e \in End, App(e) PROVE TypeOK'
<1>1. CASE ReadEOF(e)
  <2>1. HistType'
    BY <1>1 DEF TypeOK, HistType, ReadEOF
  <2> QED BY <1>1, <2>1, KeepTypes DEF TypeOK, ReadEOF
<1>2. CASE CloseWrite(e)
  <2>1. Written(e) \in Nat
    BY LenProperties DEF TypeOK, SendType, Written
  <2>2. SendType'
    BY <1>2, <2>1 DEF TypeOK, SendType, CloseWrite
  <2> QED BY <1>2, <2>2, KeepTypes DEF TypeOK, CloseWrite
<1>3. CASE Close(e)
  <2>1. Written(e) \in Nat /\ rRead[e] + Len(rq[e]) \in Nat
    BY LenProperties DEF TypeOK, SendType, RecvType, Written
  <2>2. SendType'
    BY <1>3, <2>1 DEF TypeOK, SendType, Close
  <2>3. RecvType'
    BY <1>3, <2>1, EmptySeq DEF TypeOK, RecvType, Close
  <2>a. peerFinAt[e] \in Nat \cup {NoFin} /\ reAck[e] \in BOOLEAN
          /\ net \in [End -> [Sub -> Seq(Frame)]]
    BY DEF TypeOK, RecvType, AckType, NetType
  <2>b. MaybeAck(e, TRUE, rRead[e] + Len(rq[e]), peerFinAt[e], reAck[e], net)
    BY <1>3 DEF Close
  <2>4. AckType' /\ NetType'
    BY <2>1, <2>a, <2>b, MaybeAckType
  <2>5. SessType'
    BY <1>3 DEF TypeOK, SessType, Close
  <2> QED BY <1>3, <2>2, <2>3, <2>4, <2>5, KeepTypes DEF TypeOK, Close
<1> QED BY <1>1, <1>2, <1>3, WriteType, ReadType DEF App
\* the bytes a DATA frame copies for span sp, and the spans a writeLoop emits
Payload(e, sp) == SubSeq(sq[e], sp.off - sBase[e] + 1, sp.off - sBase[e] + sp.n)
Buffered(e, sp) == sp \in Span /\ sBase[e] <= sp.off /\ sp.n >= 1 /\ SpanEnd(sp) <= Written(e)

LEMMA PayloadType ==
  ASSUME TypeOK, NEW e \in End, NEW sp, Buffered(e, sp)
  PROVE  /\ Payload(e, sp) \in Seq(Byte) /\ Len(Payload(e, sp)) = sp.n
         /\ \A i \in 1 .. sp.n : Payload(e, sp)[i] = sq[e][sp.off - sBase[e] + i]
<1> DEFINE m == sp.off - sBase[e] + 1
           n == sp.off - sBase[e] + sp.n
<1>1. /\ sq[e] \in Seq(Byte) /\ Len(sq[e]) \in Nat /\ sBase[e] \in Nat
      /\ Written(e) = sBase[e] + Len(sq[e])
      /\ sp.off \in Nat /\ sp.n \in Nat
      /\ sBase[e] <= sp.off /\ sp.n >= 1 /\ sp.off + sp.n <= Written(e)
  BY LenProperties DEF TypeOK, SendType, Written, Buffered, Span, SpanEnd
<1>2. m \in Nat /\ n \in Nat /\ 1 <= m /\ m <= n /\ n <= Len(sq[e]) /\ n - m + 1 = sp.n
  BY <1>1
<1>a. \A i \in 1 .. sp.n : m + i - 1 = sp.off - sBase[e] + i
  BY <1>1
<1> HIDE DEF m, n
<1>3. \A i \in m .. n : sq[e][i] \in Byte
  BY <1>1, <1>2, ElementOfSeq
<1>4. /\ SubSeq(sq[e], m, n) \in Seq(Byte) /\ Len(SubSeq(sq[e], m, n)) = n - m + 1
      /\ \A i \in 1 .. (n - m + 1) : SubSeq(sq[e], m, n)[i] = sq[e][m + i - 1]
  BY <1>1, <1>2, <1>3, SubSeqProperties
<1>5. Payload(e, sp) = SubSeq(sq[e], m, n)
  BY DEF Payload, m, n
<1> QED BY <1>2, <1>a, <1>4, <1>5

\* what SendData does: it emits one span of buffered bytes
Sends(e, s, sp) ==
  /\ Buffered(e, sp)
  /\ net' = [net EXCEPT ![e][s] =
               Append(@, [type |-> "data", off |-> sp.off, bytes |-> Payload(e, sp)])]
  /\ infl' = [infl EXCEPT ![e][s] = @ \cup {sp}]
  /\ \/ /\ sNext' = sNext
        /\ retx' \in [End -> SUBSET Span]
        /\ \A x \in retx'[e] : SpanEnd(x) <= Written(e)
        /\ \A d \in End \ {e} : retx'[d] = retx[d]
     \/ /\ sNext' = [sNext EXCEPT ![e] = SpanEnd(sp)]
        /\ retx' = [retx EXCEPT ![e] = {}]

LEMMA SendDataStep ==
  ASSUME TypeOK, SpansWritten, NEW e \in End, NEW s \in Sub, SendData(e, s)
  PROVE  \E sp \in Span : Sends(e, s, sp)
<1> DEFINE again == Clip(retx[e], sBase[e])
           fresh == IF sNext[e] < sBase[e] THEN sBase[e] ELSE sNext[e]
<1>1. /\ retx \in [End -> SUBSET Span] /\ sBase[e] \in Nat /\ sNext[e] \in Nat
      /\ Len(sq[e]) \in Nat /\ Written(e) = sBase[e] + Len(sq[e])
      /\ SegmentSize \in Nat \ {0}
  BY LenProperties, SizeAssumption DEF TypeOK, SendType, Written
<1>2. \A sp \in again : Buffered(e, sp)
  <2>1. again \in SUBSET Span
    BY <1>1, ClipType
  <2>2. \A sp \in retx[e] : SpanEnd(sp) <= Written(e) /\ sp.off \in Nat /\ sp.n \in Nat \ {0}
    BY <1>1 DEF SpansWritten, Span
  <2>3. ASSUME NEW sp \in again PROVE Buffered(e, sp)
    <3>1. PICK x \in retx[e] :
            /\ SpanEnd(x) > sBase[e]
            /\ sp = [off |-> IF x.off < sBase[e] THEN sBase[e] ELSE x.off,
                     n |-> SpanEnd(x) - (IF x.off < sBase[e] THEN sBase[e] ELSE x.off)]
      BY <2>3 DEF Clip
    <3>2. sp.off = (IF x.off < sBase[e] THEN sBase[e] ELSE x.off) /\ sp.n = SpanEnd(x) - sp.off
      BY <3>1
    <3>3. x.off \in Nat /\ x.n \in Nat \ {0} /\ SpanEnd(x) = x.off + x.n /\ SpanEnd(x) <= Written(e)
      BY <2>2 DEF SpanEnd
    <3>4. sp \in Span
      BY <2>1, <2>3
    <3> QED BY <1>1, <3>1, <3>2, <3>3, <3>4 DEF Buffered, SpanEnd
  <2> QED BY <2>3
<1>3. CASE \E sp \in again :
             LET n == Lesser(sp.n, SegmentSize)
                 rest == {[off |-> sp.off + k, n |-> sp.n - k] : k \in {n} \ {sp.n}}
             IN  /\ net' = [net EXCEPT ![e][s] =
                              Append(@, [type |-> "data", off |-> sp.off,
                                         bytes |-> Payload(e, [off |-> sp.off, n |-> n])])]
                 /\ infl' = [infl EXCEPT ![e][s] = @ \cup {[off |-> sp.off, n |-> n]}]
                 /\ retx' = [retx EXCEPT ![e] = (again \ {sp}) \cup rest]
                 /\ sNext' = sNext
  <2>1. PICK sp \in again :
             LET n == Lesser(sp.n, SegmentSize)
                 rest == {[off |-> sp.off + k, n |-> sp.n - k] : k \in {n} \ {sp.n}}
             IN  /\ net' = [net EXCEPT ![e][s] =
                              Append(@, [type |-> "data", off |-> sp.off,
                                         bytes |-> Payload(e, [off |-> sp.off, n |-> n])])]
                 /\ infl' = [infl EXCEPT ![e][s] = @ \cup {[off |-> sp.off, n |-> n]}]
                 /\ retx' = [retx EXCEPT ![e] = (again \ {sp}) \cup rest]
                 /\ sNext' = sNext
    BY <1>3
  <2> DEFINE n == Lesser(sp.n, SegmentSize)
             out == [off |-> sp.off, n |-> n]
             rest == {[off |-> sp.off + k, n |-> sp.n - k] : k \in {n} \ {sp.n}}
  <2>2. sp \in Span /\ sp.off \in Nat /\ sp.n \in Nat /\ sp.n >= 1 /\ SpanEnd(sp) <= Written(e)
    BY <1>2, <2>1 DEF Buffered, Span
  <2>3. n \in Nat /\ n >= 1 /\ n <= sp.n
    BY <1>1, <2>2 DEF Lesser
  <2>4. out \in Span /\ Buffered(e, out)
    BY <1>1, <1>2, <2>1, <2>2, <2>3 DEF Buffered, Span, SpanEnd
  <2>5. rest \in SUBSET Span /\ \A x \in rest : SpanEnd(x) <= Written(e)
    BY <1>1, <2>2, <2>3 DEF Span, SpanEnd
  <2>6. again \in SUBSET Span /\ \A x \in again : SpanEnd(x) <= Written(e)
    BY <1>2 DEF Buffered
  <2>7. retx' = [retx EXCEPT ![e] = (again \ {sp}) \cup rest]
    BY <2>1
  <2> HIDE DEF rest, again
  <2>8. /\ retx' \in [End -> SUBSET Span]
        /\ \A x \in retx'[e] : SpanEnd(x) <= Written(e)
        /\ \A d \in End \ {e} : retx'[d] = retx[d]
    BY <1>1, <2>5, <2>6, <2>7
  <2> QED BY <2>1, <2>4, <2>8 DEF Sends
<1>4. CASE /\ fresh < Written(e)
           /\ LET out == [off |-> fresh, n |-> Lesser(Written(e) - fresh, SegmentSize)]
              IN  /\ net' = [net EXCEPT ![e][s] =
                               Append(@, [type |-> "data", off |-> fresh, bytes |-> Payload(e, out)])]
                  /\ infl' = [infl EXCEPT ![e][s] = @ \cup {out}]
                  /\ sNext' = [sNext EXCEPT ![e] = fresh + Lesser(Written(e) - fresh, SegmentSize)]
           /\ retx' = [retx EXCEPT ![e] = {}]
  <2> DEFINE out == [off |-> fresh, n |-> Lesser(Written(e) - fresh, SegmentSize)]
  <2>1. out \in Span /\ Buffered(e, out) /\ SpanEnd(out) = fresh + Lesser(Written(e) - fresh, SegmentSize)
    BY <1>1, <1>4 DEF Buffered, Span, SpanEnd, Lesser
  <2> QED BY <1>4, <2>1 DEF Sends
<1> QED BY <1>3, <1>4 DEF SendData, Payload
LEMMA SendDataType ==
  ASSUME TypeOK, SpansWritten, NEW e \in End, NEW s \in Sub, SendData(e, s) PROVE TypeOK'
<1>1. PICK sp \in Span : Sends(e, s, sp)
  BY SendDataStep
<1>2. [type |-> "data", off |-> sp.off, bytes |-> Payload(e, sp)] \in Frame
  BY <1>1, PayloadType, FrameMakers DEF Span, Sends
<1>3. NetType'
  BY <1>1, <1>2, AppendProperties DEF TypeOK, NetType, Sends
<1>4. infl' \in [End -> [Sub -> SUBSET Span]]
  BY <1>1 DEF TypeOK, SubType, Sends
<1>5. SubType'
  BY <1>4 DEF SendData, TypeOK, SubType
<1>6. SpanEnd(sp) \in Nat
  BY DEF SpanEnd, Span
<1>7. sNext' \in [End -> Nat] /\ retx' \in [End -> SUBSET Span]
  BY <1>1, <1>6 DEF TypeOK, SendType, Sends
<1>8. SendType'
  BY <1>7 DEF SendData, TypeOK, SendType
<1> QED BY <1>3, <1>5, <1>8, KeepTypes DEF TypeOK, SendData

LEMMA SendFinType == ASSUME TypeOK, NEW e \in End, NEW s \in Sub, SendFin(e, s) PROVE TypeOK'
<1>1. finOff[e] \in Nat
  BY DEF SendFin, TypeOK, SendType, NoFin
<1>2. NetType'
  BY <1>1, FrameMakers, AppendProperties DEF SendFin, TypeOK, NetType
<1>3. SendType'
  BY DEF SendFin, TypeOK, SendType
<1> QED BY <1>2, <1>3, KeepTypes DEF TypeOK, SendFin

\* what RecvInOrder appends
InOrderStep(e, s, b) ==
  LET f == Received(e, s)
      segs == ooo[e] \cup {[off |-> f.off, bytes |-> f.bytes]}
      a == Next0(e)
  IN  /\ b > a /\ Covers(segs, a, b)
      /\ ooo' = [ooo EXCEPT ![e] = {sg \in ooo[e] : sg.off > b}]
      /\ IF rDiscard[e]
         THEN /\ rRead' = [rRead EXCEPT ![e] = b]
              /\ MaybeAck(e, FALSE, b, peerFinAt[e], reAck[e], Consumed(e, s))
              /\ UNCHANGED rq
         ELSE /\ rq' = [rq EXCEPT ![e] = @ \o BytesOf(segs, a, b)]
              /\ net' = Consumed(e, s)
              /\ UNCHANGED <<rRead, ackVars>>

LEMMA RecvInOrderStep ==
  ASSUME TypeOK, NEW e \in End, NEW s \in Sub, RecvInOrder(e, s)
  PROVE  /\ Received(e, s) \in Frame /\ Received(e, s).type = "data"
         /\ Consumed(e, s) \in [End -> [Sub -> Seq(Frame)]]
         /\ ooo[e] \cup {[off |-> Received(e, s).off, bytes |-> Received(e, s).bytes]} \in SUBSET Segment
         /\ Next0(e) \in Nat /\ Next0(e) = rRead[e] + Len(rq[e])
         /\ \E b \in Nat : InOrderStep(e, s, b)
<1> DEFINE f == Received(e, s)
           segs == ooo[e] \cup {[off |-> f.off, bytes |-> f.bytes]}
<1>1. Receive(e, s, "data")
  BY DEF RecvInOrder
<1>2. f \in Frame /\ f.type = "data" /\ Consumed(e, s) \in [End -> [Sub -> Seq(Frame)]]
  BY <1>1, ReceiveType
<1>3. f.off \in Nat /\ f.bytes \in Seq(Byte)
  BY <1>2, FrameFields
<1>4. segs \in SUBSET Segment
  BY <1>3 DEF Segment, TypeOK, RecvType
<1>5. Next0(e) \in Nat /\ Next0(e) = rRead[e] + Len(rq[e])
  BY LenProperties DEF Next0, TypeOK, RecvType
<1>6. \A sg \in segs : SegEnd(sg) \in Nat
  BY <1>4, LenProperties DEF Segment, SegEnd
<1>7. \E b \in {SegEnd(sg) : sg \in segs} : InOrderStep(e, s, b)
  BY DEF RecvInOrder, InOrderStep
<1> QED BY <1>2, <1>4, <1>5, <1>6, <1>7

LEMMA RecvInOrderType == ASSUME TypeOK, NEW e \in End, NEW s \in Sub, RecvInOrder(e, s) PROVE TypeOK'
<1> DEFINE segs == ooo[e] \cup {[off |-> Received(e, s).off, bytes |-> Received(e, s).bytes]}
<1>1. PICK b \in Nat : InOrderStep(e, s, b)
  BY RecvInOrderStep
<1>2. /\ Consumed(e, s) \in [End -> [Sub -> Seq(Frame)]] /\ segs \in SUBSET Segment
      /\ Next0(e) \in Nat /\ Next0(e) < b /\ Covers(segs, Next0(e), b)
  BY <1>1, RecvInOrderStep DEF InOrderStep
<1>3. BytesOf(segs, Next0(e), b) \in Seq(Byte)
  <2>1. Next0(e) <= b
    BY <1>2
  <2> HIDE DEF segs
  <2> QED BY <1>2, <2>1, BytesOfPick
<1>4. peerFinAt[e] \in Nat \cup {NoFin} /\ reAck[e] \in BOOLEAN
  BY DEF TypeOK, RecvType, AckType
<1>5. AckType' /\ NetType'
  <2>1. CASE rDiscard[e]
    <3>1. MaybeAck(e, FALSE, b, peerFinAt[e], reAck[e], Consumed(e, s))
      BY <1>1, <2>1 DEF InOrderStep
    <3> QED BY <1>2, <1>4, <3>1, MaybeAckType
  <2>2. CASE ~rDiscard[e]
    <3>1. net' = Consumed(e, s) /\ UNCHANGED ackVars
      BY <1>1, <2>2 DEF InOrderStep
    <3> QED BY <1>2, <3>1, KeepTypes DEF NetType
  <2> QED BY <2>1, <2>2
<1>6. ooo' \in [End -> SUBSET Segment]
  BY <1>1 DEF InOrderStep, TypeOK, RecvType
<1>7. rq' \in [End -> Seq(Byte)] /\ rRead' \in [End -> Nat]
  <2>1. CASE rDiscard[e]
    BY <1>1, <2>1 DEF InOrderStep, TypeOK, RecvType
  <2>2. CASE ~rDiscard[e]
    <3>1. rq' = [rq EXCEPT ![e] = @ \o BytesOf(segs, Next0(e), b)] /\ rRead' = rRead
      BY <1>1, <2>2 DEF InOrderStep
    <3> QED BY <1>3, <3>1, ConcatProperties DEF TypeOK, RecvType
  <2> QED BY <2>1, <2>2
<1>8. RecvType'
  BY <1>6, <1>7 DEF RecvInOrder, TypeOK, RecvType
<1> QED BY <1>5, <1>8, KeepTypes DEF TypeOK, RecvInOrder
(* killLocked keeps the types, whatever its caller does to the network.    *)
LEMMA KillKeeps ==
  ASSUME TypeOK, NEW e \in End, NEW s \in Sub, KillSub(e, s, "off") \/ KillSub(e, s, "killed"),
         UNCHANGED <<sq, sBase, sNext, finOff, finAcked, rescueAt, recvVars, ackSent, ackFin,
                     sessVars, joinVars, histVars>>,
         NetType', boundVars' = boundVars \/ BoundType'
  PROVE  TypeOK'
<1>1. SubType' /\ retx' \in [End -> SUBSET Span] /\ finOn' \in [End -> Sub \cup {None}]
      /\ reAck' \in [End -> BOOLEAN]
  BY KillType
<1>2. SendType'
  BY <1>1 DEF TypeOK, SendType
<1>3. AckType'
  BY <1>1 DEF TypeOK, AckType
<1> QED BY <1>1, <1>2, <1>3, KeepTypes DEF TypeOK

LEMMA ReadLoopType == ASSUME TypeOK, NEW e \in End, NEW s \in Sub, ReadLoop(e, s) PROVE TypeOK'
<1>1. CASE RecvOldData(e, s)
  <2>1. NetType'
    BY <1>1, ReceiveType DEF RecvOldData, NetType
  <2>2. AckType'
    BY <1>1 DEF RecvOldData, TypeOK, AckType
  <2> QED BY <1>1, <2>1, <2>2, KeepTypes DEF TypeOK, RecvOldData
<1>2. CASE RecvOutOfOrder(e, s)
  <2>1. Receive(e, s, "data") /\ net' = Consumed(e, s)
    BY <1>2 DEF RecvOutOfOrder
  <2>2. NetType'
    BY <2>1, ReceiveType DEF NetType
  <2>3. [off |-> Received(e, s).off, bytes |-> Received(e, s).bytes] \in Segment
    BY <2>1, ReceiveType, FrameFields DEF Segment
  <2>4. ooo' \in [End -> SUBSET Segment]
    BY <1>2, <2>3 DEF RecvOutOfOrder, TypeOK, RecvType
  <2>5. RecvType'
    BY <1>2, <2>4 DEF RecvOutOfOrder, TypeOK, RecvType
  <2> QED BY <1>2, <2>2, <2>5, KeepTypes DEF TypeOK, RecvOutOfOrder
<1>3. CASE RecvAck(e, s)
  <2>1. Receive(e, s, "ack") /\ net' = Consumed(e, s) /\ OnAck(e, Received(e, s).next, Received(e, s).fin)
    BY <1>3 DEF RecvAck
  <2>2. NetType' /\ Received(e, s).next \in Nat /\ Received(e, s).fin \in BOOLEAN
    BY <2>1, ReceiveType, FrameFields DEF NetType
  <2>3. /\ sq' \in [End -> Seq(Byte)] /\ sBase' \in [End -> Nat]
        /\ infl' \in [End -> [Sub -> SUBSET Span]] /\ finAcked' \in [End -> BOOLEAN]
    BY <2>1, <2>2, OnAckType
  <2>4. SendType'
    BY <1>3, <2>3 DEF RecvAck, TypeOK, SendType
  <2>5. SubType'
    BY <1>3, <2>3 DEF RecvAck, TypeOK, SubType
  <2> QED BY <1>3, <2>2, <2>4, <2>5, KeepTypes DEF TypeOK, RecvAck
<1>4. CASE RecvFin(e, s)
  <2>1. /\ Receive(e, s, "fin") /\ MaybeAck(e, TRUE, rRead[e], Received(e, s).off, reAck[e], Consumed(e, s))
    BY <1>4 DEF RecvFin
  <2>2. Consumed(e, s) \in [End -> [Sub -> Seq(Frame)]] /\ Received(e, s).off \in Nat
    BY <2>1, ReceiveType, FrameFields
  <2>3. rRead[e] \in Nat /\ reAck[e] \in BOOLEAN
    BY DEF TypeOK, RecvType, AckType
  <2>4. AckType' /\ NetType'
    BY <2>1, <2>2, <2>3, MaybeAckType
  <2>5. RecvType'
    BY <1>4, <2>2 DEF RecvFin, TypeOK, RecvType
  <2> QED BY <1>4, <2>4, <2>5, KeepTypes DEF TypeOK, RecvFin
<1>5. CASE RecvRst(e, s)
  <2>1. NetType'
    BY <1>5, ReceiveType DEF RecvRst, NetType
  <2>2. SessType'
    BY <1>5 DEF RecvRst, TypeOK, SessType
  <2> QED BY <1>5, <2>1, <2>2, KeepTypes DEF TypeOK, RecvRst
<1>6. CASE e = "server" /\ RecvRole(s)
  <2>1. NetType'
    BY <1>6, ReceiveType DEF RecvRole, NetType
  <2>2. active' \in [End -> Sub \cup {None}]
    BY <1>6 DEF RecvRole, TypeOK, SubType
  <2>3. infl' \in [End -> [Sub -> SUBSET Span]] /\ retx' \in [End -> SUBSET Span]
    <3>1. CASE infl' = infl /\ retx' = retx
      BY <3>1 DEF TypeOK, SubType, SendType
    <3>2. CASE /\ active["server"] # None
               /\ retx' = [retx EXCEPT !["server"] = @ \cup Clip(infl["server"][active["server"]], sBase["server"])]
               /\ infl' = [infl EXCEPT !["server"][active["server"]] = {}]
      <4>1. active["server"] \in Sub /\ "server" \in End
        BY <3>2 DEF TypeOK, SubType, End
      <4>2. Clip(infl["server"][active["server"]], sBase["server"]) \in SUBSET Span
        BY <4>1, ClipType DEF TypeOK, SubType, SendType
      <4> QED BY <3>2, <4>1, <4>2 DEF TypeOK, SubType, SendType
    <3> QED BY <1>6, <3>1, <3>2 DEF RecvRole
  <2>4. SendType'
    BY <1>6, <2>3 DEF RecvRole, TypeOK, SendType
  <2>5. SubType'
    BY <1>6, <2>2, <2>3 DEF RecvRole, TypeOK, SubType
  <2> QED BY <1>6, <2>1, <2>4, <2>5, KeepTypes DEF TypeOK, RecvRole
<1>7. CASE RecvGap(e, s)
  <2>1. NetType'
    BY <1>7, EmptySeq DEF RecvGap, TypeOK, NetType
  <2> QED BY <1>7, <2>1, KillKeeps DEF RecvGap
<1>8. CASE ReadError(e, s)
  <2>1. NetType'
    BY <1>8, ForgetType DEF ReadError, NetType
  <2> QED BY <1>8, <2>1, KillKeeps DEF ReadError
<1>9. CASE ReaderExit(e, s)
  <2>1. NetType'
    BY <1>9, ForgetType DEF ReaderExit, NetType
  <2>2. SubType'
    BY <1>9 DEF ReaderExit, TypeOK, SubType
  <2> QED BY <1>9, <2>1, <2>2, KeepTypes DEF TypeOK, ReaderExit
<1> QED BY <1>1, <1>2, <1>3, <1>4, <1>5, <1>6, <1>7, <1>8, <1>9, RecvInOrderType DEF ReadLoop

LEMMA DeathType ==
  ASSUME TypeOK, NEW e \in End, NEW s \in Sub,
         PathDies(e, s) \/ Splice(e, s) \/ CloseCarrier(e, s) \/ (e = "client" /\ RetireKill(s))
  PROVE  TypeOK'
<1>1. CASE PathDies(e, s)
  <2>1. BoundType' /\ NetType'
    BY <1>1 DEF PathDies, TypeOK, BoundType, NetType
  <2> QED BY <1>1, <2>1, KillKeeps DEF PathDies
<1>2. CASE Splice(e, s)
  <2>1. BoundType'
    BY <1>2 DEF Splice, TypeOK, BoundType
  <2>2. PICK i \in 1 .. (Len(net[e][s]) - 1) : net' = [net EXCEPT ![e][s][i] = [type |-> "lost"]]
    BY <1>2 DEF Splice
  <2>3. net[e][s] \in Seq(Frame) /\ i \in 1 .. Len(net[e][s])
    BY <2>2, LenProperties DEF TypeOK, NetType
  <2>4. [net[e][s] EXCEPT ![i] = [type |-> "lost"]] \in Seq(Frame)
    BY <2>3, FrameMakers, ExceptSeq
  <2>5. NetType'
    BY <2>2, <2>4 DEF TypeOK, NetType
  <2> QED BY <1>2, <2>1, <2>5, KeepTypes DEF TypeOK, Splice
<1>3. CASE CloseCarrier(e, s)
  BY <1>3, KillKeeps, KeepTypes DEF CloseCarrier
<1>4. CASE e = "client" /\ RetireKill(s)
  BY <1>4, KillKeeps, KeepTypes DEF RetireKill
<1> QED BY <1>1, <1>2, <1>3, <1>4
LEMMA PathManagerType == ASSUME TypeOK, NEW s \in Sub, PathManager(s) PROVE TypeOK'
<1>0. "client" \in End /\ "server" \in End
  BY DEF End
<1>1. ASSUME NEW k \in {"spare", "failover", "switch"}, StartJoin(s, k) PROVE TypeOK'
  <2>1. JoinType'
    BY <1>0, <1>1 DEF StartJoin, TypeOK, JoinType, RecvType
  <2>2. BoundType'
    BY <1>1 DEF StartJoin, TypeOK, BoundType
  <2> QED BY <1>1, <2>1, <2>2, KeepTypes DEF TypeOK, StartJoin
<1>2. CASE ServerJoin(s)
  <2>1. OnAck("server", rxNext[s], FALSE) /\ rxNext[s] \in Nat
    BY <1>2 DEF ServerJoin, TypeOK, JoinType
  <2>2. /\ sq' \in [End -> Seq(Byte)] /\ sBase' \in [End -> Nat]
        /\ infl' \in [End -> [Sub -> SUBSET Span]] /\ finAcked' \in [End -> BOOLEAN]
    BY <1>0, <2>1, OnAckType
  <2>3. SendType'
    BY <1>2, <2>2 DEF ServerJoin, TypeOK, SendType
  <2>4. SubType'
    <3>1. CASE Open("server")
      <4>1. /\ st' = [st EXCEPT !["server"][s] = "up"]
            /\ active' = [active EXCEPT !["server"] = IF Mode = "selector" /\ @ = None THEN s ELSE @]
        BY <1>2, <3>1 DEF ServerJoin
      <4> QED BY <2>2, <4>1 DEF TypeOK, SubType
    <3>2. CASE ~Open("server")
      <4>1. UNCHANGED <<st, active>>
        BY <1>2, <3>2 DEF ServerJoin
      <4> QED BY <2>2, <4>1 DEF TypeOK, SubType
    <3> QED BY <3>1, <3>2
  <2>5. JoinType'
    BY <1>2 DEF ServerJoin, TypeOK, JoinType
  <2> QED BY <1>2, <2>3, <2>4, <2>5, KeepTypes DEF TypeOK, ServerJoin
<1>3. CASE ClientAttach(s)
  <2>1. SubType' /\ NetType'
    <3>1. CASE Open("client")
      <4>1. /\ st' = [st EXCEPT !["client"][s] = "up"] /\ net' = net /\ infl' = infl
            /\ active' = [active EXCEPT !["client"] = IF Mode = "selector" /\ @ = None THEN s ELSE @]
        BY <1>3, <3>1 DEF ClientAttach
      <4> QED BY <4>1 DEF TypeOK, SubType, NetType
    <3>2. CASE ~Open("client")
      <4>1. net' = [net EXCEPT !["server"][s] = <<>>] /\ UNCHANGED <<st, active, infl>>
        BY <1>3, <3>2 DEF ClientAttach
      <4> QED BY <4>1, EmptySeq DEF TypeOK, SubType, NetType
    <3> QED BY <3>1, <3>2
  <2>3. JoinType'
    BY <1>3 DEF ClientAttach, TypeOK, JoinType
  <2> QED BY <1>3, <2>1, <2>3, KeepTypes DEF TypeOK, ClientAttach
<1>4. CASE JoinSettle(s)
  <2>1. JoinType'
    BY <1>4 DEF JoinSettle, TypeOK, JoinType
  <2>2. SubType' /\ NetType' /\ retx' \in [End -> SUBSET Span]
    <3>1. CASE SetActive(s)
      BY <3>1, SetActiveType
    <3>2. CASE /\ st' = [st EXCEPT !["client"][s] = IF Live("client", s) THEN "retiring" ELSE @]
               /\ UNCHANGED <<active, net, retx, infl>>
      BY <3>2 DEF TypeOK, SubType, NetType, SendType
    <3> QED BY <1>4, <3>1, <3>2 DEF JoinSettle
  <2>3. SendType'
    BY <1>4, <2>2 DEF JoinSettle, TypeOK, SendType
  <2> QED BY <1>4, <2>1, <2>2, <2>3, KeepTypes DEF TypeOK, JoinSettle, JoinType
<1>5. CASE Failover(s)
  <2>1. SubType' /\ NetType' /\ retx' \in [End -> SUBSET Span]
    BY <1>5, SetActiveType DEF Failover
  <2>2. SendType'
    BY <1>5, <2>1 DEF Failover, TypeOK, SendType
  <2> QED BY <1>5, <2>1, <2>2, KeepTypes DEF TypeOK, Failover
<1>6. CASE JoinFail(s)
  <2>1. NetType'
    BY <1>6, EmptySeq DEF JoinFail, TypeOK, NetType
  <2>2. JoinType'
    BY <1>6 DEF JoinFail, TypeOK, JoinType
  <2>3. BoundType'
    BY <1>6 DEF JoinFail, TypeOK, BoundType
  <2> QED BY <1>6, <2>1, <2>2, <2>3, KeepTypes DEF TypeOK, JoinFail
<1>7. CASE JoinRefused(s)
  <2>1. JoinType'
    BY <1>7 DEF JoinRefused, TypeOK, JoinType
  <2>2. NetType' /\ SessType'
    <3>1. CASE Abort("client")
      BY <1>0, <1>7, <3>1, AbortType DEF JoinRefused, TypeOK, SessType
    <3>2. CASE UNCHANGED <<status, net>>
      BY <1>7, <3>2 DEF JoinRefused, TypeOK, SessType, NetType
    <3> QED BY <1>7, <3>1, <3>2 DEF JoinRefused
  <2> QED BY <1>7, <2>1, <2>2, KeepTypes DEF TypeOK, JoinRefused
<1>8. CASE RetireKill(s)
  BY <1>0, <1>8, DeathType
<1> QED BY <1>1, <1>2, <1>3, <1>4, <1>5, <1>6, <1>7, <1>8 DEF PathManager

LEMMA TickType == ASSUME TypeOK, NEW e \in End, Tick(e) PROVE TypeOK'
<1>1. CASE TickAck(e)
  <2>1. MaybeAck(e, TRUE, rRead[e], peerFinAt[e], reAck[e], net)
    BY <1>1 DEF TickAck
  <2>2. /\ rRead[e] \in Nat /\ peerFinAt[e] \in Nat \cup {NoFin} /\ reAck[e] \in BOOLEAN
        /\ net \in [End -> [Sub -> Seq(Frame)]]
    BY DEF TypeOK, RecvType, AckType, NetType
  <2>3. AckType' /\ NetType'
    BY <2>1, <2>2, MaybeAckType
  <2> QED BY <1>1, <2>3, KeepTypes DEF TypeOK, TickAck
<1>2. CASE TickRescue(e)
  <2>1. PICK s \in LiveSubs(e) : \E sp \in infl[e][s] : retx' = [retx EXCEPT ![e] = @ \cup Clip({sp}, sBase[e])]
    BY <1>2 DEF TickRescue
  <2>a. PICK sp \in infl[e][s] : retx' = [retx EXCEPT ![e] = @ \cup Clip({sp}, sBase[e])]
    BY <2>1
  <2>2. {sp} \in SUBSET Span /\ sBase[e] \in Nat
    BY <2>1 DEF LiveSubs, TypeOK, SubType, SendType
  <2>3. retx' \in [End -> SUBSET Span]
    BY <2>a, <2>2, ClipType DEF TypeOK, SendType
  <2>4. SendType'
    BY <1>2, <2>2, <2>3 DEF TickRescue, TypeOK, SendType
  <2>5. BoundType'
    BY <1>2 DEF TickRescue, TypeOK, BoundType
  <2> QED BY <1>2, <2>4, <2>5, KeepTypes DEF TypeOK, TickRescue
<1>3. CASE TickFinish(e)
  <2>1. SessType'
    BY <1>3 DEF TickFinish, TypeOK, SessType
  <2> QED BY <1>3, <2>1, KeepTypes DEF TypeOK, TickFinish
<1>4. CASE TickReset(e)
  <2>1. NetType' /\ SessType'
    BY <1>4, AbortType DEF TickReset, TypeOK, SessType
  <2> QED BY <1>4, <2>1, KeepTypes DEF TypeOK, TickReset
<1>5. CASE GiveUp(e)
  <2>1. NetType' /\ SessType'
    BY <1>5, AbortType DEF GiveUp, TypeOK, SessType
  <2>2. BoundType'
    BY <1>5 DEF GiveUp, TypeOK, BoundType
  <2> QED BY <1>5, <2>1, <2>2, KeepTypes DEF TypeOK, GiveUp
<1> QED BY <1>1, <1>2, <1>3, <1>4, <1>5 DEF Tick

LEMMA NextType == TypeOK /\ SpansWritten /\ [Next]_vars => TypeOK'
<1> SUFFICES ASSUME TypeOK, SpansWritten, [Next]_vars PROVE TypeOK'
  OBVIOUS
<1>1. ASSUME NEW e \in End, App(e) \/ Tick(e) PROVE TypeOK'
  BY <1>1, AppType, TickType
<1>2. ASSUME NEW e \in End, NEW s \in Sub,
             ReadLoop(e, s) \/ WriteLoop(e, s) \/ PathDies(e, s) \/ Splice(e, s) \/ CloseCarrier(e, s)
      PROVE  TypeOK'
  BY <1>2, ReadLoopType, SendDataType, SendFinType, DeathType DEF WriteLoop
<1>3. ASSUME NEW s \in Sub, PathManager(s) PROVE TypeOK'
  BY <1>3, PathManagerType
<1>4. CASE UNCHANGED vars
  BY <1>4, KeepTypes DEF vars, TypeOK
<1> QED BY <1>1, <1>2, <1>3, <1>4 DEF Next
----------------------------------------------------------------------------
(* The sender's spans stay within what was written.                        *)

LEMMA ClipBound ==
  ASSUME NEW S \in SUBSET Span, NEW base \in Nat, NEW w \in Nat, \A x \in S : SpanEnd(x) <= w
  PROVE  \A x \in Clip(S, base) : SpanEnd(x) <= w
<1> SUFFICES ASSUME NEW y \in Clip(S, base) PROVE SpanEnd(y) <= w
  OBVIOUS
<1>1. PICK x \in S : y = [off |-> IF x.off < base THEN base ELSE x.off,
                          n |-> SpanEnd(x) - (IF x.off < base THEN base ELSE x.off)]
  BY DEF Clip
<1>2. x.off \in Nat /\ x.n \in Nat /\ SpanEnd(x) \in Nat
  BY DEF Span, SpanEnd
<1>3. SpanEnd(y) = SpanEnd(x)
  BY <1>1, <1>2 DEF SpanEnd
<1> QED BY <1>3

LEMMA SpansStep ==
  ASSUME TypeOK, SpansWritten, sNext' = sNext,
         \A d \in End : Written(d)' \in Nat /\ Written(d) \in Nat /\ Written(d)' >= Written(d),
         \A d \in End : \A x \in retx'[d] : x \in retx[d] \/ SpanEnd(x) <= Written(d),
         \A d \in End, s \in Sub : infl'[d][s] \subseteq infl[d][s],
         TypeOK'
  PROVE  SpansWritten'
<1> SUFFICES ASSUME NEW d \in End
             PROVE  /\ sNext'[d] <= Written(d)'
                    /\ \A sp \in retx'[d] : SpanEnd(sp) <= Written(d)'
                    /\ \A s \in Sub : \A sp \in infl'[d][s] : SpanEnd(sp) <= Written(d)'
  BY DEF SpansWritten, SpanEnd
<1>1. sNext[d] \in Nat /\ sNext[d] <= Written(d)
  BY DEF TypeOK, SendType, SpansWritten
<1>2. ASSUME NEW sp \in retx'[d] PROVE SpanEnd(sp) <= Written(d)'
  <2>1. SpanEnd(sp) \in Nat
    BY <1>2 DEF TypeOK, SendType, Span, SpanEnd
  <2> QED BY <1>2, <2>1 DEF SpansWritten
<1>3. ASSUME NEW s \in Sub, NEW sp \in infl'[d][s] PROVE SpanEnd(sp) <= Written(d)'
  <2>1. SpanEnd(sp) \in Nat
    BY <1>3 DEF TypeOK, SubType, Span, SpanEnd
  <2> QED BY <1>3, <2>1 DEF SpansWritten
<1> QED BY <1>1, <1>2, <1>3

LEMMA WrittenSame ==
  ASSUME TypeOK, UNCHANGED <<sq, sBase>>
  PROVE  \A d \in End : Written(d)' \in Nat /\ Written(d) \in Nat /\ Written(d)' = Written(d)
BY LenProperties DEF TypeOK, SendType, Written

LEMMA KillSpans ==
  ASSUME TypeOK, TypeOK', SpansWritten, NEW e \in End, NEW s \in Sub, NEW after, KillSub(e, s, after),
         UNCHANGED <<sq, sBase, sNext>>
  PROVE  SpansWritten'
<1>1. /\ infl[e][s] \in SUBSET Span /\ sBase[e] \in Nat /\ Written(e) \in Nat
      /\ \A x \in infl[e][s] : SpanEnd(x) <= Written(e)
  BY WrittenSame DEF TypeOK, SubType, SendType, SpansWritten
<1>2. \A x \in Clip(infl[e][s], sBase[e]) : SpanEnd(x) <= Written(e)
  BY <1>1, ClipBound
<1>3. retx' = [retx EXCEPT ![e] = @ \cup Clip(infl[e][s], sBase[e])] /\ infl' = [infl EXCEPT ![e][s] = {}]
  BY DEF KillSub
<1>4. \A d \in End : \A x \in retx'[d] : x \in retx[d] \/ SpanEnd(x) <= Written(d)
  BY <1>2, <1>3 DEF TypeOK, SendType
<1>5. \A d \in End, x \in Sub : infl'[d][x] \subseteq infl[d][x]
  BY <1>3 DEF TypeOK, SubType
<1> QED BY <1>4, <1>5, WrittenSame, SpansStep

(* setActiveLocked and the server's ROLE handler move one carrier's spans. *)
LEMMA MoveSpans ==
  ASSUME TypeOK, TypeOK', SpansWritten, NEW e \in End, NEW old \in Sub, UNCHANGED <<sq, sBase, sNext>>,
         \/ UNCHANGED <<retx, infl>>
         \/ /\ retx' = [retx EXCEPT ![e] = @ \cup Clip(infl[e][old], sBase[e])]
            /\ infl' = [infl EXCEPT ![e][old] = {}]
  PROVE  SpansWritten'
<1>1. /\ infl[e][old] \in SUBSET Span /\ sBase[e] \in Nat /\ Written(e) \in Nat
      /\ \A x \in infl[e][old] : SpanEnd(x) <= Written(e)
  BY WrittenSame DEF TypeOK, SubType, SendType, SpansWritten
<1>2. \A x \in Clip(infl[e][old], sBase[e]) : SpanEnd(x) <= Written(e)
  BY <1>1, ClipBound
<1>3. CASE UNCHANGED <<retx, infl>>
  <2>1. \A d \in End : \A x \in retx'[d] : x \in retx[d]
    BY <1>3
  <2>2. \A d \in End, x \in Sub : infl'[d][x] \subseteq infl[d][x]
    BY <1>3
  <2> QED BY <2>1, <2>2, WrittenSame, SpansStep
<1>4. CASE /\ retx' = [retx EXCEPT ![e] = @ \cup Clip(infl[e][old], sBase[e])]
           /\ infl' = [infl EXCEPT ![e][old] = {}]
  <2>1. \A d \in End : \A x \in retx'[d] : x \in retx[d] \/ SpanEnd(x) <= Written(d)
    BY <1>2, <1>4 DEF TypeOK, SendType
  <2>2. \A d \in End, x \in Sub : infl'[d][x] \subseteq infl[d][x]
    BY <1>4 DEF TypeOK, SubType
  <2> QED BY <2>1, <2>2, WrittenSame, SpansStep
<1> QED BY <1>3, <1>4

(* onAckLocked: the acknowledged bytes leave the queue, and none other.    *)
LEMMA OnAckStep ==
  ASSUME TypeOK, NEW e \in End, NEW next \in Nat, NEW fin \in BOOLEAN, OnAck(e, next, fin)
  PROVE  /\ sBase'[e] \in Nat /\ sBase[e] <= sBase'[e] /\ sBase'[e] <= Written(e)
         /\ sq'[e] \in Seq(Byte) /\ Len(sq'[e]) = Written(e) - sBase'[e]
         /\ \A i \in 1 .. Len(sq'[e]) : sq'[e][i] = sq[e][sBase'[e] - sBase[e] + i]
         /\ \A d \in End \ {e} : sq'[d] = sq[d] /\ sBase'[d] = sBase[d]
         /\ \A d \in End, s \in Sub : infl'[d][s] \subseteq infl[d][s]
<1> DEFINE to == IF next > sBase[e] THEN Lesser(next, Written(e)) ELSE sBase[e]
<1>1. sBase[e] \in Nat /\ sq[e] \in Seq(Byte) /\ Len(sq[e]) \in Nat /\ Written(e) = sBase[e] + Len(sq[e])
  BY LenProperties DEF TypeOK, SendType, Written
<1>2. to \in Nat /\ to >= sBase[e] /\ to <= Written(e)
  BY <1>1 DEF Lesser
<1>3. /\ sq' = [sq EXCEPT ![e] = SubSeq(@, to - sBase[e] + 1, Len(@))]
      /\ sBase' = [sBase EXCEPT ![e] = to]
      /\ infl' = [infl EXCEPT ![e] = [s \in Sub |-> {sp \in infl[e][s] : SpanEnd(sp) > to}]]
  BY DEF OnAck
<1> HIDE DEF to
<1>4. \A i \in (to - sBase[e] + 1) .. Len(sq[e]) : sq[e][i] \in Byte
  BY <1>1, <1>2, ElementOfSeq
<1>5. sq'[e] = SubSeq(sq[e], to - sBase[e] + 1, Len(sq[e])) /\ sBase'[e] = to
  BY <1>3 DEF TypeOK, SendType
<1>6. /\ sq'[e] \in Seq(Byte)
      /\ Len(sq'[e]) = Len(sq[e]) - (to - sBase[e])
      /\ \A i \in 1 .. Len(sq'[e]) : sq'[e][i] = sq[e][to - sBase[e] + i]
  <2> DEFINE k == to - sBase[e]
             n == Len(sq[e])
  <2>1. k \in Nat /\ n \in Nat /\ k <= n
    BY <1>1, <1>2
  <2>2. sq'[e] = SubSeq(sq[e], k + 1, n) /\ \A i \in (k + 1) .. n : sq[e][i] \in Byte
    BY <1>4, <1>5
  <2> HIDE DEF k, n
  <2>3. /\ k + 1 \in Int /\ n \in Int /\ n - (k + 1) + 1 = n - k /\ n - k \in Nat
        /\ (~ k + 1 <= n => n - k = 0)
        /\ \A i \in 1 .. (n - k) : k + 1 + i - 1 = k + i
    BY <2>1
  <2>4. /\ SubSeq(sq[e], k + 1, n) \in Seq(Byte)
        /\ Len(SubSeq(sq[e], k + 1, n)) = n - k
        /\ \A i \in 1 .. (n - k) : SubSeq(sq[e], k + 1, n)[i] = sq[e][k + i]
    BY <2>2, <2>3, SubSeqProperties
  <2>5. sq'[e] \in Seq(Byte) /\ Len(sq'[e]) = n - k /\ \A i \in 1 .. (n - k) : sq'[e][i] = sq[e][k + i]
    BY <2>2, <2>4
  <2> QED BY <2>5 DEF k, n
<1>7. \A d \in End, s \in Sub : infl'[d][s] \subseteq infl[d][s]
  BY <1>3 DEF TypeOK, SubType
<1>8. \A d \in End \ {e} : sq'[d] = sq[d] /\ sBase'[d] = sBase[d]
  BY <1>3 DEF TypeOK, SendType
<1>9. Len(sq'[e]) = Written(e) - to
  BY <1>1, <1>2, <1>6
<1> QED BY <1>1, <1>2, <1>5, <1>6, <1>7, <1>8, <1>9
LEMMA OnAckSpans ==
  ASSUME TypeOK, TypeOK', SpansWritten, NEW e \in End, NEW next \in Nat, NEW fin \in BOOLEAN,
         OnAck(e, next, fin), UNCHANGED <<sNext, retx>>
  PROVE  SpansWritten'
<1>1. \A d \in End : Written(d) \in Nat
  BY LenProperties DEF TypeOK, SendType, Written
<1>2. ASSUME NEW d \in End PROVE Written(d)' = Written(d)
  <2>1. CASE d = e
    <3>1. Written(e)' = sBase'[e] + Len(sq'[e])
      BY DEF Written
    <3> QED BY <1>1, <2>1, <3>1, OnAckStep
  <2>2. CASE d # e
    BY <2>2, OnAckStep DEF Written
  <2> QED BY <2>1, <2>2
<1>3. \A d \in End, s \in Sub : infl'[d][s] \subseteq infl[d][s]
  BY OnAckStep
<1> QED BY <1>1, <1>2, <1>3, SpansStep

LEMMA WriteStep ==
  ASSUME TypeOK, NEW e \in End, Write(e)
  PROVE  \E k \in Nat :
           /\ Written(e) + k <= Len(Data[e])
           /\ sq' = [sq EXCEPT ![e] = sq[e] \o SubSeq(Data[e], Written(e) + 1, Written(e) + k)]
           /\ Len(sq'[e]) = Len(sq[e]) + k
           /\ \A i \in 1 .. Len(sq'[e]) :
                sq'[e][i] = IF i <= Len(sq[e]) THEN sq[e][i] ELSE Data[e][Written(e) + i - Len(sq[e])]
<1>1. PICK k \in 1 .. Lesser(Window - Len(sq[e]), Len(Data[e]) - Written(e)) :
        sq' = [sq EXCEPT ![e] = sq[e] \o SubSeq(Data[e], Written(e) + 1, Written(e) + k)]
  BY DEF Write
<1>2. Data[e] \in Seq(Byte) /\ Len(Data[e]) \in Nat /\ sq[e] \in Seq(Byte) /\ Len(sq[e]) \in Nat /\ Written(e) \in Nat
  BY DataAssumption, LenProperties DEF TypeOK, SendType, Written
<1>3. k \in Nat /\ k >= 1 /\ Written(e) + k <= Len(Data[e])
  BY <1>1, <1>2, SizeAssumption, LenProperties DEF Lesser
<1>4. \A i \in (Written(e) + 1) .. (Written(e) + k) : Data[e][i] \in Byte
  BY <1>2, <1>3, ElementOfSeq
<1> DEFINE new == SubSeq(Data[e], Written(e) + 1, Written(e) + k)
<1>a. Written(e) + 1 \in Int /\ Written(e) + k \in Int /\ Written(e) + 1 <= Written(e) + k
      /\ (Written(e) + k) - (Written(e) + 1) + 1 = k
      /\ \A i \in 1 .. k : Written(e) + 1 + i - 1 = Written(e) + i
  BY <1>2, <1>3
<1>5. /\ new \in Seq(Byte) /\ Len(new) = k
      /\ \A i \in 1 .. k : new[i] = Data[e][Written(e) + i]
  BY <1>4, <1>a, SubSeqProperties
<1> HIDE DEF new
<1>6. /\ Len(sq[e] \o new) = Len(sq[e]) + k
      /\ \A i \in 1 .. (Len(sq[e]) + k) :
           (sq[e] \o new)[i] = IF i <= Len(sq[e]) THEN sq[e][i] ELSE new[i - Len(sq[e])]
  BY <1>2, <1>5, ConcatProperties
<1>7. sq'[e] = sq[e] \o new
  BY <1>1 DEF new, TypeOK, SendType
<1>8. ASSUME NEW i \in 1 .. Len(sq'[e])
      PROVE  sq'[e][i] = IF i <= Len(sq[e]) THEN sq[e][i] ELSE Data[e][Written(e) + i - Len(sq[e])]
  <2>1. CASE i <= Len(sq[e])
    BY <1>6, <1>7, <2>1
  <2>2. CASE ~(i <= Len(sq[e]))
    <3>1. i - Len(sq[e]) \in 1 .. k /\ Written(e) + (i - Len(sq[e])) = Written(e) + i - Len(sq[e])
      BY <1>2, <1>3, <1>6, <1>7, <2>2
    <3>2. sq'[e][i] = new[i - Len(sq[e])]
      BY <1>6, <1>7, <2>2
    <3> QED BY <1>5, <2>2, <3>1, <3>2
  <2> QED BY <2>1, <2>2
<1> QED BY <1>1, <1>3, <1>6, <1>7, <1>8

LEMMA SpansNext == TypeOK /\ TypeOK' /\ SpansWritten /\ [Next]_vars => SpansWritten'
<1> SUFFICES ASSUME TypeOK, TypeOK', SpansWritten, [Next]_vars PROVE SpansWritten'
  OBVIOUS
<1>0. "client" \in End /\ "server" \in End
  BY DEF End
<1>1. CASE UNCHANGED <<sq, sBase, sNext, retx, infl>>
  <2>1. \A d \in End : \A x \in retx'[d] : x \in retx[d]
    BY <1>1
  <2>2. \A d \in End, x \in Sub : infl'[d][x] \subseteq infl[d][x]
    BY <1>1
  <2> QED BY <1>1, <2>1, <2>2, WrittenSame, SpansStep
<1>2. ASSUME NEW e \in End, Write(e) PROVE SpansWritten'
  <2>1. PICK k \in Nat :
           /\ sq' = [sq EXCEPT ![e] = sq[e] \o SubSeq(Data[e], Written(e) + 1, Written(e) + k)]
           /\ Len(sq'[e]) = Len(sq[e]) + k
    BY <1>2, WriteStep
  <2>2. sBase' = sBase /\ sNext' = sNext /\ retx' = retx /\ infl' = infl
    BY <1>2 DEF Write, subVars
  <2>3. ASSUME NEW d \in End PROVE Written(d)' \in Nat /\ Written(d) \in Nat /\ Written(d)' >= Written(d)
    <3>1. sBase[d] \in Nat /\ Len(sq[d]) \in Nat
      BY LenProperties DEF TypeOK, SendType
    <3>2. Len(sq'[d]) = Len(sq[d]) + k \/ sq'[d] = sq[d]
      BY <2>1 DEF TypeOK, SendType
    <3>3. Written(d)' = sBase[d] + Len(sq'[d]) /\ Written(d) = sBase[d] + Len(sq[d])
      BY <2>2 DEF Written
    <3> QED BY <3>1, <3>2, <3>3
  <2>4. \A d \in End : \A x \in retx'[d] : x \in retx[d]
    BY <2>2
  <2>5. \A d \in End, x \in Sub : infl'[d][x] \subseteq infl[d][x]
    BY <2>2
  <2> QED BY <2>2, <2>3, <2>4, <2>5, SpansStep
<1>3. ASSUME NEW e \in End, NEW s \in Sub, SendData(e, s) PROVE SpansWritten'
  <2>1. PICK sp \in Span : Sends(e, s, sp)
    BY <1>3, SendDataStep
  <2>2. UNCHANGED <<sq, sBase>>
    BY <1>3 DEF SendData
  <2>3. \A d \in End : Written(d)' = Written(d)
    BY <2>2, WrittenSame
  <2>4. \A d \in End : sNext'[d] <= Written(d)
    BY <2>1 DEF Sends, SpansWritten, Buffered, TypeOK, SendType
  <2>5. ASSUME NEW d \in End, NEW x \in retx'[d] PROVE SpanEnd(x) <= Written(d)
    <3>1. CASE d = e
      <4>1. \A y \in retx'[e] : SpanEnd(y) <= Written(e)
        BY <2>1 DEF Sends, TypeOK, SendType
      <4> QED BY <2>5, <3>1, <4>1
    <3>2. CASE d # e
      <4>1. retx'[d] = retx[d]
        BY <2>1, <3>2 DEF Sends, TypeOK, SendType
      <4> QED BY <2>5, <4>1 DEF SpansWritten
    <3> QED BY <3>1, <3>2
  <2>6. \A d \in End, y \in Sub : \A x \in infl'[d][y] : SpanEnd(x) <= Written(d)
    BY <2>1 DEF Sends, SpansWritten, Buffered, TypeOK, SubType
  <2> QED BY <2>3, <2>4, <2>5, <2>6 DEF SpansWritten, SpanEnd
<1>4. ASSUME NEW e \in End, NEW s \in Sub, RecvAck(e, s) PROVE SpansWritten'
  <2>1. Receive(e, s, "ack") /\ OnAck(e, Received(e, s).next, Received(e, s).fin) /\ UNCHANGED <<sNext, retx>>
    BY <1>4 DEF RecvAck
  <2>2. Received(e, s).next \in Nat /\ Received(e, s).fin \in BOOLEAN
    BY <2>1, ReceiveType, FrameFields
  <2> QED BY <2>1, <2>2, OnAckSpans
<1>5. ASSUME NEW s \in Sub, ServerJoin(s) PROVE SpansWritten'
  <2>1. OnAck("server", rxNext[s], FALSE) /\ UNCHANGED <<sNext, retx>> /\ rxNext[s] \in Nat
    BY <1>5 DEF ServerJoin, TypeOK, JoinType
  <2> QED BY <1>0, <2>1, OnAckSpans
<1>6. ASSUME NEW e \in End, NEW s \in Sub,
             RecvGap(e, s) \/ ReadError(e, s) \/ PathDies(e, s) \/ CloseCarrier(e, s)
      PROVE  SpansWritten'
  <2>1. (KillSub(e, s, "off") \/ KillSub(e, s, "killed")) /\ UNCHANGED <<sq, sBase, sNext>>
    BY <1>6 DEF RecvGap, ReadError, PathDies, CloseCarrier
  <2> QED BY <2>1, KillSpans
<1>7. ASSUME NEW s \in Sub, RetireKill(s) PROVE SpansWritten'
  <2>1. KillSub("client", s, "killed") /\ UNCHANGED <<sq, sBase, sNext>>
    BY <1>7 DEF RetireKill
  <2> QED BY <1>0, <2>1, KillSpans
<1>8. ASSUME NEW s \in Sub, JoinSettle(s) \/ Failover(s) PROVE SpansWritten'
  <2>1. UNCHANGED <<sq, sBase, sNext>>
    BY <1>8 DEF JoinSettle, Failover
  <2>2. \/ UNCHANGED <<retx, infl>>
        \/ /\ active["client"] \in Sub
           /\ retx' = [retx EXCEPT !["client"] = @ \cup Clip(infl["client"][active["client"]], sBase["client"])]
           /\ infl' = [infl EXCEPT !["client"][active["client"]] = {}]
    BY <1>8 DEF JoinSettle, Failover, SetActive, LiveSubs
  <2> QED BY <1>0, <1>1, <2>1, <2>2, MoveSpans
<1>9. ASSUME NEW s \in Sub, RecvRole(s) PROVE SpansWritten'
  <2>1. UNCHANGED <<sq, sBase, sNext>>
    BY <1>9 DEF RecvRole
  <2>2. \/ UNCHANGED <<retx, infl>>
        \/ /\ active["server"] \in Sub
           /\ retx' = [retx EXCEPT !["server"] = @ \cup Clip(infl["server"][active["server"]], sBase["server"])]
           /\ infl' = [infl EXCEPT !["server"][active["server"]] = {}]
    BY <1>0, <1>9 DEF RecvRole, TypeOK, SubType
  <2> QED BY <1>0, <1>1, <2>1, <2>2, MoveSpans
<1>10. ASSUME NEW e \in End, TickRescue(e) PROVE SpansWritten'
  <2>1. PICK s \in LiveSubs(e) : \E sp \in infl[e][s] : retx' = [retx EXCEPT ![e] = @ \cup Clip({sp}, sBase[e])]
    BY <1>10 DEF TickRescue
  <2>2. PICK sp \in infl[e][s] : retx' = [retx EXCEPT ![e] = @ \cup Clip({sp}, sBase[e])]
    BY <2>1
  <2>a. s \in Sub /\ infl[e][s] \in SUBSET Span
    BY DEF LiveSubs, TypeOK, SubType
  <2>b. sBase[e] \in Nat /\ Written(e) \in Nat
    BY LenProperties DEF TypeOK, SendType, Written
  <2>3. {sp} \in SUBSET Span /\ sBase[e] \in Nat /\ SpanEnd(sp) <= Written(e) /\ Written(e) \in Nat
    BY <2>a, <2>b DEF SpansWritten
  <2>4. \A x \in Clip({sp}, sBase[e]) : SpanEnd(x) <= Written(e)
    BY <2>3, ClipBound
  <2>5. UNCHANGED <<sq, sBase, sNext, infl>>
    BY <1>10 DEF TickRescue, subVars
  <2>6. \A d \in End : \A x \in retx'[d] : x \in retx[d] \/ SpanEnd(x) <= Written(d)
    BY <2>2, <2>4 DEF TypeOK, SendType
  <2>7. \A d \in End, x \in Sub : infl'[d][x] \subseteq infl[d][x]
    BY <2>5
  <2> QED BY <2>5, <2>6, <2>7, WrittenSame, SpansStep
<1>11. ASSUME NEW e \in End, Read(e) \/ ReadEOF(e) \/ CloseWrite(e) \/ Close(e)
       PROVE  UNCHANGED <<sq, sBase, sNext, retx, infl>>
  BY <1>11 DEF Read, ReadEOF, CloseWrite, Close, sendVars, subVars
<1>12. ASSUME NEW e \in End, TickAck(e) \/ TickFinish(e) \/ TickReset(e) \/ GiveUp(e)
       PROVE  UNCHANGED <<sq, sBase, sNext, retx, infl>>
  BY <1>12 DEF TickAck, TickFinish, TickReset, GiveUp, sendVars, subVars
<1>13. ASSUME NEW e \in End, NEW s \in Sub,
              \/ SendFin(e, s) \/ RecvOldData(e, s) \/ RecvInOrder(e, s) \/ RecvOutOfOrder(e, s)
              \/ RecvFin(e, s) \/ RecvRst(e, s) \/ ReaderExit(e, s) \/ Splice(e, s)
       PROVE  UNCHANGED <<sq, sBase, sNext, retx, infl>>
  BY <1>13 DEF SendFin, RecvOldData, RecvInOrder, RecvOutOfOrder, RecvFin, RecvRst, ReaderExit, Splice,
               sendVars, subVars
<1>14. ASSUME NEW s \in Sub,
              \/ \E k \in {"spare", "failover", "switch"} : StartJoin(s, k)
              \/ ClientAttach(s) \/ JoinFail(s) \/ JoinRefused(s)
       PROVE  UNCHANGED <<sq, sBase, sNext, retx, infl>>
  BY <1>14 DEF StartJoin, ClientAttach, JoinFail, JoinRefused, sendVars, subVars
<1>15. CASE UNCHANGED vars
  BY <1>1, <1>15 DEF vars, sendVars, subVars
<1>16. ASSUME NEW e \in End, App(e) \/ Tick(e) PROVE SpansWritten'
  BY <1>1, <1>2, <1>10, <1>11, <1>12, <1>16 DEF App, Tick
<1>17. ASSUME NEW e \in End, NEW s \in Sub,
              ReadLoop(e, s) \/ WriteLoop(e, s) \/ PathDies(e, s) \/ Splice(e, s) \/ CloseCarrier(e, s)
       PROVE  SpansWritten'
  BY <1>1, <1>3, <1>4, <1>6, <1>9, <1>13, <1>17 DEF ReadLoop, WriteLoop
<1>18. ASSUME NEW s \in Sub, PathManager(s) PROVE SpansWritten'
  BY <1>1, <1>5, <1>7, <1>8, <1>14, <1>18 DEF PathManager
<1> QED BY <1>15, <1>16, <1>17, <1>18 DEF Next
----------------------------------------------------------------------------
(* Bytes stay in place: first the frames on the network.                   *)

\* every DATA frame of q was already in r
DataFrom(q, r) ==
  \A i \in 1 .. Len(q) : q[i].type = "data" => \E j \in 1 .. Len(r) : q[i] = r[j]

\* no step other than SendData puts DATA on the network
NoNewData == \A d \in End, x \in Sub : DataFrom(net'[d][x], net[d][x])

LEMMA DataFromFacts ==
  ASSUME NEW q \in Seq(Frame)
  PROVE  /\ DataFrom(q, q)
         /\ DataFrom(<<>>, q)
         /\ q # <<>> => DataFrom(Tail(q), q)
         /\ \A f \in Frame : f.type # "data" => DataFrom(Append(q, f), q)
<1>1. DataFrom(q, q)
  BY DEF DataFrom
<1>2. DataFrom(<<>>, q)
  BY EmptySeq DEF DataFrom
<1>3. ASSUME q # <<>> PROVE DataFrom(Tail(q), q)
  <2>1. Len(Tail(q)) = Len(q) - 1 /\ \A i \in 1 .. Len(Tail(q)) : Tail(q)[i] = q[i + 1]
    BY <1>3, HeadTailProperties
  <2>2. Len(q) \in Nat
    BY LenProperties
  <2>3. ASSUME NEW i \in 1 .. Len(Tail(q)) PROVE \E j \in 1 .. Len(q) : Tail(q)[i] = q[j]
    <3>1. i + 1 \in 1 .. Len(q)
      BY <2>1, <2>2
    <3> QED BY <2>1, <3>1
  <2> QED BY <2>3 DEF DataFrom
<1>4. ASSUME NEW f \in Frame, f.type # "data" PROVE DataFrom(Append(q, f), q)
  <2>1. /\ Len(q) \in Nat /\ Len(Append(q, f)) = Len(q) + 1
        /\ \A i \in 1 .. Len(q) : Append(q, f)[i] = q[i]
        /\ Append(q, f)[Len(q) + 1] = f
    BY AppendProperties, LenProperties
  <2>2. ASSUME NEW i \in 1 .. Len(Append(q, f)), Append(q, f)[i].type = "data"
        PROVE  \E j \in 1 .. Len(q) : Append(q, f)[i] = q[j]
    <3>1. i # Len(q) + 1
      BY <1>4, <2>1, <2>2
    <3>2. i \in 1 .. Len(q)
      BY <2>1, <3>1
    <3> QED BY <2>1, <3>2
  <2> QED BY <2>2 DEF DataFrom
<1> QED BY <1>1, <1>2, <1>3, <1>4

LEMMA DataFromTrans ==
  ASSUME NEW q, NEW r, NEW t, DataFrom(q, r), DataFrom(r, t)
  PROVE  DataFrom(q, t)
BY DEF DataFrom

(* Frames only leave, or the frame that is added is not DATA.              *)
LEMMA NetShrinks ==
  ASSUME TypeOK,
         \A d \in End, x \in Sub :
           \/ net'[d][x] = net[d][x] \/ net'[d][x] = <<>>
           \/ net[d][x] # <<>> /\ net'[d][x] = Tail(net[d][x])
           \/ \E f \in Frame : f.type # "data" /\ net'[d][x] = Append(net[d][x], f)
  PROVE  NoNewData
<1> SUFFICES ASSUME NEW d \in End, NEW x \in Sub PROVE DataFrom(net'[d][x], net[d][x])
  BY DEF NoNewData
<1>1. net[d][x] \in Seq(Frame)
  BY DEF TypeOK, NetType
<1> QED BY <1>1, DataFromFacts

LEMMA AckFrame ==
  ASSUME NEW e \in End, NEW force, NEW rr \in Nat, NEW finAt, NEW re, NEW n \in [End -> [Sub -> Seq(Frame)]],
         MaybeAck(e, force, rr, finAt, re, n)
  PROVE  \A d \in End, x \in Sub :
           \/ net'[d][x] = n[d][x]
           \/ \E f \in Frame : f.type # "data" /\ net'[d][x] = Append(n[d][x], f)
<1> DEFINE ack == [type |-> "ack", next |-> rr, fin |-> finAt # NoFin /\ rr >= finAt]
<1>1. ack \in Frame /\ ack.type # "data"
  BY FrameMakers
<1>2. net' = n \/ \E c \in AckCarriers(e) : net' = [n EXCEPT ![e][c] = Append(@, ack)]
  BY DEF MaybeAck
<1> HIDE DEF ack
<1>3. CASE net' = n
  BY <1>3
<1>4. ASSUME NEW c \in AckCarriers(e), net' = [n EXCEPT ![e][c] = Append(@, ack)],
             NEW d \in End, NEW x \in Sub
      PROVE  net'[d][x] = n[d][x] \/ net'[d][x] = Append(n[d][x], ack)
  <2>1. CASE d = e /\ x = c
    BY <1>4, <2>1
  <2>2. CASE ~(d = e /\ x = c)
    BY <1>4, <2>2
  <2> QED BY <2>1, <2>2
<1> QED BY <1>1, <1>2, <1>3, <1>4

(* A handler that consumes a frame, and perhaps acknowledges.              *)
LEMMA ConsumeShrinks ==
  ASSUME TypeOK, NEW e \in End, NEW s \in Sub, NEW type, Receive(e, s, type)
  PROVE  \A d \in End, x \in Sub : DataFrom(Consumed(e, s)[d][x], net[d][x])
<1> SUFFICES ASSUME NEW d \in End, NEW x \in Sub PROVE DataFrom(Consumed(e, s)[d][x], net[d][x])
  OBVIOUS
<1>1. net[d][x] \in Seq(Frame) /\ net[Peer(e)][s] # <<>>
  BY ReceiveType DEF TypeOK, NetType
<1>2. Consumed(e, s)[d][x] = net[d][x] \/ (d = Peer(e) /\ x = s /\ Consumed(e, s)[d][x] = Tail(net[d][x]))
  BY PeerType DEF Consumed, TypeOK, NetType
<1> QED BY <1>1, <1>2, DataFromFacts

LEMMA ConsumeAckShrinks ==
  ASSUME TypeOK, NEW e \in End, NEW s \in Sub, NEW type, Receive(e, s, type),
         net' = Consumed(e, s)
         \/ \E force \in BOOLEAN, rr \in Nat, finAt \in Nat \cup {NoFin}, re \in BOOLEAN :
              MaybeAck(e, force, rr, finAt, re, Consumed(e, s))
  PROVE  NoNewData
<1>1. \A d \in End, x \in Sub : DataFrom(Consumed(e, s)[d][x], net[d][x])
  BY ConsumeShrinks
<1>2. CASE net' = Consumed(e, s)
  BY <1>1, <1>2 DEF NoNewData
<1>3. ASSUME NEW force \in BOOLEAN, NEW rr \in Nat, NEW finAt \in Nat \cup {NoFin}, NEW re \in BOOLEAN,
             MaybeAck(e, force, rr, finAt, re, Consumed(e, s))
      PROVE  NoNewData
  <2>1. Consumed(e, s) \in [End -> [Sub -> Seq(Frame)]]
    BY ReceiveType
  <2>2. SUFFICES ASSUME NEW d \in End, NEW x \in Sub PROVE DataFrom(net'[d][x], net[d][x])
    BY DEF NoNewData
  <2>3. \/ net'[d][x] = Consumed(e, s)[d][x]
        \/ \E f \in Frame : f.type # "data" /\ net'[d][x] = Append(Consumed(e, s)[d][x], f)
    BY <1>3, <2>1, AckFrame
  <2>4. Consumed(e, s)[d][x] \in Seq(Frame)
    BY <2>1
  <2>5. DataFrom(net'[d][x], Consumed(e, s)[d][x])
    BY <2>3, <2>4, DataFromFacts
  <2> QED BY <1>1, <2>5, DataFromTrans
<1> QED BY <1>2, <1>3
LEMMA NetSame == ASSUME TypeOK, UNCHANGED net PROVE NoNewData
BY NetShrinks

LEMMA AbortNet == ASSUME TypeOK, NEW e \in End, Abort(e) PROVE NoNewData
<1>1. [type |-> "rst"] \in Frame /\ [type |-> "rst"].type # "data"
  BY FrameMakers
<1> DEFINE rst == [type |-> "rst"]
<1>2. net' = [net EXCEPT ![e] = [s \in Sub |-> IF Live(e, s) THEN Append(net[e][s], rst) ELSE net[e][s]]]
  BY DEF Abort
<1> HIDE DEF rst
<1>3. ASSUME NEW d \in End, NEW x \in Sub
      PROVE  net'[d][x] = net[d][x] \/ net'[d][x] = Append(net[d][x], rst)
  BY <1>2 DEF TypeOK, NetType
<1>4. rst \in Frame /\ rst.type # "data"
  BY <1>1 DEF rst
<1> QED BY <1>3, <1>4, NetShrinks

LEMMA ForgetNet ==
  ASSUME TypeOK, NEW e \in End, NEW s \in Sub, net' = Forget(e, s) PROVE NoNewData
<1>1. ASSUME NEW d \in End, NEW x \in Sub PROVE net'[d][x] = net[d][x] \/ net'[d][x] = <<>>
  <2>1. net \in [End -> [Sub -> Seq(Frame)]]
    BY DEF TypeOK, NetType
  <2> QED BY <2>1, PeerType DEF Forget
<1> QED BY <1>1, NetShrinks

LEMMA SetActiveNet ==
  ASSUME TypeOK, NEW s \in Sub, SetActive(s) PROVE NoNewData
<1>1. [type |-> "role"] \in Frame /\ [type |-> "role"].type # "data"
  BY FrameMakers
<1> DEFINE role == [type |-> "role"]
<1>2. net' = Put(net, "client", s, role)
  BY DEF SetActive
<1>4. role \in Frame /\ role.type # "data"
  BY <1>1
<1> HIDE DEF role
<1>3. ASSUME NEW d \in End, NEW x \in Sub
      PROVE  net'[d][x] = net[d][x] \/ net'[d][x] = Append(net[d][x], role)
  BY <1>2 DEF Put, TypeOK, NetType
<1> QED BY <1>3, <1>4, NetShrinks

LEMMA AckNet ==
  ASSUME TypeOK, NEW e \in End, NEW force \in BOOLEAN, NEW rr \in Nat, NEW finAt \in Nat \cup {NoFin},
         NEW re \in BOOLEAN, MaybeAck(e, force, rr, finAt, re, net)
  PROVE  NoNewData
<1>1. net \in [End -> [Sub -> Seq(Frame)]]
  BY DEF TypeOK, NetType
<1>2. \A d \in End, x \in Sub :
        \/ net'[d][x] = net[d][x]
        \/ \E f \in Frame : f.type # "data" /\ net'[d][x] = Append(net[d][x], f)
  BY <1>1, AckFrame
<1> QED BY <1>2, NetShrinks

LEMMA AppNet == ASSUME TypeOK, NEW e \in End, App(e) PROVE NoNewData
<1>0. rRead[e] \in Nat /\ peerFinAt[e] \in Nat \cup {NoFin} /\ reAck[e] \in BOOLEAN /\ Len(rq[e]) \in Nat
  BY LenProperties DEF TypeOK, RecvType, AckType
<1>1. CASE Write(e) \/ ReadEOF(e) \/ CloseWrite(e)
  <2>1. UNCHANGED net
    BY <1>1 DEF Write, ReadEOF, CloseWrite
  <2> QED BY <2>1, NetSame
<1>2. CASE Read(e)
  <2>1. PICK k \in 1 .. Len(rq[e]) : MaybeAck(e, FALSE, rRead[e] + k, peerFinAt[e], reAck[e], net)
    BY <1>2 DEF Read
  <2>2. rRead[e] + k \in Nat
    BY <1>0
  <2> QED BY <1>0, <2>1, <2>2, AckNet
<1>3. CASE Close(e)
  <2>1. MaybeAck(e, TRUE, rRead[e] + Len(rq[e]), peerFinAt[e], reAck[e], net)
    BY <1>3 DEF Close
  <2>2. rRead[e] + Len(rq[e]) \in Nat
    BY <1>0
  <2> QED BY <1>0, <2>1, <2>2, AckNet
<1> QED BY <1>1, <1>2, <1>3 DEF App

LEMMA ReadLoopNet == ASSUME TypeOK, NEW e \in End, NEW s \in Sub, ReadLoop(e, s) PROVE NoNewData
<1>0. /\ rRead[e] \in Nat /\ peerFinAt[e] \in Nat \cup {NoFin} /\ reAck[e] \in BOOLEAN
      /\ net \in [End -> [Sub -> Seq(Frame)]]
  BY DEF TypeOK, RecvType, AckType, NetType
<1>1. CASE RecvOldData(e, s) \/ RecvOutOfOrder(e, s) \/ RecvAck(e, s) \/ RecvRst(e, s)
  <2>1. (\E type : Receive(e, s, type)) /\ net' = Consumed(e, s)
    BY <1>1 DEF RecvOldData, RecvOutOfOrder, RecvAck, RecvRst
  <2> QED BY <2>1, ConsumeAckShrinks
<1>2. CASE RecvInOrder(e, s)
  <2>1. Receive(e, s, "data")
    BY <1>2 DEF RecvInOrder
  <2>2. PICK b \in Nat : InOrderStep(e, s, b)
    BY <1>2, RecvInOrderStep
  <2>3. net' = Consumed(e, s) \/ MaybeAck(e, FALSE, b, peerFinAt[e], reAck[e], Consumed(e, s))
    BY <2>2 DEF InOrderStep
  <2> QED BY <1>0, <2>1, <2>3, ConsumeAckShrinks
<1>3. CASE RecvFin(e, s)
  <2>1. Receive(e, s, "fin") /\ MaybeAck(e, TRUE, rRead[e], Received(e, s).off, reAck[e], Consumed(e, s))
    BY <1>3 DEF RecvFin
  <2>2. Received(e, s).off \in Nat
    BY <2>1, ReceiveType, FrameFields
  <2> QED BY <1>0, <2>1, <2>2, ConsumeAckShrinks
<1>4. CASE e = "server" /\ RecvRole(s)
  <2>1. Receive(e, s, "role") /\ net' = Consumed(e, s)
    BY <1>4 DEF RecvRole
  <2> QED BY <2>1, ConsumeAckShrinks
<1>5. CASE RecvGap(e, s)
  <2>1. \A d \in End, x \in Sub : net'[d][x] = net[d][x] \/ net'[d][x] = <<>>
    BY <1>0, <1>5, PeerType DEF RecvGap
  <2> QED BY <2>1, NetShrinks
<1>6. CASE ReadError(e, s) \/ ReaderExit(e, s)
  <2>1. net' = Forget(e, s)
    BY <1>6 DEF ReadError, ReaderExit
  <2> QED BY <2>1, ForgetNet
<1> QED BY <1>1, <1>2, <1>3, <1>4, <1>5, <1>6 DEF ReadLoop

LEMMA OtherNet ==
  ASSUME TypeOK, NEW e \in End, NEW s \in Sub,
         \/ SendFin(e, s) \/ PathDies(e, s) \/ Splice(e, s) \/ CloseCarrier(e, s)
         \/ Tick(e) \/ PathManager(s)
  PROVE  NoNewData
<1>0. /\ "client" \in End /\ "server" \in End /\ net \in [End -> [Sub -> Seq(Frame)]]
      /\ rRead[e] \in Nat /\ peerFinAt[e] \in Nat \cup {NoFin} /\ reAck[e] \in BOOLEAN
  BY DEF End, TypeOK, NetType, RecvType, AckType
<1>1. CASE SendFin(e, s)
  <2> DEFINE f == [type |-> "fin", off |-> finOff[e]]
  <2>1. f \in Frame /\ f.type # "data"
    BY <1>1, FrameMakers DEF SendFin, TypeOK, SendType
  <2>2. net' = [net EXCEPT ![e][s] = Append(@, f)]
    BY <1>1 DEF SendFin
  <2> HIDE DEF f
  <2>3. ASSUME NEW d \in End, NEW x \in Sub PROVE net'[d][x] = net[d][x] \/ net'[d][x] = Append(net[d][x], f)
    BY <1>0, <2>2
  <2> QED BY <2>1, <2>3, NetShrinks
<1>2. CASE Splice(e, s)
  <2>1. PICK i \in 1 .. (Len(net[e][s]) - 1) : net' = [net EXCEPT ![e][s][i] = [type |-> "lost"]]
    BY <1>2 DEF Splice
  <2>2. net[e][s] \in Seq(Frame) /\ i \in 1 .. Len(net[e][s]) /\ [type |-> "lost"] \in Frame
    BY <1>0, <2>1, LenProperties, FrameMakers
  <2>3. /\ Len([net[e][s] EXCEPT ![i] = [type |-> "lost"]]) = Len(net[e][s])
        /\ \A j \in 1 .. Len(net[e][s]) :
             [net[e][s] EXCEPT ![i] = [type |-> "lost"]][j] = IF j = i THEN [type |-> "lost"] ELSE net[e][s][j]
    BY <2>2, ExceptSeq
  <2>4. DataFrom([net[e][s] EXCEPT ![i] = [type |-> "lost"]], net[e][s])
    BY <2>3 DEF DataFrom
  <2>5. ASSUME NEW d \in End, NEW x \in Sub PROVE DataFrom(net'[d][x], net[d][x])
    <3>1. CASE d = e /\ x = s
      BY <1>0, <2>1, <2>4, <3>1
    <3>2. CASE ~(d = e /\ x = s)
      <4>1. net'[d][x] = net[d][x]
        BY <1>0, <2>1, <3>2
      <4> QED BY <4>1 DEF DataFrom
    <3> QED BY <3>1, <3>2
  <2> QED BY <2>5 DEF NoNewData
<1>3. CASE Tick(e)
  <2>1. CASE TickAck(e)
    BY <1>0, <2>1, AckNet DEF TickAck
  <2>2. CASE TickRescue(e) \/ TickFinish(e)
    <3>1. UNCHANGED net
      BY <2>2 DEF TickRescue, TickFinish
    <3> QED BY <3>1, NetSame
  <2>3. CASE TickReset(e) \/ GiveUp(e)
    BY <2>3, AbortNet DEF TickReset, GiveUp
  <2> QED BY <1>3, <2>1, <2>2, <2>3 DEF Tick
<1>4. CASE PathDies(e, s) \/ CloseCarrier(e, s) \/ RetireKill(s) \/ ServerJoin(s)
           \/ \E k \in {"spare", "failover", "switch"} : StartJoin(s, k)
  <2>1. UNCHANGED net
    BY <1>4 DEF PathDies, CloseCarrier, RetireKill, ServerJoin, StartJoin
  <2> QED BY <2>1, NetSame
<1>5. CASE ClientAttach(s) \/ JoinFail(s)
  <2>1. net' = net \/ net' = [net EXCEPT !["server"][s] = <<>>]
    BY <1>5 DEF ClientAttach, JoinFail
  <2>2. \A d \in End, x \in Sub : net'[d][x] = net[d][x] \/ net'[d][x] = <<>>
    BY <1>0, <2>1
  <2> QED BY <2>2, NetShrinks
<1>6. CASE JoinSettle(s) \/ Failover(s)
  <2>1. SetActive(s) \/ UNCHANGED net
    BY <1>6 DEF JoinSettle, Failover
  <2> QED BY <2>1, SetActiveNet, NetSame
<1>7. CASE JoinRefused(s)
  <2>1. Abort("client") \/ UNCHANGED net
    BY <1>7 DEF JoinRefused
  <2> QED BY <1>0, <2>1, AbortNet, NetSame
<1> QED BY <1>1, <1>2, <1>3, <1>4, <1>5, <1>6, <1>7 DEF PathManager
----------------------------------------------------------------------------
(* Bytes stay in place: queues.                                            *)

DataTypes == \A e \in End : Data[e] \in Seq(Byte) /\ Len(Data[e]) \in Nat

LEMMA DataFacts == DataTypes
BY DataAssumption, LenProperties DEF DataTypes

LEMMA SendQueueInPlace ==
  ASSUME TypeOK, TypeOK', SpansWritten, BytesInPlace, [Next]_vars, NEW d \in End
  PROVE  Slice(sq'[d], Data[d], sBase'[d])
<1>0. /\ Slice(sq[d], Data[d], sBase[d]) /\ sBase[d] \in Nat /\ Len(sq[d]) \in Nat
      /\ Data[d] \in Seq(Byte) /\ Len(Data[d]) \in Nat /\ Written(d) = sBase[d] + Len(sq[d])
  BY LenProperties, DataFacts DEF BytesInPlace, TypeOK, SendType, DataTypes, Written
<1>1. CASE sq'[d] = sq[d] /\ sBase'[d] = sBase[d]
  BY <1>0, <1>1
<1>2. ASSUME NEW e \in End, Write(e) PROVE Slice(sq'[d], Data[d], sBase'[d])
  <2>1. sBase' = sBase
    BY <1>2 DEF Write
  <2>2. CASE d # e
    BY <1>1, <1>2, <2>1, <2>2, WriteStep DEF TypeOK, SendType
  <2>3. CASE d = e
    <3>1. PICK k \in Nat :
           /\ Written(d) + k <= Len(Data[d])
           /\ Len(sq'[d]) = Len(sq[d]) + k
           /\ \A i \in 1 .. Len(sq'[d]) :
                sq'[d][i] = IF i <= Len(sq[d]) THEN sq[d][i] ELSE Data[d][Written(d) + i - Len(sq[d])]
      BY <1>2, <2>3, WriteStep
    <3>2. ASSUME NEW i \in 1 .. Len(sq'[d]) PROVE sq'[d][i] = Data[d][sBase[d] + i]
      <4>1. CASE i <= Len(sq[d])
        BY <1>0, <3>1, <4>1 DEF Slice
      <4>2. CASE ~ i <= Len(sq[d])
        <5>1. Written(d) + i - Len(sq[d]) = sBase[d] + i
          BY <1>0, <3>1
        <5> QED BY <3>1, <4>2, <5>1
      <4> QED BY <4>1, <4>2
    <3>3. sBase[d] + Len(sq'[d]) <= Len(Data[d])
      BY <1>0, <3>1
    <3> QED BY <2>1, <3>2, <3>3 DEF Slice
  <2> QED BY <2>2, <2>3
<1>3. ASSUME NEW e \in End, NEW next \in Nat, NEW fin \in BOOLEAN, OnAck(e, next, fin)
      PROVE  Slice(sq'[d], Data[d], sBase'[d])
  <2>1. CASE d # e
    BY <1>1, <1>3, <2>1, OnAckStep
  <2>2. CASE d = e
    <3>1. /\ sBase'[d] \in Nat /\ sBase[d] <= sBase'[d] /\ sBase'[d] <= Written(d)
          /\ Len(sq'[d]) = Written(d) - sBase'[d]
          /\ \A i \in 1 .. Len(sq'[d]) : sq'[d][i] = sq[d][sBase'[d] - sBase[d] + i]
      BY <1>3, <2>2, OnAckStep
    <3>2. ASSUME NEW i \in 1 .. Len(sq'[d]) PROVE sq'[d][i] = Data[d][sBase'[d] + i]
      <4>1. /\ sBase'[d] - sBase[d] + i \in 1 .. Len(sq[d])
            /\ sBase[d] + (sBase'[d] - sBase[d] + i) = sBase'[d] + i
        BY <1>0, <3>1
      <4>2. sq[d][sBase'[d] - sBase[d] + i] = Data[d][sBase[d] + (sBase'[d] - sBase[d] + i)]
        BY <1>0, <4>1 DEF Slice
      <4> QED BY <3>1, <4>1, <4>2
    <3>3. sBase'[d] + Len(sq'[d]) <= Len(Data[d])
      BY <1>0, <3>1 DEF Slice
    <3> QED BY <3>2, <3>3 DEF Slice
  <2> QED BY <2>1, <2>2
<1>4. ASSUME NEW e \in End, NEW s \in Sub, RecvAck(e, s) PROVE Slice(sq'[d], Data[d], sBase'[d])
  <2>1. Receive(e, s, "ack") /\ OnAck(e, Received(e, s).next, Received(e, s).fin)
    BY <1>4 DEF RecvAck
  <2>2. Received(e, s).next \in Nat /\ Received(e, s).fin \in BOOLEAN
    BY <2>1, ReceiveType, FrameFields
  <2> QED BY <1>3, <2>1, <2>2
<1>5. ASSUME NEW s \in Sub, ServerJoin(s) PROVE Slice(sq'[d], Data[d], sBase'[d])
  <2>1. OnAck("server", rxNext[s], FALSE) /\ rxNext[s] \in Nat /\ "server" \in End
    BY <1>5 DEF ServerJoin, TypeOK, JoinType, End
  <2> QED BY <1>3, <2>1
<1>6. ASSUME NEW e \in End, Read(e) \/ ReadEOF(e) \/ CloseWrite(e) \/ Close(e) \/ Tick(e)
      PROVE  UNCHANGED <<sq, sBase>>
  BY <1>6 DEF Read, ReadEOF, CloseWrite, Close, Tick, TickAck, TickRescue, TickFinish, TickReset,
              GiveUp, sendVars
<1>7. ASSUME NEW e \in End, NEW s \in Sub,
             \/ WriteLoop(e, s) \/ RecvOldData(e, s) \/ RecvInOrder(e, s) \/ RecvOutOfOrder(e, s)
             \/ RecvFin(e, s) \/ RecvRst(e, s) \/ ReaderExit(e, s) \/ RecvGap(e, s) \/ ReadError(e, s)
             \/ RecvRole(s) \/ PathDies(e, s) \/ Splice(e, s) \/ CloseCarrier(e, s)
      PROVE  UNCHANGED <<sq, sBase>>
  BY <1>7 DEF WriteLoop, SendData, SendFin, RecvOldData, RecvInOrder, RecvOutOfOrder, RecvFin, RecvRst,
              ReaderExit, RecvGap, ReadError, RecvRole, PathDies, Splice, CloseCarrier, sendVars
<1>8. ASSUME NEW s \in Sub,
             \/ \E k \in {"spare", "failover", "switch"} : StartJoin(s, k)
             \/ ClientAttach(s) \/ JoinSettle(s) \/ Failover(s) \/ JoinFail(s) \/ JoinRefused(s)
             \/ RetireKill(s)
      PROVE  UNCHANGED <<sq, sBase>>
  BY <1>8 DEF StartJoin, ClientAttach, JoinSettle, Failover, JoinFail, JoinRefused, RetireKill, sendVars
<1>9. CASE UNCHANGED vars
  BY <1>1, <1>9 DEF vars, sendVars
<1>10. ASSUME NEW e \in End, App(e) \/ Tick(e) PROVE Slice(sq'[d], Data[d], sBase'[d])
  BY <1>1, <1>2, <1>6, <1>10 DEF App
<1>11. ASSUME NEW e \in End, NEW s \in Sub,
              ReadLoop(e, s) \/ WriteLoop(e, s) \/ PathDies(e, s) \/ Splice(e, s) \/ CloseCarrier(e, s)
       PROVE  Slice(sq'[d], Data[d], sBase'[d])
  BY <1>1, <1>4, <1>7, <1>11 DEF ReadLoop
<1>12. ASSUME NEW s \in Sub, PathManager(s) PROVE Slice(sq'[d], Data[d], sBase'[d])
  BY <1>1, <1>5, <1>8, <1>12 DEF PathManager
<1> QED BY <1>9, <1>10, <1>11, <1>12 DEF Next

\* e's part of BytesInPlace that is about the network
FramesInPlace(e) ==
  \A s \in Sub : \A i \in 1 .. Len(net[e][s]) :
    net[e][s][i].type = "data" => Slice(net[e][s][i].bytes, Data[e], net[e][s][i].off)

LEMMA FramesStayInPlace ==
  ASSUME TypeOK, TypeOK', SpansWritten, BytesInPlace, [Next]_vars, NEW d \in End
  PROVE  FramesInPlace(d)'
<1>0. \A x \in Sub : \A i \in 1 .. Len(net[d][x]) :
        net[d][x][i].type = "data" => Slice(net[d][x][i].bytes, Data[d], net[d][x][i].off)
  BY DEF BytesInPlace
<1>1. CASE NoNewData
  BY <1>0, <1>1 DEF NoNewData, DataFrom, FramesInPlace
<1>2. ASSUME NEW e \in End, NEW s \in Sub, SendData(e, s) PROVE FramesInPlace(d)'
  <2>1. PICK sp \in Span : Sends(e, s, sp)
    BY <1>2, SendDataStep
  <2> DEFINE f == [type |-> "data", off |-> sp.off, bytes |-> Payload(e, sp)]
  <2>2. Buffered(e, sp) /\ net' = [net EXCEPT ![e][s] = Append(@, f)]
    BY <2>1 DEF Sends
  <2>3. Slice(Payload(e, sp), Data[e], sp.off)
    <3>0. /\ Slice(sq[e], Data[e], sBase[e]) /\ sBase[e] \in Nat /\ Len(sq[e]) \in Nat
          /\ Len(Data[e]) \in Nat /\ Written(e) = sBase[e] + Len(sq[e])
          /\ sp.off \in Nat /\ sp.n \in Nat /\ sBase[e] <= sp.off /\ sp.off + sp.n <= Written(e)
      BY <2>2, LenProperties, DataFacts DEF BytesInPlace, TypeOK, SendType, DataTypes, Written,
                                            Buffered, SpanEnd, Span
    <3>1. /\ Len(Payload(e, sp)) = sp.n
          /\ \A i \in 1 .. sp.n : Payload(e, sp)[i] = sq[e][sp.off - sBase[e] + i]
      BY <2>2, PayloadType
    <3>2. ASSUME NEW i \in 1 .. sp.n PROVE Payload(e, sp)[i] = Data[e][sp.off + i]
      <4>1. /\ sp.off - sBase[e] + i \in 1 .. Len(sq[e])
            /\ sBase[e] + (sp.off - sBase[e] + i) = sp.off + i
        BY <3>0
      <4>2. sq[e][sp.off - sBase[e] + i] = Data[e][sBase[e] + (sp.off - sBase[e] + i)]
        BY <3>0, <4>1 DEF Slice
      <4> QED BY <3>1, <4>1, <4>2
    <3>3. sp.off + sp.n <= Len(Data[e])
      BY <3>0 DEF Slice
    <3> QED BY <3>1, <3>2, <3>3 DEF Slice
  <2>4. f \in Frame /\ f.off = sp.off /\ f.bytes = Payload(e, sp)
    BY <2>2, PayloadType, FrameMakers DEF Span
  <2> HIDE DEF f
  <2>5. ASSUME NEW x \in Sub, NEW i \in 1 .. Len(net'[d][x]), net'[d][x][i].type = "data"
        PROVE  Slice(net'[d][x][i].bytes, Data[d], net'[d][x][i].off)
    <3>1. CASE d = e /\ x = s
      <4>1. net'[d][x] = Append(net[d][x], f) /\ net[d][x] \in Seq(Frame)
        BY <2>2, <3>1 DEF TypeOK, NetType
      <4>2. /\ Len(net'[d][x]) = Len(net[d][x]) + 1 /\ Len(net[d][x]) \in Nat
            /\ \A j \in 1 .. Len(net[d][x]) : net'[d][x][j] = net[d][x][j]
            /\ net'[d][x][Len(net[d][x]) + 1] = f
        BY <2>4, <4>1, AppendProperties, LenProperties
      <4>3. CASE i = Len(net[d][x]) + 1
        BY <2>3, <2>4, <3>1, <4>2, <4>3
      <4>4. CASE i # Len(net[d][x]) + 1
        <5>1. i \in 1 .. Len(net[d][x])
          BY <4>2, <4>4
        <5>2. net'[d][x][i] = net[d][x][i]
          BY <4>2, <5>1
        <5> QED BY <1>0, <2>5, <5>1, <5>2
      <4> QED BY <4>3, <4>4
    <3>2. CASE ~(d = e /\ x = s)
      <4>1. net'[d][x] = net[d][x]
        BY <2>2, <3>2 DEF TypeOK, NetType
      <4> QED BY <1>0, <2>5, <4>1
    <3> QED BY <3>1, <3>2
  <2> QED BY <2>5 DEF FramesInPlace
<1>3. CASE UNCHANGED vars
  BY <1>1, <1>3, NetSame DEF vars
<1>4. ASSUME NEW e \in End, App(e) \/ Tick(e) PROVE NoNewData
  BY <1>4, AppNet, OtherNet, SubFacts
<1>5. ASSUME NEW e \in End, NEW s \in Sub,
             ReadLoop(e, s) \/ WriteLoop(e, s) \/ PathDies(e, s) \/ Splice(e, s) \/ CloseCarrier(e, s)
      PROVE  FramesInPlace(d)'
  BY <1>1, <1>2, <1>5, ReadLoopNet, OtherNet DEF WriteLoop
<1>6. ASSUME NEW s \in Sub, PathManager(s) PROVE NoNewData
  <2>1. "client" \in End
    BY DEF End
  <2> QED BY <1>6, <2>1, OtherNet
<1> QED BY <1>1, <1>3, <1>4, <1>5, <1>6 DEF Next
\* e's part of BytesInPlace that is about what e has received
ReceivedInPlace(e) ==
  /\ \A sg \in ooo[e] : Slice(sg.bytes, Data[Peer(e)], sg.off)
  /\ Slice(rq[e], Data[Peer(e)], rRead[e])
  /\ Slice(got[e], Data[Peer(e)], 0)
  /\ IF rDiscard[e] THEN rq[e] = <<>> ELSE Len(got[e]) = rRead[e]

LEMMA SliceOfSub ==
  ASSUME NEW q \in Seq(Byte), NEW d, NEW off \in Nat, NEW k \in 0 .. Len(q), Slice(q, d, off),
         Len(d) \in Nat
  PROVE  /\ Slice(SubSeq(q, k + 1, Len(q)), d, off + k)
         /\ Len(SubSeq(q, k + 1, Len(q))) = Len(q) - k
<1>1. Len(q) \in Nat /\ k \in Nat /\ k <= Len(q) /\ \A i \in (k + 1) .. Len(q) : q[i] \in Byte
  BY LenProperties, ElementOfSeq
<1> DEFINE n == Len(q)
<1>2. /\ k + 1 \in Int /\ n \in Int /\ n - (k + 1) + 1 = n - k /\ n - k \in Nat
      /\ (~ k + 1 <= n => n - k = 0)
      /\ \A i \in 1 .. (n - k) : k + 1 + i - 1 = k + i
  BY <1>1
<1>a. \A i \in (k + 1) .. n : q[i] \in Byte
  BY <1>1
<1> HIDE DEF n
<1>3. /\ Len(SubSeq(q, k + 1, n)) = n - k
      /\ \A i \in 1 .. (n - k) : SubSeq(q, k + 1, n)[i] = q[k + i]
  BY <1>a, <1>2, SubSeqProperties
<1>4. ASSUME NEW i \in 1 .. (n - k) PROVE SubSeq(q, k + 1, n)[i] = d[off + k + i]
  <2>1. k + i \in 1 .. n /\ off + (k + i) = off + k + i
    BY <1>1 DEF n
  <2> QED BY <1>3, <2>1 DEF Slice, n
<1>5. off + k + (n - k) <= Len(d)
  BY <1>1 DEF Slice, n
<1> QED BY <1>3, <1>4, <1>5 DEF Slice, n

LEMMA SliceOfConcat ==
  ASSUME NEW q \in Seq(Byte), NEW r \in Seq(Byte), NEW d, NEW off \in Nat, Len(d) \in Nat,
         Slice(q, d, off), Slice(r, d, off + Len(q))
  PROVE  Slice(q \o r, d, off) /\ Len(q \o r) = Len(q) + Len(r)
<1>1. Len(q) \in Nat /\ Len(r) \in Nat
  BY LenProperties
<1>2. /\ Len(q \o r) = Len(q) + Len(r)
      /\ \A i \in 1 .. (Len(q) + Len(r)) : (q \o r)[i] = IF i <= Len(q) THEN q[i] ELSE r[i - Len(q)]
  BY ConcatProperties
<1>3. ASSUME NEW i \in 1 .. (Len(q) + Len(r)) PROVE (q \o r)[i] = d[off + i]
  <2>1. CASE i <= Len(q)
    BY <1>1, <1>2, <2>1 DEF Slice
  <2>2. CASE ~ i <= Len(q)
    <3>1. i - Len(q) \in 1 .. Len(r) /\ off + Len(q) + (i - Len(q)) = off + i
      BY <1>1, <2>2
    <3>2. r[i - Len(q)] = d[off + Len(q) + (i - Len(q))]
      BY <3>1 DEF Slice
    <3> QED BY <1>2, <2>2, <3>1, <3>2
  <2> QED BY <2>1, <2>2
<1>4. off + (Len(q) + Len(r)) <= Len(d)
  BY <1>1 DEF Slice
<1> QED BY <1>2, <1>3, <1>4 DEF Slice

LEMMA ReadInPlace ==
  ASSUME TypeOK, BytesInPlace, NEW e \in End, Read(e) PROVE ReceivedInPlace(e)'
<1>1. PICK k \in 1 .. Len(rq[e]) :
        /\ rq' = [rq EXCEPT ![e] = SubSeq(@, k + 1, Len(@))]
        /\ rRead' = [rRead EXCEPT ![e] = @ + k]
        /\ got' = [got EXCEPT ![e] = @ \o SubSeq(rq[e], 1, k)]
  BY DEF Read
<1>2. UNCHANGED <<ooo, rDiscard>>
  BY DEF Read
<1> DEFINE d == Data[Peer(e)]
           taken == SubSeq(rq[e], 1, k)
<1>3. /\ rq[e] \in Seq(Byte) /\ Len(rq[e]) \in Nat /\ rRead[e] \in Nat /\ got[e] \in Seq(Byte)
      /\ Len(got[e]) \in Nat /\ Len(d) \in Nat
  BY LenProperties, DataFacts, PeerType DEF TypeOK, RecvType, HistType, DataTypes
<1>4. k \in Nat /\ k \in 0 .. Len(rq[e]) /\ k >= 1 /\ rq[e] # <<>>
  BY <1>1, <1>3, EmptySeq
<1>5. ReceivedInPlace(e)
  BY DEF BytesInPlace, ReceivedInPlace
<1>6. ~rDiscard[e] /\ Len(got[e]) = rRead[e]
  BY <1>4, <1>5 DEF ReceivedInPlace
<1> HIDE DEF d
<1>7. Slice(rq[e], d, rRead[e]) /\ Slice(got[e], d, 0) /\ \A sg \in ooo[e] : Slice(sg.bytes, d, sg.off)
  BY <1>5 DEF ReceivedInPlace, d
<1>8. /\ rq'[e] = SubSeq(rq[e], k + 1, Len(rq[e])) /\ rRead'[e] = rRead[e] + k
      /\ got'[e] = got[e] \o taken
  BY <1>1 DEF TypeOK, RecvType, HistType
<1>9. Slice(rq'[e], d, rRead'[e])
  BY <1>3, <1>4, <1>7, <1>8, SliceOfSub
<1>10. taken \in Seq(Byte) /\ Len(taken) = k /\ \A i \in 1 .. k : taken[i] = rq[e][i]
  <2>1. \A i \in 1 .. k : rq[e][i] \in Byte /\ 1 + i - 1 = i
    BY <1>3, <1>4, ElementOfSeq
  <2>2. 1 \in Int /\ k \in Int /\ 1 <= k /\ k - 1 + 1 = k
    BY <1>4
  <2> QED BY <2>1, <2>2, SubSeqProperties
<1> HIDE DEF taken
<1>11. Slice(taken, d, 0 + Len(got[e]))
  <2>1. \A i \in 1 .. k : i \in 1 .. Len(rq[e])
    BY <1>3, <1>4
  <2>2. \A i \in 1 .. k : taken[i] = d[Len(got[e]) + i]
    BY <1>6, <1>7, <1>10, <2>1 DEF Slice
  <2>3. Len(got[e]) + k <= Len(d)
    BY <1>3, <1>4, <1>6, <1>7 DEF Slice
  <2> QED BY <1>3, <1>10, <2>2, <2>3 DEF Slice
<1>12. Slice(got'[e], d, 0) /\ Len(got'[e]) = Len(got[e]) + k
  BY <1>3, <1>7, <1>8, <1>10, <1>11, SliceOfConcat
<1>13. /\ \A sg \in ooo'[e] : Slice(sg.bytes, d, sg.off)
       /\ ~rDiscard'[e] /\ Len(got'[e]) = rRead'[e]
  BY <1>2, <1>6, <1>7, <1>8, <1>12
<1> QED BY <1>9, <1>12, <1>13 DEF ReceivedInPlace, d

LEMMA RecvInOrderInPlace ==
  ASSUME TypeOK, BytesInPlace, NEW e \in End, NEW s \in Sub, RecvInOrder(e, s) PROVE ReceivedInPlace(e)'
<1> DEFINE f == Received(e, s)
           new == [off |-> f.off, bytes |-> f.bytes]
           segs == ooo[e] \cup {new}
           a == Next0(e)
           d == Data[Peer(e)]
<1>1. PICK b \in Nat : InOrderStep(e, s, b)
  BY RecvInOrderStep
<1>2. UNCHANGED <<rDiscard, got>>
  BY DEF RecvInOrder, histVars
<1>3. /\ rq[e] \in Seq(Byte) /\ Len(rq[e]) \in Nat /\ rRead[e] \in Nat
      /\ Len(d) \in Nat
  BY LenProperties, DataFacts, PeerType DEF TypeOK, RecvType, DataTypes
<1>4. ReceivedInPlace(e)
  BY DEF BytesInPlace, ReceivedInPlace
<1>5. segs \in SUBSET Segment /\ a \in Nat /\ a = rRead[e] + Len(rq[e]) /\ a < b /\ Covers(segs, a, b)
  BY <1>1, RecvInOrderStep DEF InOrderStep
<1>6. Slice(new.bytes, d, new.off)
  <2>1. Receive(e, s, "data")
    BY DEF RecvInOrder
  <2>2. net[Peer(e)][s] \in Seq(Frame) /\ net[Peer(e)][s] # <<>> /\ f.type = "data"
    BY <2>1, ReceiveType
  <2>3. 1 \in 1 .. Len(net[Peer(e)][s]) /\ f = net[Peer(e)][s][1]
    BY <2>2, HeadTailProperties, LenProperties, EmptySeq DEF Received
  <2> QED BY <2>2, <2>3, PeerType DEF BytesInPlace
<1>7. \A sg \in segs : Slice(sg.bytes, d, sg.off)
  BY <1>4, <1>6 DEF ReceivedInPlace
<1>8. \A sg \in ooo'[e] : Slice(sg.bytes, d, sg.off)
  BY <1>1, <1>4 DEF InOrderStep, ReceivedInPlace, TypeOK, RecvType
<1>9. \A sg \in segs : \A i \in 1 .. Len(sg.bytes) : sg.bytes[i] = d[sg.off + i]
  BY <1>7 DEF Slice
<1>10. CASE rDiscard[e]
  <2>1. rq'[e] = <<>> /\ rDiscard'[e]
    BY <1>1, <1>2, <1>4, <1>10 DEF InOrderStep, ReceivedInPlace
  <2>2. rRead'[e] = b
    BY <1>1, <1>10 DEF InOrderStep, TypeOK, RecvType
  <2>3. b <= Len(d)
    <3>1. b - 1 \in a .. (b - 1)
      BY <1>5
    <3>2. PICK sg \in segs : sg.off <= b - 1 /\ b - 1 < SegEnd(sg)
      BY <1>5, <3>1 DEF Covers
    <3>3. sg.off \in Nat /\ Len(sg.bytes) \in Nat /\ SegEnd(sg) = sg.off + Len(sg.bytes)
      BY <1>5, <3>2, LenProperties DEF Segment, SegEnd
    <3>4. sg.off + Len(sg.bytes) <= Len(d)
      BY <1>7, <3>2 DEF Slice
    <3> QED BY <1>3, <3>2, <3>3, <3>4
  <2>4. Slice(rq'[e], d, rRead'[e])
    BY <1>3, <2>1, <2>2, <2>3, EmptySeq DEF Slice
  <2>5. Slice(got'[e], d, 0)
    BY <1>2, <1>4 DEF ReceivedInPlace
  <2> QED BY <1>8, <2>1, <2>4, <2>5 DEF ReceivedInPlace
<1>11. CASE ~rDiscard[e]
  <2> DEFINE add == BytesOf(segs, a, b)
  <2>1. rq' = [rq EXCEPT ![e] = @ \o add] /\ rRead' = rRead
    BY <1>1, <1>11 DEF InOrderStep
  <2>2. rq'[e] = rq[e] \o add
    BY <2>1 DEF TypeOK, RecvType
  <2> HIDE DEF segs, a, d
  <2>3. a <= b
    BY <1>5
  <2>4. /\ add \in Seq(Byte) /\ Len(add) = b - a
        /\ \A i \in 1 .. (b - a) : \E sg \in segs :
              /\ a + i - sg.off \in 1 .. Len(sg.bytes)
              /\ sg.off + (a + i - sg.off) = a + i
              /\ add[i] = sg.bytes[a + i - sg.off]
    BY <1>5, <2>3, BytesOfPick
  <2> HIDE DEF add
  <2>5. \A i \in 1 .. (b - a) : add[i] = d[a + i]
    BY <1>9, <2>4
  <2>6. b <= Len(d)
    <3>1. b - 1 \in a .. (b - 1)
      BY <1>5
    <3>2. PICK sg \in segs : sg.off <= b - 1 /\ b - 1 < SegEnd(sg)
      BY <1>5, <3>1 DEF Covers
    <3>3. sg.off \in Nat /\ Len(sg.bytes) \in Nat /\ SegEnd(sg) = sg.off + Len(sg.bytes)
      BY <1>5, <3>2, LenProperties DEF Segment, SegEnd
    <3>4. sg.off + Len(sg.bytes) <= Len(d)
      BY <1>7, <3>2 DEF Slice
    <3> QED BY <1>3, <3>2, <3>3, <3>4
  <2>7. Slice(add, d, rRead[e] + Len(rq[e]))
    <3>1. a + (b - a) <= Len(d)
      BY <1>5, <2>6
    <3> QED BY <1>5, <2>4, <2>5, <3>1 DEF Slice
  <2>8. Slice(rq[e], d, rRead[e]) /\ Slice(got[e], d, 0) /\ Len(got[e]) = rRead[e]
    BY <1>4, <1>11 DEF ReceivedInPlace, d
  <2>9. Slice(rq'[e], d, rRead'[e])
    BY <1>3, <2>1, <2>2, <2>4, <2>7, <2>8, SliceOfConcat
  <2> QED BY <1>2, <1>8, <1>11, <2>1, <2>8, <2>9 DEF ReceivedInPlace, d
<1> QED BY <1>10, <1>11
LEMMA RecvOutOfOrderInPlace ==
  ASSUME TypeOK, BytesInPlace, NEW e \in End, NEW s \in Sub, RecvOutOfOrder(e, s)
  PROVE  ReceivedInPlace(e)'
<1> DEFINE f == Received(e, s)
           new == [off |-> f.off, bytes |-> f.bytes]
           d == Data[Peer(e)]
<1>1. UNCHANGED <<rq, rRead, rDiscard, got>>
  BY DEF RecvOutOfOrder, histVars
<1>2. ReceivedInPlace(e)
  BY DEF BytesInPlace, ReceivedInPlace
<1>3. Slice(new.bytes, d, new.off)
  <2>1. Receive(e, s, "data")
    BY DEF RecvOutOfOrder
  <2>2. net[Peer(e)][s] \in Seq(Frame) /\ net[Peer(e)][s] # <<>> /\ f.type = "data"
    BY <2>1, ReceiveType
  <2>3. 1 \in 1 .. Len(net[Peer(e)][s]) /\ f = net[Peer(e)][s][1]
    BY <2>2, HeadTailProperties, LenProperties, EmptySeq DEF Received
  <2> QED BY <2>2, <2>3, PeerType DEF BytesInPlace
<1>4. ooo' = ooo \/ ooo' = [ooo EXCEPT ![e] = (@ \ {sg \in ooo[e] : sg.off = f.off}) \cup {new}]
  BY DEF RecvOutOfOrder
<1>5. \A sg \in ooo'[e] : sg \in ooo[e] \/ sg = new
  BY <1>4 DEF TypeOK, RecvType
<1>6. \A sg \in ooo'[e] : Slice(sg.bytes, d, sg.off)
  BY <1>2, <1>3, <1>5 DEF ReceivedInPlace
<1> QED BY <1>1, <1>2, <1>6 DEF ReceivedInPlace

LEMMA CloseInPlace ==
  ASSUME TypeOK, BytesInPlace, NEW e \in End, Close(e) PROVE ReceivedInPlace(e)'
<1> DEFINE d == Data[Peer(e)]
<1>1. /\ UNCHANGED <<ooo, got>>
      /\ rDiscard' = [rDiscard EXCEPT ![e] = TRUE]
      /\ rRead' = [rRead EXCEPT ![e] = rRead[e] + Len(rq[e])]
      /\ rq' = [rq EXCEPT ![e] = <<>>]
  BY DEF Close, histVars
<1>2. /\ \A sg \in ooo[e] : Slice(sg.bytes, d, sg.off)
      /\ Slice(rq[e], d, rRead[e]) /\ Slice(got[e], d, 0)
  BY DEF BytesInPlace
<1>3. rq'[e] = <<>> /\ rRead'[e] = rRead[e] + Len(rq[e]) /\ rDiscard'[e]
  BY <1>1 DEF TypeOK, RecvType
<1>4. rRead[e] \in Nat /\ Len(rq[e]) \in Nat
  BY LenProperties DEF TypeOK, RecvType
<1>5. Slice(rq'[e], d, rRead'[e])
  BY <1>2, <1>3, <1>4, EmptySeq DEF Slice
<1> QED BY <1>1, <1>2, <1>3, <1>5 DEF ReceivedInPlace

LEMMA ReceivedStaysInPlace ==
  ASSUME TypeOK, TypeOK', BytesInPlace, [Next]_vars, NEW d \in End
  PROVE  ReceivedInPlace(d)'
<1>1. CASE rq'[d] = rq[d] /\ rRead'[d] = rRead[d] /\ ooo'[d] = ooo[d] /\ rDiscard'[d] = rDiscard[d] /\ got'[d] = got[d]
  <2>1. ReceivedInPlace(d)
    BY DEF BytesInPlace, ReceivedInPlace
  <2> QED BY <1>1, <2>1 DEF ReceivedInPlace
<1>2. CASE UNCHANGED <<rq, rRead, ooo, rDiscard, got>>
  BY <1>1, <1>2
<1>3. ASSUME NEW e \in End, Read(e) PROVE ReceivedInPlace(d)'
  <2>1. CASE d = e
    BY <1>3, <2>1, ReadInPlace
  <2>2. CASE d # e
    <3>1. rq'[d] = rq[d] /\ rRead'[d] = rRead[d] /\ got'[d] = got[d] /\ UNCHANGED <<ooo, rDiscard>>
      BY <1>3, <2>2 DEF Read, TypeOK, RecvType, HistType
    <3> QED BY <1>1, <3>1
  <2> QED BY <2>1, <2>2
<1>4. ASSUME NEW e \in End, Close(e) PROVE ReceivedInPlace(d)'
  <2>1. CASE d = e
    BY <1>4, <2>1, CloseInPlace
  <2>2. CASE d # e
    <3>1. /\ rq'[d] = rq[d] /\ rRead'[d] = rRead[d] /\ rDiscard'[d] = rDiscard[d]
          /\ UNCHANGED <<ooo, got>>
      BY <1>4, <2>2 DEF Close, TypeOK, RecvType, histVars
    <3> QED BY <1>1, <3>1
  <2> QED BY <2>1, <2>2
<1>5. ASSUME NEW e \in End, NEW s \in Sub, RecvInOrder(e, s) PROVE ReceivedInPlace(d)'
  <2>1. CASE d = e
    BY <1>5, <2>1, RecvInOrderInPlace
  <2>2. CASE d # e
    <3>1. PICK b \in Nat : InOrderStep(e, s, b)
      BY <1>5, RecvInOrderStep
    <3>2. rq'[d] = rq[d] /\ rRead'[d] = rRead[d] /\ ooo'[d] = ooo[d]
      BY <2>2, <3>1 DEF InOrderStep, TypeOK, RecvType
    <3>3. UNCHANGED <<rDiscard, got>>
      BY <1>5 DEF RecvInOrder, histVars
    <3> QED BY <1>1, <3>2, <3>3
  <2> QED BY <2>1, <2>2
<1>6. ASSUME NEW e \in End, NEW s \in Sub, RecvOutOfOrder(e, s) PROVE ReceivedInPlace(d)'
  <2>1. CASE d = e
    BY <1>6, <2>1, RecvOutOfOrderInPlace
  <2>2. CASE d # e
    <3>1. ooo'[d] = ooo[d]
      BY <1>6, <2>2 DEF RecvOutOfOrder, TypeOK, RecvType
    <3>2. UNCHANGED <<rq, rRead, rDiscard, got>>
      BY <1>6 DEF RecvOutOfOrder, histVars
    <3> QED BY <1>1, <3>1, <3>2
  <2> QED BY <2>1, <2>2
<1>7. ASSUME NEW e \in End, Write(e) \/ ReadEOF(e) \/ CloseWrite(e) \/ Tick(e)
      PROVE  UNCHANGED <<rq, rRead, ooo, rDiscard, got>>
  BY <1>7 DEF Write, ReadEOF, CloseWrite, Tick, TickAck, TickRescue, TickFinish, TickReset,
              GiveUp, recvVars, histVars
<1>8. ASSUME NEW e \in End, NEW s \in Sub,
             \/ WriteLoop(e, s) \/ RecvOldData(e, s) \/ RecvAck(e, s)
             \/ RecvFin(e, s) \/ RecvRst(e, s) \/ ReaderExit(e, s) \/ RecvGap(e, s) \/ ReadError(e, s)
             \/ RecvRole(s) \/ PathDies(e, s) \/ Splice(e, s) \/ CloseCarrier(e, s)
      PROVE  UNCHANGED <<rq, rRead, ooo, rDiscard, got>>
  BY <1>8 DEF WriteLoop, SendData, SendFin, RecvOldData, RecvAck, RecvFin, RecvRst,
              ReaderExit, RecvGap, ReadError, RecvRole, PathDies, Splice, CloseCarrier, recvVars, histVars
<1>9. ASSUME NEW s \in Sub, PathManager(s)
      PROVE  UNCHANGED <<rq, rRead, ooo, rDiscard, got>>
  BY <1>9 DEF PathManager, StartJoin, ServerJoin, ClientAttach, JoinSettle, Failover, JoinFail,
              JoinRefused, RetireKill, recvVars, histVars
<1>10. CASE UNCHANGED vars
  BY <1>2, <1>10 DEF vars, recvVars, histVars
<1>11. ASSUME NEW e \in End, App(e) \/ Tick(e) PROVE ReceivedInPlace(d)'
  BY <1>2, <1>3, <1>4, <1>7, <1>11 DEF App
<1>12. ASSUME NEW e \in End, NEW s \in Sub,
              ReadLoop(e, s) \/ WriteLoop(e, s) \/ PathDies(e, s) \/ Splice(e, s) \/ CloseCarrier(e, s)
       PROVE  ReceivedInPlace(d)'
  BY <1>2, <1>5, <1>6, <1>8, <1>12 DEF ReadLoop
<1> QED BY <1>2, <1>9, <1>10, <1>11, <1>12 DEF Next

----------------------------------------------------------------------------
(* The theorems.                                                           *)

LEMMA InitStream == Init => StreamInv
<1> SUFFICES ASSUME Init PROVE StreamInv
  OBVIOUS
<1>1. TypeOK
  BY InitType
<1>2. Len(<<>>) = 0
  BY EmptySeq
<1>3. SpansWritten
  BY <1>2 DEF Init, SpansWritten, Written
<1>4. ASSUME NEW e \in End PROVE Len(Data[e]) \in Nat /\ Slice(<<>>, Data[e], 0)
  BY <1>2, DataFacts DEF DataTypes, Slice
<1>5. BytesInPlace
  BY <1>2, <1>4, PeerType DEF Init, BytesInPlace
<1> QED BY <1>1, <1>3, <1>5 DEF StreamInv

LEMMA NextStream == StreamInv /\ [Next]_vars => StreamInv'
<1> SUFFICES ASSUME StreamInv, [Next]_vars PROVE StreamInv'
  OBVIOUS
<1> USE DEF StreamInv
<1>1. TypeOK'
  BY NextType
<1>2. SpansWritten'
  BY <1>1, SpansNext
<1>3. ASSUME NEW e \in End
      PROVE  Slice(sq'[e], Data[e], sBase'[e]) /\ FramesInPlace(e)' /\ ReceivedInPlace(e)'
  BY <1>1, <1>3, SendQueueInPlace, FramesStayInPlace, ReceivedStaysInPlace
<1>4. BytesInPlace'
  BY <1>3 DEF BytesInPlace, FramesInPlace, ReceivedInPlace
<1> QED BY <1>1, <1>2, <1>4

(* The invariant behind the two theorems below holds in every state.       *)
THEOREM StreamInvariant == Spec => []StreamInv
<1>1. Init => StreamInv
  BY InitStream
<1>2. StreamInv /\ [Next]_vars => StreamInv'
  BY NextStream
<1> QED BY <1>1, <1>2, PTL DEF Spec

(* Every variable keeps its type, for every window, mode and bound.        *)
THEOREM TypeCorrect == Spec => []TypeOK
<1>1. StreamInv => TypeOK
  BY DEF StreamInv
<1> QED BY <1>1, StreamInvariant, PTL

(* No byte is lost, duplicated or reordered: what either application has   *)
(* read is a prefix of what the other one has to write, whatever subflows  *)
(* died, were replaced or switched, for every Data, window and mode.       *)
THEOREM DeliveryIsInOrder == Spec => []DeliveredInOrder
<1>1. StreamInv => DeliveredInOrder
  <2> SUFFICES ASSUME StreamInv, NEW e \in End
               PROVE  got[e] = SubSeq(Data[Peer(e)], 1, Len(got[e]))
    BY DEF DeliveredInOrder
  <2> DEFINE d == Data[Peer(e)]
             n == Len(got[e])
  <2>1. /\ got[e] \in Seq(Byte) /\ n \in Nat /\ d \in Seq(Byte) /\ Len(d) \in Nat
        /\ Slice(got[e], d, 0)
    BY LenProperties, DataFacts, PeerType DEF StreamInv, TypeOK, HistType, BytesInPlace, DataTypes
  <2>2. n <= Len(d) /\ \A i \in 1 .. n : got[e][i] = d[i] /\ d[i] \in Byte
    <3>1. 0 + n <= Len(d) /\ \A i \in 1 .. n : got[e][i] = d[0 + i]
      BY <2>1 DEF Slice
    <3>2. n <= Len(d) /\ \A i \in 1 .. n : 0 + i = i /\ i \in 1 .. Len(d)
      BY <2>1, <3>1
    <3> QED BY <2>1, <3>1, <3>2, ElementOfSeq
  <2>3. n - 1 + 1 = n /\ (~ 1 <= n => n = 0) /\ \A i \in 1 .. n : 1 + i - 1 = i
    BY <2>1
  <2> HIDE DEF d, n
  <2>4. /\ SubSeq(d, 1, n) \in Seq(Byte) /\ Len(SubSeq(d, 1, n)) = n
        /\ \A i \in 1 .. n : SubSeq(d, 1, n)[i] = d[i]
    BY <2>1, <2>2, <2>3, SubSeqProperties
  <2> QED BY <2>1, <2>2, <2>4, SeqEqual DEF d, n
<1> QED BY <1>1, StreamInvariant, PTL
=============================================================================

------------------------------- MODULE Msess -------------------------------
(***************************************************************************)
(* The multi-path session layer (core/msess): one client session and one   *)
(* server session exchanging a byte stream over several subflows.  A       *)
(* subflow is a connection whose frames arrive in order, until it breaks;  *)
(* subflows die, are replaced by joins, and are switched while data is in  *)
(* flight.  The module has the whole of both endpoints' stream state: send *)
(* queue, retransmission, reordering, ACK and FIN machinery, subflow       *)
(* attach / kill, the selector's active carrier, and session teardown.     *)
(*                                                                         *)
(* Abstracted: time (a timer may expire whenever its other conditions      *)
(* hold), the in-flight capacity of a subflow and its PINGs (a carrier may *)
(* decline to send, and may be declared dead, at any moment), checksums,   *)
(* and datagram sessions.                                                  *)
(***************************************************************************)
EXTENDS Integers, Sequences, FiniteSets

CONSTANTS
  Mode,          \* "bond": every subflow carries data; "selector": one does
  NSub,          \* number of subflow slots; a slot is reused once its connection is gone
  Byte,          \* the values of a byte
  Data,          \* Data[e]: what the application at e has to write
  Window,        \* bound on a direction's unacknowledged bytes
  SegmentSize,   \* largest DATA payload
  AckEvery,      \* delivered bytes that force an ACK
  Capacity,      \* DATA frames a subflow may have on their way
  Finishers,     \* bound: the ends whose application may call CloseWrite
  Closers,       \* bound: the ends whose application may call Close
  MaxKills,      \* bound: spontaneous subflow deaths, failed joins and splices
  MaxResets,     \* bound: application aborts and session timeouts
  MaxJoins,      \* bound: joins after the first subflow
  MaxSwitches,   \* bound: selector quality switches among them
  MaxRescues     \* bound: spans duplicated by the bond rescue

End == {"client", "server"}
Peer(e) == IF e = "client" THEN "server" ELSE "client"
Sub == 1 .. NSub
None == 0        \* no subflow
NoFin == -1      \* no FIN offset yet

ASSUME ModeAssumption == Mode \in {"bond", "selector"}
ASSUME SubAssumption == NSub \in Nat \ {0}
ASSUME DataAssumption == Data \in [End -> Seq(Byte)]
ASSUME SizeAssumption ==
  /\ Window \in Nat \ {0}
  /\ SegmentSize \in Nat \ {0}
  /\ AckEvery \in Nat \ {0}
  /\ Capacity \in Nat \ {0}
ASSUME BoundAssumption ==
  /\ Finishers \subseteq End /\ Closers \subseteq End
  /\ MaxKills \in Nat /\ MaxResets \in Nat
  /\ MaxJoins \in Nat /\ MaxSwitches \in Nat /\ MaxRescues \in Nat

Span == [off : Nat, n : Nat \ {0}]
Segment == [off : Nat, bytes : Seq(Byte)]
Frame == [type : {"data"}, off : Nat, bytes : Seq(Byte)]
         \cup [type : {"ack"}, next : Nat, fin : BOOLEAN]
         \cup [type : {"fin"}, off : Nat]
         \cup [type : {"rst", "role", "lost"}]

VARIABLES
  \* send side
  sq, sBase, sNext, retx, finOff, finOn, finAcked, rescueAt,
  \* receive side
  rq, rRead, ooo, peerFinAt, rDiscard,
  \* acknowledgements owed to the peer
  ackSent, ackFin, reAck,
  \* subflows: st[e][s], spans in flight, selector's data carrier
  st, infl, active,
  \* session status at each end, and whether its application closed it
  status, closed,
  \* net[e][s]: frames e queued on s that the peer has not read
  net,
  \* joins of the client: handshake phase, kind, receive offset sent in HELLO
  join, kind, rxNext,
  \* history: what Read returned, and whether it returned io.EOF
  got, eof,
  \* bounds spent so far
  kills, resets, joins, switches, rescues

sendVars  == <<sq, sBase, sNext, retx, finOff, finOn, finAcked, rescueAt>>
recvVars  == <<rq, rRead, ooo, peerFinAt, rDiscard>>
ackVars   == <<ackSent, ackFin, reAck>>
subVars   == <<st, infl, active>>
sessVars  == <<status, closed>>
joinVars  == <<join, kind, rxNext>>
histVars  == <<got, eof>>
boundVars == <<kills, resets, joins, switches, rescues>>
vars == <<sendVars, recvVars, ackVars, subVars, sessVars, net, joinVars, histVars, boundVars>>

----------------------------------------------------------------------------
(* Reading the state.                                                      *)

Live(e, s) == st[e][s] \in {"up", "retiring"}
LiveSubs(e) == {s \in Sub : Live(e, s)}
Open(e) == status[e] = "open"
Written(e) == sBase[e] + Len(sq[e])
Next0(e) == rRead[e] + Len(rq[e])       \* first byte not yet received in order
SpanEnd(sp) == sp.off + sp.n
SegEnd(sg) == sg.off + Len(sg.bytes)
Lesser(a, b) == IF a < b THEN a ELSE b

\* mistake: spans that are acknowledged entirely are kept, emptied
ClipKeepsAll(spans, base) ==
  {[off |-> IF sp.off < base THEN base ELSE sp.off,
    n |-> SpanEnd(sp) - (IF sp.off < base THEN base ELSE sp.off)] : sp \in spans}

\* requeueLocked: the unacknowledged part of the spans
Clip(spans, base) ==
  {[off |-> IF sp.off < base THEN base ELSE sp.off,
    n |-> SpanEnd(sp) - (IF sp.off < base THEN base ELSE sp.off)]
     : sp \in {x \in spans : SpanEnd(x) > base}}

\* mistake: the selector's standby carriers send too
EligibleAlways(e, s) == st[e][s] = "up"

Eligible(e, s) ==
  /\ st[e][s] = "up"
  /\ Mode = "selector" => active[e] = s

\* ackCarrierLocked: the active carrier if alive, else the subflow of least RTT
AckCarriers(e) ==
  IF active[e] \in LiveSubs(e) THEN {active[e]} ELSE LiveSubs(e)

\* mistake: the peer is not told of the switch
PutNothing(n, e, s, f) == n

\* a frame queued on a subflow whose writeLoop has exited is never sent
Put(n, e, s, f) == IF Live(e, s) THEN [n EXCEPT ![e][s] = Append(@, f)] ELSE n

----------------------------------------------------------------------------
(* Pieces shared by several handlers.                                      *)

(* maybeAckLocked, with the receive offset, the peer's FIN offset and the  *)
(* re-ACK flag that hold after the caller's own changes; n is the network  *)
(* after the caller's own changes.  When the session has ended, the ACK    *)
(* may find its carrier's writeLoop gone.                                  *)
MaybeAck(e, force, rr, finAt, re, n) ==
  LET fin == finAt # NoFin /\ rr >= finAt
      due == force \/ re \/ fin # ackFin[e] \/ rr - ackSent[e] >= AckEvery
  IN  \/ /\ due
         /\ \E c \in AckCarriers(e) :
              \/ net' = [n EXCEPT ![e][c] = Append(@, [type |-> "ack", next |-> rr, fin |-> fin])]
              \/ ~ Open(e) /\ net' = n
         /\ ackSent' = [ackSent EXCEPT ![e] = rr]
         /\ ackFin' = [ackFin EXCEPT ![e] = fin]
         /\ reAck' = [reAck EXCEPT ![e] = FALSE]
      \/ /\ ~due \/ AckCarriers(e) = {}
         /\ net' = n
         /\ reAck' = [reAck EXCEPT ![e] = re]
         /\ UNCHANGED <<ackSent, ackFin>>

\* mistake: what the dead carrier had in flight is dropped
KillSubDrops(e, s, after) ==
  /\ st' = [st EXCEPT ![e][s] = after]
  /\ infl' = [infl EXCEPT ![e][s] = {}]
  /\ finOn' = [finOn EXCEPT ![e] = IF @ = s THEN None ELSE @]
  /\ active' = [active EXCEPT ![e] = IF @ = s THEN None ELSE @]
  /\ reAck' = [reAck EXCEPT ![e] = TRUE]
  /\ UNCHANGED retx

\* mistake: a FIN that died with its carrier still counts as sent
KillSubKeepsFin(e, s, after) ==
  /\ st' = [st EXCEPT ![e][s] = after]
  /\ retx' = [retx EXCEPT ![e] = @ \cup Clip(infl[e][s], sBase[e])]
  /\ infl' = [infl EXCEPT ![e][s] = {}]
  /\ active' = [active EXCEPT ![e] = IF @ = s THEN None ELSE @]
  /\ reAck' = [reAck EXCEPT ![e] = TRUE]
  /\ UNCHANGED finOn

(* killLocked: the carrier's unacknowledged spans are requeued.            *)
KillSub(e, s, after) ==
  /\ st' = [st EXCEPT ![e][s] = after]
  /\ retx' = [retx EXCEPT ![e] = @ \cup Clip(infl[e][s], sBase[e])]
  /\ infl' = [infl EXCEPT ![e][s] = {}]
  /\ finOn' = [finOn EXCEPT ![e] = IF @ = s THEN None ELSE @]
  /\ active' = [active EXCEPT ![e] = IF @ = s THEN None ELSE @]
  /\ reAck' = [reAck EXCEPT ![e] = TRUE]

(* abortLocked with tellPeer: RST on every live subflow.                   *)
Abort(e) ==
  /\ status' = [status EXCEPT ![e] = "aborted"]
  /\ net' = [net EXCEPT ![e] = [s \in Sub |->
               IF Live(e, s) THEN Append(net[e][s], [type |-> "rst"]) ELSE net[e][s]]]

\* mistake: the send queue loses one byte too many
OnAckDropsMore(e, next, fin) ==
  LET to == IF next > sBase[e] THEN Lesser(next, Written(e)) ELSE sBase[e]
  IN  /\ sq' = [sq EXCEPT ![e] = IF to > sBase[e] THEN SubSeq(@, to - sBase[e] + 2, Len(@)) ELSE @]
      /\ sBase' = [sBase EXCEPT ![e] = to]
      /\ infl' = [infl EXCEPT ![e] = [s \in Sub |-> {sp \in infl[e][s] : SpanEnd(sp) > to}]]
      /\ finAcked' = [finAcked EXCEPT ![e] = @ \/ (fin /\ finOff[e] # NoFin /\ to >= finOff[e])]

(* onAckLocked: release the acknowledged bytes and spans.                  *)
OnAck(e, next, fin) ==
  LET to == IF next > sBase[e] THEN Lesser(next, Written(e)) ELSE sBase[e]
      nx == IF next > sBase[e] THEN to ELSE next
  IN  /\ sq' = [sq EXCEPT ![e] = SubSeq(@, to - sBase[e] + 1, Len(@))]
      /\ sBase' = [sBase EXCEPT ![e] = to]
      /\ infl' = [infl EXCEPT ![e] = [s \in Sub |-> {sp \in infl[e][s] : SpanEnd(sp) > to}]]
      /\ finAcked' = [finAcked EXCEPT ![e] = @ \/ (fin /\ finOff[e] # NoFin /\ nx >= finOff[e])]

\* mistake: the retired carrier's unacknowledged data is not sent again
SetActiveDrops(s) ==
  LET old == active["client"]
  IN  /\ active' = [active EXCEPT !["client"] = s]
      /\ net' = Put(net, "client", s, [type |-> "role"])
      /\ IF old \in LiveSubs("client") \ {s}
         THEN /\ infl' = [infl EXCEPT !["client"][old] = {}]
              /\ st' = [st EXCEPT !["client"][old] = "retiring"]
              /\ UNCHANGED retx
         ELSE UNCHANGED <<retx, infl, st>>

(* setActiveLocked (client): s becomes the data carrier, the old one's     *)
(* data is requeued and the old one retires.                               *)
SetActive(s) ==
  LET old == active["client"]
      retire == old \in LiveSubs("client") \ {s}
  IN  /\ active' = [active EXCEPT !["client"] = s]
      /\ net' = Put(net, "client", s, [type |-> "role"])
      /\ IF retire
         THEN /\ retx' = [retx EXCEPT !["client"] =
                            @ \cup Clip(infl["client"][old], sBase["client"])]
              /\ infl' = [infl EXCEPT !["client"][old] = {}]
              /\ st' = [st EXCEPT !["client"][old] = "retiring"]
         ELSE UNCHANGED <<retx, infl, st>>

----------------------------------------------------------------------------
(* Just after the first subflow's handshake: both ends have attached it.   *)

Init ==
  /\ sq = [e \in End |-> <<>>]
  /\ sBase = [e \in End |-> 0]
  /\ sNext = [e \in End |-> 0]
  /\ retx = [e \in End |-> {}]
  /\ finOff = [e \in End |-> NoFin]
  /\ finOn = [e \in End |-> None]
  /\ finAcked = [e \in End |-> FALSE]
  /\ rescueAt = [e \in End |-> -1]
  /\ rq = [e \in End |-> <<>>]
  /\ rRead = [e \in End |-> 0]
  /\ ooo = [e \in End |-> {}]
  /\ peerFinAt = [e \in End |-> NoFin]
  /\ rDiscard = [e \in End |-> FALSE]
  /\ ackSent = [e \in End |-> 0]
  /\ ackFin = [e \in End |-> FALSE]
  /\ reAck = [e \in End |-> FALSE]
  /\ st = [e \in End |-> [s \in Sub |-> IF s = 1 THEN "up" ELSE "off"]]
  /\ infl = [e \in End |-> [s \in Sub |-> {}]]
  /\ active = [e \in End |-> IF Mode = "selector" THEN 1 ELSE None]
  /\ status = [e \in End |-> "open"]
  /\ closed = [e \in End |-> FALSE]
  /\ net = [e \in End |-> [s \in Sub |-> <<>>]]
  /\ join = [s \in Sub |-> "idle"]
  /\ kind = [s \in Sub |-> "spare"]
  /\ rxNext = [s \in Sub |-> 0]
  /\ got = [e \in End |-> <<>>]
  /\ eof = [e \in End |-> FALSE]
  /\ kills = 0 /\ resets = 0 /\ joins = 0 /\ switches = 0 /\ rescues = 0

----------------------------------------------------------------------------
(* Application calls.                                                      *)

\* mistake: the room is the whole window, whatever is queued already
WriteOverWindow(e) ==
  /\ Open(e) /\ finOff[e] = NoFin
  /\ \E k \in 1 .. Lesser(Window, Len(Data[e]) - Written(e)) :
       sq' = [sq EXCEPT ![e] = @ \o SubSeq(Data[e], Written(e) + 1, Written(e) + k)]
  /\ UNCHANGED <<sBase, sNext, retx, finOff, finOn, finAcked, rescueAt, recvVars, ackVars,
                 subVars, sessVars, net, joinVars, histVars, boundVars>>

(* Write: up to the window, the next bytes of the application's data.      *)
Write(e) ==
  /\ Open(e) /\ finOff[e] = NoFin
  /\ \E k \in 1 .. Lesser(Window - Len(sq[e]), Len(Data[e]) - Written(e)) :
       sq' = [sq EXCEPT ![e] = @ \o SubSeq(Data[e], Written(e) + 1, Written(e) + k)]
  /\ UNCHANGED <<sBase, sNext, retx, finOff, finOn, finAcked, rescueAt, recvVars, ackVars,
                 subVars, sessVars, net, joinVars, histVars, boundVars>>

\* mistake: bytes are acknowledged as soon as they are received
ReadAcksQueued(e) ==
  /\ \E k \in 1 .. Len(rq[e]) :
       /\ rq' = [rq EXCEPT ![e] = SubSeq(@, k + 1, Len(@))]
       /\ rRead' = [rRead EXCEPT ![e] = @ + k]
       /\ got' = [got EXCEPT ![e] = @ \o SubSeq(rq[e], 1, k)]
       /\ MaybeAck(e, FALSE, Next0(e), peerFinAt[e], reAck[e], net)
  /\ UNCHANGED <<sendVars, ooo, peerFinAt, rDiscard, subVars, sessVars, joinVars, eof, boundVars>>

(* Read: some of the bytes received in order, then perhaps an ACK.         *)
Read(e) ==
  /\ \E k \in 1 .. Len(rq[e]) :
       /\ rq' = [rq EXCEPT ![e] = SubSeq(@, k + 1, Len(@))]
       /\ rRead' = [rRead EXCEPT ![e] = @ + k]
       /\ got' = [got EXCEPT ![e] = @ \o SubSeq(rq[e], 1, k)]
       /\ MaybeAck(e, FALSE, rRead[e] + k, peerFinAt[e], reAck[e], net)
  /\ UNCHANGED <<sendVars, ooo, peerFinAt, rDiscard, subVars, sessVars, joinVars, eof, boundVars>>

\* mistake: the FIN ends the stream whatever is still on its way
ReadEOFEarly(e) ==
  /\ ~closed[e] /\ ~eof[e]
  /\ rq[e] = <<>>
  /\ peerFinAt[e] # NoFin
  /\ eof' = [eof EXCEPT ![e] = TRUE]
  /\ UNCHANGED <<sendVars, recvVars, ackVars, subVars, sessVars, net, joinVars, got, boundVars>>

(* Read at the end of the stream: io.EOF comes before any error.           *)
ReadEOF(e) ==
  /\ ~closed[e] /\ ~eof[e]
  /\ rq[e] = <<>>
  /\ peerFinAt[e] # NoFin /\ rRead[e] >= peerFinAt[e]
  /\ eof' = [eof EXCEPT ![e] = TRUE]
  /\ UNCHANGED <<sendVars, recvVars, ackVars, subVars, sessVars, net, joinVars, got, boundVars>>

\* mistake: the FIN follows what has been sent, not what has been written
CloseWriteAtSent(e) ==
  /\ e \in Finishers /\ finOff[e] = NoFin
  /\ finOff' = [finOff EXCEPT ![e] = sNext[e]]
  /\ UNCHANGED <<sq, sBase, sNext, retx, finOn, finAcked, rescueAt, recvVars, ackVars,
                 subVars, sessVars, net, joinVars, histVars, boundVars>>

CloseWrite(e) ==
  /\ e \in Finishers /\ finOff[e] = NoFin
  /\ finOff' = [finOff EXCEPT ![e] = Written(e)]
  /\ UNCHANGED <<sq, sBase, sNext, retx, finOn, finAcked, rescueAt, recvVars, ackVars,
                 subVars, sessVars, net, joinVars, histVars, boundVars>>

(* Close: no more data either way; what was received is discarded, what    *)
(* was written is still delivered.                                         *)
Close(e) ==
  LET rr == rRead[e] + Len(rq[e])
  IN  /\ e \in Closers /\ ~closed[e]
      /\ closed' = [closed EXCEPT ![e] = TRUE]
      /\ finOff' = [finOff EXCEPT ![e] = IF @ = NoFin THEN Written(e) ELSE @]
      /\ rDiscard' = [rDiscard EXCEPT ![e] = TRUE]
      /\ rRead' = [rRead EXCEPT ![e] = rr]
      /\ rq' = [rq EXCEPT ![e] = <<>>]
      /\ MaybeAck(e, TRUE, rr, peerFinAt[e], reAck[e], net)
      /\ UNCHANGED <<sq, sBase, sNext, retx, finOn, finAcked, rescueAt, ooo, peerFinAt,
                     subVars, status, joinVars, histVars, boundVars>>

----------------------------------------------------------------------------
(* writeLoop of subflow s at e.                                            *)

(* nextDataLocked: below the in-flight cap, the lowest span to resend, else *)
(* the next new bytes.                                                      *)
SendData(e, s) ==
  LET again == Clip(retx[e], sBase[e])
      fresh == IF sNext[e] < sBase[e] THEN sBase[e] ELSE sNext[e]
      emit(sp) ==
        /\ net' = [net EXCEPT ![e][s] =
                     Append(@, [type |-> "data", off |-> sp.off,
                                bytes |-> SubSeq(sq[e], sp.off - sBase[e] + 1,
                                                 sp.off - sBase[e] + sp.n)])]
        /\ infl' = [infl EXCEPT ![e][s] = @ \cup {sp}]
  IN  /\ Open(e) /\ Eligible(e, s)
      /\ Cardinality({i \in 1 .. Len(net[e][s]) : net[e][s][i].type = "data"}) < Capacity
      /\ \/ \E sp \in again :
              /\ \A other \in again : sp.off <= other.off
              /\ LET n == Lesser(sp.n, SegmentSize)
                     rest == {[off |-> sp.off + k, n |-> sp.n - k] : k \in {n} \ {sp.n}}
                 IN  /\ emit([off |-> sp.off, n |-> n])
                     /\ retx' = [retx EXCEPT ![e] = (again \ {sp}) \cup rest]
              /\ UNCHANGED sNext
         \/ /\ again = {}
            /\ fresh < Written(e)
            /\ LET n == Lesser(Written(e) - fresh, SegmentSize)
               IN  /\ emit([off |-> fresh, n |-> n])
                   /\ sNext' = [sNext EXCEPT ![e] = fresh + n]
            /\ retx' = [retx EXCEPT ![e] = {}]
      /\ UNCHANGED <<sq, sBase, finOff, finOn, finAcked, rescueAt, recvVars, ackVars, st, active,
                     sessVars, joinVars, histVars, boundVars>>

(* needFinLocked: FIN once everything has been sent at least once, unless  *)
(* one is already out on a subflow that lives.                             *)
SendFin(e, s) ==
  /\ Open(e) /\ Eligible(e, s)
  /\ finOff[e] # NoFin /\ ~finAcked[e] /\ finOn[e] = None
  /\ Clip(retx[e], sBase[e]) = {}
  /\ sNext[e] >= finOff[e]
  /\ finOn' = [finOn EXCEPT ![e] = s]
  /\ net' = [net EXCEPT ![e][s] = Append(@, [type |-> "fin", off |-> finOff[e]])]
  /\ UNCHANGED <<sq, sBase, sNext, retx, finOff, finAcked, rescueAt, recvVars, ackVars, subVars,
                 sessVars, joinVars, histVars, boundVars>>

----------------------------------------------------------------------------
(* readLoop of subflow s at e: one frame, in order.  It goes on reading    *)
(* buffered frames of a subflow another goroutine has already killed.      *)

Receive(e, s, type) ==
  /\ st[e][s] # "off"
  /\ net[Peer(e)][s] # <<>>
  /\ Head(net[Peer(e)][s]).type = type

Received(e, s) == Head(net[Peer(e)][s])
Consumed(e, s) == [net EXCEPT ![Peer(e)][s] = Tail(@)]

(* DATA that was already received: the sender missed an ACK.               *)
RecvOldData(e, s) ==
  /\ Receive(e, s, "data")
  /\ SegEnd(Received(e, s)) <= Next0(e)
  /\ net' = Consumed(e, s)
  /\ reAck' = [reAck EXCEPT ![e] = TRUE]
  /\ UNCHANGED <<sendVars, recvVars, ackSent, ackFin, subVars, sessVars, joinVars, histVars, boundVars>>

\* segs cover every offset from a up to, and not including, b
Covers(segs, a, b) == \A k \in a .. (b - 1) : \E sg \in segs : sg.off <= k /\ k < SegEnd(sg)

\* mistake: what is held out of order is drained from its far end
BytesOfFarFirst(segs, a, b) ==
  [i \in 1 .. (b - a) |->
     LET sg == CHOOSE x \in segs : x.off <= b - i /\ b - i < SegEnd(x)
     IN  sg.bytes[b - i + 1 - sg.off]]

\* the bytes segs hold for offsets a .. b-1; where segments overlap they agree
BytesOf(segs, a, b) ==
  [i \in 1 .. (b - a) |->
     LET sg == CHOOSE x \in segs : x.off <= a + i - 1 /\ a + i - 1 < SegEnd(x)
     IN  sg.bytes[a + i - sg.off]]

(* DATA that extends the in-order bytes, together with the out-of-order    *)
(* segments it reaches; discarded, and acknowledged, after Close.  (The    *)
(* code calls maybeAckLocked once per discarded piece; the last call's ACK *)
(* covers the earlier ones.)                                               *)
RecvInOrder(e, s) ==
  LET f == Received(e, s)
      segs == ooo[e] \cup {[off |-> f.off, bytes |-> f.bytes]}
      a == Next0(e)
  IN  /\ Receive(e, s, "data")
      /\ f.off <= a /\ a < SegEnd(f)
      /\ \E b \in {SegEnd(sg) : sg \in segs} :
           /\ b > a
           /\ Covers(segs, a, b) /\ ~ Covers(segs, b, b + 1)
           /\ ooo' = [ooo EXCEPT ![e] = {sg \in ooo[e] : sg.off > b}]
           /\ IF rDiscard[e]
              THEN /\ rRead' = [rRead EXCEPT ![e] = b]
                   /\ MaybeAck(e, FALSE, b, peerFinAt[e], reAck[e], Consumed(e, s))
                   /\ UNCHANGED rq
              ELSE /\ rq' = [rq EXCEPT ![e] = @ \o BytesOf(segs, a, b)]
                   /\ net' = Consumed(e, s)
                   /\ UNCHANGED <<rRead, ackVars>>
      /\ UNCHANGED <<sendVars, peerFinAt, rDiscard, subVars, sessVars, joinVars, histVars, boundVars>>

\* mistake: a segment replaces whatever was held out of order
RecvOutOfOrderNewest(e, s) ==
  LET f == Received(e, s)
  IN  /\ Receive(e, s, "data")
      /\ f.off > Next0(e)
      /\ net' = Consumed(e, s)
      /\ ooo' = [ooo EXCEPT ![e] = {[off |-> f.off, bytes |-> f.bytes]}]
      /\ UNCHANGED <<sendVars, rq, rRead, peerFinAt, rDiscard, ackVars, subVars, sessVars, joinVars,
                     histVars, boundVars>>

(* DATA beyond the next byte is kept; of two segments with the same offset *)
(* the longer stays.                                                       *)
RecvOutOfOrder(e, s) ==
  LET f == Received(e, s)
      new == [off |-> f.off, bytes |-> f.bytes]
      same == {sg \in ooo[e] : sg.off = f.off}
  IN  /\ Receive(e, s, "data")
      /\ f.off > Next0(e)
      /\ net' = Consumed(e, s)
      /\ ooo' = IF \E sg \in same : Len(sg.bytes) >= Len(f.bytes)
                THEN ooo
                ELSE [ooo EXCEPT ![e] = (@ \ same) \cup {new}]
      /\ UNCHANGED <<sendVars, rq, rRead, peerFinAt, rDiscard, ackVars, subVars, sessVars, joinVars,
                     histVars, boundVars>>

RecvAck(e, s) ==
  /\ Receive(e, s, "ack")
  /\ OnAck(e, Received(e, s).next, Received(e, s).fin)
  /\ net' = Consumed(e, s)
  /\ UNCHANGED <<sNext, retx, finOff, finOn, rescueAt, recvVars, ackVars, st, active, sessVars,
                 joinVars, histVars, boundVars>>

\* mistake: the FIN's arrival, not its offset, ends the stream
RecvFinHere(e, s) ==
  /\ Receive(e, s, "fin")
  /\ peerFinAt' = [peerFinAt EXCEPT ![e] = Next0(e)]
  /\ MaybeAck(e, TRUE, rRead[e], Next0(e), reAck[e], Consumed(e, s))
  /\ UNCHANGED <<sendVars, rq, rRead, ooo, rDiscard, subVars, sessVars, joinVars, histVars, boundVars>>

RecvFin(e, s) ==
  /\ Receive(e, s, "fin")
  /\ peerFinAt' = [peerFinAt EXCEPT ![e] = Received(e, s).off]
  /\ MaybeAck(e, TRUE, rRead[e], Received(e, s).off, reAck[e], Consumed(e, s))
  /\ UNCHANGED <<sendVars, rq, rRead, ooo, rDiscard, subVars, sessVars, joinVars, histVars, boundVars>>

(* RST ends the session at once and is not answered.                       *)
RecvRst(e, s) ==
  /\ Receive(e, s, "rst")
  /\ status' = [status EXCEPT ![e] = IF @ = "open" THEN "aborted" ELSE @]
  /\ net' = Consumed(e, s)
  /\ UNCHANGED <<sendVars, recvVars, ackVars, subVars, closed, joinVars, histVars, boundVars>>

(* ROLE: the client moved its data, and ours, to this subflow.             *)
RecvRole(s) ==
  LET old == active["server"]
      e == "server"
  IN  /\ Receive(e, s, "role")
      /\ net' = Consumed(e, s)
      /\ IF old = s
         THEN UNCHANGED <<active, retx, infl>>
         ELSE /\ active' = [active EXCEPT ![e] = s]
              /\ IF old = None
                 THEN UNCHANGED <<retx, infl>>
                 ELSE /\ retx' = [retx EXCEPT ![e] = @ \cup Clip(infl[e][old], sBase[e])]
                      /\ infl' = [infl EXCEPT ![e][old] = {}]
      /\ UNCHANGED <<sq, sBase, sNext, finOff, finOn, finAcked, rescueAt, recvVars, ackVars, st,
                     sessVars, joinVars, histVars, boundVars>>

(* A frame whose sequence number does not follow the last one: frames were *)
(* lost on a spliced hop, and the carrier is dropped, if it still is one.  *)
RecvGap(e, s) ==
  /\ Receive(e, s, "lost") /\ Live(e, s)
  /\ Len(net[Peer(e)][s]) > 1
  /\ net' = [net EXCEPT ![Peer(e)][s] = <<>>]
  /\ KillSub(e, s, "off")
  /\ UNCHANGED <<sq, sBase, sNext, finOff, finAcked, rescueAt, recvVars, ackSent, ackFin, sessVars,
                 joinVars, histVars, boundVars>>

----------------------------------------------------------------------------
(* Subflows dying.                                                         *)

\* nobody will read what the two ends have queued on s any more
Forget(e, s) ==
  [net EXCEPT ![Peer(e)][s] = <<>>,
              ![e][s] = IF st[Peer(e)][s] = "off" /\ join[s] # "ok" THEN <<>> ELSE @]

(* PONG timeout or write error: e drops s on its own.                      *)
PathDies(e, s) ==
  /\ kills < MaxKills
  /\ Open(e) /\ Live(e, s)
  /\ kills' = kills + 1
  /\ KillSub(e, s, "killed")
  /\ UNCHANGED <<sq, sBase, sNext, finOff, finAcked, rescueAt, recvVars, ackSent, ackFin, sessVars,
                 net, joinVars, histVars, resets, joins, switches, rescues>>

(* A hop loses a frame in the middle of the connection.                    *)
Splice(e, s) ==
  /\ kills < MaxKills
  /\ \E i \in 1 .. (Len(net[e][s]) - 1) :
       /\ net[e][s][i].type # "lost"
       /\ net' = [net EXCEPT ![e][s][i] = [type |-> "lost"]]
  /\ kills' = kills + 1
  /\ UNCHANGED <<sendVars, recvVars, ackVars, subVars, sessVars, joinVars, histVars, resets, joins, switches, rescues>>

(* The peer closed the connection: readLoop fails, possibly before it has  *)
(* read everything that was on its way.                                    *)
ReadError(e, s) ==
  /\ Live(e, s)
  /\ ~ Live(Peer(e), s) /\ ~(e = "server" /\ join[s] = "ok")
  /\ net' = Forget(e, s)
  /\ KillSub(e, s, "off")
  /\ UNCHANGED <<sq, sBase, sNext, finOff, finAcked, rescueAt, recvVars, ackSent, ackFin, sessVars,
                 joinVars, histVars, boundVars>>

(* readLoop of a killed subflow ends.                                      *)
ReaderExit(e, s) ==
  /\ st[e][s] = "killed"
  /\ st' = [st EXCEPT ![e][s] = "off"]
  /\ net' = Forget(e, s)
  /\ UNCHANGED <<sendVars, recvVars, ackVars, infl, active, sessVars, joinVars, histVars, boundVars>>

(* RetireGrace is over, or the join lost its race.                         *)
RetireKill(s) ==
  /\ st["client"][s] = "retiring"
  /\ KillSub("client", s, "killed")
  /\ UNCHANGED <<sq, sBase, sNext, finOff, finAcked, rescueAt, recvVars, ackSent, ackFin, sessVars,
                 net, joinVars, histVars, boundVars>>

(* An ended session closes its carriers after a moment.                    *)
CloseCarrier(e, s) ==
  /\ ~ Open(e) /\ Live(e, s)
  /\ KillSub(e, s, "killed")
  /\ UNCHANGED <<sq, sBase, sNext, finOff, finAcked, rescueAt, recvVars, ackSent, ackFin, sessVars,
                 net, joinVars, histVars, boundVars>>

----------------------------------------------------------------------------
(* Joins: the client's path manager replaces or adds carriers.             *)

Dialing == {s \in Sub : join[s] \in {"hello", "ok", "unknown"}}

Free(s) ==
  /\ join[s] = "idle"
  /\ \A e \in End : /\ st[e][s] = "off" /\ net[e][s] = <<>>
                    /\ active[e] # s /\ finOn[e] # s

ManagerRuns == Open("client") /\ ~(closed["client"] /\ finAcked["client"])
NoCarrier == active["client"] \notin LiveSubs("client")
Usable(s) == st["client"][s] = "up"

\* mistake: HELLO acknowledges bytes that were received but not read
StartJoinAcksQueued(s, k) ==
  /\ ManagerRuns /\ Free(s) /\ joins < MaxJoins
  /\ joins' = joins + 1
  /\ join' = [join EXCEPT ![s] = "hello"]
  /\ kind' = [kind EXCEPT ![s] = k]
  /\ rxNext' = [rxNext EXCEPT ![s] = Next0("client")]
  /\ UNCHANGED <<sendVars, recvVars, ackVars, subVars, sessVars, net, histVars, kills, switches,
                 resets, rescues>>

(* evalLocked, startJoinLocked: a spare carrier in bond mode, a            *)
(* replacement when the selector has none, or a quality switch.            *)
StartJoin(s, k) ==
  /\ ManagerRuns /\ Free(s) /\ joins < MaxJoins
  /\ joins' = joins + 1
  /\ \/ Mode = "bond" /\ k = "spare" /\ UNCHANGED switches
     \/ /\ Mode = "selector" /\ k = "failover"
        /\ NoCarrier /\ ~ \E x \in Sub : Usable(x)
        /\ UNCHANGED switches
     \/ /\ Mode = "selector" /\ k = "switch" /\ switches < MaxSwitches
        /\ ~ NoCarrier /\ Dialing = {}
        /\ switches' = switches + 1
  /\ join' = [join EXCEPT ![s] = "hello"]
  /\ kind' = [kind EXCEPT ![s] = k]
  /\ rxNext' = [rxNext EXCEPT ![s] = rRead["client"]]
  /\ UNCHANGED <<sendVars, recvVars, ackVars, subVars, sessVars, net, histVars, kills, resets, rescues>>

\* mistake: a session without a subflow is taken for a lost one
ServerJoinRefusesOrphan(s) ==
  /\ join[s] = "hello"
  /\ OnAck("server", rxNext[s], FALSE)
  /\ IF Open("server") /\ LiveSubs("server") # {}
     THEN /\ join' = [join EXCEPT ![s] = "ok"]
          /\ st' = [st EXCEPT !["server"][s] = "up"]
          /\ active' = [active EXCEPT !["server"] = IF Mode = "selector" /\ @ = None THEN s ELSE @]
     ELSE /\ join' = [join EXCEPT ![s] = "unknown"]
          /\ UNCHANGED <<st, active>>
  /\ UNCHANGED <<sNext, retx, finOff, finOn, rescueAt, recvVars, ackVars, sessVars, net, kind, rxNext,
                 histVars, boundVars>>

(* Server.Handle, kindJoin: the HELLO's receive offset counts as an ACK.   *)
ServerJoin(s) ==
  /\ join[s] = "hello"
  /\ OnAck("server", rxNext[s], FALSE)
  /\ IF Open("server")
     THEN /\ join' = [join EXCEPT ![s] = "ok"]
          /\ st' = [st EXCEPT !["server"][s] = "up"]
          /\ active' = [active EXCEPT !["server"] = IF Mode = "selector" /\ @ = None THEN s ELSE @]
     ELSE /\ join' = [join EXCEPT ![s] = "unknown"]
          /\ UNCHANGED <<st, active>>
  /\ UNCHANGED <<sNext, retx, finOff, finOn, rescueAt, recvVars, ackVars, sessVars, net, kind, rxNext,
                 histVars, boundVars>>

(* The accepted join reaches attach at the client; an ended session closes *)
(* the connection instead.                                                 *)
ClientAttach(s) ==
  /\ join[s] = "ok"
  /\ IF Open("client")
     THEN /\ join' = [join EXCEPT ![s] = IF Mode = "selector" THEN "attached" ELSE "idle"]
          /\ st' = [st EXCEPT !["client"][s] = "up"]
          /\ active' = [active EXCEPT !["client"] = IF Mode = "selector" /\ @ = None THEN s ELSE @]
          /\ UNCHANGED net
     ELSE /\ join' = [join EXCEPT ![s] = "idle"]
          /\ net' = [net EXCEPT !["server"][s] = <<>>]
          /\ UNCHANGED <<st, active>>
  /\ UNCHANGED <<sendVars, recvVars, ackVars, infl, sessVars, kind, rxNext, histVars, boundVars>>

(* The end of startJoinLocked's goroutine in selector mode: the first join *)
(* to attach, or a quality switch, becomes active; a late one retires.     *)
JoinSettle(s) ==
  /\ join[s] = "attached"
  /\ join' = [join EXCEPT ![s] = "idle"]
  /\ IF kind[s] = "switch" \/ NoCarrier \/ active["client"] = s
     THEN SetActive(s)
     ELSE /\ st' = [st EXCEPT !["client"][s] = IF Live("client", s) THEN "retiring" ELSE @]
          /\ UNCHANGED <<active, net, retx, infl>>
  /\ UNCHANGED <<sq, sBase, sNext, finOff, finOn, finAcked, rescueAt, recvVars, ackVars, sessVars,
                 kind, rxNext, histVars, boundVars>>

(* evalLocked: no carrier is active but an attached one is usable.         *)
Failover(s) ==
  /\ Mode = "selector" /\ ManagerRuns /\ NoCarrier /\ Usable(s)
  /\ SetActive(s)
  /\ UNCHANGED <<sq, sBase, sNext, finOff, finOn, finAcked, rescueAt, recvVars, ackVars, sessVars,
                 joinVars, histVars, boundVars>>

(* The handshake fails at the client, after or before the server saw it.   *)
JoinFail(s) ==
  /\ kills < MaxKills
  /\ join[s] \in {"hello", "ok"}
  /\ join' = [join EXCEPT ![s] = "idle"]
  /\ net' = [net EXCEPT !["server"][s] = <<>>]
  /\ kills' = kills + 1
  /\ UNCHANGED <<sendVars, recvVars, ackVars, subVars, sessVars, kind, rxNext, histVars, resets, joins, switches, rescues>>

(* errUnknownSession: the exit has lost the session; give it up.           *)
JoinRefused(s) ==
  /\ join[s] = "unknown"
  /\ join' = [join EXCEPT ![s] = "idle"]
  /\ IF Open("client") THEN Abort("client") ELSE UNCHANGED <<status, net>>
  /\ UNCHANGED <<sendVars, recvVars, ackVars, subVars, closed, kind, rxNext, histVars, boundVars>>

----------------------------------------------------------------------------
(* The manager's tick.  tickLocked runs these checks one after the other   *)
(* in one critical section; each is an action, so the model also has the   *)
(* ticks in which only some of the conditions have come true.              *)

\* mistake: no delayed ACK, only one per AckEvery bytes
TickAckOnlyLost(e) ==
  /\ Open(e)
  /\ reAck[e]
  /\ AckCarriers(e) # {}
  /\ MaybeAck(e, TRUE, rRead[e], peerFinAt[e], reAck[e], net)
  /\ UNCHANGED <<sendVars, recvVars, subVars, sessVars, joinVars, histVars, boundVars>>

TickAck(e) ==
  /\ Open(e)
  /\ rRead[e] # ackSent[e] \/ reAck[e]
  /\ AckCarriers(e) # {}
  /\ MaybeAck(e, TRUE, rRead[e], peerFinAt[e], reAck[e], net)
  /\ UNCHANGED <<sendVars, recvVars, subVars, sessVars, joinVars, histVars, boundVars>>

(* rescueLocked: the span holding back the window is also requeued, once.  *)
TickRescue(e) ==
  /\ Open(e) /\ Mode = "bond"
  /\ rescues < MaxRescues
  /\ rescueAt[e] # sBase[e] /\ sq[e] # <<>>
  /\ \E s \in LiveSubs(e) : \E sp \in infl[e][s] :
       /\ sp.off <= sBase[e] /\ sBase[e] < SpanEnd(sp)
       /\ retx' = [retx EXCEPT ![e] = @ \cup Clip({sp}, sBase[e])]
  /\ rescueAt' = [rescueAt EXCEPT ![e] = sBase[e]]
  /\ rescues' = rescues + 1
  /\ UNCHANGED <<sq, sBase, sNext, finOff, finOn, finAcked, recvVars, ackVars, subVars, sessVars,
                 net, joinVars, histVars, kills, resets, joins, switches>>

\* mistake: the session ends when its own direction is delivered
CompleteOneWay(e) == finAcked[e]

Complete(e) ==
  /\ finAcked[e]
  /\ peerFinAt[e] # NoFin /\ rRead[e] >= peerFinAt[e]
  /\ ackFin[e] /\ ackSent[e] >= peerFinAt[e]

TickFinish(e) ==
  /\ Open(e) /\ Complete(e)
  /\ status' = [status EXCEPT ![e] = "finished"]
  /\ UNCHANGED <<sendVars, recvVars, ackVars, subVars, closed, net, joinVars, histVars, boundVars>>

\* mistake: a closed session is reset before what it wrote is delivered
TickResetAtOnce(e) ==
  /\ Open(e) /\ closed[e]
  /\ ~(peerFinAt[e] # NoFin /\ rRead[e] >= peerFinAt[e])
  /\ Abort(e)
  /\ UNCHANGED <<sendVars, recvVars, ackVars, subVars, closed, joinVars, histVars, boundVars>>

(* The application is gone and all it wrote is delivered: reset rather     *)
(* than pull data nobody will read.                                        *)
TickReset(e) ==
  /\ Open(e) /\ closed[e] /\ finAcked[e]
  /\ ~(peerFinAt[e] # NoFin /\ rRead[e] >= peerFinAt[e])
  /\ Abort(e)
  /\ UNCHANGED <<sendVars, recvVars, ackVars, subVars, closed, joinVars, histVars, boundVars>>

(* Idle, linger and orphan timeouts, and abort called by the owner.        *)
GiveUp(e) ==
  /\ resets < MaxResets
  /\ Open(e)
  /\ resets' = resets + 1
  /\ Abort(e)
  /\ UNCHANGED <<sendVars, recvVars, ackVars, subVars, closed, joinVars, histVars, kills, joins, switches, rescues>>

----------------------------------------------------------------------------
App(e) == Write(e) \/ Read(e) \/ ReadEOF(e) \/ CloseWrite(e) \/ Close(e)

ReadLoop(e, s) ==
  \/ RecvOldData(e, s) \/ RecvInOrder(e, s) \/ RecvOutOfOrder(e, s)
  \/ RecvAck(e, s) \/ RecvFin(e, s) \/ RecvRst(e, s)
  \/ (e = "server" /\ RecvRole(s))
  \/ RecvGap(e, s) \/ ReadError(e, s) \/ ReaderExit(e, s)

WriteLoop(e, s) == SendData(e, s) \/ SendFin(e, s)

PathManager(s) ==
  \/ \E k \in {"spare", "failover", "switch"} : StartJoin(s, k)
  \/ ServerJoin(s) \/ ClientAttach(s) \/ JoinSettle(s) \/ Failover(s)
  \/ JoinFail(s) \/ JoinRefused(s) \/ RetireKill(s)

Tick(e) == TickAck(e) \/ TickRescue(e) \/ TickFinish(e) \/ TickReset(e) \/ GiveUp(e)

Next ==
  \/ \E e \in End : App(e) \/ Tick(e)
  \/ \E e \in End, s \in Sub :
       ReadLoop(e, s) \/ WriteLoop(e, s) \/ PathDies(e, s) \/ Splice(e, s) \/ CloseCarrier(e, s)
  \/ \E s \in Sub : PathManager(s)

Spec == Init /\ [][Next]_vars

(***************************************************************************)
(* Fairness.  Every goroutine of a session runs: the application reads,    *)
(* the readLoops take the frames that arrive, an eligible writeLoop sends  *)
(* what waits (its in-flight cap is released by PONGs), the ticker fires,  *)
(* ended sessions close their carriers, and the path manager goes on with  *)
(* its joins and starts one when it has no carrier.  Nothing forces a      *)
(* subflow to die, a quality switch, a rescue, a write or a close by the   *)
(* application.                                                            *)
(***************************************************************************)
Reading(e) == Read(e) \/ ReadEOF(e)
Receiving(e) == \E s \in Sub : ReadLoop(e, s)
Sending(e) == \E s \in Sub : WriteLoop(e, s)
Ticking(e) == TickAck(e) \/ TickFinish(e) \/ TickReset(e)
Joining(s) ==
  \/ StartJoin(s, "spare") \/ StartJoin(s, "failover")
  \/ ServerJoin(s) \/ ClientAttach(s) \/ JoinSettle(s) \/ Failover(s)
  \/ JoinRefused(s) \/ RetireKill(s) \/ \E e \in End : CloseCarrier(e, s)

Fairness ==
  /\ \A e \in End :
       WF_vars(Reading(e)) /\ WF_vars(Receiving(e)) /\ WF_vars(Sending(e)) /\ WF_vars(Ticking(e))
  /\ WF_vars(\E s \in Sub : Joining(s))

FairSpec == Spec /\ Fairness

----------------------------------------------------------------------------
SendType ==
  /\ sq \in [End -> Seq(Byte)]
  /\ sBase \in [End -> Nat] /\ sNext \in [End -> Nat]
  /\ retx \in [End -> SUBSET Span]
  /\ finOff \in [End -> Nat \cup {NoFin}] /\ finOn \in [End -> Sub \cup {None}]
  /\ finAcked \in [End -> BOOLEAN] /\ rescueAt \in [End -> Nat \cup {-1}]
RecvType ==
  /\ rq \in [End -> Seq(Byte)] /\ rRead \in [End -> Nat]
  /\ ooo \in [End -> SUBSET Segment]
  /\ peerFinAt \in [End -> Nat \cup {NoFin}] /\ rDiscard \in [End -> BOOLEAN]
AckType ==
  /\ ackSent \in [End -> Nat]
  /\ ackFin \in [End -> BOOLEAN] /\ reAck \in [End -> BOOLEAN]
SubType ==
  /\ st \in [End -> [Sub -> {"off", "up", "retiring", "killed"}]]
  /\ infl \in [End -> [Sub -> SUBSET Span]]
  /\ active \in [End -> Sub \cup {None}]
SessType ==
  /\ status \in [End -> {"open", "finished", "aborted"}]
  /\ closed \in [End -> BOOLEAN]
NetType == net \in [End -> [Sub -> Seq(Frame)]]
JoinType ==
  /\ join \in [Sub -> {"idle", "hello", "ok", "unknown", "attached"}]
  /\ kind \in [Sub -> {"spare", "failover", "switch"}]
  /\ rxNext \in [Sub -> Nat]
HistType == got \in [End -> Seq(Byte)] /\ eof \in [End -> BOOLEAN]
BoundType ==
  /\ kills \in Nat /\ resets \in Nat /\ joins \in Nat
  /\ switches \in Nat /\ rescues \in Nat

(* Every variable keeps its type.                                          *)
TypeOK ==
  /\ SendType /\ RecvType /\ AckType /\ SubType /\ SessType
  /\ NetType /\ JoinType /\ HistType /\ BoundType

(* "Without losing, duplicating or reordering a byte": whatever dies or is *)
(* switched on the way, what Read returned is a prefix of what the peer's  *)
(* application wrote.                                                      *)
DeliveredInOrder == \A e \in End : got[e] = SubSeq(Data[Peer(e)], 1, Len(got[e]))

(* io.EOF is returned only after every byte the peer wrote before its      *)
(* CloseWrite, also when the FIN overtakes DATA on another subflow.        *)
EofMeansAll == \A e \in End : eof[e] => finOff[Peer(e)] = Len(got[e])

\* q holds the bytes of d that follow offset off
Slice(q, d, off) == off + Len(q) <= Len(d) /\ \A i \in 1 .. Len(q) : q[i] = d[off + i]

(* What is sent, in flight or waiting to be sent again has been written:   *)
(* no span reaches past the send queue that its bytes are copied from.     *)
SpansWritten ==
  \A e \in End :
    /\ sNext[e] <= Written(e)
    /\ \A sp \in retx[e] : SpanEnd(sp) <= Written(e)
    /\ \A s \in Sub : \A sp \in infl[e][s] : SpanEnd(sp) <= Written(e)

(* Every byte that is queued, on the way, held out of order, received or   *)
(* read is the byte its sender wrote at that offset.                       *)
BytesInPlace ==
  \A e \in End :
    /\ Slice(sq[e], Data[e], sBase[e])
    /\ \A s \in Sub : \A i \in 1 .. Len(net[e][s]) :
         net[e][s][i].type = "data" => Slice(net[e][s][i].bytes, Data[e], net[e][s][i].off)
    /\ \A sg \in ooo[e] : Slice(sg.bytes, Data[Peer(e)], sg.off)
    /\ Slice(rq[e], Data[Peer(e)], rRead[e])
    /\ Slice(got[e], Data[Peer(e)], 0)
    /\ IF rDiscard[e] THEN rq[e] = <<>> ELSE Len(got[e]) = rRead[e]

\* what DeliveredInOrder's proof carries from state to state
StreamInv == TypeOK /\ SpansWritten /\ BytesInPlace

(* Every byte sent and not acknowledged is still somebody's job: waiting   *)
(* for retransmission, or in flight on a subflow whose death requeues it.  *)
NothingForgotten ==
  \A e \in End : \A k \in sBase[e] .. (sNext[e] - 1) :
    \E sp \in retx[e] \cup UNION {infl[e][s] : s \in LiveSubs(e)} :
      sp.off <= k /\ k < SpanEnd(sp)

Has(e, k) == k < Next0(e) \/ \E sg \in ooo[e] : sg.off <= k /\ k < SegEnd(sg)
Carries(f, k) == f.type = "data" /\ f.off <= k /\ k < SegEnd(f)
Doomed(e, s) ==
  \/ \E i \in 1 .. Len(net[e][s]) : net[e][s][i].type = "lost"
  \/ ~ Live(Peer(e), s) /\ ~(e = "server" /\ join[s] = "ok")

(* What a carrier counts as in flight has arrived, is on its way, or is on *)
(* a connection that is going to fail: waiting for its death is enough.    *)
InFlightArrives ==
  \A e \in End, s \in Sub : \A sp \in infl[e][s] :
    \A k \in sp.off .. (SpanEnd(sp) - 1) :
      \/ Has(Peer(e), k)
      \/ \E i \in 1 .. Len(net[e][s]) : Carries(net[e][s][i], k)
      \/ Doomed(e, s)

(* The send queue lets go of a byte only after the peer's application has  *)
(* consumed (or discarded) it.                                             *)
AckedIsConsumed == \A e \in End : sBase[e] <= rRead[Peer(e)]

(* All that an end holds lies within the window that starts at the next   *)
(* byte to be read: the bytes received in order, and beyond the next one,  *)
(* apart from each other, the segments that came out of order.  The two    *)
(* queues together never exceed the window, so "receive window exceeded"   *)
(* never kills a subflow.                                                  *)
WindowRespected ==
  \A e \in End :
    /\ Next0(e) <= rRead[e] + Window
    /\ \A sg \in ooo[e] : Next0(e) < sg.off /\ SegEnd(sg) <= rRead[e] + Window
    /\ \A a, b \in ooo[e] : a = b \/ SegEnd(a) <= b.off \/ SegEnd(b) <= a.off

(* Selector: at each end data is in flight on the active carrier only.     *)
OneCarrier ==
  Mode = "selector" => \A e \in End, s \in Sub : infl[e][s] # {} => active[e] = s

(* A FIN is outstanding only on a carrier whose death would resend it.     *)
FinOnLive == \A e \in End : finOn[e] # None => Live(e, finOn[e])

(* Every FIN on the way, and every FIN received, names the offset where    *)
(* its sender's data ends: "conflicting FIN" never kills a subflow.        *)
OneFin ==
  \A e \in End :
    /\ peerFinAt[e] \in {NoFin, finOff[Peer(e)]}
    /\ \A s \in Sub : \A i \in 1 .. Len(net[e][s]) :
         net[e][s][i].type = "fin" => net[e][s][i].off = finOff[e]

(* An end finishes only when both directions are complete at both ends.    *)
FinishedIsDelivered ==
  \A e \in End : status[e] = "finished" =>
    \A x \in End : finOff[x] # NoFin /\ rRead[Peer(x)] = finOff[x]

(* "Pending writes are still delivered": unless somebody gives up, a       *)
(* session ends, at either end, only after everything that was written has *)
(* been consumed by the other application, or that application closed;     *)
(* dying subflows, a late join, or a close do not cut it short.            *)
EndsAfterDelivery ==
  (resets = 0 /\ \E x \in End : ~ Open(x)) =>
    \A e \in End : closed[Peer(e)] \/ (finOff[e] # NoFin /\ rRead[Peer(e)] = finOff[e])

(* Everything written before CloseWrite reaches the peer's application,    *)
(* followed by io.EOF, unless that application closes or somebody resets.  *)
Delivery ==
  \A e \in End :
    finOff[e] # NoFin ~> \/ eof[Peer(e)] \/ closed[Peer(e)]
                         \/ resets > 0

(* A Write blocked on a full window goes on: every byte written, even the  *)
(* last one before a pause, is acknowledged, by the ACK timer if need be   *)
(* and over whatever subflow is left; by AckedIsConsumed it was consumed.  *)
EveryByteAcked ==
  \A e \in End : \A k \in 1 .. Len(Data[e]) :
    Written(e) >= k ~> sBase[e] >= k \/ resets > 0

(* Surviving dead paths: when a single subflow is left, healthy and settled *)
(* at both ends, and it carries the client's data, it carries the server's *)
(* data too.  (Nothing else would ever make it the server's carrier.)      *)
Settled(s) ==
  /\ \A e \in End : LiveSubs(e) = {s} /\ ~ Doomed(e, s)
  /\ \A i \in 1 .. Len(net["client"][s]) : net["client"][s][i].type # "role"
  /\ \A x \in Sub : join[x] = "idle"

CarriesBothWays ==
  (Mode = "selector" /\ Open("client") /\ Open("server")) =>
    \A s \in Sub : Settled(s) /\ active["client"] = s => active["server"] = s

(* The session is a reliable byte pipe: it implements ByteStream, with the *)
(* bytes written and read and the two ends of each direction.              *)
Pipe == INSTANCE ByteStream WITH
          sent <- [e \in End |-> SubSeq(Data[e], 1, Written(e))],
          fin <- [e \in End |-> finOff[e] # NoFin]

ImplementsByteStream == Pipe!Spec
=============================================================================

--------------------------- MODULE SubflowHealth ---------------------------
(***************************************************************************)
(* How one end of a session judges one of its subflows (core/msess): the   *)
(* PINGs it sends on it, the table of those not answered yet, the in-      *)
(* flight capacity that only a PONG gives back, and the death of a subflow *)
(* whose oldest PING has waited too long.  Msess abstracts all of this to  *)
(* "a carrier may decline to send, and may be declared dead, at any        *)
(* moment"; here the path is one FIFO in each direction that delivers, at  *)
(* its own pace, until it falls silent: whatever is written then is taken  *)
(* by the hops' buffers and never arrives.                                 *)
(*                                                                         *)
(* Time is counted in ticks of the session's manager (PingBusy).  The      *)
(* estimates of RTT and rate are not modelled: the deadline they yield may *)
(* change, within Deadlines, whenever a PONG or DATA changes them.         *)
(***************************************************************************)
EXTENDS Integers, Sequences, SequencesExt

CONSTANTS
  MaxPings,    \* unanswered PINGs that are remembered (64)
  Capacity,    \* DATA segments the subflow may have in flight
  Deadlines,   \* the values of deadline(), in ticks
  PathDepth,   \* bound: frames a direction of the path holds before a write blocks
  Segments,    \* bound: DATA segments that are written
  PingIds      \* bound: ids are reused, long after the last trace of the earlier PING

ASSUME CapAssumption == MaxPings \in Nat \ {0} /\ Capacity \in Nat \ {0}
ASSUME DeadlinesAssumption == Deadlines \subseteq Nat /\ Deadlines # {}
ASSUME PathAssumption ==
  /\ PathDepth \in Nat \ {0} /\ Segments \in Nat
  /\ PingIds \in Nat /\ PingIds > MaxPings + 4 * PathDepth

Id == 0 .. (PingIds - 1)
Data == -1       \* a DATA segment on the wire; a PING or PONG is its id
NoMark == -1     \* the PING has not been written yet
MaxAge == 1 + CHOOSE d \in Deadlines : \A x \in Deadlines : x <= d

VARIABLES
  waiting,     \* segments the session could send on this subflow
  written,     \* segments written on it
  pongMark,    \* segments proven delivered by the latest PONG
  pings,       \* unanswered PINGs, oldest first: id, ticks waited, watermark
  pingSeq,     \* id of the last PING
  ctrl,        \* PINGs queued and not written
  capPinged,   \* watermark of the last PING sent because the cap was hit
  deadline,
  dead,
  wire, back,  \* the path, in each direction
  peerGot,     \* segments the peer has received
  silent       \* the path delivers nothing any more

sendVars == <<waiting, written>>
pingVars == <<pongMark, pings, pingSeq, capPinged, deadline>>
pathVars == <<wire, back, peerGot, silent>>
vars == <<sendVars, pingVars, ctrl, dead, pathVars>>

inflight == written - pongMark

----------------------------------------------------------------------------
(* queuePingLocked: the oldest PING is forgotten when the table is full.   *)
NextId == (pingSeq + 1) % PingIds
Remember(ps, id) ==
  LET all == Append(ps, [id |-> id, age |-> 0, mark |-> NoMark])
  IN  IF Len(all) > MaxPings THEN Tail(all) ELSE all

\* attach queues the first PING
Init ==
  /\ waiting = 0 /\ written = 0 /\ pongMark = 0 /\ peerGot = 0
  /\ pingSeq = 0 /\ ctrl = <<0>>
  /\ pings = <<[id |-> 0, age |-> 0, mark |-> NoMark]>>
  /\ capPinged = 0 /\ deadline \in Deadlines /\ dead = FALSE
  /\ wire = <<>> /\ back = <<>> /\ silent = FALSE

(* The session has more to send, or another subflow took it.               *)
Offer ==
  /\ \/ /\ waiting + written < Segments
        /\ waiting' = waiting + 1
     \/ /\ waiting > 0
        /\ waiting' = waiting - 1
  /\ UNCHANGED <<written, pingVars, ctrl, dead, pathVars>>

\* what a silent path takes is gone
Transmit(frames) == wire' = IF silent THEN wire ELSE wire \o frames

\* mistake: the watermark is not taken when the PING is written
MarkNone(ids) == pings

\* mistake: the watermark counts the segment that is written next
MarkNext(ids) ==
  [i \in DOMAIN pings |->
     IF pings[i].id \in ToSet(ids) THEN [pings[i] EXCEPT !.mark = written + 1] ELSE pings[i]]

\* the watermark of a PING, if it is still remembered
Mark(ids) ==
  [i \in DOMAIN pings |->
     IF pings[i].id \in ToSet(ids) THEN [pings[i] EXCEPT !.mark = written] ELSE pings[i]]

(* writeLoop: control frames first.                                        *)
WriteCtrl ==
  /\ ~dead /\ ctrl # <<>>
  /\ Len(wire) < PathDepth
  /\ Transmit(ctrl)
  /\ pings' = Mark(ctrl)
  /\ ctrl' = <<>>
  /\ UNCHANGED <<sendVars, pongMark, pingSeq, capPinged, deadline, dead, back, peerGot, silent>>

(* ... then DATA, below the cap.                                           *)
WriteData ==
  /\ ~dead /\ ctrl = <<>>
  /\ waiting > 0 /\ inflight < Capacity
  /\ Len(wire) < PathDepth
  /\ Transmit(<<Data>>)
  /\ waiting' = waiting - 1
  /\ written' = written + 1
  /\ deadline' \in Deadlines
  /\ UNCHANGED <<pongMark, pings, pingSeq, capPinged, ctrl, dead, back, peerGot, silent>>

(* ... or a PING, once per watermark, when the cap holds DATA back.        *)
CapPing ==
  /\ ~dead /\ ctrl = <<>>
  /\ waiting > 0 /\ inflight >= Capacity /\ capPinged # written
  /\ capPinged' = written
  /\ pingSeq' = NextId
  /\ ctrl' = <<NextId>>
  /\ pings' = Remember(pings, NextId)
  /\ UNCHANGED <<sendVars, pongMark, deadline, dead, pathVars>>

----------------------------------------------------------------------------
(* The path and the peer, whose readLoop answers every PING.               *)

Deliver ==
  /\ ~silent /\ wire # <<>> /\ Len(back) < PathDepth
  /\ wire' = Tail(wire)
  /\ IF Head(wire) = Data
     THEN /\ peerGot' = peerGot + 1
          /\ UNCHANGED back
     ELSE /\ back' = Append(back, Head(wire))
          /\ UNCHANGED peerGot
  /\ UNCHANGED <<sendVars, pingVars, ctrl, dead, silent>>

FallSilent ==
  /\ ~silent
  /\ silent' = TRUE /\ wire' = <<>> /\ back' = <<>>
  /\ UNCHANGED <<sendVars, pingVars, ctrl, dead, peerGot>>

\* mistake: a PONG proves whatever has been written by the time it arrives
ProvenAtArrival(p) == written

Proven(p) == IF p.mark = NoMark THEN pongMark ELSE p.mark

(* onPongLocked: the PING and every older one are answered, and what was   *)
(* written before it has arrived.  A PONG to a forgotten PING is ignored.  *)
OnPong ==
  /\ ~dead /\ back # <<>>
  /\ back' = Tail(back)
  /\ LET answered == {i \in DOMAIN pings : pings[i].id = Head(back)}
     IN  IF answered = {}
         THEN UNCHANGED <<pings, pongMark, deadline>>
         ELSE \E i \in answered :
                /\ pings' = SubSeq(pings, i + 1, Len(pings))
                /\ pongMark' = IF Proven(pings[i]) > pongMark THEN Proven(pings[i]) ELSE pongMark
                /\ deadline' \in Deadlines
  /\ UNCHANGED <<sendVars, pingSeq, capPinged, ctrl, dead, wire, peerGot, silent>>

----------------------------------------------------------------------------
\* mistake: the newest PING's wait counts
OverdueNewest(ps) == ps # <<>> /\ Last(ps).age > deadline

Overdue(ps) == ps # <<>> /\ Head(ps).age > deadline

(* tickLocked: a tick later, the subflow is dropped if its oldest PING is  *)
(* overdue; otherwise it gets another PING if it is busy, and perhaps if   *)
(* it is idle.  PathDepth also bounds the PINGs a writeLoop that waits for *)
(* the path leaves queued.                                                 *)
Tick ==
  LET aged == [i \in DOMAIN pings |->
                 [pings[i] EXCEPT !.age = IF @ < MaxAge THEN @ + 1 ELSE @]]
  IN  /\ ~dead /\ Len(ctrl) < PathDepth
      /\ IF Overdue(aged)
         THEN /\ dead' = TRUE
              /\ pings' = aged
              /\ UNCHANGED <<pingSeq, ctrl>>
         ELSE /\ UNCHANGED dead
              /\ \/ /\ pingSeq' = NextId
                    /\ ctrl' = Append(ctrl, NextId)
                    /\ pings' = Remember(aged, NextId)
                 \/ /\ waiting = 0 /\ inflight = 0
                    /\ pings' = aged
                    /\ UNCHANGED <<pingSeq, ctrl>>
      /\ UNCHANGED <<sendVars, pongMark, capPinged, deadline, pathVars>>

----------------------------------------------------------------------------
Next ==
  \/ Offer \/ WriteCtrl \/ WriteData \/ CapPing
  \/ Deliver \/ FallSilent \/ OnPong \/ Tick

Spec == Init /\ [][Next]_vars

(***************************************************************************)
(* Fairness: the manager ticks, the writeLoop writes, a path that is not   *)
(* silent delivers.  Nothing forces a path to fall silent or the session   *)
(* to offer data.                                                          *)
(***************************************************************************)
Fairness ==
  /\ WF_vars(WriteCtrl) /\ WF_vars(WriteData) /\ WF_vars(CapPing)
  /\ WF_vars(Deliver) /\ WF_vars(OnPong) /\ WF_vars(Tick)

FairSpec == Spec /\ Fairness

----------------------------------------------------------------------------
Ping == [id : Id, age : 0 .. MaxAge, mark : 0 .. Segments \cup {NoMark}]

TypeOK ==
  /\ waiting \in 0 .. Segments /\ written \in 0 .. Segments
  /\ pongMark \in 0 .. Segments /\ peerGot \in 0 .. Segments
  /\ pings \in Seq(Ping) /\ Len(pings) <= MaxPings /\ pingSeq \in Id
  /\ ctrl \in Seq(Id) /\ capPinged \in 0 .. Segments
  /\ deadline \in Deadlines /\ dead \in BOOLEAN
  /\ wire \in Seq(Id \cup {Data}) /\ back \in Seq(Id) /\ silent \in BOOLEAN

(* In-flight capacity is given back only for segments that arrived: a PONG *)
(* proves what was written before its PING, never what was written while   *)
(* it was on its way.                                                      *)
PongProves == pongMark <= peerGot

(* Every PONG counts: a PING on its way, or its PONG, is still remembered. *)
(* The table is large enough for the subflow to die before it forgets.     *)
EveryPongCounts ==
  ~dead => (ToSet(ctrl) \cup ToSet(wire) \cup ToSet(back)) \ {Data}
             \subseteq {pings[i].id : i \in DOMAIN pings}

(* A path that falls silent with data at stake does not keep it: the       *)
(* subflow dies, and its death requeues what it had in flight.             *)
SilentIsDropped == silent /\ inflight > 0 ~> dead

(* Data held back by the cap goes on: the PONG that gives capacity back is *)
(* never missed for good, however slow the path, unless the subflow dies   *)
(* or the data goes elsewhere.                                             *)
CapIsReleased ==
  \A k \in 1 .. Segments :
    inflight >= Capacity /\ written = k ~> inflight < Capacity \/ dead
=============================================================================

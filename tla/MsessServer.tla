---------------------------- MODULE MsessServer ----------------------------
(***************************************************************************)
(* The exit side of core/msess: the table of sessions, the handlers that   *)
(* serve incoming subflows (HELLO to open a session or to join one), and   *)
(* the pump that joins a session with its target socket.                   *)
(*                                                                         *)
(* Each handler is one goroutine; so are the two directions of a pump and  *)
(* the goroutine that waits for them.  A session is named by the handler   *)
(* that opened it.  What happens inside a session is module Msess: here    *)
(* one is live or dead, its client's direction may end, and it may die at  *)
(* any time (reset, no path, idle, finished).                              *)
(***************************************************************************)
EXTENDS Integers, FiniteSets

CONSTANTS
  Handler,       \* the subflows that arrive, one handler goroutine each
  Sid,           \* session ids
  MaxSessions,   \* ServerConfig.MaxSessions
  Arrivals       \* the HELLOs the handlers may read: functions from Handler to Hello

None == "none"
Hello == [kind : {"open", "packet", "join"}, sid : Sid]

ASSUME NoneAssumption == None \notin Handler
ASSUME MaxSessionsAssumption == MaxSessions \in Nat \ {0}
ASSUME ArrivalsAssumption == Arrivals \subseteq [Handler -> Hello]

VARIABLES
  \* handlers: progress, the HELLO read, the session opened or found
  ph, hello, found,
  conn,      \* conn[h]: the subflow's connection
  \* Server: sessions, pending, closed; Close's snapshot of the sessions to abort
  sessions, pending, closing, doomed,
  \* the session opened by handler i: life, its attached subflows, whether
  \* Close was called on it, the client's FIN, abort because of the target
  ses, subs, appClosed, peerFin, blamed,
  \* its target socket, and how the target's side ended
  tgt, tEnd,
  \* the pump: target -> session, session -> target, closedByUs, the waiter
  up, down, closedByUs, waiter

handlerVars == <<ph, hello, found, conn>>
tableVars == <<sessions, pending, closing, doomed>>
sesVars == <<ses, subs, appClosed, peerFin, blamed>>
tgtVars == <<tgt, tEnd>>
pumpVars == <<up, down, closedByUs, waiter>>
vars == <<handlerVars, tableVars, sesVars, tgtVars, pumpVars>>

Init ==
  /\ ph = [h \in Handler |-> "new"]
  /\ hello \in Arrivals
  /\ found = [h \in Handler |-> None]
  /\ conn = [h \in Handler |-> "open"]
  /\ sessions = [x \in Sid |-> None]
  /\ pending = {} /\ closing = "no" /\ doomed = {}
  /\ ses = [i \in Handler |-> None]
  /\ subs = [i \in Handler |-> {}]
  /\ appClosed = [i \in Handler |-> FALSE]
  /\ peerFin = [i \in Handler |-> FALSE]
  /\ blamed = [i \in Handler |-> FALSE]
  /\ tgt = [i \in Handler |-> None]
  /\ tEnd = [i \in Handler |-> "no"]
  /\ up = [i \in Handler |-> "off"]
  /\ down = [i \in Handler |-> "off"]
  /\ closedByUs = [i \in Handler |-> FALSE]
  /\ waiter = [i \in Handler |-> "off"]

----------------------------------------------------------------------------
Live(i) == ses[i] = "live"
Dead(i) == ses[i] = "dead"
Table == {x \in Sid : sessions[x] # None}
Kind(h) == hello[h].kind
SidOf(h) == hello[h].sid
Goto(h, p) == ph' = [ph EXCEPT ![h] = p]
\* an answer other than OK, then conn.Close()
TurnedAway(h) == Goto(h, "done") /\ conn' = [conn EXCEPT ![h] = "closed"]

\* mistake: sessions that are still dialing their target are not counted
AdmitIgnoresPending(h) ==
  /\ ph[h] = "new" /\ Kind(h) \in {"open", "packet"}
  /\ IF closing # "no" \/ SidOf(h) \in Table \cup pending \/ Cardinality(Table) >= MaxSessions
     THEN /\ TurnedAway(h)
          /\ UNCHANGED pending
     ELSE /\ Goto(h, "dialing")
          /\ pending' = pending \cup {SidOf(h)}
          /\ UNCHANGED conn
  /\ UNCHANGED <<hello, found, sessions, closing, doomed, sesVars, tgtVars, pumpVars>>

(* Handle and open, under sv.mu: a new session is admitted.                *)
Admit(h) ==
  /\ ph[h] = "new" /\ Kind(h) \in {"open", "packet"}
  /\ IF closing # "no" \/ SidOf(h) \in Table \cup pending
          \/ Cardinality(Table) + Cardinality(pending) >= MaxSessions
     THEN /\ TurnedAway(h)
          /\ UNCHANGED pending
     ELSE /\ Goto(h, "dialing")
          /\ pending' = pending \cup {SidOf(h)}
          /\ UNCHANGED conn
  /\ UNCHANGED <<hello, found, sessions, closing, doomed, sesVars, tgtVars, pumpVars>>

\* mistake: the reservation of a failed dial stays
DialFailsLeaks(h) ==
  /\ ph[h] = "dialing"
  /\ TurnedAway(h)
  /\ UNCHANGED <<hello, found, tableVars, sesVars, tgtVars, pumpVars>>

(* The target's dial fails, or its 10 s are over.                          *)
DialFails(h) ==
  /\ ph[h] = "dialing"
  /\ pending' = pending \ {SidOf(h)}
  /\ TurnedAway(h)
  /\ UNCHANGED <<hello, found, sessions, closing, doomed, sesVars, tgtVars, pumpVars>>

(* The target answers: the session enters the table.                       *)
DialDone(h) ==
  /\ ph[h] = "dialing"
  /\ Goto(h, "ack")
  /\ ses' = [ses EXCEPT ![h] = "live"]
  /\ tgt' = [tgt EXCEPT ![h] = "open"]
  /\ pending' = pending \ {SidOf(h)}
  /\ sessions' = [sessions EXCEPT ![SidOf(h)] = h]
  /\ UNCHANGED <<hello, found, conn, closing, doomed, subs, appClosed, peerFin, blamed,
                 tEnd, pumpVars>>

(* HELLO_ACK is written: OK.                                               *)
AckOpen(h) ==
  /\ ph[h] = "ack"
  /\ Goto(h, "attach")
  /\ found' = [found EXCEPT ![h] = h]
  /\ UNCHANGED <<hello, conn, tableVars, sesVars, tgtVars, pumpVars>>

(* HELLO_ACK cannot be written: the session is aborted and forgotten.      *)
AckOpenFails(h) ==
  /\ ph[h] = "ack"
  /\ TurnedAway(h)
  /\ tgt' = [tgt EXCEPT ![h] = "closed"]
  /\ ses' = [ses EXCEPT ![h] = "dead"]
  /\ waiter' = [waiter EXCEPT ![h] = "forget"]
  /\ UNCHANGED <<hello, found, tableVars, subs, appClosed, peerFin, blamed, tEnd,
                 up, down, closedByUs>>

(* session.attach: the connection becomes a subflow, unless the session    *)
(* died meanwhile; the opener's attach is followed by its pump.            *)
Attach(h) ==
  LET i == found[h]
  IN  /\ ph[h] = "attach"
      /\ IF Dead(i)
         THEN /\ conn' = [conn EXCEPT ![h] = "closed"]
              /\ UNCHANGED subs
         ELSE /\ subs' = [subs EXCEPT ![i] = @ \cup {h}]
              /\ UNCHANGED conn
      /\ Goto(h, "done")
      /\ IF i = h
         THEN /\ up' = [up EXCEPT ![h] = "read"]
              /\ down' = [down EXCEPT ![h] = "read"]
              /\ waiter' = [waiter EXCEPT ![h] = "wait"]
         ELSE UNCHANGED <<up, down, waiter>>
      /\ UNCHANGED <<hello, found, tableVars, ses, appClosed, peerFin, blamed, tgtVars,
                     closedByUs>>

(* A join looks its session up under sv.mu.                                *)
JoinLookup(h) ==
  /\ ph[h] = "new" /\ Kind(h) = "join"
  /\ IF sessions[SidOf(h)] = None
     THEN TurnedAway(h) /\ UNCHANGED found
     ELSE /\ found' = [found EXCEPT ![h] = sessions[SidOf(h)]]
          /\ Goto(h, "check")
          /\ UNCHANGED conn
  /\ UNCHANGED <<hello, tableVars, sesVars, tgtVars, pumpVars>>

(* ... and reads it under s.mu; the connection may fail under HELLO_ACK.   *)
JoinCheck(h) ==
  /\ ph[h] = "check"
  /\ \/ TurnedAway(h)
     \/ /\ ~ Dead(found[h])
        /\ Goto(h, "attach")
        /\ UNCHANGED conn
  /\ UNCHANGED <<hello, found, tableVars, sesVars, tgtVars, pumpVars>>

----------------------------------------------------------------------------
(* Server.Close: no new sessions, then every session in the table aborts.  *)

\* mistake: free table entries are aborted too
CloseServerTakesAll ==
  /\ closing = "no"
  /\ closing' = "aborting"
  /\ doomed' = {sessions[x] : x \in Sid}
  /\ UNCHANGED <<handlerVars, sessions, pending, sesVars, tgtVars, pumpVars>>

CloseServer ==
  /\ closing = "no"
  /\ closing' = "aborting"
  /\ doomed' = {sessions[x] : x \in Table}
  /\ UNCHANGED <<handlerVars, sessions, pending, sesVars, tgtVars, pumpVars>>

CloseAborts ==
  /\ closing = "aborting"
  /\ IF doomed = {}
     THEN /\ closing' = "done"
          /\ UNCHANGED <<doomed, ses>>
     ELSE /\ \E i \in doomed :
               /\ ses' = [ses EXCEPT ![i] = "dead"]
               /\ doomed' = doomed \ {i}
          /\ UNCHANGED closing
  /\ UNCHANGED <<handlerVars, sessions, pending, subs, appClosed, peerFin, blamed, tgtVars, pumpVars>>

----------------------------------------------------------------------------
(* What the session and the target do on their own.                        *)

(* The session finishes, is reset by the client, or runs out of paths or   *)
(* of time.                                                                *)
SessionEnds(i) ==
  /\ Live(i)
  /\ ses' = [ses EXCEPT ![i] = "dead"]
  /\ UNCHANGED <<handlerVars, tableVars, subs, appClosed, peerFin, blamed, tgtVars, pumpVars>>

(* abortLocked, finishLocked: a dead session's carriers are closed.        *)
CarriersClose(i) ==
  /\ Dead(i) /\ \E h \in subs[i] : conn[h] = "open"
  /\ conn' = [h \in Handler |-> IF h \in subs[i] THEN "closed" ELSE conn[h]]
  /\ UNCHANGED <<ph, hello, found, tableVars, sesVars, tgtVars, pumpVars>>

(* The client ends its direction, and all of it can be read.               *)
ClientFin(i) ==
  /\ Live(i) /\ subs[i] # {} /\ Kind(i) = "open" /\ ~ peerFin[i]
  /\ peerFin' = [peerFin EXCEPT ![i] = TRUE]
  /\ UNCHANGED <<handlerVars, tableVars, ses, subs, appClosed, blamed, tgtVars, pumpVars>>

(* The target ends its direction, or its connection fails; it matters once *)
(* the pump uses it.                                                       *)
TargetEnds(i) ==
  /\ tgt[i] = "open" /\ tEnd[i] = "no" /\ Kind(i) = "open" /\ waiter[i] = "wait"
  /\ tEnd' \in {[tEnd EXCEPT ![i] = how] : how \in {"eof", "failed"}}
  /\ UNCHANGED <<handlerVars, tableVars, sesVars, tgt, pumpVars>>

----------------------------------------------------------------------------
(* pump, target -> session.                                                *)

CloseTarget(i) == tgt' = [tgt EXCEPT ![i] = "closed"]

(* target.Read returns data, for s.Write.                                  *)
UpData(i) ==
  /\ up[i] = "read" /\ tgt[i] = "open" /\ tEnd[i] = "no"
  /\ up' = [up EXCEPT ![i] = "write"]
  /\ UNCHANGED <<handlerVars, tableVars, sesVars, tgtVars, down, closedByUs, waiter>>

(* s.Write: blocked while the window is full, until the session ends.      *)
UpWrite(i) ==
  /\ up[i] = "write"
  /\ \/ /\ Live(i)
        /\ up' = [up EXCEPT ![i] = "read"]
        /\ UNCHANGED tgt
     \/ /\ Dead(i)
        /\ up' = [up EXCEPT ![i] = "done"]
        /\ IF Kind(i) = "open" THEN CloseTarget(i) ELSE UNCHANGED tgt
  /\ UNCHANGED <<handlerVars, tableVars, sesVars, tEnd, down, closedByUs, waiter>>

\* target.Read returns an error: EOF, a failed connection, or closed by the pump
UpReadFails(i) == up[i] = "read" /\ (tgt[i] = "closed" \/ tEnd[i] # "no")

UpEnds(i) ==
  /\ UpReadFails(i)
  /\ up' = [up EXCEPT ![i] = "done"]
  /\ IF Kind(i) = "packet"
     THEN UNCHANGED <<ses, blamed>>
     ELSE IF (tEnd[i] = "eof" /\ tgt[i] = "open") \/ closedByUs[i]
     THEN UNCHANGED <<ses, blamed>>      \* s.CloseWrite()
     ELSE /\ ses' = [ses EXCEPT ![i] = "dead"]
          /\ blamed' = [blamed EXCEPT ![i] = @ \/ Live(i)]
  /\ UNCHANGED <<handlerVars, tableVars, subs, appClosed, peerFin, tgtVars, down, closedByUs, waiter>>

----------------------------------------------------------------------------
(* pump, session -> target.                                                *)

(* s.Read returns data, for target.Write; after the session's end, what is *)
(* still queued.                                                           *)
DownData(i) ==
  /\ down[i] = "read" /\ (Live(i) \/ Dead(i)) /\ ~ peerFin[i] /\ ~ appClosed[i]
  /\ down' = [down EXCEPT ![i] = "write"]
  /\ UNCHANGED <<handlerVars, tableVars, sesVars, tgtVars, up, closedByUs, waiter>>

(* The target takes it; a datagram never waits.                            *)
TargetTakes(i) ==
  /\ down[i] = "write" /\ tgt[i] = "open" /\ tEnd[i] # "failed"
  /\ down' = [down EXCEPT ![i] = "read"]
  /\ UNCHANGED <<handlerVars, tableVars, sesVars, tgtVars, up, closedByUs, waiter>>

(* target.Write fails; a packet session reads on.                          *)
DownWriteFails(i) ==
  /\ down[i] = "write" /\ (tgt[i] = "closed" \/ tEnd[i] = "failed")
  /\ down' = [down EXCEPT ![i] = IF Kind(i) = "packet" THEN "read" ELSE "giveup"]
  /\ UNCHANGED <<handlerVars, tableVars, sesVars, tgtVars, up, closedByUs, waiter>>

\* mistake: a half-closed target is not released with the session
DownEofLeaves(i) ==
  /\ down[i] = "read" /\ peerFin[i]
  /\ \E next \in {"done", "giveup"} : down' = [down EXCEPT ![i] = next]
  /\ UNCHANGED <<handlerVars, tableVars, sesVars, tgtVars, up, closedByUs, waiter>>

(* s.Read returns io.EOF: a target that can be half-closed is, and is      *)
(* released once the session is done; one that cannot is closed.           *)
DownEof(i) ==
  /\ down[i] = "read" /\ peerFin[i]
  /\ \E next \in {"linger", "giveup"} : down' = [down EXCEPT ![i] = next]
  /\ UNCHANGED <<handlerVars, tableVars, sesVars, tgtVars, up, closedByUs, waiter>>

(* s.Read returns the session's error.                                     *)
DownReadFails(i) ==
  /\ down[i] = "read" /\ Dead(i) /\ ~ peerFin[i]
  /\ down' = [down EXCEPT ![i] = "giveup"]
  /\ UNCHANGED <<handlerVars, tableVars, sesVars, tgtVars, up, closedByUs, waiter>>

(* closedByUs is raised before the target is closed; pumpPacket has no     *)
(* such flag and goes on to wait for the session.                          *)
DownFlag(i) ==
  /\ down[i] = "giveup" /\ Kind(i) = "open" /\ ~ closedByUs[i]
  /\ closedByUs' = [closedByUs EXCEPT ![i] = TRUE]
  /\ UNCHANGED <<handlerVars, tableVars, sesVars, tgtVars, up, down, waiter>>

\* mistake: the target is closed without raising closedByUs first
DownCloseUnannounced(i) ==
  /\ down[i] = "giveup" \/ (down[i] = "linger" /\ Dead(i))
  /\ CloseTarget(i)
  /\ down' = [down EXCEPT ![i] = "done"]
  /\ waiter' = [waiter EXCEPT ![i] = IF Kind(i) = "packet" THEN "forget" ELSE @]
  /\ UNCHANGED <<handlerVars, tableVars, sesVars, tEnd, up, closedByUs>>

\* mistake: the target is closed as soon as the client has sent its FIN
DownCloseAtFin(i) ==
  /\ \/ down[i] = "giveup" /\ (closedByUs[i] \/ Kind(i) = "packet")
     \/ down[i] = "linger"
  /\ CloseTarget(i)
  /\ down' = [down EXCEPT ![i] = "done"]
  /\ waiter' = [waiter EXCEPT ![i] = IF Kind(i) = "packet" THEN "forget" ELSE @]
  /\ UNCHANGED <<handlerVars, tableVars, sesVars, tEnd, up, closedByUs>>

DownClose(i) ==
  /\ \/ down[i] = "giveup" /\ (closedByUs[i] \/ Kind(i) = "packet")
     \/ down[i] = "linger" /\ Dead(i)
  /\ CloseTarget(i)
  /\ down' = [down EXCEPT ![i] = "done"]
  /\ waiter' = [waiter EXCEPT ![i] = IF Kind(i) = "packet" THEN "forget" ELSE @]
  /\ UNCHANGED <<handlerVars, tableVars, sesVars, tEnd, up, closedByUs>>

----------------------------------------------------------------------------
(* pump, after both directions.                                            *)

(* s.Close() and target.Close().                                           *)
BothDone(i) ==
  /\ waiter[i] = "wait" /\ Kind(i) = "open"
  /\ up[i] = "done" /\ down[i] = "done"
  /\ appClosed' = [appClosed EXCEPT ![i] = TRUE]
  /\ CloseTarget(i)
  /\ waiter' = [waiter EXCEPT ![i] = "forget"]
  /\ UNCHANGED <<handlerVars, tableVars, ses, subs, peerFin, blamed, tEnd, up, down, closedByUs>>

\* mistake: the table lets go of a session that has not ended
ForgetUndone(i) ==
  /\ waiter[i] = "forget"
  /\ waiter' = [waiter EXCEPT ![i] = "done"]
  /\ sessions' = [sessions EXCEPT ![SidOf(i)] = IF @ = i THEN None ELSE @]
  /\ UNCHANGED <<handlerVars, pending, closing, doomed, sesVars, tgtVars, up, down, closedByUs>>

\* mistake: a dead session leaves the table while its pump is still running
ForgetWithPump(i) ==
  /\ waiter[i] \in {"wait", "forget"} /\ Dead(i)
  /\ sessions' = [sessions EXCEPT ![SidOf(i)] = IF @ = i THEN None ELSE @]
  /\ UNCHANGED <<handlerVars, pending, closing, doomed, sesVars, tgtVars, pumpVars>>

(* The session is done: forget.                                            *)
Forget(i) ==
  /\ waiter[i] = "forget" /\ Dead(i)
  /\ waiter' = [waiter EXCEPT ![i] = "done"]
  /\ sessions' = [sessions EXCEPT ![SidOf(i)] = IF @ = i THEN None ELSE @]
  /\ UNCHANGED <<handlerVars, pending, closing, doomed, sesVars, tgtVars, up, down, closedByUs>>

----------------------------------------------------------------------------
Handle(h) ==
  \/ Admit(h) \/ DialFails(h) \/ DialDone(h) \/ AckOpen(h) \/ AckOpenFails(h)
  \/ JoinLookup(h) \/ JoinCheck(h) \/ Attach(h)

PumpUp(i) == UpData(i) \/ UpWrite(i) \/ UpEnds(i)
PumpDown(i) ==
  \/ DownData(i) \/ DownWriteFails(i) \/ DownEof(i) \/ DownReadFails(i)
  \/ DownFlag(i) \/ DownClose(i)

Next ==
  \/ \E h \in Handler : Handle(h)
  \/ CloseServer \/ CloseAborts
  \/ \E i \in Handler :
       \/ SessionEnds(i) \/ CarriersClose(i) \/ ClientFin(i) \/ TargetEnds(i)
       \/ PumpUp(i) \/ PumpDown(i) \/ TargetTakes(i) \/ BothDone(i) \/ Forget(i)

Spec == Init /\ [][Next]_vars

(***************************************************************************)
(* Fairness: every goroutine runs.  A handler's dial ends within 10 s, a   *)
(* blocked call returns when what it waits for has happened, a closed      *)
(* session ends within LingerBudget (Msess).  What an ended session has    *)
(* queued no longer grows: reading it comes to the error, the one strong   *)
(* fairness.  Nothing makes a target send, end or, but for TargetFairness, *)
(* read.                                                                   *)
(***************************************************************************)
Running(i) ==
  \/ UpWrite(i) /\ Dead(i)
  \/ UpEnds(i)
Draining(i) ==
  \/ DownWriteFails(i) \/ DownEof(i) \/ DownReadFails(i) \/ DownFlag(i) \/ DownClose(i)
  \/ TargetTakes(i) /\ Kind(i) = "packet"
ServerFairness ==
  /\ \A i \in Handler :
       /\ WF_vars(Handle(i))
       /\ WF_vars(Running(i)) /\ WF_vars(Draining(i)) /\ SF_vars(DownReadFails(i))
       /\ WF_vars(BothDone(i) \/ Forget(i))
       /\ WF_vars(CarriersClose(i))
       /\ WF_vars(SessionEnds(i) /\ appClosed[i])
  /\ WF_vars(CloseAborts)
TargetFairness == \A i \in Handler : WF_vars(TargetTakes(i))

FairSpec == Spec /\ ServerFairness /\ TargetFairness
StuckSpec == Spec /\ ServerFairness

----------------------------------------------------------------------------
TypeOK ==
  /\ ph \in [Handler -> {"new", "dialing", "ack", "check", "attach", "done"}]
  /\ hello \in [Handler -> Hello]
  /\ found \in [Handler -> Handler \cup {None}] /\ conn \in [Handler -> {"open", "closed"}]
  /\ sessions \in [Sid -> Handler \cup {None}] /\ pending \in SUBSET Sid
  /\ closing \in {"no", "aborting", "done"} /\ doomed \in SUBSET Handler
  /\ ses \in [Handler -> {None, "live", "dead"}] /\ subs \in [Handler -> SUBSET Handler]
  /\ appClosed \in [Handler -> BOOLEAN]
  /\ peerFin \in [Handler -> BOOLEAN] /\ blamed \in [Handler -> BOOLEAN]
  /\ tgt \in [Handler -> {None, "open", "closed"}]
  /\ tEnd \in [Handler -> {"no", "eof", "failed"}]
  /\ up \in [Handler -> {"off", "read", "write", "done"}]
  /\ down \in [Handler -> {"off", "read", "write", "linger", "giveup", "done"}]
  /\ closedByUs \in [Handler -> BOOLEAN]
  /\ waiter \in [Handler -> {"off", "wait", "forget", "done"}]

(* A session id is reserved exactly while one handler dials for it, and is *)
(* never in the table at the same time: no slot of MaxSessions leaks.      *)
PendingIsDialing ==
  \A x \in Sid :
    LET dialing == {h \in Handler : ph[h] = "dialing" /\ SidOf(h) = x}
    IN  /\ Cardinality(dialing) = IF x \in pending THEN 1 ELSE 0
        /\ x \notin pending \cap Table

(* Slow dials included, never more than MaxSessions sessions.              *)
WithinCapacity == Cardinality(Table) + Cardinality(pending) <= MaxSessions

(* "Keeps one target socket": two sessions of the same id never hold one   *)
(* at the same time, however often and from wherever the id is opened.     *)
SingleTarget ==
  \A i, j \in Handler :
    i # j /\ SidOf(i) = SidOf(j) => ~(tgt[i] = "open" /\ tgt[j] = "open")

(* A session that has not ended is in the table, where the joins of its    *)
(* client find it, also while it drains after its pump; so errUnknown-     *)
(* Session never aborts a client whose session still lives.                *)
StillJoinable == \A i \in Handler : Live(i) => sessions[SidOf(i)] = i

(* Half-close: the client's FIN never costs it the rest of the reply.  The *)
(* pump closes a target that it has half-closed only when the session or   *)
(* the target has ended.                                                   *)
ReplyNotCut ==
  [][\A i \in Handler :
       tgt[i] = "open" /\ tgt'[i] = "closed" /\ Kind(i) = "open" /\ ph[i] = "done"
         => Dead(i)' \/ tEnd[i] # "no" \/ (peerFin[i] /\ down[i] = "giveup")]_vars

(* A session is reset for its target's sake only if the target failed, not *)
(* because the pump itself closed the socket while the other direction was *)
(* reading it.                                                             *)
NoFalseBlame == \A i \in Handler : blamed[i] => tEnd[i] = "failed"

(* What a session holds is released: once it is dead its target is closed, *)
(* it leaves the table and the connections of its subflows are closed, or  *)
(* it would hold its target socket forever.                                *)
Released(i) ==
  /\ tgt[i] = "closed"
  /\ sessions[SidOf(i)] # i
  /\ \A h \in Handler : found[h] = i => conn[h] = "closed"
DeadIsReleased == \A i \in Handler : Dead(i) ~> Released(i)
=============================================================================

------------------------- MODULE MsessServerProofs -------------------------
(***************************************************************************)
(* Proofs about MsessServer, for every set of handlers and session ids and *)
(* every MaxSessions: types, the accounting of MaxSessions, one target per *)
(* session id, and the table's completeness for joins.  The inductive      *)
(* invariant is TableInv below.                                            *)
(***************************************************************************)
EXTENDS MsessServer, FiniteSetTheorems, TLAPS

(* A session id is reserved exactly while one handler dials for it, and is *)
(* not in the table then.                                                  *)
Reserved ==
  /\ \A h \in Handler : ph[h] = "dialing" => SidOf(h) \in pending
  /\ \A x \in pending : \E h \in Handler : ph[h] = "dialing" /\ SidOf(h) = x
  /\ \A g, h \in Handler :
       ph[g] = "dialing" /\ ph[h] = "dialing" /\ SidOf(g) = SidOf(h) => g = h
  /\ pending \cap Table = {}

(* A pump starts when its handler is done.                                 *)
PumpAfterHandler ==
  \A h \in Handler : ph[h] # "done" => down[h] = "off" /\ waiter[h] = "off"

(* A session is in the table for as long as its target is open, and its    *)
(* target is closed before the pump waits to forget it.                    *)
TargetInTable ==
  \A i \in Handler :
    /\ tgt[i] = "open" => sessions[SidOf(i)] = i
    /\ waiter[i] \in {"forget", "done"} => tgt[i] # "open"

Counted == IsFiniteSet(Table) /\ IsFiniteSet(pending) /\ WithinCapacity

TableInv ==
  /\ TypeOK /\ Reserved /\ PumpAfterHandler /\ TargetInTable
  /\ StillJoinable /\ Counted

----------------------------------------------------------------------------
(* Types.                                                                  *)

LEMMA InitType == Init => TypeOK
<1> SUFFICES ASSUME Init PROVE TypeOK
  OBVIOUS
<1>1. hello \in [Handler -> Hello]
  BY ArrivalsAssumption DEF Init
<1> QED BY <1>1 DEF Init, TypeOK

LEMMA HelloType ==
  ASSUME TypeOK, NEW h \in Handler
  PROVE  SidOf(h) \in Sid
BY DEF TypeOK, Hello, SidOf

LEMMA HandlerType ==
  ASSUME TypeOK, NEW h \in Handler, Handle(h)
  PROVE  TypeOK'
<1> USE DEF TypeOK, handlerVars, tableVars, sesVars, tgtVars, pumpVars, Goto, TurnedAway
<1>0. SidOf(h) \in Sid
  BY HelloType
<1>1. CASE Admit(h)
  BY <1>0, <1>1 DEF Admit
<1>2. CASE DialFails(h)
  BY <1>0, <1>2 DEF DialFails
<1>3. CASE DialDone(h)
  BY <1>0, <1>3 DEF DialDone
<1>4. CASE AckOpen(h)
  BY <1>4 DEF AckOpen
<1>5. CASE AckOpenFails(h)
  BY <1>5 DEF AckOpenFails
<1>6. CASE JoinLookup(h)
  <2>1. sessions[SidOf(h)] # None => sessions[SidOf(h)] \in Handler
    BY <1>0
  <2>2. found' \in [Handler -> Handler \cup {None}]
    BY <1>6, <2>1 DEF JoinLookup
  <2>3. ph' \in [Handler -> {"new", "dialing", "ack", "check", "attach", "done"}]
        /\ conn' \in [Handler -> {"open", "closed"}]
    BY <1>6 DEF JoinLookup
  <2> QED BY <1>6, <2>2, <2>3 DEF JoinLookup
<1>7. CASE JoinCheck(h)
  BY <1>7 DEF JoinCheck
<1>8. CASE Attach(h)
  <2>1. conn' \in [Handler -> {"open", "closed"}]
    BY <1>8 DEF Attach
  <2>2. subs' \in [Handler -> SUBSET Handler]
    BY <1>8 DEF Attach
  <2>3. /\ up' \in [Handler -> {"off", "read", "write", "done"}]
        /\ down' \in [Handler -> {"off", "read", "write", "linger", "giveup", "done"}]
        /\ waiter' \in [Handler -> {"off", "wait", "forget", "done"}]
    BY <1>8 DEF Attach
  <2>4. ph' \in [Handler -> {"new", "dialing", "ack", "check", "attach", "done"}]
    BY <1>8 DEF Attach
  <2> QED BY <1>8, <2>1, <2>2, <2>3, <2>4 DEF Attach
<1> QED BY <1>1, <1>2, <1>3, <1>4, <1>5, <1>6, <1>7, <1>8 DEF Handle

LEMMA PumpType ==
  ASSUME TypeOK, NEW i \in Handler, PumpUp(i) \/ PumpDown(i) \/ TargetTakes(i)
  PROVE  TypeOK'
<1> USE DEF TypeOK, handlerVars, tableVars, sesVars, tgtVars, pumpVars, CloseTarget
<1>1. CASE UpData(i)
  BY <1>1 DEF UpData
<1>2. CASE UpWrite(i)
  BY <1>2 DEF UpWrite
<1>3. CASE UpEnds(i)
  <2>1. (blamed[i] \/ Live(i)) \in BOOLEAN
    BY DEF Live
  <2>2. UNCHANGED <<ses, blamed>>
        \/ /\ ses' = [ses EXCEPT ![i] = "dead"]
           /\ blamed' = [blamed EXCEPT ![i] = blamed[i] \/ Live(i)]
    BY <1>3 DEF UpEnds
  <2>3. blamed' \in [Handler -> BOOLEAN]
    BY <2>1, <2>2
  <2> QED BY <1>3, <2>2, <2>3 DEF UpEnds
<1>4. CASE DownData(i)
  BY <1>4 DEF DownData
<1>5. CASE DownWriteFails(i)
  BY <1>5 DEF DownWriteFails
<1>6. CASE DownEof(i)
  BY <1>6 DEF DownEof
<1>7. CASE DownReadFails(i)
  BY <1>7 DEF DownReadFails
<1>8. CASE DownFlag(i)
  BY <1>8 DEF DownFlag
<1>9. CASE DownClose(i)
  BY <1>9 DEF DownClose
<1>10. CASE TargetTakes(i)
  BY <1>10 DEF TargetTakes
<1> QED BY <1>1, <1>2, <1>3, <1>4, <1>5, <1>6, <1>7, <1>8, <1>9, <1>10 DEF PumpUp, PumpDown

LEMMA SessionType ==
  ASSUME TypeOK, NEW i \in Handler,
         \/ SessionEnds(i) \/ CarriersClose(i) \/ ClientFin(i) \/ TargetEnds(i)
         \/ BothDone(i) \/ Forget(i)
  PROVE  TypeOK'
<1> USE DEF TypeOK, handlerVars, tableVars, sesVars, tgtVars, pumpVars, CloseTarget
<1>1. CASE SessionEnds(i)
  BY <1>1 DEF SessionEnds
<1>2. CASE CarriersClose(i)
  BY <1>2 DEF CarriersClose
<1>3. CASE ClientFin(i)
  BY <1>3 DEF ClientFin
<1>4. CASE TargetEnds(i)
  BY <1>4 DEF TargetEnds
<1>5. CASE BothDone(i)
  BY <1>5 DEF BothDone
<1>6. CASE Forget(i)
  BY <1>6, HelloType DEF Forget
<1> QED BY <1>1, <1>2, <1>3, <1>4, <1>5, <1>6

LEMMA ClosingType ==
  ASSUME TypeOK, CloseServer \/ CloseAborts
  PROVE  TypeOK'
<1> USE DEF TypeOK, handlerVars, tableVars, sesVars, tgtVars, pumpVars
<1>1. CASE CloseServer
  <2>1. {sessions[x] : x \in Table} \subseteq Handler
    BY DEF Table
  <2> QED BY <1>1, <2>1 DEF CloseServer
<1>2. CASE CloseAborts
  BY <1>2 DEF CloseAborts
<1> QED BY <1>1, <1>2

LEMMA TypeStep == TypeOK /\ [Next]_vars => TypeOK'
<1> SUFFICES ASSUME TypeOK, [Next]_vars PROVE TypeOK'
  OBVIOUS
<1>1. CASE UNCHANGED vars
  BY <1>1 DEF TypeOK, vars, handlerVars, tableVars, sesVars, tgtVars, pumpVars
<1>2. CASE Next
  BY <1>2, HandlerType, PumpType, SessionType, ClosingType DEF Next
<1> QED BY <1>1, <1>2

----------------------------------------------------------------------------
(* What the steps leave alone.                                             *)

\* the steps that are not a handler's, nor the last of a pump
Elsewhere ==
  \/ CloseServer \/ CloseAborts
  \/ \E i \in Handler :
       \/ SessionEnds(i) \/ CarriersClose(i) \/ ClientFin(i) \/ TargetEnds(i)
       \/ PumpUp(i) \/ PumpDown(i) \/ TargetTakes(i) \/ BothDone(i)

LEMMA Steps ==
  ASSUME [Next]_vars
  PROVE  \/ \E h \in Handler : Handle(h) \/ Forget(h)
         \/ Elsewhere
         \/ UNCHANGED vars
BY DEF Next, Elsewhere

LEMMA HelloFixed ==
  ASSUME [Next]_vars
  PROVE  hello' = hello /\ \A h \in Handler : SidOf(h)' = SidOf(h)
<1>1. hello' = hello
  <2>1. ASSUME NEW h \in Handler, Handle(h) PROVE hello' = hello
    BY <2>1 DEF Handle, Admit, DialFails, DialDone, AckOpen, AckOpenFails, JoinLookup, JoinCheck, Attach
  <2>2. ASSUME NEW i \in Handler, PumpUp(i) \/ PumpDown(i) \/ TargetTakes(i) PROVE hello' = hello
    BY <2>2 DEF PumpUp, PumpDown, UpData, UpWrite, UpEnds, DownData, DownWriteFails, DownEof,
                DownReadFails, DownFlag, DownClose, TargetTakes, handlerVars
  <2>3. ASSUME NEW i \in Handler,
               \/ SessionEnds(i) \/ CarriersClose(i) \/ ClientFin(i) \/ TargetEnds(i)
               \/ BothDone(i) \/ Forget(i)
        PROVE  hello' = hello
    BY <2>3 DEF SessionEnds, CarriersClose, ClientFin, TargetEnds, BothDone, Forget, handlerVars
  <2>4. ASSUME CloseServer \/ CloseAborts PROVE hello' = hello
    BY <2>4 DEF CloseServer, CloseAborts, handlerVars
  <2> QED BY <2>1, <2>2, <2>3, <2>4 DEF Next, vars, handlerVars
<1> QED BY <1>1 DEF SidOf

LEMMA TableFixed ==
  ASSUME Elsewhere
  PROVE  UNCHANGED <<ph, pending, sessions>>
<1>1. ASSUME NEW i \in Handler, PumpUp(i) \/ PumpDown(i) \/ TargetTakes(i)
      PROVE  UNCHANGED <<ph, pending, sessions>>
  BY <1>1 DEF PumpUp, PumpDown, UpData, UpWrite, UpEnds, DownData, DownWriteFails, DownEof,
              DownReadFails, DownFlag, DownClose, TargetTakes, handlerVars, tableVars
<1>2. ASSUME NEW i \in Handler,
             \/ SessionEnds(i) \/ CarriersClose(i) \/ ClientFin(i) \/ TargetEnds(i) \/ BothDone(i)
      PROVE  UNCHANGED <<ph, pending, sessions>>
  BY <1>2 DEF SessionEnds, CarriersClose, ClientFin, TargetEnds, BothDone, handlerVars, tableVars
<1>3. ASSUME CloseServer \/ CloseAborts PROVE UNCHANGED <<ph, pending, sessions>>
  BY <1>3 DEF CloseServer, CloseAborts, handlerVars
<1> QED BY <1>1, <1>2, <1>3 DEF Elsewhere

\* the handler's steps that only follow its progress
LEMMA LaterPhases ==
  ASSUME TypeOK, NEW h \in Handler,
         AckOpen(h) \/ AckOpenFails(h) \/ JoinLookup(h) \/ JoinCheck(h) \/ Attach(h)
  PROVE  /\ ph[h] # "dialing"
         /\ \E p \in {"attach", "check", "done"} : ph' = [ph EXCEPT ![h] = p]
         /\ UNCHANGED <<pending, sessions>>
BY DEF AckOpen, AckOpenFails, JoinLookup, JoinCheck, Attach, Goto, TurnedAway, tableVars

----------------------------------------------------------------------------
(* Ids are reserved while dialing.                                         *)

LEMMA ReservedStep == TypeOK /\ Reserved /\ [Next]_vars => Reserved'
<1> SUFFICES ASSUME TypeOK, Reserved, [Next]_vars PROVE Reserved'
  OBVIOUS
<1>0. \A h \in Handler : SidOf(h)' = SidOf(h) /\ SidOf(h) \in Sid
  BY HelloFixed, HelloType
<1>a. ph \in [Handler -> {"new", "dialing", "ack", "check", "attach", "done"}]
      /\ sessions \in [Sid -> Handler \cup {None}]
  BY DEF TypeOK
<1>1. ASSUME NEW h \in Handler, Admit(h) PROVE Reserved'
  <2>1. CASE ph' = [ph EXCEPT ![h] = "done"] /\ UNCHANGED <<pending, sessions>>
    BY <2>1, <1>0, <1>a, <1>1 DEF Reserved, Table, Admit
  <2>2. CASE /\ ph' = [ph EXCEPT ![h] = "dialing"] /\ pending' = pending \cup {SidOf(h)}
             /\ SidOf(h) \notin Table \cup pending /\ UNCHANGED sessions
    <3>1. \A g \in Handler : ph[g] = "dialing" => SidOf(g) # SidOf(h)
      BY <2>2 DEF Reserved
    <3>2. Table' = Table
      BY <2>2 DEF Table
    <3>3. \A g \in Handler : ph'[g] = "dialing" <=> g = h \/ ph[g] = "dialing"
      BY <2>2, <1>a
    <3> QED BY <2>2, <3>1, <3>2, <3>3, <1>0 DEF Reserved
  <2> QED BY <1>1, <2>1, <2>2 DEF Admit, Goto, TurnedAway
<1>2. ASSUME NEW h \in Handler, DialFails(h) \/ DialDone(h) PROVE Reserved'
  <2>1. /\ ph[h] = "dialing" /\ pending' = pending \ {SidOf(h)}
        /\ \E p \in {"ack", "done"} : ph' = [ph EXCEPT ![h] = p]
        /\ sessions' \in {sessions, [sessions EXCEPT ![SidOf(h)] = h]}
    BY <1>2 DEF DialFails, DialDone, Goto, TurnedAway
  <2>2. \A g \in Handler : ph'[g] = "dialing" <=> g # h /\ ph[g] = "dialing"
    BY <2>1, <1>a
  <2>3. Table' \subseteq Table \cup {SidOf(h)}
    BY <2>1, <1>0, <1>a DEF Table
  <2>4. \A g \in Handler : ph'[g] = "dialing" => SidOf(g) # SidOf(h)
    BY <2>1, <2>2 DEF Reserved
  <2> QED BY <2>1, <2>2, <2>3, <2>4, <1>0 DEF Reserved
<1>3. ASSUME NEW h \in Handler,
             AckOpen(h) \/ AckOpenFails(h) \/ JoinLookup(h) \/ JoinCheck(h) \/ Attach(h)
      PROVE  Reserved'
  <2>1. \A g \in Handler : ph'[g] = "dialing" <=> ph[g] = "dialing"
    BY <1>3, <1>a, LaterPhases
  <2>2. Table' = Table /\ pending' = pending
    BY <1>3, LaterPhases DEF Table
  <2> QED BY <2>1, <2>2, <1>0 DEF Reserved
<1>4. ASSUME NEW i \in Handler, Forget(i) PROVE Reserved'
  <2>1. ph' = ph /\ pending' = pending
    BY <1>4 DEF Forget, handlerVars
  <2>2. Table' \subseteq Table
    BY <1>4, <1>0, <1>a DEF Forget, Table
  <2> QED BY <2>1, <2>2, <1>0 DEF Reserved
<1>5. CASE Elsewhere
  BY <1>0, <1>5, TableFixed DEF Reserved, Table
<1>6. CASE UNCHANGED vars
  BY <1>0, <1>6 DEF Reserved, Table, vars, handlerVars, tableVars
<1> QED BY <1>1, <1>2, <1>3, <1>4, <1>5, <1>6, Steps DEF Handle

----------------------------------------------------------------------------
(* Pumps.                                                                  *)

LEMMA PumpStep == TypeOK /\ PumpAfterHandler /\ [Next]_vars => PumpAfterHandler'
<1> SUFFICES ASSUME TypeOK, PumpAfterHandler, [Next]_vars, NEW g \in Handler, ph'[g] # "done"
             PROVE  down'[g] = "off" /\ waiter'[g] = "off"
  BY DEF PumpAfterHandler
<1>a. /\ ph \in [Handler -> {"new", "dialing", "ack", "check", "attach", "done"}]
      /\ down \in [Handler -> {"off", "read", "write", "linger", "giveup", "done"}]
      /\ waiter \in [Handler -> {"off", "wait", "forget", "done"}]
  BY DEF TypeOK
<1>1. ASSUME NEW h \in Handler, Handle(h) PROVE down'[g] = "off" /\ waiter'[g] = "off"
  <2>1. CASE Attach(h)
    BY <1>1, <1>a, <2>1 DEF Attach, Goto, PumpAfterHandler
  <2>2. CASE AckOpenFails(h)
    BY <1>1, <1>a, <2>2 DEF AckOpenFails, TurnedAway, Goto, PumpAfterHandler
  <2>3. CASE \/ Admit(h) \/ DialFails(h) \/ DialDone(h) \/ AckOpen(h)
             \/ JoinLookup(h) \/ JoinCheck(h)
    <3>1. UNCHANGED <<down, waiter>> /\ ph[h] # "done" /\ \E p : ph' = [ph EXCEPT ![h] = p]
      BY <2>3 DEF Admit, DialFails, DialDone, AckOpen, JoinLookup, JoinCheck, TurnedAway, Goto,
                  pumpVars
    <3> QED BY <3>1, <1>a DEF PumpAfterHandler
  <2> QED BY <1>1, <2>1, <2>2, <2>3 DEF Handle
<1>2. ASSUME ph' = ph, NEW i \in Handler, PumpDown(i) \/ TargetTakes(i)
      PROVE  down'[g] = "off" /\ waiter'[g] = "off"
  <2>1. /\ down[i] # "off"
        /\ \E d : down' = [down EXCEPT ![i] = d]
        /\ \E w : waiter' = [waiter EXCEPT ![i] = w]
    <3>1. waiter = [waiter EXCEPT ![i] = waiter[i]] /\ down = [down EXCEPT ![i] = down[i]]
      BY <1>a
    <3> QED BY <1>2, <3>1 DEF PumpDown, DownData, DownWriteFails, DownEof, DownReadFails, DownFlag,
                              DownClose, TargetTakes
  <2> QED BY <1>2, <1>a, <2>1 DEF PumpAfterHandler
<1>3. ASSUME ph' = ph, NEW i \in Handler, BothDone(i) \/ Forget(i)
      PROVE  down'[g] = "off" /\ waiter'[g] = "off"
  BY <1>3, <1>a DEF BothDone, Forget, PumpAfterHandler
<1>4. ASSUME ph' = ph, UNCHANGED <<down, waiter>>
      PROVE  down'[g] = "off" /\ waiter'[g] = "off"
  BY <1>4 DEF PumpAfterHandler
<1>5. ASSUME NEW i \in Handler, \/ PumpUp(i) \/ SessionEnds(i) \/ CarriersClose(i)
                                \/ ClientFin(i) \/ TargetEnds(i)
      PROVE  UNCHANGED <<down, waiter>>
  BY <1>5 DEF PumpUp, UpData, UpWrite, UpEnds, SessionEnds, CarriersClose, ClientFin, TargetEnds,
              pumpVars
<1>6. CASE Elsewhere
  <2>1. CASE CloseServer \/ CloseAborts
    BY <2>1, <1>4, <1>6, TableFixed DEF CloseServer, CloseAborts, pumpVars
  <2> QED BY <1>2, <1>3, <1>4, <1>5, <1>6, <2>1, TableFixed DEF Elsewhere
<1>7. CASE UNCHANGED vars
  BY <1>4, <1>7 DEF vars, handlerVars, pumpVars
<1>8. ASSUME NEW i \in Handler, Forget(i) PROVE down'[g] = "off" /\ waiter'[g] = "off"
  BY <1>3, <1>8 DEF Forget, handlerVars
<1> QED BY <1>1, <1>6, <1>7, <1>8, Steps

----------------------------------------------------------------------------
(* The table keeps what lives.                                             *)

\* a step that neither opens a target, nor revives a session, nor moves a
\* waiter whose target is open to "forget", nor changes the table
Quiet ==
  /\ sessions' = sessions
  /\ \A i \in Handler :
       /\ tgt'[i] = "open" => tgt[i] = "open"
       /\ ses'[i] = "live" => ses[i] = "live"
       /\ waiter'[i] \in {"forget", "done"} => waiter[i] \in {"forget", "done"} \/ tgt'[i] # "open"

LEMMA QuietSteps ==
  ASSUME TypeOK,
         \/ Elsewhere \/ UNCHANGED vars
         \/ \E h \in Handler : Handle(h) /\ ~ DialDone(h)
  PROVE  Quiet
<1>a. /\ ses \in [Handler -> {None, "live", "dead"}]
      /\ tgt \in [Handler -> {None, "open", "closed"}]
      /\ waiter \in [Handler -> {"off", "wait", "forget", "done"}]
  BY DEF TypeOK
<1> USE DEF Quiet, handlerVars, tableVars, sesVars, tgtVars, pumpVars
<1>1. ASSUME NEW h \in Handler, Handle(h), ~ DialDone(h) PROVE Quiet
  <2>1. CASE Admit(h) \/ DialFails(h) \/ AckOpen(h) \/ JoinLookup(h) \/ JoinCheck(h)
    BY <2>1 DEF Admit, DialFails, AckOpen, JoinLookup, JoinCheck
  <2>2. CASE AckOpenFails(h)
    BY <1>a, <2>2 DEF AckOpenFails
  <2>3. CASE Attach(h)
    BY <1>a, <2>3 DEF Attach
  <2> QED BY <1>1, <2>1, <2>2, <2>3 DEF Handle
<1>2. ASSUME NEW i \in Handler, PumpUp(i) PROVE Quiet
  BY <1>a, <1>2 DEF PumpUp, UpData, UpWrite, UpEnds, CloseTarget
<1>3. ASSUME NEW i \in Handler, PumpDown(i) \/ TargetTakes(i) PROVE Quiet
  <2>1. CASE DownClose(i)
    BY <1>a, <2>1 DEF DownClose, CloseTarget
  <2> QED BY <1>3, <2>1 DEF PumpDown, DownData, DownWriteFails, DownEof, DownReadFails, DownFlag,
                            TargetTakes
<1>4. ASSUME NEW i \in Handler, \/ SessionEnds(i) \/ CarriersClose(i) \/ ClientFin(i)
                                \/ TargetEnds(i) \/ BothDone(i)
      PROVE  Quiet
  BY <1>a, <1>4 DEF SessionEnds, CarriersClose, ClientFin, TargetEnds, BothDone, CloseTarget
<1>5. CASE CloseServer \/ CloseAborts
  BY <1>a, <1>5 DEF CloseServer, CloseAborts
<1>6. CASE UNCHANGED vars
  BY <1>6 DEF vars
<1> QED BY <1>1, <1>2, <1>3, <1>4, <1>5, <1>6 DEF Elsewhere

LEMMA KeptStep ==
  ASSUME TypeOK, Reserved, PumpAfterHandler, TargetInTable, StillJoinable, [Next]_vars
  PROVE  TargetInTable' /\ StillJoinable'
<1>0. \A h \in Handler : SidOf(h)' = SidOf(h) /\ SidOf(h) \in Sid
  BY HelloFixed, HelloType
<1>a. /\ ses \in [Handler -> {None, "live", "dead"}]
      /\ tgt \in [Handler -> {None, "open", "closed"}]
      /\ waiter \in [Handler -> {"off", "wait", "forget", "done"}]
      /\ sessions \in [Sid -> Handler \cup {None}]
  BY DEF TypeOK
<1>1. ASSUME NEW h \in Handler, DialDone(h) PROVE TargetInTable' /\ StillJoinable'
  <2>1. SidOf(h) \in pending /\ sessions[SidOf(h)] = None /\ waiter[h] = "off"
    BY <1>0, <1>1 DEF DialDone, Reserved, Table, PumpAfterHandler
  <2>2. /\ sessions' = [sessions EXCEPT ![SidOf(h)] = h] /\ waiter' = waiter
        /\ tgt' = [tgt EXCEPT ![h] = "open"] /\ ses' = [ses EXCEPT ![h] = "live"]
    BY <1>1 DEF DialDone, pumpVars
  <2>3. \A i \in Handler : sessions[SidOf(i)] = i => sessions'[SidOf(i)] = i
    BY <1>0, <1>a, <2>1, <2>2, NoneAssumption
  <2>4. sessions'[SidOf(h)] = h
    BY <1>0, <1>a, <2>2
  <2> QED BY <1>0, <1>a, <2>1, <2>2, <2>3, <2>4 DEF TargetInTable, StillJoinable, Live
<1>2. ASSUME NEW h \in Handler, Forget(h) PROVE TargetInTable' /\ StillJoinable'
  <2>1. /\ waiter[h] = "forget" /\ ses[h] = "dead" /\ tgt[h] # "open"
        /\ waiter' = [waiter EXCEPT ![h] = "done"] /\ tgt' = tgt /\ ses' = ses
        /\ sessions' = [sessions EXCEPT ![SidOf(h)] = IF sessions[SidOf(h)] = h THEN None ELSE sessions[SidOf(h)]]
    BY <1>2 DEF Forget, Dead, sesVars, tgtVars, TargetInTable
  <2>2. \A i \in Handler \ {h} : sessions[SidOf(i)] = i => sessions'[SidOf(i)] = i
    BY <1>0, <1>a, <2>1
  <2> QED BY <1>0, <1>a, <2>1, <2>2 DEF TargetInTable, StillJoinable, Live
<1>3. CASE Quiet
  BY <1>0, <1>3 DEF Quiet, TargetInTable, StillJoinable, Live
<1> QED BY <1>1, <1>2, <1>3, QuietSteps, Steps

----------------------------------------------------------------------------
(* Counting the table and the reservations.                                *)

LEMMA OneMore ==
  ASSUME NEW S, NEW x, IsFiniteSet(S)
  PROVE  /\ IsFiniteSet(S \cup {x}) /\ Cardinality(S \cup {x}) \in Nat
         /\ Cardinality(S \cup {x}) <= Cardinality(S) + 1
<1>1. IsFiniteSet(S \cup {x}) /\ Cardinality(S) \in Nat
  BY FS_AddElement, FS_CardinalityType
<1>2. Cardinality(S \cup {x}) = IF x \in S THEN Cardinality(S) ELSE Cardinality(S) + 1
  BY FS_AddElement
<1> QED BY <1>1, <1>2

LEMMA OneLess ==
  ASSUME NEW S, NEW x, IsFiniteSet(S)
  PROVE  /\ IsFiniteSet(S \ {x}) /\ Cardinality(S \ {x}) \in Nat
         /\ Cardinality(S \ {x}) = IF x \in S THEN Cardinality(S) - 1 ELSE Cardinality(S)
<1>1. IsFiniteSet(S \ {x}) /\ Cardinality(S \ {x}) = IF x \in S THEN Cardinality(S) - 1 ELSE Cardinality(S)
  BY FS_RemoveElement
<1>2. Cardinality(S \ {x}) \in Nat
  BY <1>1, FS_CardinalityType
<1> QED BY <1>1, <1>2

LEMMA CountedStep == TypeOK /\ Reserved /\ Counted /\ [Next]_vars => Counted'
<1> SUFFICES ASSUME TypeOK, Reserved, Counted, [Next]_vars PROVE Counted'
  OBVIOUS
<1>0. /\ IsFiniteSet(Table) /\ IsFiniteSet(pending)
      /\ Cardinality(Table) \in Nat /\ Cardinality(pending) \in Nat
      /\ Cardinality(Table) + Cardinality(pending) <= MaxSessions
      /\ MaxSessions \in Nat
  BY FS_CardinalityType, MaxSessionsAssumption DEF Counted, WithinCapacity
<1>a. sessions \in [Sid -> Handler \cup {None}] /\ \A h \in Handler : SidOf(h) \in Sid
  BY HelloType DEF TypeOK
<1>1. ASSUME UNCHANGED <<pending, sessions>> PROVE Counted'
  <2>1. Table' = Table /\ pending' = pending
    BY <1>1 DEF Table
  <2> QED BY <1>0, <2>1 DEF Counted, WithinCapacity
<1>2. ASSUME NEW h \in Handler, Admit(h) PROVE Counted'
  <2>1. CASE UNCHANGED <<pending, sessions>>
    BY <1>1, <2>1
  <2>2. CASE /\ pending' = pending \cup {SidOf(h)} /\ UNCHANGED sessions
             /\ Cardinality(Table) + Cardinality(pending) < MaxSessions
    <3>1. Table' = Table
      BY <2>2 DEF Table
    <3>2. IsFiniteSet(pending') /\ Cardinality(pending') <= Cardinality(pending) + 1
          /\ Cardinality(pending') \in Nat
      BY <1>0, <2>2, OneMore
    <3>3. Cardinality(Table') + Cardinality(pending') <= MaxSessions
      BY <1>0, <2>2, <3>1, <3>2
    <3> QED BY <1>0, <3>1, <3>2, <3>3 DEF Counted, WithinCapacity
  <2>3. ~(Cardinality(Table) + Cardinality(pending) >= MaxSessions)
          => Cardinality(Table) + Cardinality(pending) < MaxSessions
    BY <1>0
  <2> QED BY <1>2, <2>1, <2>2, <2>3 DEF Admit
<1>3. ASSUME NEW h \in Handler, DialFails(h) PROVE Counted'
  <2>1. Table' = Table /\ pending' = pending \ {SidOf(h)}
    BY <1>3 DEF DialFails, Table
  <2>2. IsFiniteSet(pending') /\ Cardinality(pending') <= Cardinality(pending)
        /\ Cardinality(pending') \in Nat
    BY <1>0, <2>1, OneLess
  <2>3. Cardinality(Table') + Cardinality(pending') <= MaxSessions
    BY <1>0, <2>1, <2>2
  <2> QED BY <1>0, <2>1, <2>2, <2>3 DEF Counted, WithinCapacity
<1>4. ASSUME NEW h \in Handler, DialDone(h) PROVE Counted'
  <2>1. SidOf(h) \in pending
    BY <1>4 DEF DialDone, Reserved
  <2>2. Table' = Table \cup {SidOf(h)}
    BY <1>4, <1>a, NoneAssumption DEF DialDone, Table
  <2>3. pending' = pending \ {SidOf(h)}
    BY <1>4 DEF DialDone
  <2>4. IsFiniteSet(pending') /\ Cardinality(pending') = Cardinality(pending) - 1
    BY <1>0, <2>1, <2>3, OneLess
  <2>5. IsFiniteSet(Table') /\ Cardinality(Table') <= Cardinality(Table) + 1
        /\ Cardinality(Table') \in Nat
    BY <1>0, <2>2, OneMore
  <2>6. Cardinality(Table') + Cardinality(pending') <= MaxSessions
    BY <1>0, <2>4, <2>5
  <2> QED BY <2>4, <2>5, <2>6 DEF Counted, WithinCapacity
<1>5. ASSUME NEW i \in Handler, Forget(i) PROVE Counted'
  <2>1. Table' \in SUBSET Table /\ pending' = pending
    BY <1>5, <1>a DEF Forget, Table
  <2>2. IsFiniteSet(Table') /\ Cardinality(Table') <= Cardinality(Table)
        /\ Cardinality(Table') \in Nat
    BY <1>0, <2>1, FS_Subset, FS_CardinalityType
  <2>3. Cardinality(Table') + Cardinality(pending') <= MaxSessions
    BY <1>0, <2>1, <2>2
  <2> QED BY <1>0, <2>1, <2>2, <2>3 DEF Counted, WithinCapacity
<1>6. ASSUME NEW h \in Handler,
             AckOpen(h) \/ AckOpenFails(h) \/ JoinLookup(h) \/ JoinCheck(h) \/ Attach(h)
      PROVE  Counted'
  BY <1>1, <1>6, LaterPhases
<1>7. CASE Elsewhere \/ UNCHANGED vars
  BY <1>1, <1>7, TableFixed DEF vars, tableVars
<1> QED BY <1>2, <1>3, <1>4, <1>5, <1>6, <1>7, Steps DEF Handle

----------------------------------------------------------------------------
(* The invariant and what follows from it.                                 *)

LEMMA InitInv == Init => TableInv
<1> SUFFICES ASSUME Init PROVE TableInv
  OBVIOUS
<1>1. Table = {} /\ pending = {}
  BY DEF Init, Table
<1>2. Counted
  BY <1>1, FS_EmptySet, MaxSessionsAssumption DEF Counted, WithinCapacity
<1>3. \A h \in Handler : ph[h] = "new" /\ tgt[h] = None /\ ses[h] = None
                          /\ down[h] = "off" /\ waiter[h] = "off"
  BY DEF Init
<1>4. Reserved /\ PumpAfterHandler
  BY <1>1, <1>3 DEF Reserved, PumpAfterHandler
<1>5. TargetInTable /\ StillJoinable
  BY <1>3 DEF TargetInTable, StillJoinable, Live, None
<1> QED BY <1>2, <1>4, <1>5, InitType DEF TableInv

(* TableInv holds in every state the exit can reach.                       *)
THEOREM TableInvariant == Spec => []TableInv
<1>1. TableInv /\ [Next]_vars => TableInv'
  BY TypeStep, ReservedStep, PumpStep, KeptStep, CountedStep DEF TableInv
<1> QED BY InitInv, <1>1, PTL DEF Spec

(* Every variable of the exit keeps its type.                              *)
THEOREM ServerTypeCorrect == Spec => []TypeOK
<1>1. TableInv => TypeOK
  BY DEF TableInv
<1> QED BY <1>1, TableInvariant, PTL

(* open's accounting: an id is in pending exactly while one handler dials  *)
(* for it, and then not in the table, so no failed or finished dial keeps  *)
(* a slot of MaxSessions.                                                  *)
THEOREM ReservationsAreExact == Spec => []PendingIsDialing
<1>1. TableInv => PendingIsDialing
  <2> SUFFICES ASSUME Reserved, NEW x \in Sid
               PROVE  /\ Cardinality({h \in Handler : ph[h] = "dialing" /\ SidOf(h) = x})
                           = IF x \in pending THEN 1 ELSE 0
                      /\ x \notin pending \cap Table
    BY DEF TableInv, PendingIsDialing
  <2> DEFINE dialing == {h \in Handler : ph[h] = "dialing" /\ SidOf(h) = x}
  <2>1. CASE x \in pending
    <3>1. PICK h \in Handler : ph[h] = "dialing" /\ SidOf(h) = x
      BY <2>1 DEF Reserved
    <3>2. dialing = {h}
      BY <3>1 DEF Reserved
    <3> QED BY <2>1, <3>2, FS_Singleton DEF Reserved
  <2>2. CASE x \notin pending
    <3>1. dialing = {}
      BY <2>2 DEF Reserved
    <3> QED BY <2>2, <3>1, FS_EmptySet
  <2> QED BY <2>1, <2>2
<1> QED BY <1>1, TableInvariant, PTL

(* ServerConfig.MaxSessions: the sessions in the table and those still     *)
(* dialing their target are never more, however the handlers interleave.   *)
THEOREM CapacityHolds == Spec => []WithinCapacity
<1>1. TableInv => WithinCapacity
  BY DEF TableInv, Counted
<1> QED BY <1>1, TableInvariant, PTL

(* Two sessions opened with the same id never hold a target socket at the  *)
(* same time: the id is free again only once the first has closed its own. *)
THEOREM OneTargetPerId == Spec => []SingleTarget
<1>1. TableInv => SingleTarget
  BY DEF TableInv, TargetInTable, SingleTarget
<1> QED BY <1>1, TableInvariant, PTL

(* A join finds the session of its id in the table as long as that session *)
(* has not ended, also while it drains after its pump.                     *)
THEOREM JoinsFindTheirSession == Spec => []StillJoinable
<1>1. TableInv => StillJoinable
  BY DEF TableInv
<1> QED BY <1>1, TableInvariant, PTL

----------------------------------------------------------------------------
(***************************************************************************)
(* The pump: a half-close never costs the client the rest of the reply,    *)
(* and a session is reset for its target's sake only if the target failed. *)
(* The inductive invariant is PumpInv.                                     *)
(***************************************************************************)

Early == {"new", "dialing"}

(* Nothing of a session exists before its target has answered: neither its *)
(* socket, nor its life, nor an entry of the table or of Close's snapshot. *)
NotBeforeDial ==
  /\ \A i \in Handler : ph[i] \in Early => tgt[i] = None /\ ses[i] = None
  /\ \A x \in Table : ph[sessions[x]] \notin Early
  /\ \A i \in doomed : ph[i] \notin Early

UpAfterHandler == \A i \in Handler : ph[i] # "done" => up[i] = "off"

(* A closed target is excused: its session is dead, the pump said so       *)
(* before, or nobody reads it any more.                                    *)
ClosedIsExcused ==
  \A i \in Handler :
    tgt[i] = "closed" /\ Kind(i) # "packet" => Dead(i) \/ closedByUs[i] \/ up[i] = "done"

(* A direction of the pump ends only for a reason the other one may act on.*)
EndsForAReason ==
  \A i \in Handler :
    /\ tEnd[i] # "no" => tgt[i] # None
    /\ Kind(i) = "open" =>
         /\ up[i] = "done" => tEnd[i] # "no" \/ tgt[i] = "closed"
         /\ down[i] = "giveup" =>
              Dead(i) \/ tEnd[i] # "no" \/ peerFin[i] \/ tgt[i] = "closed"

PumpInv ==
  /\ TypeOK /\ PumpAfterHandler /\ UpAfterHandler /\ NotBeforeDial
  /\ ClosedIsExcused /\ EndsForAReason /\ NoFalseBlame

----------------------------------------------------------------------------
(* Who changes what of session i.                                          *)

Changes(i) ==
  /\ tgt'[i] # tgt[i] =>
       DialDone(i) \/ AckOpenFails(i) \/ UpWrite(i) \/ DownClose(i) \/ BothDone(i)
  /\ ses'[i] # ses[i] =>
       \/ DialDone(i)
       \/ ses'[i] = "dead" /\ (Live(i) \/ i \in doomed \/ ph[i] = "ack" \/ up[i] = "read")
  /\ ph'[i] # ph[i] => Handle(i)
  /\ up'[i] # up[i] => Attach(i) \/ UpData(i) \/ UpWrite(i) \/ UpEnds(i)
  /\ down'[i] # down[i] => Attach(i) \/ PumpDown(i) \/ TargetTakes(i)
  /\ tEnd'[i] # tEnd[i] => TargetEnds(i)
  /\ blamed'[i] # blamed[i] => UpEnds(i)
  /\ peerFin[i] => peerFin'[i]
  /\ closedByUs[i] => closedByUs'[i]

LEMMA WhoChanges ==
  ASSUME TypeOK, [Next]_vars, NEW i \in Handler
  PROVE  Changes(i)
<1> USE DEF Changes, handlerVars, tableVars, sesVars, tgtVars, pumpVars
<1>a. /\ ph \in [Handler -> {"new", "dialing", "ack", "check", "attach", "done"}]
      /\ ses \in [Handler -> {None, "live", "dead"}] /\ blamed \in [Handler -> BOOLEAN]
      /\ peerFin \in [Handler -> BOOLEAN] /\ closedByUs \in [Handler -> BOOLEAN]
      /\ tgt \in [Handler -> {None, "open", "closed"}]
      /\ tEnd \in [Handler -> {"no", "eof", "failed"}]
      /\ up \in [Handler -> {"off", "read", "write", "done"}]
      /\ down \in [Handler -> {"off", "read", "write", "linger", "giveup", "done"}]
  BY DEF TypeOK
<1>1. ASSUME NEW h \in Handler, Handle(h) PROVE Changes(i)
  <2>0. h # i => ph'[i] = ph[i]
    BY <1>1, <1>a DEF Handle, Admit, DialFails, DialDone, AckOpen, AckOpenFails, JoinLookup,
                      JoinCheck, Attach, Goto, TurnedAway
  <2>1. CASE Admit(h) \/ DialFails(h) \/ AckOpen(h) \/ JoinLookup(h) \/ JoinCheck(h)
    BY <1>1, <2>0, <2>1 DEF Admit, DialFails, AckOpen, JoinLookup, JoinCheck
  <2>2. CASE DialDone(h)
    BY <1>1, <1>a, <2>0, <2>2 DEF DialDone
  <2>3. CASE AckOpenFails(h)
    BY <1>1, <1>a, <2>0, <2>3 DEF AckOpenFails
  <2>4. CASE Attach(h)
    BY <1>1, <1>a, <2>0, <2>4 DEF Attach
  <2> QED BY <1>1, <2>1, <2>2, <2>3, <2>4 DEF Handle
<1>2. ASSUME NEW j \in Handler, UpData(j) PROVE Changes(i)
  BY <1>2, <1>a DEF UpData
<1>3. ASSUME NEW j \in Handler, UpWrite(j) PROVE Changes(i)
  BY <1>3, <1>a DEF UpWrite, CloseTarget
<1>4. ASSUME NEW j \in Handler, UpEnds(j) PROVE Changes(i)
  <2>1. /\ up' = [up EXCEPT ![j] = "done"] /\ up[j] = "read"
        /\ UNCHANGED <<ph, peerFin, tgt, tEnd, down, closedByUs>>
    BY <1>4 DEF UpEnds, UpReadFails
  <2>2. \/ UNCHANGED <<ses, blamed>>
        \/ /\ ses' = [ses EXCEPT ![j] = "dead"]
           /\ blamed' = [blamed EXCEPT ![j] = blamed[j] \/ Live(j)]
    BY <1>4 DEF UpEnds
  <2> QED BY <1>4, <1>a, <2>1, <2>2
<1>5. ASSUME NEW j \in Handler, PumpDown(j) \/ TargetTakes(j) PROVE Changes(i)
  <2>1. CASE DownClose(j)
    BY <1>5, <1>a, <2>1 DEF DownClose, CloseTarget
  <2>2. CASE \/ DownData(j) \/ DownWriteFails(j) \/ DownEof(j) \/ DownReadFails(j)
             \/ DownFlag(j) \/ TargetTakes(j)
    BY <1>5, <1>a, <2>2 DEF DownData, DownWriteFails, DownEof, DownReadFails, DownFlag, TargetTakes
  <2> QED BY <1>5, <2>1, <2>2 DEF PumpDown
<1>6. ASSUME NEW j \in Handler, \/ SessionEnds(j) \/ CarriersClose(j) \/ ClientFin(j)
                                \/ TargetEnds(j) \/ BothDone(j) \/ Forget(j)
      PROVE  Changes(i)
  <2>1. CASE SessionEnds(j)
    BY <1>a, <2>1 DEF SessionEnds
  <2>2. CASE CarriersClose(j)
    BY <2>2 DEF CarriersClose
  <2>3. CASE ClientFin(j)
    BY <1>a, <2>3 DEF ClientFin
  <2>4. CASE TargetEnds(j)
    BY <1>a, <2>4 DEF TargetEnds
  <2>5. CASE BothDone(j)
    BY <1>a, <2>5 DEF BothDone, CloseTarget
  <2>6. CASE Forget(j)
    BY <2>6 DEF Forget
  <2> QED BY <1>6, <2>1, <2>2, <2>3, <2>4, <2>5, <2>6
<1>7. CASE CloseServer
  BY <1>7 DEF CloseServer
<1>8. CASE CloseAborts
  BY <1>8, <1>a DEF CloseAborts
<1>9. CASE UNCHANGED vars
  BY <1>9 DEF vars
<1> QED BY <1>1, <1>2, <1>3, <1>4, <1>5, <1>6, <1>7, <1>8, <1>9 DEF Next, PumpUp

----------------------------------------------------------------------------
(* Before the target answers.                                              *)

LEMMA NeverEarlyAgain ==
  ASSUME TypeOK, [Next]_vars, NEW i \in Handler, ph[i] \notin Early
  PROVE  ph'[i] \notin Early
<1>1. CASE Handle(i)
  BY <1>1 DEF Handle, Admit, DialFails, DialDone, AckOpen, AckOpenFails, JoinLookup, JoinCheck,
              Attach, Goto, TurnedAway, TypeOK, Early
<1> QED BY <1>1, WhoChanges DEF Changes

LEMMA UpStep == TypeOK /\ UpAfterHandler /\ [Next]_vars => UpAfterHandler'
<1> SUFFICES ASSUME TypeOK, UpAfterHandler, [Next]_vars, NEW i \in Handler, ph'[i] # "done"
             PROVE  up'[i] = "off"
  BY DEF UpAfterHandler
<1>1. ph[i] # "done"
  <2>1. CASE Handle(i)
    BY <2>1 DEF Handle, Admit, DialFails, DialDone, AckOpen, AckOpenFails, JoinLookup, JoinCheck,
                Attach
  <2> QED BY <2>1, WhoChanges DEF Changes
<1>2. ~ Attach(i)
  BY DEF Attach, Goto, TypeOK
<1>3. up[i] = "off"
  BY <1>1 DEF UpAfterHandler
<1> QED BY <1>2, <1>3, WhoChanges DEF Changes, UpData, UpWrite, UpEnds, UpReadFails

LEMMA NotBeforeDialStep ==
  TypeOK /\ PumpAfterHandler /\ UpAfterHandler /\ NotBeforeDial /\ [Next]_vars => NotBeforeDial'
<1> SUFFICES ASSUME TypeOK, PumpAfterHandler, UpAfterHandler, NotBeforeDial, [Next]_vars
             PROVE  NotBeforeDial'
  OBVIOUS
<1>a. /\ ph \in [Handler -> {"new", "dialing", "ack", "check", "attach", "done"}]
      /\ sessions \in [Sid -> Handler \cup {None}]
  BY DEF TypeOK
<1>1. ASSUME NEW i \in Handler, ph'[i] \in Early PROVE tgt'[i] = None /\ ses'[i] = None
  <2>1. ph[i] \in Early
    BY <1>1, NeverEarlyAgain
  <2>2. tgt[i] = None /\ ses[i] = None /\ i \notin doomed
    BY <2>1 DEF NotBeforeDial
  <2>3. up[i] = "off" /\ down[i] = "off" /\ waiter[i] = "off"
    BY <2>1 DEF UpAfterHandler, PumpAfterHandler, Early
  <2>4. ~ DialDone(i) /\ ~ AckOpenFails(i) /\ ph[i] # "ack"
    BY <1>1, <1>a, <2>1 DEF DialDone, AckOpenFails, Goto, Early
  <2>5. ~ UpWrite(i) /\ ~ DownClose(i) /\ ~ BothDone(i)
    BY <2>3 DEF UpWrite, DownClose, BothDone
  <2>6. ~ Live(i)
    BY <2>2 DEF Live, None
  <2> QED BY <2>2, <2>3, <2>4, <2>5, <2>6, WhoChanges DEF Changes
<1>2. ASSUME NEW x \in Table' PROVE ph'[sessions'[x]] \notin Early
  <2>1. CASE x \in Table /\ sessions'[x] = sessions[x]
    <3>1. sessions[x] \in Handler /\ ph[sessions[x]] \notin Early
      BY <2>1, <1>a DEF NotBeforeDial, Table
    <3> QED BY <2>1, <3>1, NeverEarlyAgain
  <2>2. ASSUME NEW h \in Handler, DialDone(h) PROVE ph'[sessions'[x]] \notin Early
    <3>1. SidOf(h) \in Sid /\ ph'[h] = "ack"
      BY <2>2, <1>a, HelloType DEF DialDone, Goto
    <3>2. CASE x = SidOf(h)
      BY <2>2, <1>a, <3>1, <3>2 DEF DialDone, Early
    <3>3. CASE x # SidOf(h)
      <4>1. x \in Sid /\ sessions'[x] = sessions[x] /\ sessions'[x] # None
        BY <2>2, <1>2, <1>a, <3>1, <3>3 DEF DialDone, Table
      <4> QED BY <4>1, <2>1 DEF Table
    <3> QED BY <3>2, <3>3
  <2>3. ASSUME NEW h \in Handler, Forget(h) PROVE ph'[sessions'[x]] \notin Early
    <3>1. x \in Sid /\ sessions'[x] = sessions[x] /\ sessions'[x] # None
      BY <2>3, <1>2, <1>a, HelloType DEF Forget, Table
    <3> QED BY <3>1, <2>1 DEF Table
  <2>4. CASE UNCHANGED sessions
    BY <1>2, <2>1, <2>4 DEF Table
  <2>5. ASSUME NEW h \in Handler, Handle(h), ~ DialDone(h) PROVE UNCHANGED sessions
    BY <2>5, LaterPhases DEF Handle, Admit, DialFails
  <2> QED BY <2>2, <2>3, <2>4, <2>5, Steps, TableFixed DEF vars, tableVars
<1>3. ASSUME NEW i \in doomed' PROVE ph'[i] \notin Early
  <2>1. CASE CloseServer
    <3>1. PICK x \in Table : i = sessions[x]
      BY <1>3, <2>1 DEF CloseServer
    <3>2. i \in Handler /\ ph[i] \notin Early
      BY <3>1, <1>a DEF NotBeforeDial, Table
    <3> QED BY <3>2, NeverEarlyAgain
  <2>2. CASE doomed' \subseteq doomed
    <3>1. i \in Handler /\ ph[i] \notin Early
      BY <1>3, <2>2 DEF NotBeforeDial, TypeOK
    <3> QED BY <3>1, NeverEarlyAgain
  <2>3. CASE CloseAborts
    BY <2>2, <2>3 DEF CloseAborts
  <2>4. ASSUME NEW h \in Handler, Handle(h) PROVE doomed' = doomed
    BY <2>4 DEF Handle, Admit, DialFails, DialDone, AckOpen, AckOpenFails, JoinLookup, JoinCheck,
                Attach, tableVars
  <2>5. ASSUME NEW h \in Handler, PumpUp(h) \/ PumpDown(h) \/ TargetTakes(h)
        PROVE  doomed' = doomed
    BY <2>5 DEF PumpUp, PumpDown, UpData, UpWrite, UpEnds, DownData, DownWriteFails, DownEof,
                DownReadFails, DownFlag, DownClose, TargetTakes, tableVars
  <2>6. ASSUME NEW h \in Handler, \/ SessionEnds(h) \/ CarriersClose(h) \/ ClientFin(h)
                                  \/ TargetEnds(h) \/ BothDone(h) \/ Forget(h)
        PROVE  doomed' = doomed
    BY <2>6 DEF SessionEnds, CarriersClose, ClientFin, TargetEnds, BothDone, Forget, tableVars
  <2>7. CASE UNCHANGED vars
    BY <2>2, <2>7 DEF vars, tableVars
  <2> QED BY <2>1, <2>2, <2>3, <2>4, <2>5, <2>6, <2>7 DEF Next
<1> QED BY <1>1, <1>2, <1>3 DEF NotBeforeDial

----------------------------------------------------------------------------
(* What has happened to a session stays so.                                *)

LEMMA Lasting ==
  ASSUME PumpInv, [Next]_vars, NEW i \in Handler
  PROVE  /\ Dead(i) => Dead(i)'
         /\ tgt[i] = "closed" => tgt'[i] = "closed"
         /\ tgt[i] # None => tgt'[i] # None
         /\ tEnd[i] # "no" => tEnd'[i] = tEnd[i]
         /\ up[i] = "done" => up'[i] = "done"
         /\ peerFin[i] => peerFin'[i]
         /\ closedByUs[i] => closedByUs'[i]
         /\ Kind(i)' = Kind(i)
<1> USE DEF PumpInv, Dead
<1>0. Changes(i)
  BY WhoChanges
<1>a. tgt \in [Handler -> {None, "open", "closed"}]
  BY DEF TypeOK
<1>1. (tgt[i] # None \/ ses[i] # None) => ~ DialDone(i)
  BY DEF DialDone, NotBeforeDial, Early
<1>2. UpWrite(i) \/ DownClose(i) \/ BothDone(i) \/ AckOpenFails(i)
        => tgt'[i] \in {"closed", tgt[i]}
  BY <1>a DEF UpWrite, DownClose, BothDone, AckOpenFails, CloseTarget
<1>3. tEnd[i] # "no" => ~ TargetEnds(i)
  BY DEF TargetEnds
<1>4. up[i] = "done" => ~ (Attach(i) \/ UpData(i) \/ UpWrite(i) \/ UpEnds(i))
  BY DEF Attach, UpAfterHandler, UpData, UpWrite, UpEnds, UpReadFails
<1>5. Kind(i)' = Kind(i)
  BY HelloFixed DEF Kind
<1>6. (Dead(i) => Dead(i)') /\ (tgt[i] = "closed" => tgt'[i] = "closed")
      /\ (tgt[i] # None => tgt'[i] # None)
  BY <1>0, <1>1, <1>2 DEF Changes, None
<1>7. (tEnd[i] # "no" => tEnd'[i] = tEnd[i]) /\ (up[i] = "done" => up'[i] = "done")
  BY <1>0, <1>3, <1>4 DEF Changes
<1> QED BY <1>0, <1>5, <1>6, <1>7 DEF Changes

LEMMA ExcusedStep == PumpInv /\ [Next]_vars => ClosedIsExcused'
<1> SUFFICES ASSUME PumpInv, [Next]_vars,
                    NEW i \in Handler, tgt'[i] = "closed", Kind(i)' # "packet"
             PROVE  Dead(i)' \/ closedByUs'[i] \/ up'[i] = "done"
  BY DEF ClosedIsExcused
<1>a. TypeOK /\ Kind(i) # "packet"
  BY Lasting DEF PumpInv
<1>1. CASE tgt[i] = "closed"
  BY <1>1, <1>a, Lasting DEF PumpInv, ClosedIsExcused
<1>2. CASE DialDone(i)
  BY <1>2, <1>a DEF DialDone, TypeOK
<1>3. CASE AckOpenFails(i)
  BY <1>3, <1>a DEF AckOpenFails, TypeOK, Dead
<1>4. CASE UpWrite(i) /\ tgt[i] # "closed"
  BY <1>4, <1>a DEF UpWrite, TypeOK
<1>5. CASE DownClose(i)
  <2>1. Dead(i) \/ closedByUs[i]
    BY <1>5, <1>a DEF DownClose
  <2> QED BY <2>1, Lasting
<1>6. CASE BothDone(i)
  BY <1>6, Lasting DEF BothDone
<1> QED BY <1>1, <1>2, <1>3, <1>4, <1>5, <1>6, <1>a, WhoChanges DEF Changes

LEMMA ReasonStep == PumpInv /\ [Next]_vars => EndsForAReason'
<1> SUFFICES ASSUME PumpInv, [Next]_vars, NEW i \in Handler
             PROVE  /\ tEnd'[i] # "no" => tgt'[i] # None
                    /\ Kind(i)' = "open" =>
                         /\ up'[i] = "done" => tEnd'[i] # "no" \/ tgt'[i] = "closed"
                         /\ down'[i] = "giveup" =>
                              Dead(i)' \/ tEnd'[i] # "no" \/ peerFin'[i] \/ tgt'[i] = "closed"
  BY DEF EndsForAReason
<1>a. TypeOK /\ Changes(i) /\ Kind(i)' = Kind(i)
  BY Lasting, WhoChanges DEF PumpInv
<1>1. tEnd'[i] # "no" => tgt'[i] # None
  <2>1. CASE TargetEnds(i)
    BY <2>1, Lasting DEF TargetEnds, None
  <2> QED BY <1>a, <2>1, Lasting DEF Changes, PumpInv, EndsForAReason
<1>2. ASSUME Kind(i) = "open", up'[i] = "done" PROVE tEnd'[i] # "no" \/ tgt'[i] = "closed"
  <2>1. CASE Attach(i)
    BY <1>2, <1>a, <2>1 DEF Attach, TypeOK, PumpInv, UpAfterHandler
  <2>2. CASE UpData(i)
    BY <1>2, <1>a, <2>2 DEF UpData, TypeOK
  <2>3. CASE UpWrite(i)
    BY <1>2, <1>a, <2>3 DEF UpWrite, CloseTarget, TypeOK
  <2>4. CASE UpEnds(i)
    BY <2>4, Lasting DEF UpEnds, UpReadFails
  <2>5. CASE up[i] = "done"
    BY <1>2, <2>5, Lasting DEF PumpInv, EndsForAReason
  <2> QED BY <1>2, <1>a, <2>1, <2>2, <2>3, <2>4, <2>5 DEF Changes
<1>3. ASSUME Kind(i) = "open", down'[i] = "giveup"
      PROVE  Dead(i)' \/ tEnd'[i] # "no" \/ peerFin'[i] \/ tgt'[i] = "closed"
  <2>1. CASE down[i] = "giveup"
    BY <1>3, <2>1, Lasting DEF PumpInv, EndsForAReason
  <2>2. CASE DownWriteFails(i)
    <3>1. tgt[i] = "closed" \/ tEnd[i] # "no"
      BY <2>2 DEF DownWriteFails
    <3> QED BY <3>1, Lasting
  <2>3. CASE DownEof(i) \/ DownReadFails(i)
    BY <2>3, Lasting DEF DownEof, DownReadFails
  <2>4. CASE Attach(i) \/ DownData(i) \/ DownFlag(i) \/ DownClose(i) \/ TargetTakes(i)
    BY <1>3, <1>a, <2>1, <2>4 DEF Attach, DownData, DownFlag, DownClose, TargetTakes, TypeOK,
                                  PumpInv, PumpAfterHandler
  <2> QED BY <1>3, <1>a, <2>1, <2>2, <2>3, <2>4 DEF Changes, PumpDown
<1> QED BY <1>a, <1>1, <1>2, <1>3

LEMMA BlameStep == PumpInv /\ [Next]_vars => NoFalseBlame'
<1> SUFFICES ASSUME PumpInv, [Next]_vars, NEW i \in Handler, blamed'[i]
             PROVE  tEnd'[i] = "failed"
  BY DEF NoFalseBlame
<1>1. CASE blamed[i]
  BY <1>1, Lasting DEF PumpInv, NoFalseBlame
<1>2. CASE ~ blamed[i] /\ UpEnds(i)
  <2>1. /\ up[i] = "read" /\ (tgt[i] = "closed" \/ tEnd[i] # "no") /\ tEnd' = tEnd
        /\ Kind(i) # "packet" /\ ~ closedByUs[i] /\ ~ (tEnd[i] = "eof" /\ tgt[i] = "open")
    BY <1>2 DEF UpEnds, UpReadFails, tgtVars
  <2>2. Live(i)
    <3>1. blamed' = [blamed EXCEPT ![i] = blamed[i] \/ Live(i)]
      BY <1>2 DEF UpEnds
    <3>2. blamed \in [Handler -> BOOLEAN]
      BY DEF PumpInv, TypeOK
    <3>3. blamed'[i] = (blamed[i] \/ Live(i))
      BY <3>1, <3>2
    <3> QED BY <1>2, <3>3
  <2>3. tgt[i] # "closed"
    BY <2>1, <2>2 DEF PumpInv, ClosedIsExcused, Dead, Live
  <2>4. tgt[i] = "open"
    BY <2>1, <2>3 DEF PumpInv, EndsForAReason, TypeOK
  <2> QED BY <2>1, <2>3, <2>4 DEF PumpInv, TypeOK
<1> QED BY <1>1, <1>2, WhoChanges DEF Changes, PumpInv

----------------------------------------------------------------------------
(* The invariant and what follows from it.                                 *)

LEMMA InitPump == Init => PumpInv
<1> SUFFICES ASSUME Init PROVE PumpInv
  OBVIOUS
<1>1. TypeOK /\ PumpAfterHandler
  BY InitInv DEF TableInv
<1>2. \A i \in Handler : /\ tgt[i] = None /\ ses[i] = None /\ tEnd[i] = "no" /\ blamed[i] = FALSE
                         /\ up[i] = "off" /\ down[i] = "off"
  BY DEF Init
<1>3. Table = {} /\ doomed = {}
  BY DEF Init, Table
<1>4. UpAfterHandler /\ NotBeforeDial
  BY <1>2, <1>3 DEF UpAfterHandler, NotBeforeDial
<1>5. ClosedIsExcused /\ EndsForAReason /\ NoFalseBlame
  BY <1>2 DEF ClosedIsExcused, EndsForAReason, NoFalseBlame, None
<1> QED BY <1>1, <1>4, <1>5 DEF PumpInv

(* PumpInv holds in every state the exit can reach.                        *)
THEOREM PumpInvariant == Spec => []PumpInv
<1>1. PumpInv /\ [Next]_vars => PumpInv'
  <2>1. PumpInv => TypeOK /\ PumpAfterHandler /\ UpAfterHandler /\ NotBeforeDial
    BY DEF PumpInv
  <2>2. PumpInv /\ [Next]_vars => TypeOK' /\ PumpAfterHandler' /\ UpAfterHandler' /\ NotBeforeDial'
    BY <2>1, TypeStep, PumpStep, UpStep, NotBeforeDialStep
  <2> QED BY <2>2, ExcusedStep, ReasonStep, BlameStep DEF PumpInv
<1> QED BY InitPump, <1>1, PTL DEF Spec

(* closedByUs: a target socket that the pump itself closed, from whichever *)
(* of its goroutines, never makes the other direction reset the session as *)
(* if the target had failed.                                               *)
THEOREM BlameIsEarned == Spec => []NoFalseBlame
<1>1. PumpInv => NoFalseBlame
  BY DEF PumpInv
<1> QED BY <1>1, PumpInvariant, PTL

(* Half-close: once its handler is done, a stream session's open target is *)
(* closed only when the session is dead, the target itself has ended, or   *)
(* the client has finished and the target cannot be half-closed.           *)
THEOREM HalfCloseKeepsReply == Spec => ReplyNotCut
<1>1. PumpInv /\ [Next]_vars =>
        \A i \in Handler :
          tgt[i] = "open" /\ tgt'[i] = "closed" /\ Kind(i) = "open" /\ ph[i] = "done"
            => Dead(i)' \/ tEnd[i] # "no" \/ (peerFin[i] /\ down[i] = "giveup")
  <2> SUFFICES ASSUME PumpInv, [Next]_vars, NEW i \in Handler,
                      tgt[i] = "open", tgt'[i] = "closed", Kind(i) = "open", ph[i] = "done"
               PROVE  Dead(i)' \/ tEnd[i] # "no" \/ (peerFin[i] /\ down[i] = "giveup")
    OBVIOUS
  <2>1. CASE DialDone(i) \/ AckOpenFails(i)
    BY <2>1 DEF DialDone, AckOpenFails
  <2>2. CASE UpWrite(i)
    BY <2>2, Lasting DEF UpWrite
  <2>3. CASE DownClose(i)
    <3>1. Dead(i) \/ down[i] = "giveup"
      BY <2>3 DEF DownClose
    <3> QED BY <3>1, Lasting DEF PumpInv, EndsForAReason
  <2>4. CASE BothDone(i)
    BY <2>4 DEF BothDone, PumpInv, EndsForAReason
  <2> QED BY <2>1, <2>2, <2>3, <2>4, WhoChanges DEF Changes, PumpInv
<1> QED BY <1>1, PumpInvariant, PTL DEF Spec, ReplyNotCut

=============================================================================

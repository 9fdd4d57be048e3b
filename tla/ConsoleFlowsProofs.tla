-------------------------- MODULE ConsoleFlowsProofs --------------------------
(***************************************************************************)
(* What the pages and dialogs that are about what comes when may be relied *)
(* on for, however many requests, sign-ins, tokens, pointers, pages and    *)
(* lines there are. Each has an invariant of its own, from which the       *)
(* properties of the console follow.                                       *)
(***************************************************************************)
EXTENDS ConsoleFlows, FilterProofs, Integers, Sequences, SequencesExt, FiniteSets, FiniteSetTheorems, SequenceTheorems, TLAPS

\* A record with these fields and no other.
Rec(r, fields) == r = [f \in fields |-> r[f]]

---------------------------------------------------------------------------
\* Signing in and out (Session).

Fields ==
  {"proxy", "path", "stored", "store", "hash", "cookie", "cred", "saved", "forced", "sign", "outs", "calls", "valid",
   "handoff", "next", "elsewhere"}
SignFields == {"stage", "how", "remember", "token", "forced"}

\* The shape of a tab, as far as the argument needs it.
Shaped(t) ==
  /\ t = [f \in Fields |-> t[f]]
  /\ t.outs = [f \in {"asking", "leaving"} |-> t.outs[f]]
  /\ t.sign = [f \in SignFields |-> t.sign[f]]
  /\ t.next \in Nat \ {0}

\* A sign-in that has been accepted has a token to enter with; a tab that shows
\* the login page and is not about to enter has none in its storage; and where
\* the storage is empty, what is kept beside it went with it.
LeftClean(t) == (t.stored = 0 /\ ~t.proxy) => ~t.hash /\ t.cookie \in {0, Ss!Foreign}
Holds(t) ==
  /\ t.sign.stage = "entering" => t.sign.token # 0
  /\ (t.store = 0 /\ t.sign.stage # "entering") => t.stored = 0
  /\ LeftClean(t)
Good(t) == Shaped(t) /\ Holds(t)
SessionInv == Good(at)

---------------------------------------------------------------------------
\* Choosing the page changes the path, arriving on a screen what it shows.
LEMMA RoutedKeeps ==
  ASSUME NEW t, Good(t) PROVE Good(Ss!Routed(t)) /\ Ss!Routed(t).sign = t.sign /\ Ss!Routed(t).store = t.store
<1>1. CASE t.store = 0
  BY <1>1 DEF Ss!Routed, Good, Shaped, Holds, LeftClean, Fields
<1>2. CASE t.store # 0 /\ t.forced
  BY <1>2 DEF Ss!Routed, Good, Shaped, Holds, LeftClean, Fields
<1>3. CASE t.store # 0 /\ ~t.forced /\ t.path = "login"
  BY <1>3 DEF Ss!Routed, Good, Shaped, Holds, LeftClean, Fields
<1>4. CASE t.store # 0 /\ ~t.forced /\ t.path # "login"
  BY <1>4 DEF Ss!Routed
<1> QED BY <1>1, <1>2, <1>3, <1>4

LEMMA HandoffKeeps ==
  ASSUME NEW t, Good(t), NEW h, NEW b
  PROVE /\ Good([t EXCEPT !.handoff = h])
        /\ Good([[t EXCEPT !.handoff = h] EXCEPT !.saved = b])
BY DEF Good, Shaped, Holds, LeftClean, Fields

LEMMA ArrivedKeeps == ASSUME NEW t, Good(t) PROVE Good(Ss!Arrived(t))
<1> DEFINE h == IF t.handoff = (IF t.store = 0 THEN "app" ELSE "login") THEN "none" ELSE t.handoff
           s == [t EXCEPT !.handoff = h]
           b == t.cred # "none" /\ ~t.proxy
<1>1. s.cred = t.cred /\ s.proxy = t.proxy /\ s.store = t.store
  BY DEF Good, Shaped, Fields
<1>2. Ss!Arrived(t) = IF t.store = 0 THEN [s EXCEPT !.saved = b] ELSE s
  BY <1>1 DEF Ss!Arrived
<1> HIDE DEF h, b
<1>3. Good(s) /\ Good([s EXCEPT !.saved = b])
  BY HandoffKeeps
<1> QED BY <1>2, <1>3

LEMMA ScreenKeeps == ASSUME NEW t, NEW s, Good(s) PROVE Good(Ss!Show(t, s))
BY RoutedKeeps, ArrivedKeeps DEF Ss!Show

\* A page that starts shows what the storage holds.
LEMMA StartedKeeps == ASSUME NEW t, Shaped(t), LeftClean(t) PROVE Good(Ss!Started(t))
<1> DEFINE s == [t EXCEPT !.store = t.stored, !.forced = FALSE, !.sign = Ss!Idle, !.outs = [asking |-> 0, leaving |-> 0],
                          !.calls = [i \in Ss!Slots |-> -1], !.handoff = "none"]
<1>1. Good(s)
  <2>1. Shaped(s)
    BY DEF Good, Shaped, Fields, SignFields, Ss!Idle
  <2>2. s.store = t.stored /\ s.stored = t.stored /\ s.proxy = t.proxy /\ s.hash = t.hash /\ s.cookie = t.cookie /\ s.sign = Ss!Idle
    BY DEF Good, Shaped, Fields
  <2>3. Ss!Idle.stage # "entering"
    BY DEF Ss!Idle
  <2> QED BY <2>1, <2>2, <2>3 DEF Good, Holds, LeftClean
<1> HIDE DEF s
<1>2. Good(Ss!Arrived(Ss!Routed(s)))
  BY <1>1, RoutedKeeps, ArrivedKeeps
<1> QED BY <1>2 DEF Ss!Started, s

\* Signing out leaves nothing.
LEMMA EndKeeps == ASSUME NEW t, Good(t) PROVE Good(Ss!EndSession(t)) /\ Ss!EndSession(t).store = 0
BY DEF Ss!EndSession, Good, Shaped, Holds, LeftClean, Fields

LEMMA RestKeeps ==
  ASSUME NEW t, Good(t), NEW a
  PROVE /\ Good([t EXCEPT !.path = a]) /\ Good([t EXCEPT !.valid = a]) /\ Good([t EXCEPT !.calls = a])
        /\ Good([t EXCEPT !.cred = a]) /\ Good([t EXCEPT !.elsewhere = a])
BY DEF Good, Shaped, Holds, LeftClean, Fields

---------------------------------------------------------------------------
\* A token found by a page that starts changes nothing beside it: only a proxied
\* page is given one.
LEMMA FoundKeeps ==
  ASSUME NEW t, Shaped(t), LeftClean(t), NEW k \in Ss!TokensAt(t), NEW v
  PROVE Good(Ss!Started([t EXCEPT !.stored = k, !.valid = v]))
<1> DEFINE s == [t EXCEPT !.stored = k, !.valid = v]
<1>1. s.proxy = t.proxy /\ s.hash = t.hash /\ s.cookie = t.cookie /\ s.stored = k
  BY DEF Shaped, Fields
<1>2. Shaped(s)
  BY DEF Shaped, Fields
<1>3. k = t.stored \/ t.proxy
  BY DEF Ss!TokensAt
<1>4. LeftClean(s)
  BY <1>1, <1>3 DEF LeftClean
<1> HIDE DEF s
<1>5. Good(Ss!Started(s))
  BY <1>2, <1>4, StartedKeeps
<1> QED BY <1>5 DEF s

LEMMA SessionStarts == at \in Ss!SessionInits => SessionInv
<1> SUFFICES ASSUME at \in Ss!SessionInits PROVE Good(at)
  BY DEF SessionInv
<1>a. PICK p \in BOOLEAN, c \in {"none", "right", "stale"} : at \in Ss!Opened(Ss!Blank(p, c))
  BY DEF Ss!SessionInits
<1>d. PICK k \in Ss!TokensAt(Ss!Blank(p, c)) : at = Ss!Started([Ss!Blank(p, c) EXCEPT !.stored = k, !.valid = {k} \ {0}])
  BY <1>a DEF Ss!Opened
<1>1. Shaped(Ss!Blank(p, c))
  <2>1. Ss!Blank(p, c) = [f \in Fields |-> Ss!Blank(p, c)[f]]
    BY DEF Ss!Blank, Fields
  <2>2. Ss!Blank(p, c).outs = [asking |-> 0, leaving |-> 0] /\ Ss!Blank(p, c).sign = Ss!Idle /\ Ss!Blank(p, c).next = 1
    BY DEF Ss!Blank
  <2>3. Ss!Idle = [f \in SignFields |-> Ss!Idle[f]]
    BY DEF Ss!Idle, SignFields
  <2>4. [asking |-> 0, leaving |-> 0] = [f \in {"asking", "leaving"} |-> [asking |-> 0, leaving |-> 0][f]]
    OBVIOUS
  <2> QED BY <2>1, <2>2, <2>3, <2>4 DEF Shaped
<1>2. LeftClean(Ss!Blank(p, c))
  BY DEF Ss!Blank, LeftClean
<1> DEFINE b == Ss!Blank(p, c)
           v == {k} \ {0}
<1> HIDE DEF b, v
<1>3. Good(Ss!Started([b EXCEPT !.stored = k, !.valid = v]))
  BY <1>d, <1>1, <1>2, FoundKeeps DEF b
<1> QED BY <1>d, <1>3 DEF b, v

---------------------------------------------------------------------------
\* One case for each action.
LEMMA SessionStep == SessionInv /\ [Ss!SessionNext]_at => SessionInv'
<1> SUFFICES ASSUME Good(at), [Ss!SessionNext]_at PROVE Good(at')
  BY DEF SessionInv
<1>a. Shaped(at) /\ LeftClean(at)
  BY DEF Good, Holds
<1>1. CASE Ss!Reload
  <2>1. PICK k \in Ss!TokensAt(at) :
          at' = Ss!Started([at EXCEPT !.stored = k, !.valid = IF k = 0 THEN @ ELSE @ \cup {k}])
    BY <1>1 DEF Ss!Reload
  <2> DEFINE v == IF k = 0 THEN at.valid ELSE at.valid \cup {k}
  <2>2. at' = Ss!Started([at EXCEPT !.stored = k, !.valid = v])
    BY <1>a, <2>1 DEF Shaped, Fields
  <2> HIDE DEF v
  <2> QED BY <1>a, <2>2, FoundKeeps
<1>2. CASE Ss!Submit
  <2>1. PICK how, keep : at' = [at EXCEPT !.sign = [Ss!Idle EXCEPT !.stage = "asked", !.how = how, !.remember = keep],
                                            !.saved = @ /\ how = "saved"]
    BY <1>2 DEF Ss!Submit
  <2> DEFINE r == [Ss!Idle EXCEPT !.stage = "asked", !.how = how, !.remember = keep]
             b == at.saved /\ how = "saved"
  <2>2. r.stage = "asked" /\ r = [f \in SignFields |-> r[f]]
    BY DEF Ss!Idle, SignFields
  <2>3. at' = [at EXCEPT !.sign = r, !.saved = b]
    BY <2>1 DEF Good, Shaped, Fields
  <2>4. at.sign.stage = "none"
    BY <1>2 DEF Ss!Submit
  <2> HIDE DEF r, b
  <2> QED BY <2>2, <2>3, <2>4 DEF Good, Shaped, Holds, LeftClean, Fields
<1>3. CASE Ss!Accepted
  <2> DEFINE r(f) == [at.sign EXCEPT !.stage = "entering", !.token = at.next, !.forced = f]
  <2>1. PICK forced, fade \in BOOLEAN : at' = [Ss!Stored(at, forced) EXCEPT !.handoff = IF fade THEN "login" ELSE @]
    BY <1>3 DEF Ss!Accepted
  <2> DEFINE c == IF at.sign.remember THEN "right" ELSE IF at.sign.how = "typed" THEN "none" ELSE at.cred
  <2>s. /\ r(forced) = [f \in SignFields |-> r(forced)[f]]
        /\ r(forced).stage = "entering" /\ r(forced).token = at.next
    BY DEF Good, Shaped, SignFields
  <2>e. Ss!Stored(at, forced) =
          [at EXCEPT !.stored = at.next, !.valid = at.valid \cup {at.next}, !.hash = TRUE, !.cookie = at.next,
                      !.next = at.next + 1, !.cred = c, !.sign = r(forced)]
    BY DEF Ss!Stored, Good, Shaped, Fields
  <2> HIDE DEF r, c
  <2>2. Shaped(Ss!Stored(at, forced))
    <3>1. Ss!Stored(at, forced) = [f \in Fields |-> Ss!Stored(at, forced)[f]]
      BY <2>e DEF Good, Shaped, Fields
    <3>2. /\ Ss!Stored(at, forced).outs = at.outs /\ Ss!Stored(at, forced).sign = r(forced)
          /\ Ss!Stored(at, forced).next = at.next + 1
      BY <2>e DEF Good, Shaped, Fields
    <3>3. at.next + 1 \in Nat \ {0}
      BY DEF Good, Shaped
    <3> QED BY <3>1, <3>2, <3>3, <2>s DEF Good, Shaped
  <2>3. /\ Ss!Stored(at, forced).stored = at.next
        /\ Ss!Stored(at, forced).sign.stage = "entering"
        /\ Ss!Stored(at, forced).sign.token = at.next
    BY <2>e, <2>s DEF Good, Shaped, Fields
  <2>4. at.next # 0
    BY DEF Good, Shaped
  <2>5. Good(Ss!Stored(at, forced))
    BY <2>2, <2>3, <2>4 DEF Good, Holds, LeftClean
  <2> DEFINE t == Ss!Stored(at, forced)
             h == IF fade THEN "login" ELSE t.handoff
  <2>6. at' = [t EXCEPT !.handoff = h]
    BY <2>1, <2>2 DEF Shaped, Fields
  <2> HIDE DEF t, h
  <2>7. Good([t EXCEPT !.handoff = h])
    BY <2>5, HandoffKeeps DEF t
  <2> QED BY <2>6, <2>7
<1>4. CASE Ss!Refused
  BY <1>4 DEF Ss!Refused, Good, Shaped, Holds, LeftClean, Fields, SignFields, Ss!Idle
<1>5. CASE Ss!Enter
  <2> DEFINE s == [at EXCEPT !.store = at.sign.token, !.forced = at.sign.forced, !.sign = Ss!Idle, !.path = "overview"]
  <2>1. Shaped(s)
    BY DEF Good, Shaped, Fields, SignFields, Ss!Idle
  <2>2. /\ s.store # 0 /\ s.sign.stage # "entering"
        /\ s.stored = at.stored /\ s.proxy = at.proxy /\ s.hash = at.hash /\ s.cookie = at.cookie
    BY <1>5 DEF Ss!Enter, Good, Holds, Shaped, Fields, SignFields, Ss!Idle
  <2>3. Good(s)
    BY <1>a, <2>1, <2>2 DEF Good, Holds, LeftClean
  <2>4. at' = Ss!Show(at, s)
    BY <1>5 DEF Ss!Enter
  <2> HIDE DEF s
  <2> QED BY <2>3, <2>4, ScreenKeeps
<1>6. CASE Ss!Go
  <2>1. PICK p \in {"overview", "settings"} : at' = Ss!Routed([at EXCEPT !.path = p])
    BY <1>6 DEF Ss!Go
  <2> QED BY <2>1, RestKeeps, RoutedKeeps
<1>7. CASE Ss!Call
  <2>1. PICK i \in Ss!Slots : at' = [at EXCEPT !.calls = [at.calls EXCEPT ![i] = at.stored]]
    BY <1>7 DEF Ss!Call
  <2> QED BY <2>1, RestKeeps
<1>8. CASE Ss!Answer
  <2>1. PICK i \in Ss!Slots :
          LET done == [at EXCEPT !.calls[i] = -1]
          IN  at' = IF at.calls[i] \in at.valid \/ at.store = 0 THEN done ELSE [done EXCEPT !.outs.asking = @ + 1]
    BY <1>8 DEF Ss!Answer
  <2> DEFINE done == [at EXCEPT !.calls = [at.calls EXCEPT ![i] = -1]]
             n == done.outs.asking + 1
  <2>2. Good(done)
    BY RestKeeps
  <2>3. at' = done \/ at' = [done EXCEPT !.outs.asking = @ + 1]
    BY <2>1
  <2> HIDE DEF done
  <2>4. at' = done \/ at' = [done EXCEPT !.outs.asking = n]
    BY <2>2, <2>3 DEF Good, Shaped, Fields
  <2> HIDE DEF n
  <2>5. Good([done EXCEPT !.outs.asking = n])
    BY <2>2 DEF Good, Shaped, Holds, LeftClean, Fields
  <2> QED BY <2>2, <2>4, <2>5
<1>9. CASE Ss!SignOut
  <2>1. at' = [at EXCEPT !.outs.asking = @ + 1]
    BY <1>9 DEF Ss!SignOut
  <2> QED BY <2>1 DEF Good, Shaped, Holds, LeftClean, Fields
<1>10. CASE Ss!SameBuild
  <2> DEFINE t == [at EXCEPT !.outs.asking = @ - 1]
  <2>1. Good(t)
    BY DEF Good, Shaped, Holds, LeftClean, Fields
  <2>2. at' = [t EXCEPT !.outs.leaving = @ + 1] \/ at' = Ss!Show(at, Ss!EndSession(t))
    BY <1>10 DEF Ss!SameBuild
  <2> HIDE DEF t
  <2>3. Good([t EXCEPT !.outs.leaving = @ + 1])
    BY <2>1 DEF Good, Shaped, Holds, LeftClean, Fields
  <2>4. Good(Ss!Show(at, Ss!EndSession(t)))
    BY <2>1, EndKeeps, ScreenKeeps
  <2> QED BY <2>2, <2>3, <2>4
<1>11. CASE Ss!OtherBuild
  <2>1. Good(Ss!EndSession(at))
    BY EndKeeps
  <2>2. Good(Ss!Started(Ss!EndSession(at)))
    BY <2>1, StartedKeeps DEF Good, Holds
  <2> QED BY <1>11, <2>2 DEF Ss!OtherBuild
<1>12. CASE Ss!Leave
  <2> DEFINE t == [at EXCEPT !.outs.leaving = @ - 1]
  <2>1. Good(t)
    BY DEF Good, Shaped, Holds, LeftClean, Fields
  <2>2. at' = Ss!Show(at, [Ss!EndSession(t) EXCEPT !.handoff = "app"])
    BY <1>12 DEF Ss!Leave
  <2> HIDE DEF t
  <2>3. Good([Ss!EndSession(t) EXCEPT !.handoff = "app"])
    BY <2>1, EndKeeps, HandoffKeeps
  <2> QED BY <2>2, <2>3, ScreenKeeps
<1>13. CASE Ss!Expire
  <2>1. PICK k \in at.valid : at' = [at EXCEPT !.valid = at.valid \ {k}]
    BY <1>13 DEF Ss!Expire
  <2> QED BY <2>1, RestKeeps
<1>14. CASE Ss!OtherTab
  <2>1. CASE \E k \in {0, Ss!Foreign} : at' = [at EXCEPT !.cookie = k, !.elsewhere = @ - 1]
    BY <2>1 DEF Good, Shaped, Holds, LeftClean, Fields
  <2>2. CASE \E c \in {"none", "right", "stale"} : at' = [at EXCEPT !.cred = c, !.elsewhere = @ - 1]
    BY <2>2 DEF Good, Shaped, Holds, LeftClean, Fields
  <2> QED BY <1>14, <2>1, <2>2 DEF Ss!OtherTab
<1>15. CASE UNCHANGED at
  BY <1>15
<1> QED
  BY <1>1, <1>2, <1>3, <1>4, <1>5, <1>6, <1>7, <1>8, <1>9, <1>10, <1>11, <1>12, <1>13, <1>14, <1>15 DEF Ss!SessionNext

---------------------------------------------------------------------------
\* The confirmation, the long press, the upload, the log and the upgrade feed.

QuestionFields == {"shown", "open", "clear", "waiting", "asked"}
QuestionInv ==
  /\ Rec(at, QuestionFields)
  /\ at.asked \in Nat /\ at.waiting \subseteq 1 .. at.asked
  /\ at.clear => ~at.open
  /\ Dg!LastIsAsked

LEMMA QuestionStarts == at \in Dg!QuestionInits => QuestionInv
BY DEF Dg!QuestionInits, QuestionInv, Rec, QuestionFields, Dg!LastIsAsked

LEMMA QuestionStep == QuestionInv /\ [Dg!QuestionNext]_at => QuestionInv'
<1> SUFFICES ASSUME QuestionInv, [Dg!QuestionNext]_at PROVE QuestionInv'
  OBVIOUS
<1>1. CASE UNCHANGED at
  BY <1>1 DEF QuestionInv, Rec, Dg!LastIsAsked
<1>2. CASE Dg!AskQuestion
  <2>1. /\ Rec(at', QuestionFields)
        /\ at'.asked = at.asked + 1 /\ at'.waiting = at.waiting \cup {at.asked + 1}
        /\ at'.open /\ ~at'.clear /\ at'.shown = at'.asked
    BY <1>2 DEF Dg!AskQuestion, QuestionInv, Rec, QuestionFields
  <2>2. at'.asked \in Nat /\ at'.waiting \subseteq 1 .. at'.asked
    BY <2>1 DEF QuestionInv
  <2> QED BY <2>1, <2>2 DEF QuestionInv, Dg!LastIsAsked
<1>3. CASE Dg!AnswerQuestion
  BY <1>3 DEF Dg!AnswerQuestion, QuestionInv, Rec, QuestionFields, Dg!LastIsAsked
<1>4. CASE Dg!ClearQuestion
  BY <1>4 DEF Dg!ClearQuestion, QuestionInv, Rec, QuestionFields, Dg!LastIsAsked
<1> QED BY <1>1, <1>2, <1>3, <1>4 DEF Dg!QuestionNext

---------------------------------------------------------------------------
\* The dialogs and their stack.
DialogsFields == {"open", "present", "inter", "ends", "stack", "list"}
\* The stack holds the open dialogs, each once.
Stacked(open, stack) == stack \in Seq(Dg!Modals) /\ Once(stack) /\ Vals(stack) = {m \in Dg!Modals : open[m]}
\* A dialog that is open takes clicks or is on its way in, one that is shown but
\* closed is on its way out, and no other moves.
Alive(open, present, inter, ends) ==
  /\ open => present /\ ends \in {{}, {"entered"}} /\ (inter \/ ends = {"entered"})
  /\ ~open /\ present => ~inter /\ ends = {"exited"}
  /\ ~open /\ ~present => ~inter /\ ends = {}
AliveOk(d) ==
  /\ Rec(d, DialogsFields)
  /\ d.open \in [Dg!Modals -> BOOLEAN] /\ d.present \in [Dg!Modals -> BOOLEAN] /\ d.inter \in [Dg!Modals -> BOOLEAN]
  /\ d.ends \in [Dg!Modals -> {{}, {"entered"}, {"exited"}}]
  /\ Stacked(d.open, d.stack)
  /\ \A m \in Dg!Modals : Alive(d.open[m], d.present[m], d.inter[m], d.ends[m])
AliveInv == AliveOk(at)

LEMMA AliveStarts == at \in Dg!DialogsInits => AliveInv
<1> SUFFICES ASSUME at \in Dg!DialogsInits PROVE AliveInv
  OBVIOUS
<1>1. Rec(at, DialogsFields)
  BY DEF Dg!DialogsInits, Rec, DialogsFields
<1>2. /\ at.open = [m \in Dg!Modals |-> FALSE] /\ at.present = [m \in Dg!Modals |-> FALSE] /\ at.inter = [m \in Dg!Modals |-> FALSE]
      /\ at.ends = [m \in Dg!Modals |-> {}] /\ at.stack = <<>>
  BY DEF Dg!DialogsInits
<1>3. Stacked(at.open, at.stack)
  <2>1. <<>> \in Seq(Dg!Modals) /\ Vals(<<>>) = {} /\ Once(<<>>)
    BY EmptyVals
  <2> QED BY <1>2, <2>1 DEF Stacked
<1> QED BY <1>1, <1>2, <1>3 DEF AliveInv, AliveOk, Alive

\* The stack without the dialogs that close, and with those that open.
LEMMA Restacked ==
  ASSUME NEW open, NEW stack, Stacked(open, stack), NEW opens, NEW closes, opens \subseteq Dg!Modals, closes \subseteq Dg!Modals,
         \A m \in opens : ~open[m], NEW now, \A m \in Dg!Modals : now[m] = ((open[m] \/ m \in opens) /\ m \notin closes),
         \A m \in closes : m \notin opens
  PROVE  Stacked(now, Only(stack, Dg!Modals \ closes) \o Only([m \in Dg!Modals |-> m], opens))
<1> PICK s, t, all : s = Only(stack, Dg!Modals \ closes) /\ all = [m \in Dg!Modals |-> m] /\ t = Only(all, opens)
  OBVIOUS
<1>1. s \in Seq(Dg!Modals) /\ Vals(s) = {m \in Dg!Modals : open[m] /\ m \notin closes} /\ Once(s)
  <2>1. s \in Seq(Dg!Modals \cap (Dg!Modals \ closes)) /\ Vals(s) = Vals(stack) \cap (Dg!Modals \ closes) /\ Once(s)
    BY OnlyWhat DEF Stacked
  <2>2. s \in Seq(Dg!Modals)
    BY <2>1, SeqMonotonic
  <2> QED BY <2>1, <2>2 DEF Stacked
<1>2. t \in Seq(Dg!Modals) /\ Vals(t) = opens /\ Once(t)
  <2>1. all \in Seq(Dg!Modals) /\ Len(all) = Rendered /\ \A i \in 1 .. Rendered : all[i] = i
    <3>1. all \in [1 .. Rendered -> Dg!Modals]
      BY DEF Dg!Modals
    <3> QED BY <3>1, DialogsAssumption, SeqDef, LenProperties DEF Dg!Modals
  <2>2. Vals(all) = Dg!Modals /\ Once(all)
    BY <2>1 DEF Vals, Once, Dg!Modals
  <2>3. t \in Seq(Dg!Modals \cap opens) /\ Vals(t) = Vals(all) \cap opens /\ Once(t)
    BY <2>1, <2>2, OnlyWhat
  <2>4. t \in Seq(Dg!Modals)
    BY <2>3, SeqMonotonic
  <2> QED BY <2>2, <2>3, <2>4
<1>3. Vals(s) \cap Vals(t) = {}
  BY <1>1, <1>2
<1> PICK a : a = s \o t
  OBVIOUS
<1>4. a \in Seq(Dg!Modals) /\ Vals(a) = Vals(s) \cup Vals(t) /\ Once(a)
  <2> PICK M : M = Dg!Modals
    OBVIOUS
  <2>1. s \in Seq(M) /\ t \in Seq(M)
    BY <1>1, <1>2
  <2>2. a \in Seq(M) /\ Vals(a) = Vals(s) \cup Vals(t) /\ Once(a)
    <3>0. Joins(a, M, s, t)
      BY <2>1, BothVals
    <3>1. a \in Seq(M) /\ Vals(a) = Vals(s) \cup Vals(t) /\ (Once(s) /\ Once(t) /\ Vals(s) \cap Vals(t) = {} => Once(a))
      BY <3>0 DEF Joins
    <3> QED BY <1>1, <1>2, <1>3, <3>1
  <2> QED BY <2>2
<1>5. Vals(a) = {m \in Dg!Modals : now[m]}
  BY <1>1, <1>2, <1>4
<1> QED BY <1>4, <1>5 DEF Stacked

LEMMA FlushedAlive ==
  ASSUME NEW d, AliveOk(d), NEW opens, NEW closes, opens \subseteq Dg!Modals, closes \subseteq Dg!Modals,
         \A m \in opens : ~d.open[m], \A m \in closes : d.open[m]
  PROVE  AliveOk(Dg!Flushed(Dg!Turned(d, opens, closes), opens, closes))
<1>0. \A m \in closes : m \notin opens
  OBVIOUS
<1> PICK t : t = Dg!Turned(d, opens, closes)
  OBVIOUS
<1>1. /\ Rec(t, DialogsFields) /\ t.stack = d.stack /\ t.ends = d.ends
      /\ t.open = [m \in Dg!Modals |-> (d.open[m] \/ m \in opens) /\ m \notin closes]
      /\ t.present = [m \in Dg!Modals |-> d.present[m] \/ m \in opens]
      /\ t.inter = [m \in Dg!Modals |-> d.inter[m] /\ m \notin opens \cup closes]
  BY DEF AliveOk, Rec, DialogsFields, Dg!Turned
<1>2. /\ d.open \in [Dg!Modals -> BOOLEAN] /\ d.present \in [Dg!Modals -> BOOLEAN] /\ d.inter \in [Dg!Modals -> BOOLEAN]
      /\ d.ends \in [Dg!Modals -> {{}, {"entered"}, {"exited"}}] /\ Stacked(d.open, d.stack)
  BY DEF AliveOk
<1> PICK e : e = Dg!Flushed(t, opens, closes)
  OBVIOUS
<1> PICK rest, news, ends :
      /\ rest = Only(d.stack, Dg!Modals \ closes) /\ news = Only([m \in Dg!Modals |-> m], opens)
      /\ ends = [m \in Dg!Modals |-> IF m \in closes THEN {"exited"} ELSE IF m \in opens THEN {"entered"} ELSE d.ends[m]]
  OBVIOUS
<1>3. e = [t EXCEPT !.stack = rest \o news, !.ends = ends]
  <2>1. \A m \in Dg!Modals : \A how : Dg!Begin(t, m, how).ends[m] = {how}
    BY <1>1, <1>2 DEF Dg!Begin, Rec, DialogsFields
  <2>2. ends = [m \in Dg!Modals |-> CASE m \in {k \in Dg!Modals : k \in closes} -> Dg!Begin(t, m, "exited").ends[m]
                                      [] m \in opens -> Dg!Begin(t, m, "entered").ends[m]
                                      [] OTHER -> t.ends[m]]
    <3>1. ASSUME NEW m \in Dg!Modals
          PROVE ends[m] = CASE m \in {k \in Dg!Modals : k \in closes} -> Dg!Begin(t, m, "exited").ends[m]
                            [] m \in opens -> Dg!Begin(t, m, "entered").ends[m]
                            [] OTHER -> t.ends[m]
      <4>1. m \in {k \in Dg!Modals : k \in closes} <=> m \in closes
        OBVIOUS
      <4>2. CASE m \in closes
        BY <1>0, <2>1, <4>1, <4>2
      <4>3. CASE m \notin closes /\ m \in opens
        BY <2>1, <4>1, <4>3
      <4>4. CASE m \notin closes /\ m \notin opens
        BY <1>1, <4>1, <4>4
      <4> QED BY <4>2, <4>3, <4>4
    <3> QED BY <3>1
  <2>3. Dg!Only(t.stack, Dg!Modals \ closes) = rest /\ Dg!Only([m \in Dg!Modals |-> m], opens) = news
    BY <1>1 DEF Dg!Only, Only
  <2> QED BY <2>2, <2>3 DEF Dg!Flushed
<1>4. /\ Rec(e, DialogsFields) /\ e.stack = rest \o news /\ e.ends = ends
      /\ e.open = t.open /\ e.present = t.present /\ e.inter = t.inter
  BY <1>1, <1>3 DEF Rec, DialogsFields
<1>5. Stacked(e.open, e.stack)
  <2>1. \A m \in Dg!Modals : e.open[m] = ((d.open[m] \/ m \in opens) /\ m \notin closes)
    BY <1>1, <1>4
  <2> PICK now : now = e.open
    OBVIOUS
  <2>2. Stacked(now, rest \o news)
    BY <1>0, <1>2, <2>1, Restacked
  <2> QED BY <1>4, <2>2
<1>6. ASSUME NEW m \in Dg!Modals PROVE Alive(e.open[m], e.present[m], e.inter[m], e.ends[m])
  <2>0. Alive(d.open[m], d.present[m], d.inter[m], d.ends[m])
    BY DEF AliveOk
  <2>a. /\ d.open[m] \in BOOLEAN /\ d.present[m] \in BOOLEAN /\ d.inter[m] \in BOOLEAN
        /\ e.present[m] = (d.present[m] \/ m \in opens) /\ e.open[m] = ((d.open[m] \/ m \in opens) /\ m \notin closes)
        /\ e.inter[m] = (d.inter[m] /\ m \notin opens \cup closes)
    BY <1>1, <1>2, <1>4
  <2>1. CASE m \in closes
    <3>1. e.open[m] = FALSE /\ e.present[m] = TRUE /\ e.inter[m] = FALSE /\ e.ends[m] = {"exited"}
      BY <1>4, <2>0, <2>a, <2>1 DEF Alive
    <3> QED BY <3>1 DEF Alive
  <2>2. CASE m \in opens
    <3>1. e.open[m] = TRUE /\ e.present[m] = TRUE /\ e.ends[m] = {"entered"}
      BY <1>0, <1>4, <2>a, <2>2
    <3> QED BY <3>1 DEF Alive
  <2>3. CASE m \notin closes /\ m \notin opens
    <3>1. e.open[m] = d.open[m] /\ e.present[m] = d.present[m] /\ e.inter[m] = d.inter[m] /\ e.ends[m] = d.ends[m]
      BY <1>4, <2>a, <2>3
    <3> QED BY <2>0, <3>1
  <2> QED BY <2>1, <2>2, <2>3
<1>7. e.open \in [Dg!Modals -> BOOLEAN] /\ e.present \in [Dg!Modals -> BOOLEAN] /\ e.inter \in [Dg!Modals -> BOOLEAN]
  BY <1>1, <1>4
<1>8. e.ends \in [Dg!Modals -> {{}, {"entered"}, {"exited"}}]
  <2> PICK E : E = {{}, {"entered"}, {"exited"}}
    OBVIOUS
  <2>1. {"exited"} \in E /\ {"entered"} \in E /\ \A m \in Dg!Modals : d.ends[m] \in E
    BY <1>2
  <2>2. ends \in [Dg!Modals -> E]
    BY <2>1
  <2> QED BY <1>4, <2>2
<1> QED BY <1>4, <1>5, <1>6, <1>7, <1>8 DEF AliveOk

LEMMA TopIs == ASSUME NEW d, AliveOk(d), Dg!Top(d) # 0 PROVE Dg!Top(d) \in Dg!Modals /\ d.open[Dg!Top(d)]
<1> PICK n \in Nat : n = Len(d.stack)
  BY LenProperties DEF AliveOk, Stacked
<1>1. d.stack # <<>> /\ Dg!Top(d) = d.stack[n]
  BY DEF Dg!Top, Dg!Last
<1>2. n \in 1 .. n
  BY <1>1, EmptySeq DEF AliveOk, Stacked
<1>3. d.stack[n] \in Vals(d.stack)
  BY <1>2 DEF Vals
<1> QED BY <1>1, <1>3 DEF AliveOk, Stacked

LEMMA AliveStep == AliveInv /\ [Dg!DialogsNext]_at => AliveInv'
<1> SUFFICES ASSUME AliveInv, [Dg!DialogsNext]_at PROVE AliveInv'
  OBVIOUS
<1>0. AliveOk(at)
  BY DEF AliveInv
<1>a. /\ Rec(at, DialogsFields)
      /\ at.open \in [Dg!Modals -> BOOLEAN] /\ at.present \in [Dg!Modals -> BOOLEAN] /\ at.inter \in [Dg!Modals -> BOOLEAN]
      /\ at.ends \in [Dg!Modals -> {{}, {"entered"}, {"exited"}}] /\ Stacked(at.open, at.stack)
      /\ \A m \in Dg!Modals : Alive(at.open[m], at.present[m], at.inter[m], at.ends[m])
  BY <1>0 DEF AliveOk
<1>1. CASE UNCHANGED at
  BY <1>0, <1>1 DEF AliveInv
<1>f. ASSUME NEW opens, NEW closes, opens \subseteq Dg!Modals, closes \subseteq Dg!Modals, \A m \in opens : ~at.open[m],
             \A m \in closes : at.open[m], at' = Dg!Flushed(Dg!Turned(at, opens, closes), opens, closes)
      PROVE  AliveInv'
  <2>1. AliveOk(at')
    BY <1>0, <1>f, FlushedAlive
  <2> QED BY <2>1 DEF AliveInv
<1>2. CASE Dg!Commit
  <2>1. PICK opens, closes \in SUBSET Dg!Modals :
          /\ \A m \in opens : ~at.open[m]
          /\ \A m \in closes : at.open[m]
          /\ at' = Dg!Flushed(Dg!Turned(at, opens, closes), opens, closes)
    BY <1>2 DEF Dg!Commit
  <2>2. opens \subseteq Dg!Modals /\ closes \subseteq Dg!Modals
    BY <2>1
  <2> QED BY <1>f, <2>1, <2>2
<1>3. CASE Dg!MotionEnds
  <2>1. PICK m, x :
          /\ m \in Dg!Modals /\ x \in at.ends[m]
          /\ at' = IF x = "entered" THEN [[at EXCEPT !.ends[m] = @ \ {x}] EXCEPT !.inter[m] = TRUE]
                   ELSE [[at EXCEPT !.ends[m] = @ \ {x}] EXCEPT !.present[m] = FALSE, !.inter[m] = FALSE]
    BY <1>3 DEF Dg!MotionEnds
  <2>2. at.ends[m] = {x} /\ x \in {"entered", "exited"}
    BY <1>a, <2>1
  <2>a. PICK ends : ends = [at.ends EXCEPT ![m] = {}]
    OBVIOUS
  <2>b. PICK on, off, gone : /\ on = [at.inter EXCEPT ![m] = TRUE] /\ off = [at.inter EXCEPT ![m] = FALSE]
                             /\ gone = [at.present EXCEPT ![m] = FALSE]
    OBVIOUS
  <2>c. Alive(at.open[m], at.present[m], at.inter[m], at.ends[m]) /\ at.open[m] \in BOOLEAN /\ at.present[m] \in BOOLEAN
    BY <1>a, <2>1
  <2>d. /\ ends \in [Dg!Modals -> {{}, {"entered"}, {"exited"}}] /\ on \in [Dg!Modals -> BOOLEAN] /\ off \in [Dg!Modals -> BOOLEAN]
        /\ gone \in [Dg!Modals -> BOOLEAN]
        /\ \A k \in Dg!Modals \ {m} : ends[k] = at.ends[k] /\ on[k] = at.inter[k] /\ off[k] = at.inter[k] /\ gone[k] = at.present[k]
        /\ ends[m] = {} /\ on[m] = TRUE /\ off[m] = FALSE /\ gone[m] = FALSE
    BY <1>a, <2>1, <2>a, <2>b
  <2>3. CASE x = "entered"
    <3>1. at' = [at EXCEPT !.ends = ends, !.inter = on]
      BY <1>a, <2>1, <2>2, <2>3, <2>a, <2>b DEF Rec, DialogsFields
    <3>2. /\ Rec(at', DialogsFields) /\ at'.ends = ends /\ at'.inter = on /\ at'.open = at.open /\ at'.present = at.present
          /\ at'.stack = at.stack
      BY <1>a, <3>1 DEF Rec, DialogsFields
    <3>3. at.open[m] = TRUE /\ at.present[m] = TRUE
      <4>1. {"entered"} # {"exited"} /\ {"entered"} # {}
        OBVIOUS
      <4> QED BY <2>2, <2>3, <2>c, <4>1 DEF Alive
    <3>4. \A k \in Dg!Modals : Alive(at.open[k], at.present[k], on[k], ends[k])
      <4> TAKE k \in Dg!Modals
      <4>1. CASE k = m
        BY <2>d, <3>3, <4>1 DEF Alive
      <4>2. CASE k # m
        BY <1>a, <2>d, <4>2
      <4> QED BY <4>1, <4>2
    <3> QED BY <1>a, <2>d, <3>2, <3>4 DEF AliveInv, AliveOk
  <2>4. CASE x = "exited"
    <3>0. at' = [[at EXCEPT !.ends[m] = @ \ {x}] EXCEPT !.present[m] = FALSE, !.inter[m] = FALSE]
      <4>1. x # "entered"
        BY <2>4
      <4> QED BY <2>1, <4>1
    <3>1. at' = [at EXCEPT !.ends = ends, !.inter = off, !.present = gone]
      BY <1>a, <2>2, <3>0, <2>a, <2>b DEF Rec, DialogsFields
    <3>2. /\ Rec(at', DialogsFields) /\ at'.ends = ends /\ at'.inter = off /\ at'.open = at.open /\ at'.present = gone
          /\ at'.stack = at.stack
      BY <1>a, <3>1 DEF Rec, DialogsFields
    <3>3. at.open[m] = FALSE
      <4>1. {"exited"} # {"entered"} /\ {"exited"} # {}
        OBVIOUS
      <4> QED BY <2>2, <2>4, <2>c, <4>1 DEF Alive
    <3>4. \A k \in Dg!Modals : Alive(at.open[k], gone[k], off[k], ends[k])
      <4> TAKE k \in Dg!Modals
      <4>1. CASE k = m
        BY <2>d, <3>3, <4>1 DEF Alive
      <4>2. CASE k # m
        BY <1>a, <2>d, <4>2
      <4> QED BY <4>1, <4>2
    <3> QED BY <1>a, <2>d, <3>2, <3>4 DEF AliveInv, AliveOk
  <2> QED BY <2>2, <2>3, <2>4
<1>4. CASE Dg!Unmount
  <2>1. PICK m \in Dg!Modals :
          at' = [at EXCEPT !.open[m] = FALSE, !.present[m] = FALSE, !.inter[m] = FALSE, !.ends[m] = {},
                           !.stack = Dg!Only(@, Dg!Modals \ {m}), !.list = "none"]
    BY <1>4 DEF Dg!Unmount
  <2>a. PICK open, present, inter, ends, stack :
          /\ open = [at.open EXCEPT ![m] = FALSE] /\ present = [at.present EXCEPT ![m] = FALSE]
          /\ inter = [at.inter EXCEPT ![m] = FALSE] /\ ends = [at.ends EXCEPT ![m] = {}]
          /\ stack = Only(at.stack, Dg!Modals \ {m})
    OBVIOUS
  <2>2. at' = [at EXCEPT !.open = open, !.present = present, !.inter = inter, !.ends = ends, !.stack = stack, !.list = "none"]
    <3>1. Dg!Only(at.stack, Dg!Modals \ {m}) = stack
      BY <2>a DEF Dg!Only, Only
    <3> QED BY <1>a, <2>1, <2>a, <3>1 DEF Rec, DialogsFields
  <2>3. /\ Rec(at', DialogsFields) /\ at'.open = open /\ at'.present = present /\ at'.inter = inter /\ at'.ends = ends /\ at'.stack = stack
    BY <1>a, <2>2 DEF Rec, DialogsFields
  <2>4. /\ open \in [Dg!Modals -> BOOLEAN] /\ present \in [Dg!Modals -> BOOLEAN] /\ inter \in [Dg!Modals -> BOOLEAN]
        /\ ends \in [Dg!Modals -> {{}, {"entered"}, {"exited"}}]
        /\ \A k \in Dg!Modals \ {m} : /\ open[k] = at.open[k] /\ present[k] = at.present[k]
                                      /\ inter[k] = at.inter[k] /\ ends[k] = at.ends[k]
        /\ open[m] = FALSE /\ present[m] = FALSE /\ inter[m] = FALSE /\ ends[m] = {}
    BY <1>a, <2>1, <2>a
  <2>5. Stacked(open, stack)
    <3>1. /\ stack \in Seq(Dg!Modals \cap (Dg!Modals \ {m})) /\ Vals(stack) = Vals(at.stack) \cap (Dg!Modals \ {m}) /\ Once(stack)
      BY <1>a, <2>a, OnlyWhat DEF Stacked
    <3>2. stack \in Seq(Dg!Modals)
      BY <3>1, SeqMonotonic
    <3>3. Vals(stack) = {k \in Dg!Modals : open[k]}
      BY <1>a, <2>4, <3>1 DEF Stacked
    <3> QED BY <3>1, <3>2, <3>3 DEF Stacked
  <2>6. \A k \in Dg!Modals : Alive(open[k], present[k], inter[k], ends[k])
    <3> TAKE k \in Dg!Modals
    <3>1. CASE k = m
      BY <2>4, <3>1 DEF Alive
    <3>2. CASE k # m
      BY <1>a, <2>4, <3>2
    <3> QED BY <3>1, <3>2
  <2> QED BY <2>3, <2>4, <2>5, <2>6 DEF AliveInv, AliveOk
<1>l. ASSUME NEW l, at' = [at EXCEPT !.list = l] PROVE AliveInv'
  <2>1. /\ Rec(at', DialogsFields) /\ at'.ends = at.ends /\ at'.inter = at.inter /\ at'.open = at.open /\ at'.present = at.present
        /\ at'.stack = at.stack
    BY <1>a, <1>l DEF Rec, DialogsFields
  <2> QED BY <1>a, <2>1 DEF AliveInv, AliveOk
<1>5. CASE Dg!OpenList \/ Dg!PressOutside
  BY <1>5, <1>l DEF Dg!OpenList, Dg!PressOutside
<1>c. ASSUME NEW m \in Dg!Modals, at.open[m], at' = Dg!Flushed(Dg!Turned(at, {}, {m}), {}, {m}) PROVE AliveInv'
  <2> PICK opens, closes : opens = {} /\ closes = {m}
    OBVIOUS
  <2>1. /\ opens \subseteq Dg!Modals /\ closes \subseteq Dg!Modals /\ (\A k \in opens : ~at.open[k]) /\ (\A k \in closes : at.open[k])
        /\ at' = Dg!Flushed(Dg!Turned(at, opens, closes), opens, closes)
    BY <1>c
  <2> QED BY <1>f, <2>1
<1>6. CASE Dg!Escape
  <2>1. CASE at' = [at EXCEPT !.list = "none"]
    BY <1>l, <2>1
  <2>2. CASE at' = Dg!CloseTop(at)
    <3> PICK m : m = Dg!Top(at)
      OBVIOUS
    <3>1. m \in Dg!Modals /\ at.open[m]
      BY <1>0, <1>6, TopIs DEF Dg!Escape
    <3>2. at' = Dg!Flushed(Dg!Turned(at, {}, {m}), {}, {m})
      BY <2>2 DEF Dg!CloseTop
    <3> QED BY <1>c, <3>1, <3>2
  <2> QED BY <1>6, <2>1, <2>2 DEF Dg!Escape
<1>7. CASE Dg!Backdrop
  BY <1>7, <1>c DEF Dg!Backdrop
<1> QED BY <1>1, <1>2, <1>3, <1>4, <1>5, <1>6, <1>7 DEF Dg!DialogsNext

LEMMA AliveShown == AliveInv => Dg!NeverDead
<1> SUFFICES ASSUME AliveInv, NEW m \in Dg!Modals
             PROVE  /\ Dg!Cardinality({i \in DOMAIN at.stack : at.stack[i] = m}) = IF at.open[m] THEN 1 ELSE 0
                    /\ at.open[m] => at.present[m] /\ (at.inter[m] \/ at.ends[m] = {"entered"})
                    /\ ~at.open[m] /\ at.present[m] => ~at.inter[m] /\ at.ends[m] = {"exited"}
  BY DEF Dg!NeverDead
<1>1. /\ Stacked(at.open, at.stack) /\ at.open[m] \in BOOLEAN
      /\ Alive(at.open[m], at.present[m], at.inter[m], at.ends[m])
  BY DEF AliveInv, AliveOk
<1> PICK n \in Nat : n = Len(at.stack) /\ DOMAIN at.stack = 1 .. n
  BY <1>1, LenProperties DEF Stacked
<1> PICK S : S = {i \in DOMAIN at.stack : at.stack[i] = m}
  OBVIOUS
<1>2. CASE at.open[m]
  <2>1. PICK i \in 1 .. n : at.stack[i] = m
    BY <1>1, <1>2 DEF Stacked, Vals
  <2>2. S = {i}
    BY <1>1, <2>1 DEF Stacked, Once
  <2>3. Cardinality(S) = 1
    BY <2>2, FS_Singleton
  <2> QED BY <1>1, <1>2, <2>3 DEF Alive, Dg!Cardinality, Cardinality
<1>3. CASE ~at.open[m]
  <2>1. S = {}
    BY <1>1, <1>3 DEF Stacked, Vals
  <2>2. Cardinality(S) = 0
    BY <2>1, FS_EmptySet
  <2> QED BY <1>1, <1>3, <2>2 DEF Alive, Dg!Cardinality, Cardinality
<1> QED BY <1>2, <1>3

---------------------------------------------------------------------------
HoldFields == {"open", "hover", "press", "long", "down", "ran", "held"}
HoldInv ==
  /\ Rec(at, HoldFields)
  /\ at.held \in BOOLEAN /\ at.down \in BOOLEAN
  /\ at.held \/ at.down => at.ran = "none"
  /\ at.held /\ at.down => at.long

LEMMA HoldStarts == at \in Dg!HoldInits => HoldInv
<1> SUFFICES ASSUME at \in Dg!HoldInits PROVE HoldInv
  OBVIOUS
<1>1. Rec(at, HoldFields)
  BY DEF Dg!HoldInits, Rec, HoldFields
<1>2. at.held = FALSE /\ at.down = FALSE
  BY DEF Dg!HoldInits
<1> QED BY <1>1, <1>2 DEF HoldInv

LEMMA HoldStep == HoldInv /\ [Dg!HoldNext]_at => HoldInv'
<1> SUFFICES ASSUME HoldInv, [Dg!HoldNext]_at PROVE HoldInv'
  OBVIOUS
<1>1. CASE UNCHANGED at
  BY <1>1 DEF HoldInv, Rec
<1>2. CASE Dg!Over \/ Dg!HoverTimer \/ Dg!Caret \/ Dg!Dismiss
  BY <1>2 DEF Dg!Over, Dg!HoverTimer, Dg!Caret, Dg!Dismiss, HoldInv, Rec, HoldFields
<1>3. CASE Dg!PressDown
  BY <1>3 DEF Dg!PressDown, HoldInv, Rec, HoldFields
<1>4. CASE Dg!PressTimer
  BY <1>4 DEF Dg!PressTimer, HoldInv, Rec, HoldFields
<1>5. CASE Dg!Release
  BY <1>5 DEF Dg!Release, Dg!Click, HoldInv, Rec, HoldFields
<1> QED BY <1>1, <1>2, <1>3, <1>4, <1>5 DEF Dg!HoldNext

---------------------------------------------------------------------------
UploadFields == {"open", "file", "busy", "sending", "asking"}
UploadInv == Rec(at, UploadFields) /\ at.sending \in Nat /\ Up!UploadNotStuck

LEMMA UploadStarts == at \in Up!UploadInits => UploadInv
BY DEF Up!UploadInits, Up!NoUpload, UploadInv, Rec, UploadFields, Up!UploadNotStuck

LEMMA UploadStep == UploadInv /\ [Up!UploadNext]_at => UploadInv'
<1> SUFFICES ASSUME UploadInv, [Up!UploadNext]_at PROVE UploadInv'
  OBVIOUS
<1>1. CASE UNCHANGED at
  BY <1>1 DEF UploadInv, Rec, Up!UploadNotStuck
<1>2. CASE Up!OpenUpload \/ Up!CloseUpload \/ Up!PickFile \/ Up!UploadClick
  BY <1>2 DEF Up!OpenUpload, Up!CloseUpload, Up!ClosedUpload, Up!PickFile, Up!UploadClick, UploadInv, Rec, UploadFields, Up!UploadNotStuck
<1>3. CASE Up!UploadAnswer
  <2>1. /\ Rec(at', UploadFields)
        /\ \/ at'.busy = FALSE /\ at'.sending = at.sending
           \/ at'.busy = TRUE /\ at'.sending = at.sending + 1
    BY <1>3 DEF Up!UploadAnswer, UploadInv, Rec, UploadFields
  <2> QED BY <2>1 DEF UploadInv, Up!UploadNotStuck
<1>4. CASE Up!Uploaded
  <2>1. /\ Rec(at', UploadFields)
        /\ at.sending > 0 /\ at'.sending = at.sending - 1
        /\ at'.busy = FALSE \/ at'.asking = "unofficial"
    BY <1>4 DEF Up!Uploaded, Up!ClosedUpload, UploadInv, Rec, UploadFields
  <2> QED BY <2>1 DEF UploadInv, Up!UploadNotStuck
<1> QED BY <1>1, <1>2, <1>3, <1>4 DEF Up!UploadNext

---------------------------------------------------------------------------
LogFields ==
  {"proc", "on", "kept", "seq", "lines", "restarts", "entries", "last", "poll", "refresh", "only", "page", "bottom", "follow", "unseen"}
LogInv ==
  /\ Rec(at, LogFields)
  /\ at.bottom \in BOOLEAN /\ at.bottom = at.follow
  /\ at.unseen # 0 => ~at.bottom

LEMMA LogStarts == at \in Lg!LogInits => LogInv
<1> SUFFICES ASSUME at \in Lg!LogInits PROVE LogInv
  OBVIOUS
<1>1. Rec(at, LogFields)
  BY DEF Lg!LogInits, Rec, LogFields
<1>2. at.bottom = TRUE /\ at.follow = TRUE /\ at.unseen = 0
  BY DEF Lg!LogInits
<1> QED BY <1>1, <1>2 DEF LogInv

LEMMA LogStep == LogInv /\ [Lg!LogNext]_at => LogInv'
<1> SUFFICES ASSUME LogInv, [Lg!LogNext]_at PROVE LogInv'
  OBVIOUS
<1> USE DEF LogInv, Rec, LogFields
<1>1. CASE UNCHANGED at
  BY <1>1
<1>2. CASE Lg!LogLine
  BY <1>2 DEF Lg!LogLine
<1>3. CASE Lg!LogRestart \/ Lg!LogSwitch \/ Lg!LogWipe
  BY <1>3 DEF Lg!LogRestart, Lg!LogSwitch, Lg!LogWipe
<1>4. CASE Lg!ServePoll \/ Lg!ServeRefresh \/ Lg!LogCallFails \/ Lg!SendPoll \/ Lg!SendRefresh \/ Lg!TakeFailure
  BY <1>4 DEF Lg!ServePoll, Lg!ServeRefresh, Lg!LogCallFails, Lg!SendPoll, Lg!SendRefresh, Lg!TakeFailure
<1>5. CASE Lg!TakePoll
  BY <1>5 DEF Lg!TakePoll
<1>6. CASE Lg!TakeRefresh
  BY <1>6 DEF Lg!TakeRefresh
<1>7. CASE Lg!SetFilter \/ Lg!ToLatest
  BY <1>7 DEF Lg!SetFilter, Lg!ToLatest
<1>8. CASE Lg!TurnTo
  BY <1>8 DEF Lg!TurnTo
<1>9. CASE Lg!ScrollLog
  BY <1>9 DEF Lg!ScrollLog, Lg!OnLast
<1> QED BY <1>1, <1>2, <1>3, <1>4, <1>5, <1>6, <1>7, <1>8, <1>9 DEF Lg!LogNext

LEMMA LogTold == LogInv => Lg!UnseenIsTold
BY DEF LogInv, Lg!UnseenIsTold, Lg!LatestButton

\* The lines of the node, of its answers and of the page are sequences of lines.
Lines == [proc : Nat, seq : Nat, bad : BOOLEAN]
CallOk(c) == c.st = "back" => c.entries \in Seq(Lines)
PagedOk(l) ==
  /\ Rec(l, LogFields)
  /\ l.page \in Nat /\ l.proc \in Nat /\ l.seq \in Nat
  /\ l.kept \in Seq(Lines) /\ l.entries \in Seq(Lines) /\ CallOk(l.poll) /\ CallOk(l.refresh)
PagedInv == PagedOk(at)

LEMMA PagedStarts == at \in Lg!LogInits => PagedInv
<1> SUFFICES ASSUME at \in Lg!LogInits PROVE PagedInv
  OBVIOUS
<1>1. Rec(at, LogFields)
  BY DEF Lg!LogInits, Rec, LogFields
<1>2. at.page = 0 /\ at.proc = 1 /\ at.seq = 0 /\ at.kept = <<>> /\ at.entries = <<>> /\ at.poll = Lg!NoCall /\ at.refresh = Lg!NoCall
  BY DEF Lg!LogInits
<1>3. <<>> \in Seq(Lines)
  OBVIOUS
<1> QED BY <1>1, <1>2, <1>3 DEF PagedInv, PagedOk, CallOk, Lg!NoCall

LEMMA NewestIs == ASSUME NEW s \in Seq(Lines), NEW n \in Nat PROVE Lg!Newest(s, n) \in Seq(Lines)
<1> PICK k \in Nat : k = Len(s)
  BY LenProperties
<1>1. ASSUME k > n PROVE SubSeq(s, k - n + 1, k) \in Seq(Lines)
  <2> PICK a, b : a = k - n + 1 /\ b = k
    OBVIOUS
  <2>1. a >= 1 /\ b = k /\ a \in Int /\ b \in Int
    BY <1>1
  <2>2. \A i \in a .. b : s[i] \in Lines
    <3>1. \A i \in a .. b : i \in 1 .. k
      BY <2>1
    <3> QED BY <3>1, ElementOfSeq
  <2>3. SubSeq(s, a, b) \in Seq(Lines)
    BY <2>1, <2>2, SubSeqProperties
  <2> QED BY <2>3
<1> QED BY <1>1 DEF Lg!Newest

LEMMA SinceIs == ASSUME NEW l, l.kept \in Seq(Lines), NEW n PROVE Lg!Since(l, n) \in Seq(Lines)
<1> PICK S : S = {e \in Lg!LinesIn(l.kept) : e.seq > n}
  OBVIOUS
<1>1. Only(l.kept, S) \in Seq(Lines \cap S)
  BY OnlyWhat
<1>2. Only(l.kept, S) \in Seq(Lines)
  BY <1>1, SeqMonotonic
<1>3. Lg!Since(l, n) = Only(l.kept, S)
  BY DEF Lg!Since, Lg!Only, Only
<1> QED BY <1>2, <1>3

LEMMA PagedStep == PagedInv /\ [Lg!LogNext]_at => PagedInv'
<1> SUFFICES ASSUME PagedInv, [Lg!LogNext]_at PROVE PagedInv'
  OBVIOUS
<1>0. /\ Rec(at, LogFields) /\ at.page \in Nat /\ at.proc \in Nat /\ at.seq \in Nat
      /\ at.kept \in Seq(Lines) /\ at.entries \in Seq(Lines) /\ CallOk(at.poll) /\ CallOk(at.refresh)
  BY DEF PagedInv, PagedOk
<1>e. <<>> \in Seq(Lines)
  OBVIOUS
<1>c. \A c : CallOk(Lg!CutCall(c)) /\ (c.st # "back" => CallOk(c))
  <2> TAKE c
  <2>1. CASE c.st = "idle"
    BY <2>1 DEF CallOk, Lg!CutCall
  <2>2. CASE c.st # "idle"
    BY <2>2 DEF CallOk, Lg!CutCall
  <2> QED BY <2>1, <2>2
<1>1. CASE UNCHANGED at
  BY <1>0, <1>1 DEF PagedInv, PagedOk
<1>2. CASE Lg!LogLine
  <2> PICK bad \in BOOLEAN :
        at' = [at EXCEPT !.lines = @ - 1, !.seq = @ + 1,
                         !.kept = Lg!Newest(Append(@, [proc |-> at.proc, seq |-> at.seq + 1, bad |-> bad]), LogRing)]
    BY <1>2 DEF Lg!LogLine
  <2> PICK e : e = [proc |-> at.proc, seq |-> at.seq + 1, bad |-> bad]
    OBVIOUS
  <2>1. e \in Lines
    BY <1>0 DEF Lines
  <2> PICK more : more = Append(at.kept, e)
    OBVIOUS
  <2>2. more \in Seq(Lines)
    BY <1>0, <2>1, AppendProperties
  <2> PICK k : k = Lg!Newest(more, LogRing)
    OBVIOUS
  <2>3. k \in Seq(Lines)
    BY <2>2, LogAssumption, NewestIs
  <2>4. at' = [at EXCEPT !.lines = @ - 1, !.seq = @ + 1, !.kept = k]
    OBVIOUS
  <2>5. /\ Rec(at', LogFields) /\ at'.page = at.page /\ at'.proc = at.proc /\ at'.seq = at.seq + 1 /\ at'.kept = k
        /\ at'.entries = at.entries /\ at'.poll = at.poll /\ at'.refresh = at.refresh
    BY <1>0, <2>4 DEF Rec, LogFields
  <2> QED BY <1>0, <2>3, <2>5 DEF PagedInv, PagedOk
<1>3. CASE Lg!LogRestart
  <2> PICK n, c, d :
        /\ n \in {at.seq, 0} /\ c = Lg!CutCall(at.poll) /\ d = Lg!CutCall(at.refresh)
        /\ at' = [at EXCEPT !.restarts = @ - 1, !.proc = @ + 1, !.kept = <<>>, !.seq = n, !.poll = c, !.refresh = d]
    BY <1>3 DEF Lg!LogRestart
  <2>1. /\ Rec(at', LogFields) /\ at'.page = at.page /\ at'.proc = at.proc + 1 /\ at'.seq = n /\ at'.kept = <<>>
        /\ at'.entries = at.entries /\ at'.poll = c /\ at'.refresh = d
    BY <1>0 DEF Rec, LogFields
  <2>2. CallOk(c) /\ CallOk(d)
    BY <1>c
  <2> QED BY <1>0, <1>e, <2>1, <2>2 DEF PagedInv, PagedOk
<1>4. CASE Lg!LogSwitch
  <2> PICK k : k \in {<<>>, at.kept} /\ at' = [at EXCEPT !.restarts = @ - 1, !.on = ~@, !.kept = k]
    BY <1>4 DEF Lg!LogSwitch
  <2>1. /\ Rec(at', LogFields) /\ at'.page = at.page /\ at'.proc = at.proc /\ at'.seq = at.seq /\ at'.kept = k
        /\ at'.entries = at.entries /\ at'.poll = at.poll /\ at'.refresh = at.refresh
    BY <1>0 DEF Rec, LogFields
  <2> QED BY <1>0, <1>e, <2>1 DEF PagedInv, PagedOk
<1>5. CASE Lg!LogWipe
  <2>1. at' = [at EXCEPT !.kept = <<>>]
    BY <1>5 DEF Lg!LogWipe
  <2> QED BY <1>0, <1>e, <2>1 DEF PagedInv, PagedOk, Rec, LogFields
<1>s. ASSUME NEW n PROVE CallOk(Lg!Served(at, n))
  BY <1>0, SinceIs DEF CallOk, Lg!Served
\* A move that leaves the lines alone.
<1>k. ASSUME Rec(at', LogFields), at'.page \in Nat, at'.proc = at.proc, at'.seq = at.seq, at'.kept = at.kept,
             at'.entries = at.entries, at'.poll = at.poll, at'.refresh = at.refresh
      PROVE  PagedInv'
  BY <1>0, <1>k DEF PagedInv, PagedOk
<1>p. ASSUME NEW c, CallOk(c), at' = [at EXCEPT !.poll = c] \/ at' = [at EXCEPT !.refresh = c] PROVE PagedInv'
  BY <1>0, <1>p DEF PagedInv, PagedOk, Rec, LogFields
<1>6. CASE Lg!ServePoll \/ Lg!ServeRefresh
  <2>1. \E n, c : c = Lg!Served(at, n) /\ (at' = [at EXCEPT !.poll = c] \/ at' = [at EXCEPT !.refresh = c])
    BY <1>6 DEF Lg!ServePoll, Lg!ServeRefresh
  <2> QED BY <2>1, <1>s, <1>p
<1>7. CASE Lg!LogCallFails \/ Lg!SendPoll \/ Lg!SendRefresh \/ Lg!TakeFailure
  <2>1. \E c : c.st # "back" /\ (at' = [at EXCEPT !.poll = c] \/ at' = [at EXCEPT !.refresh = c])
    BY <1>7 DEF Lg!LogCallFails, Lg!SendPoll, Lg!SendRefresh, Lg!TakeFailure, Lg!NoCall
  <2> QED BY <2>1, <1>c, <1>p
<1>8. CASE Lg!TakePoll
  <2>0. at.poll.st = "back" /\ at.poll.entries \in Seq(Lines) /\ CallOk(Lg!NoCall)
    BY <1>0, <1>8 DEF Lg!TakePoll, CallOk, Lg!NoCall
  <2> PICK more : more = at.entries \o at.poll.entries
    OBVIOUS
  <2>1. more \in Seq(Lines)
    BY <1>0, <2>0, ConcatProperties
  <2> PICK k : k = Lg!Newest(more, LogMax)
    OBVIOUS
  <2>2. k \in Seq(Lines)
    BY <2>1, LogAssumption, NewestIs
  <2>3. CASE at' = [at EXCEPT !.last = 0, !.entries = <<>>, !.poll = Lg!NoCall]
    BY <1>0, <1>e, <2>0, <2>3 DEF PagedInv, PagedOk, Rec, LogFields
  <2>4. CASE at' = [at EXCEPT !.entries = k, !.last = IF @ = Lg!NaN THEN Lg!NaN ELSE at.poll.last,
                              !.unseen = IF at.bottom THEN @ ELSE @ + Len(at.poll.entries), !.poll = Lg!NoCall]
    BY <1>0, <2>0, <2>2, <2>4 DEF PagedInv, PagedOk, Rec, LogFields
  <2> QED BY <1>8, <2>3, <2>4 DEF Lg!TakePoll
<1>9. CASE Lg!TakeRefresh
  <2>0. at.refresh.st = "back" /\ at.refresh.entries \in Seq(Lines) /\ CallOk(Lg!NoCall)
    BY <1>0, <1>9 DEF Lg!TakeRefresh, CallOk, Lg!NoCall
  <2> PICK k : k = Lg!Newest(at.refresh.entries, LogMax)
    OBVIOUS
  <2>2. k \in Seq(Lines)
    BY <2>0, LogAssumption, NewestIs
  <2>3. at' = [at EXCEPT !.last = at.refresh.last, !.entries = k, !.unseen = 0, !.refresh = Lg!NoCall]
    BY <1>9 DEF Lg!TakeRefresh
  <2> QED BY <1>0, <2>0, <2>2, <2>3 DEF PagedInv, PagedOk, Rec, LogFields
<1>10. CASE Lg!SetFilter \/ Lg!ToLatest
  <2>1. CASE Lg!SetFilter
    <3> PICK f : at' = [at EXCEPT !.only = f, !.page = 0]
      BY <2>1 DEF Lg!SetFilter
    <3>1. Rec(at', LogFields) /\ at'.page = 0
      BY <1>0 DEF Rec, LogFields
    <3> QED BY <1>0, <1>k, <3>1 DEF Rec, LogFields
  <2>2. CASE Lg!ToLatest
    <3>0. at' = [at EXCEPT !.page = 0, !.bottom = TRUE, !.follow = TRUE, !.unseen = 0]
      BY <2>2 DEF Lg!ToLatest
    <3>1. Rec(at', LogFields) /\ at'.page = 0
      BY <1>0, <3>0 DEF Rec, LogFields
    <3> QED BY <1>0, <1>k, <3>0, <3>1 DEF Rec, LogFields
  <2> QED BY <1>10, <2>1, <2>2
<1>11. CASE Lg!TurnTo
  <2> PICK p \in 1 .. Lg!PageCount(at) :
        at' = [at EXCEPT !.page = IF p = Lg!PageCount(at) THEN 0 ELSE p, !.bottom = (p = Lg!PageCount(at)),
                         !.follow = (p = Lg!PageCount(at)), !.unseen = IF p = Lg!PageCount(at) THEN 0 ELSE @]
    BY <1>11 DEF Lg!TurnTo
  <2>1. p \in Nat
    OBVIOUS
  <2>2. Rec(at', LogFields) /\ at'.page \in {0, p}
    BY <1>0 DEF Rec, LogFields
  <2> QED BY <1>0, <1>k, <2>1, <2>2 DEF Rec, LogFields
<1>12. CASE Lg!ScrollLog
  <2> PICK end \in BOOLEAN :
        at' = [at EXCEPT !.bottom = end /\ Lg!OnLast(at), !.follow = end /\ Lg!OnLast(at),
                         !.unseen = IF end /\ Lg!OnLast(at) THEN 0 ELSE @]
    BY <1>12 DEF Lg!ScrollLog
  <2>2. Rec(at', LogFields) /\ at'.page = at.page
    BY <1>0 DEF Rec, LogFields
  <2> QED BY <1>0, <1>k, <2>2 DEF Rec, LogFields
<1> QED BY <1>1, <1>2, <1>3, <1>4, <1>5, <1>6, <1>7, <1>8, <1>9, <1>10, <1>11, <1>12 DEF Lg!LogNext

\* The page on view begins before the last line: with P lines on a page, page c
\* of the n lines begins at (c - 1) * P + 1.
LEMMA PagesFit ==
  ASSUME NEW n \in Nat \ {0}, NEW P \in Nat \ {0}, NEW count, count = (n + P - 1) \div P, NEW c \in 1 .. count
  PROVE  count \in Nat /\ (c - 1) * P \in Nat /\ (c - 1) * P + 1 <= n /\ c * P = (c - 1) * P + P
<1> PICK m : m = n + P - 1
  OBVIOUS
<1>1. m \in Nat /\ count \in Nat /\ count * P <= m
  OBVIOUS
<1>2. c \in Nat \ {0} /\ c <= count
  BY <1>1
<1>3. c * P <= count * P /\ c * P \in Nat
  BY <1>1, <1>2
<1>4. c * P = (c - 1) * P + P /\ (c - 1) * P \in Nat
  BY <1>2
<1> QED BY <1>1, <1>3, <1>4

LEMMA PageShown == PagedInv => Lg!PageOnView
<1> SUFFICES ASSUME PagedInv, Lg!ShownLines(at) # <<>> PROVE Lg!PageRows(at) # <<>>
  BY DEF Lg!PageOnView
<1>0. at.page \in Nat /\ at.entries \in Seq(Lines)
  BY DEF PagedInv, PagedOk
<1> PICK s : s = Lg!ShownLines(at)
  OBVIOUS
<1>1. s \in Seq(Lines)
  <2> PICK S : S = {e \in Lg!LinesIn(at.entries) : at.only = "all" \/ e.bad}
    OBVIOUS
  <2>1. Only(at.entries, S) \in Seq(Lines \cap S)
    BY <1>0, OnlyWhat
  <2>2. Only(at.entries, S) \in Seq(Lines)
    BY <2>1, SeqMonotonic
  <2>3. s = Only(at.entries, S)
    BY DEF Lg!ShownLines, Lg!Only, Only
  <2> QED BY <2>2, <2>3
<1> PICK n : n = Len(s)
  OBVIOUS
<1>2. n \in Nat \ {0}
  BY <1>1, LenProperties, EmptySeq
<1> PICK count, c : count = Lg!PageCount(at) /\ c = Lg!CurPage(at)
  OBVIOUS
<1>3. count = (n + LogPage - 1) \div LogPage
  BY <1>2 DEF Lg!PageCount
<1>4. c \in 1 .. count
  <2>1. count \in Nat \ {0}
    <3> PICK m : m = n + LogPage - 1
      OBVIOUS
    <3>1. m \in Nat /\ m >= LogPage /\ LogPage \in Nat \ {0}
      BY <1>2, LogAssumption
    <3>2. m \div LogPage >= 1 /\ m \div LogPage \in Nat
      BY <3>1
    <3> QED BY <1>3, <3>2
  <2>2. c = IF at.page = 0 \/ at.page > count THEN count ELSE at.page
    BY DEF Lg!CurPage
  <2> QED BY <1>0, <2>1, <2>2
<1> PICK first, last : first = (c - 1) * LogPage + 1 /\ last = c * LogPage
  OBVIOUS
<1>5. first \in 1 .. n /\ last \in Nat /\ first <= last
  <2>1. LogPage \in Nat \ {0}
    BY LogAssumption
  <2>2. (c - 1) * LogPage \in Nat /\ (c - 1) * LogPage + 1 <= n /\ c * LogPage = (c - 1) * LogPage + LogPage
    BY <1>2, <1>3, <1>4, <2>1, PagesFit
  <2> PICK a, b : a = (c - 1) * LogPage /\ b = c * LogPage
    OBVIOUS
  <2> QED BY <1>2, <2>1, <2>2
<1> PICK e : e = IF last < n THEN last ELSE n
  OBVIOUS
<1>6. e \in first .. n
  BY <1>2, <1>5
<1>7. Lg!PageRows(at) = SubSeq(s, first, e)
  BY DEF Lg!PageRows
<1>8. Len(SubSeq(s, first, e)) = e - first + 1
  <2>1. \A i \in first .. e : s[i] \in Lines
    <3>1. \A i \in first .. e : i \in 1 .. n
      BY <1>5, <1>6
    <3> QED BY <1>1, <3>1, ElementOfSeq
  <2> QED BY <1>5, <1>6, <2>1, SubSeqProperties
<1>9. Len(SubSeq(s, first, e)) # 0
  BY <1>2, <1>5, <1>6, <1>8
<1>10. SubSeq(s, first, e) # <<>>
  BY <1>9
<1> QED BY <1>7, <1>10

---------------------------------------------------------------------------
UpgradeFields ==
  {"stream", "hidden", "status", "job", "frames", "fetches", "checking", "applying", "asked", "reload"}
StreamFields == {"es", "timer", "idle", "gone"}
Lit(s, hidden) ==
  /\ Rec(s, StreamFields)
  /\ s.idle => hidden
  /\ IF s.gone THEN s.es = "none" /\ ~s.timer /\ ~s.idle ELSE ~hidden => s.es # "none" \/ s.timer
Upright(u) == Rec(u, UpgradeFields) /\ Lit(u.stream, u.hidden)
UpgradeInv == Upright(at)

LEMMA UpgradeStarts == at \in Up!UpgradeInits => UpgradeInv
BY DEF Up!UpgradeInits, UpgradeInv, Upright, Lit, Rec, UpgradeFields, StreamFields, Up!Closed1, Up!Job, Up!NoStatus

\* Opening and closing a stream.
LEMMA StreamFacts ==
  ASSUME NEW s, Rec(s, StreamFields)
  PROVE  /\ Rec(Up!OpenEs(s), StreamFields) /\ Up!OpenEs(s).es = "open" /\ Up!OpenEs(s).idle = s.idle /\ Up!OpenEs(s).gone = s.gone
         /\ Rec(Up!CloseEs(s), StreamFields) /\ Up!CloseEs(s).es = "none" /\ Up!CloseEs(s).timer = FALSE
         /\ Up!CloseEs(s).idle = s.idle /\ Up!CloseEs(s).gone = s.gone
BY DEF Up!OpenEs, Up!CloseEs, Rec, StreamFields

LEMMA WithStreamKeeps ==
  ASSUME NEW u, Rec(u, UpgradeFields), NEW s, Lit(s, u.hidden)
  PROVE  Upright(Up!WithStream(u, s))
<1> PICK frames : frames = IF s.es = "open" THEN <<u.job>> ELSE IF s.es = "none" THEN <<>> ELSE u.frames
  OBVIOUS
<1>1. Up!WithStream(u, s) = [u EXCEPT !.stream = s, !.frames = frames]
  BY DEF Up!WithStream, Rec, UpgradeFields
<1>2. /\ Rec([u EXCEPT !.stream = s, !.frames = frames], UpgradeFields)
      /\ [u EXCEPT !.stream = s, !.frames = frames].stream = s
      /\ [u EXCEPT !.stream = s, !.frames = frames].hidden = u.hidden
  BY DEF Rec, UpgradeFields
<1> QED BY <1>1, <1>2 DEF Upright

\* What else changes leaves the stream alone.
LEMMA RestKept ==
  ASSUME NEW u, Upright(u), NEW x, NEW y
  PROVE  /\ Upright([u EXCEPT !.fetches = x]) /\ Upright([u EXCEPT !.frames = x]) /\ Upright([u EXCEPT !.status = x])
         /\ Upright([u EXCEPT !.checking = x]) /\ Upright([u EXCEPT !.asked = x])
         /\ Upright([u EXCEPT !.applying = x, !.reload = y]) /\ Upright([u EXCEPT !.job = x, !.frames = y])
BY DEF Upright, Rec, UpgradeFields

LEMMA TakeKeeps == ASSUME NEW u, Upright(u), NEW st PROVE Upright(Up!Take(u, st))
<1>1. Upright([u EXCEPT !.status = st]) /\ Upright([[u EXCEPT !.status = st] EXCEPT !.checking = TRUE])
  BY RestKept
<1> QED BY <1>1 DEF Up!Take

LEMMA MovesKeeps == ASSUME NEW u, Upright(u), NEW st, NEW latest PROVE Upright(Up!JobMoves(u, st, latest))
<1> PICK j : j = Up!Job(st, latest, u.job.n + 1)
  OBVIOUS
<1> PICK frames : frames = IF u.stream.es = "open" THEN Append(u.frames, j) ELSE u.frames
  OBVIOUS
<1>1. Up!JobMoves(u, st, latest) = [u EXCEPT !.job = j, !.frames = frames]
  BY DEF Up!JobMoves, Upright, Rec, UpgradeFields
<1>2. Upright([u EXCEPT !.job = j, !.frames = frames])
  BY RestKept
<1> QED BY <1>1, <1>2

LEMMA UpgradeStep == UpgradeInv /\ [Up!UpgradeNext]_at => UpgradeInv'
<1> SUFFICES ASSUME Upright(at), [Up!UpgradeNext]_at PROVE Upright(at')
  BY DEF UpgradeInv
<1>0. Rec(at, UpgradeFields) /\ Lit(at.stream, at.hidden) /\ Rec(at.stream, StreamFields)
  BY DEF Upright, Lit
<1>1. CASE UNCHANGED at
  BY <1>1
<1>2. CASE Up!Subscribe
  <2> PICK s : s = Up!OpenEs([at.stream EXCEPT !.gone = FALSE])
    OBVIOUS
  <2>1. Rec([at.stream EXCEPT !.gone = FALSE], StreamFields) /\ [at.stream EXCEPT !.gone = FALSE].idle = at.stream.idle
        /\ [at.stream EXCEPT !.gone = FALSE].gone = FALSE
    BY <1>0 DEF Rec, StreamFields
  <2>2. Lit(s, at.hidden)
    BY <2>1, <1>0, StreamFacts DEF Lit
  <2>3. Upright(Up!WithStream(at, s))
    BY <2>2, <1>0, WithStreamKeeps
  <2>4. at' = [Up!WithStream(at, s) EXCEPT !.fetches = @ \cup {[at |-> at.job]}]
    BY <1>2 DEF Up!Subscribe
  <2> QED BY <2>3, <2>4, RestKept
<1>3. CASE Up!Unsubscribe
  <2> PICK c : c = Up!CloseEs(at.stream)
    OBVIOUS
  <2> PICK s : s = [c EXCEPT !.gone = TRUE, !.idle = FALSE]
    OBVIOUS
  <2>1. Rec(c, StreamFields) /\ c.es = "none" /\ c.timer = FALSE
    BY <1>0, StreamFacts
  <2>2. Rec(s, StreamFields) /\ s.es = "none" /\ s.timer = FALSE /\ s.idle = FALSE /\ s.gone = TRUE
    BY <2>1 DEF Rec, StreamFields
  <2>3. Lit(s, at.hidden)
    BY <2>2 DEF Lit
  <2> QED BY <2>3, <1>0, <1>3, WithStreamKeeps DEF Up!Unsubscribe
<1>4. CASE Up!Retrying
  <2> PICK s : s = [at.stream EXCEPT !.es = "retry"]
    OBVIOUS
  <2>1. Rec(s, StreamFields) /\ s.es = "retry" /\ s.idle = at.stream.idle /\ s.gone = at.stream.gone
    BY <1>0 DEF Rec, StreamFields
  <2>2. Lit(s, at.hidden)
    BY <2>1, <1>0, <1>4 DEF Lit, Up!Retrying
  <2> QED BY <2>2, <1>0, <1>4, WithStreamKeeps DEF Up!Retrying
<1>5. CASE Up!Resumed
  <2> PICK s : s = [at.stream EXCEPT !.es = "open"]
    OBVIOUS
  <2>1. Rec(s, StreamFields) /\ s.es = "open" /\ s.idle = at.stream.idle /\ s.gone = at.stream.gone
    BY <1>0 DEF Rec, StreamFields
  <2>2. Lit(s, at.hidden)
    BY <2>1, <1>0, <1>5 DEF Lit, Up!Resumed
  <2> QED BY <2>2, <1>0, <1>5, WithStreamKeeps DEF Up!Resumed
<1>6. CASE Up!GaveUp
  <2> PICK c : c = Up!CloseEs(at.stream)
    OBVIOUS
  <2> PICK s : s = [c EXCEPT !.timer = TRUE]
    OBVIOUS
  <2>1. Rec(c, StreamFields) /\ c.idle = at.stream.idle /\ c.gone = at.stream.gone
    BY <1>0, StreamFacts
  <2>2. Rec(s, StreamFields) /\ s.timer = TRUE /\ s.idle = at.stream.idle /\ s.gone = at.stream.gone
    BY <2>1 DEF Rec, StreamFields
  <2>3. Lit(s, at.hidden)
    BY <2>2, <1>0, <1>6 DEF Lit, Up!GaveUp
  <2>4. Upright(Up!WithStream(at, s))
    BY <2>3, <1>0, WithStreamKeeps
  <2>5. at' = [Up!WithStream(at, s) EXCEPT !.fetches = @ \cup {[at |-> at.job]}]
    BY <1>6 DEF Up!GaveUp
  <2> QED BY <2>4, <2>5, RestKept
<1>7. CASE Up!Reopen
  <2>1. Lit(Up!OpenEs(at.stream), at.hidden)
    BY <1>0, <1>7, StreamFacts DEF Lit, Up!Reopen
  <2> QED BY <2>1, <1>0, <1>7, WithStreamKeeps DEF Up!Reopen
<1>8. CASE Up!Hide
  <2> PICK s : s = [at.stream EXCEPT !.idle = ~at.stream.gone]
    OBVIOUS
  <2>1. Rec(at', UpgradeFields) /\ at'.stream = s /\ at'.hidden = TRUE
    BY <1>0, <1>8 DEF Up!Hide, Rec, UpgradeFields
  <2>2. Rec(s, StreamFields) /\ s.es = at.stream.es /\ s.timer = at.stream.timer /\ s.gone = at.stream.gone
        /\ s.idle = ~at.stream.gone
    BY <1>0 DEF Rec, StreamFields
  <2>3. Lit(s, TRUE)
    BY <2>2, <1>0 DEF Lit
  <2> QED BY <2>1, <2>3 DEF Upright
<1>9. CASE Up!IdleClose
  <2> PICK c : c = Up!CloseEs(at.stream)
    OBVIOUS
  <2> PICK s : s = [c EXCEPT !.idle = FALSE]
    OBVIOUS
  <2>1. Rec(c, StreamFields) /\ c.es = "none" /\ c.timer = FALSE /\ c.gone = at.stream.gone
    BY <1>0, StreamFacts
  <2>2. Rec(s, StreamFields) /\ s.es = "none" /\ s.timer = FALSE /\ s.idle = FALSE /\ s.gone = at.stream.gone
    BY <2>1 DEF Rec, StreamFields
  <2>3. Lit(s, at.hidden)
    BY <2>2, <1>0, <1>9 DEF Lit, Up!IdleClose
  <2> QED BY <2>3, <1>0, <1>9, WithStreamKeeps DEF Up!IdleClose
<1>10. CASE Up!Show2
  <2> PICK s : s = [at.stream EXCEPT !.idle = FALSE]
    OBVIOUS
  <2> PICK u : u = [at EXCEPT !.hidden = FALSE]
    OBVIOUS
  <2>1. at' = IF s.gone \/ s.es # "none" THEN [u EXCEPT !.stream = s] ELSE Up!WithStream(u, Up!OpenEs(s))
    BY <1>10 DEF Up!Show2
  <2>2. Rec(s, StreamFields) /\ s.es = at.stream.es /\ s.timer = at.stream.timer /\ s.gone = at.stream.gone /\ s.idle = FALSE
    BY <1>0 DEF Rec, StreamFields
  <2>3. Rec(u, UpgradeFields) /\ u.hidden = FALSE
    BY <1>0 DEF Rec, UpgradeFields
  <2>4. CASE s.gone \/ s.es # "none"
    <3>1. Lit(s, FALSE)
      BY <2>2, <2>4, <1>0 DEF Lit
    <3>2. Rec(at', UpgradeFields) /\ at'.stream = s /\ at'.hidden = FALSE
      BY <2>1, <2>3, <2>4 DEF Rec, UpgradeFields
    <3> QED BY <3>1, <3>2 DEF Upright
  <2>5. CASE ~(s.gone \/ s.es # "none")
    <3>1. Lit(Up!OpenEs(s), FALSE)
      BY <2>2, <2>5, StreamFacts DEF Lit
    <3> QED BY <3>1, <2>1, <2>3, <2>5, WithStreamKeeps
  <2> QED BY <2>4, <2>5
<1>11. CASE Up!Frame
  <2>1. Upright([at EXCEPT !.frames = Tail(at.frames)])
    BY RestKept
  <2>2. [at EXCEPT !.frames = Tail(@)] = [at EXCEPT !.frames = Tail(at.frames)]
    OBVIOUS
  <2> QED BY <2>1, <2>2, <1>11, TakeKeeps DEF Up!Frame
<1>12. CASE Up!Fetched
  <2> PICK f \in at.fetches : \/ at' = Up!Take([at EXCEPT !.fetches = @ \ {f}], f.at)
                             \/ at' = [at EXCEPT !.fetches = @ \ {f}]
    BY <1>12 DEF Up!Fetched
  <2>1. Upright([at EXCEPT !.fetches = at.fetches \ {f}])
    BY RestKept
  <2> QED BY <2>1, TakeKeeps
<1>13. CASE Up!NodeMoves
  BY <1>13, MovesKeeps DEF Up!NodeMoves
<1>14. CASE Up!CheckClick \/ Up!CheckDone
  <2>1. at' = [at EXCEPT !.checking = TRUE] \/ at' = [at EXCEPT !.checking = FALSE]
    BY <1>14 DEF Up!CheckClick, Up!CheckDone
  <2>2. Upright([at EXCEPT !.checking = TRUE]) /\ Upright([at EXCEPT !.checking = FALSE])
    BY RestKept
  <2> QED BY <2>1, <2>2
<1>15. CASE Up!DownloadClick \/ Up!ApplyClick
  <2>1. at' = Up!JobMoves(at, "downloading", at.job.latest) \/ at' = at \/ at' = [at EXCEPT !.asked = TRUE]
    BY <1>15 DEF Up!DownloadClick, Up!ApplyClick
  <2>2. Upright(Up!JobMoves(at, "downloading", at.job.latest))
    BY MovesKeeps
  <2>3. Upright([at EXCEPT !.asked = TRUE])
    BY RestKept
  <2> QED BY <2>1, <2>2, <2>3
<1>16. CASE Up!ApplyAnswer
  <2> PICK u : u = [at EXCEPT !.asked = FALSE]
    OBVIOUS
  <2> PICK j : j = Up!JobMoves(u, "applying", u.job.latest)
    OBVIOUS
  <2>1. Upright(u) /\ Upright(j) /\ Upright([j EXCEPT !.applying = TRUE, !.reload = TRUE])
    BY RestKept, MovesKeeps
  <2>2. at' = u \/ at' = [j EXCEPT !.applying = TRUE, !.reload = TRUE]
    BY <1>16 DEF Up!ApplyAnswer
  <2> QED BY <2>1, <2>2
<1>17. CASE Up!PageReload
  <2> PICK c : c = Up!Closed1
    OBVIOUS
  <2>1. Rec(at', UpgradeFields) /\ at'.stream = c
    BY <1>0, <1>17 DEF Up!PageReload, Rec, UpgradeFields
  <2>2. Lit(c, at'.hidden)
    BY DEF Lit, Rec, StreamFields, Up!Closed1
  <2> QED BY <2>1, <2>2 DEF Upright
<1> QED BY <1>1, <1>2, <1>3, <1>4, <1>5, <1>6, <1>7, <1>8, <1>9, <1>10, <1>11, <1>12, <1>13, <1>14, <1>15, <1>16, <1>17
        DEF Up!UpgradeNext

LEMMA UpgradeLive == UpgradeInv => Up!LiveWhileShown
BY DEF UpgradeInv, Upright, Lit, Up!LiveWhileShown

---------------------------------------------------------------------------
\* The audit pages (AuditView).

AuditFields == {"typed", "filter", "auto", "records", "cursor", "loading", "error", "ok", "gen", "loads", "left"}
Pages == [filter : Nat, page : Nat]
Loads == [g : Nat, more : BOOLEAN, filter : Nat, page : Nat]

\* Of the loads under way one at most is current; it is of the filter, and asks
\* for the first page or for the one at the cursor.
CurrentIsNext(a) ==
  /\ \A l \in a.loads : l.g <= a.gen
  /\ \A l, m \in a.loads : l.g = a.gen /\ m.g = a.gen => l = m
  /\ \A l \in a.loads : l.g = a.gen => /\ l.filter = a.filter
                                       /\ l.more = FALSE => l.page = 1
                                       /\ l.more = TRUE /\ a.ok = TRUE => l.page = a.cursor /\ a.cursor # 0
InPages(a) ==
  /\ a.ok => /\ \A i \in 1 .. Len(a.records) : a.records[i] = [filter |-> a.filter, page |-> i]
             /\ a.cursor = IF Len(a.records) < AuditPages THEN Len(a.records) + 1 ELSE 0
  /\ a.loading <=> \E l \in a.loads : l.g = a.gen
AuditTypes(a) ==
  /\ Rec(a, AuditFields)
  /\ a.typed \in Nat /\ a.filter \in Nat /\ a.cursor \in Nat /\ a.gen \in Nat
  /\ a.loading \in BOOLEAN /\ a.ok \in BOOLEAN
  /\ a.records \in Seq(Pages) /\ a.loads \subseteq Loads
InOrder(a) == AuditTypes(a) /\ CurrentIsNext(a) /\ InPages(a)
AuditInv == InOrder(at)

LEMMA AuditStarts == at \in Au!AuditInits => AuditInv
<1> SUFFICES ASSUME at \in Au!AuditInits PROVE InOrder(at)
  BY DEF AuditInv
<1>1. Rec(at, AuditFields)
  BY DEF Au!AuditInits, Rec, AuditFields
<1>2. /\ at.typed = 0 /\ at.filter = 0 /\ at.cursor = 0 /\ at.gen = 1 /\ at.loading = TRUE /\ at.ok = FALSE
      /\ at.records = <<>> /\ at.loads = {[g |-> 1, more |-> FALSE, filter |-> 0, page |-> 1]}
  BY DEF Au!AuditInits
<1>3. at.loads \subseteq Loads
  BY <1>2 DEF Loads
<1>4. AuditTypes(at)
  <2>1. at.cursor \in Nat /\ at.gen \in Nat /\ at.typed \in Nat /\ at.filter \in Nat
    BY <1>2
  <2>2. at.loading \in BOOLEAN /\ at.ok \in BOOLEAN
    BY <1>2
  <2>3. at.records \in Seq(Pages)
    BY <1>2
  <2> QED BY <1>1, <1>3, <2>1, <2>2, <2>3 DEF AuditTypes
<1>5. \A l \in at.loads : l.g = at.gen /\ l.filter = at.filter /\ l.more = FALSE /\ l.page = 1
  BY <1>2
<1>6. CurrentIsNext(at)
  <2>1. \A l \in at.loads : l.g <= at.gen
    BY <1>2
  <2>2. \A l, m \in at.loads : l = m
    BY <1>2
  <2> QED BY <2>1, <2>2, <1>5 DEF CurrentIsNext
<1>7. InPages(at)
  <2>1. at.loads # {}
    BY <1>2
  <2> QED BY <2>1, <1>2, <1>5 DEF InPages
<1> QED BY <1>4, <1>6, <1>7 DEF InOrder

\* What asks for a first page makes the loads before it void.
LEMMA NewFirst ==
  ASSUME NEW a, InOrder(a), NEW t \in Nat, NEW f \in Nat, NEW l, NEW c,
         l.g = a.gen + 1, l.filter = f, l.more = FALSE, l.page = 1, l \in Loads,
         Rec(c, AuditFields), c.typed = t, c.filter = f, c.cursor = a.cursor, c.gen = a.gen + 1,
         c.loading = TRUE, c.ok = FALSE, c.records = a.records, c.loads = a.loads \cup {l}
  PROVE  InOrder(c)
<1>3. /\ a.gen \in Nat /\ a.loads \subseteq Loads /\ \A m \in a.loads : m.g \in Nat /\ m.g <= a.gen
  BY DEF InOrder, AuditTypes, CurrentIsNext, Loads
<1>5. AuditTypes(c)
  <2>1. c.gen \in Nat
    BY <1>3
  <2>2. c.loads \subseteq Loads
    BY <1>3
  <2>3. a.cursor \in Nat /\ a.records \in Seq(Pages)
    BY DEF InOrder, AuditTypes
  <2> QED BY <2>1, <2>2, <2>3 DEF AuditTypes
<1>6. \A m \in c.loads : m.g <= c.gen /\ (m.g = c.gen => m = l)
  <2>1. \A m \in a.loads : m.g <= a.gen + 1 /\ m.g # a.gen + 1
    BY <1>3
  <2> QED BY <1>3, <2>1
<1>7. CurrentIsNext(c)
  BY <1>6 DEF CurrentIsNext
<1>8. InPages(c)
  BY <1>6 DEF InPages
<1> QED BY <1>5, <1>7, <1>8 DEF InOrder

LEMMA AskedFirst ==
  ASSUME NEW a, InOrder(a), NEW t \in Nat, NEW f \in Nat
  PROVE  InOrder(Au!Ask2([a EXCEPT !.typed = t, !.filter = f], FALSE))
<1> PICK l : l = [g |-> a.gen + 1, more |-> FALSE, filter |-> f, page |-> 1]
  OBVIOUS
<1> PICK b : b = [a EXCEPT !.typed = t, !.filter = f]
  OBVIOUS
<1> PICK c : c = Au!Ask2(b, FALSE)
  OBVIOUS
<1> PICK gen, left, loads : gen = a.gen + 1 /\ left = b.left - 1 /\ loads = a.loads \cup {l}
  OBVIOUS
<1>1. /\ Rec(b, AuditFields) /\ b.gen = a.gen /\ b.loads = a.loads /\ b.cursor = a.cursor /\ b.records = a.records
      /\ b.typed = t /\ b.filter = f
  BY DEF InOrder, AuditTypes, Rec, AuditFields
<1>2. c = [b EXCEPT !.gen = gen, !.loading = TRUE, !.error = FALSE, !.left = left, !.ok = FALSE, !.loads = loads]
  <2>1. (FALSE /\ b.ok) = FALSE
    OBVIOUS
  <2> QED BY <2>1, <1>1 DEF Au!Ask2
<1>3. /\ Rec(c, AuditFields) /\ c.typed = b.typed /\ c.filter = b.filter /\ c.cursor = b.cursor /\ c.gen = gen
      /\ c.loading = TRUE /\ c.ok = FALSE /\ c.records = b.records /\ c.loads = loads
  BY <1>1, <1>2 DEF Rec, AuditFields
<1>4. a.gen \in Nat
  BY DEF InOrder, AuditTypes
<1>5. l \in Loads /\ l.g = a.gen + 1 /\ l.filter = f /\ l.more = FALSE /\ l.page = 1
  BY <1>4 DEF Loads
<1>6. /\ Rec(c, AuditFields) /\ c.typed = t /\ c.filter = f /\ c.cursor = a.cursor /\ c.gen = a.gen + 1
      /\ c.loading = TRUE /\ c.ok = FALSE /\ c.records = a.records /\ c.loads = a.loads \cup {l}
  BY <1>1, <1>3
<1>7. InOrder(c)
  BY <1>5, <1>6, NewFirst
<1> QED BY <1>7

\* A further page is asked for when nothing else is under way.
LEMMA NewMore ==
  ASSUME NEW a, InOrder(a), NEW l, NEW c, a.cursor # 0, a.loading = FALSE,
         l \in Loads, l.g = a.gen, l.more = TRUE, l.filter = a.filter, l.page = a.cursor,
         Rec(c, AuditFields), c.typed = a.typed, c.filter = a.filter, c.cursor = a.cursor, c.gen = a.gen,
         c.loading = TRUE, c.ok = a.ok, c.records = a.records, c.loads = a.loads \cup {l}
  PROVE  InOrder(c)
<1>1. /\ a.gen \in Nat /\ a.loads \subseteq Loads /\ \A m \in a.loads : m.g \in Nat /\ m.g <= a.gen /\ m.g # a.gen
  BY DEF InOrder, AuditTypes, CurrentIsNext, InPages, Loads
<1>2. AuditTypes(c)
  BY <1>1 DEF InOrder, AuditTypes
<1>3. \A m \in c.loads : m.g <= c.gen /\ (m.g = c.gen => m = l)
  BY <1>1
<1>4. CurrentIsNext(c)
  BY <1>3 DEF CurrentIsNext
<1>5. InPages(c)
  BY <1>3 DEF InPages, InOrder
<1> QED BY <1>2, <1>4, <1>5 DEF InOrder

\* A void load ends.
LEMMA VoidEnds ==
  ASSUME NEW a, InOrder(a), NEW l \in a.loads, l.g # a.gen, NEW c,
         Rec(c, AuditFields), c.typed = a.typed, c.filter = a.filter, c.cursor = a.cursor, c.gen = a.gen,
         c.loading = a.loading, c.ok = a.ok, c.records = a.records, c.loads = a.loads \ {l}
  PROVE  InOrder(c)
<1>1. AuditTypes(c)
  BY DEF InOrder, AuditTypes
<1>2. CurrentIsNext(c)
  BY DEF InOrder, CurrentIsNext
<1>3. InPages(c)
  BY DEF InOrder, InPages
<1> QED BY <1>1, <1>2, <1>3 DEF InOrder

\* The current load ends: then no other one is.
LEMMA NoneLeft ==
  ASSUME NEW a, InOrder(a), NEW l \in a.loads, l.g = a.gen
  PROVE  /\ \A m \in a.loads \ {l} : m.g <= a.gen /\ m.g # a.gen
         /\ l \in Loads /\ l.filter = a.filter
         /\ l.more = FALSE => l.page = 1
         /\ l.more = TRUE /\ a.ok = TRUE => l.page = a.cursor /\ a.cursor # 0
<1>1. l \in Loads
  BY DEF InOrder, AuditTypes
<1> QED BY <1>1 DEF InOrder, CurrentIsNext

LEMMA CurrentFails ==
  ASSUME NEW a, InOrder(a), NEW l \in a.loads, l.g = a.gen, NEW c,
         Rec(c, AuditFields), c.typed = a.typed, c.filter = a.filter, c.cursor = a.cursor, c.gen = a.gen,
         c.loading = FALSE, c.ok = a.ok, c.records = a.records, c.loads = a.loads \ {l}
  PROVE  InOrder(c)
<1>1. AuditTypes(c)
  BY DEF InOrder, AuditTypes
<1>2. \A m \in c.loads : m.g <= c.gen /\ m.g # c.gen
  BY NoneLeft
<1>3. CurrentIsNext(c)
  BY <1>2 DEF CurrentIsNext
<1>4. InPages(c)
  BY <1>2 DEF InOrder, InPages
<1> QED BY <1>1, <1>3, <1>4 DEF InOrder

LEMMA FirstComes ==
  ASSUME NEW a, InOrder(a), NEW l \in a.loads, l.g = a.gen, l.more = FALSE, NEW c,
         Rec(c, AuditFields), c.typed = a.typed, c.filter = a.filter, c.gen = a.gen,
         c.cursor = IF l.page < AuditPages THEN l.page + 1 ELSE 0,
         c.loading = FALSE, c.ok = TRUE, c.records = <<[filter |-> l.filter, page |-> 1]>>, c.loads = a.loads \ {l}
  PROVE  InOrder(c)
<1>1. l.page = 1 /\ l.filter = a.filter /\ a.filter \in Nat
  BY NoneLeft DEF InOrder, AuditTypes
<1>2. c.cursor \in Nat /\ c.cursor = IF 1 < AuditPages THEN 1 + 1 ELSE 0
  BY <1>1
<1>3. [filter |-> a.filter, page |-> 1] \in Pages
  BY <1>1 DEF Pages
<1>4. c.records \in Seq(Pages) /\ Len(c.records) = 1 /\ c.records[1] = [filter |-> a.filter, page |-> 1]
  BY <1>1, <1>3
<1>5. AuditTypes(c)
  BY <1>2, <1>4 DEF InOrder, AuditTypes
<1>6. \A m \in c.loads : m.g <= c.gen /\ m.g # c.gen
  BY NoneLeft
<1>7. CurrentIsNext(c)
  BY <1>6 DEF CurrentIsNext
<1>8. InPages(c)
  <2>1. \A i \in 1 .. Len(c.records) : c.records[i] = [filter |-> c.filter, page |-> i]
    BY <1>4
  <2> QED BY <2>1, <1>2, <1>4, <1>6 DEF InPages
<1> QED BY <1>5, <1>7, <1>8 DEF InOrder

LEMMA MoreComes ==
  ASSUME NEW a, InOrder(a), NEW l \in a.loads, l.g = a.gen, l.more = TRUE, NEW c,
         Rec(c, AuditFields), c.typed = a.typed, c.filter = a.filter, c.gen = a.gen,
         c.cursor = IF l.page < AuditPages THEN l.page + 1 ELSE 0,
         c.loading = FALSE, c.ok = a.ok, c.records = Append(a.records, [filter |-> l.filter, page |-> l.page]),
         c.loads = a.loads \ {l}
  PROVE  InOrder(c)
<1>1. /\ l.filter = a.filter /\ a.filter \in Nat /\ l.page \in Nat /\ a.records \in Seq(Pages)
      /\ (a.ok = TRUE => l.page = a.cursor /\ a.cursor # 0)
  BY NoneLeft DEF InOrder, AuditTypes, Loads
<1>2. c.cursor \in Nat
  BY <1>1
<1>3. [filter |-> a.filter, page |-> l.page] \in Pages
  BY <1>1 DEF Pages
<1>4. PICK n \in Nat : n = Len(a.records)
  BY <1>1
<1>5. /\ c.records \in Seq(Pages) /\ Len(c.records) = n + 1
      /\ \A i \in 1 .. n : c.records[i] = a.records[i]
      /\ c.records[n + 1] = [filter |-> a.filter, page |-> l.page]
  BY <1>1, <1>3, <1>4, AppendProperties
<1>6. AuditTypes(c)
  BY <1>2, <1>5 DEF InOrder, AuditTypes
<1>7. \A m \in c.loads : m.g <= c.gen /\ m.g # c.gen
  BY NoneLeft
<1>8. CurrentIsNext(c)
  BY <1>7 DEF CurrentIsNext
<1>9. InPages(c)
  <2>1. ASSUME c.ok PROVE /\ \A i \in 1 .. Len(c.records) : c.records[i] = [filter |-> c.filter, page |-> i]
                          /\ c.cursor = IF Len(c.records) < AuditPages THEN Len(c.records) + 1 ELSE 0
    <3>1. /\ \A i \in 1 .. n : a.records[i] = [filter |-> a.filter, page |-> i]
          /\ a.cursor = IF n < AuditPages THEN n + 1 ELSE 0
      BY <2>1, <1>4 DEF InOrder, InPages
    <3>2. a.ok \in BOOLEAN
      BY DEF InOrder, AuditTypes
    <3>3. l.page = n + 1
      BY <2>1, <3>1, <3>2, <1>1
    <3>4. ASSUME NEW i \in 1 .. (n + 1) PROVE c.records[i] = [filter |-> a.filter, page |-> i]
      <4>1. CASE i \in 1 .. n
        BY <4>1, <3>1, <1>5
      <4>2. CASE i = n + 1
        BY <4>2, <3>3, <1>5
      <4>3. i \in 1 .. n \/ i = n + 1
        OBVIOUS
      <4> QED BY <4>1, <4>2, <4>3
    <3>5. c.cursor = IF n + 1 < AuditPages THEN n + 1 + 1 ELSE 0
      BY <3>3
    <3> QED BY <3>4, <3>5, <1>5
  <2> QED BY <2>1, <1>7 DEF InPages
<1> QED BY <1>6, <1>8, <1>9 DEF InOrder

LEMMA AuditStep == AuditInv /\ [Au!AuditNext]_at => AuditInv'
<1> SUFFICES ASSUME InOrder(at), [Au!AuditNext]_at PROVE InOrder(at')
  BY DEF AuditInv
<1>0. /\ Rec(at, AuditFields) /\ at.typed \in Nat /\ at.filter \in Nat /\ at.cursor \in Nat /\ at.gen \in Nat
      /\ at.loading \in BOOLEAN /\ at.ok \in BOOLEAN /\ at.records \in Seq(Pages) /\ at.loads \subseteq Loads
  BY DEF InOrder, AuditTypes
<1>1. CASE UNCHANGED at
  BY <1>1
<1>2. ASSUME Rec(at', AuditFields), at'.typed \in Nat,
             at'.filter = at.filter, at'.cursor = at.cursor, at'.gen = at.gen, at'.loading = at.loading, at'.ok = at.ok,
             at'.records = at.records, at'.loads = at.loads
      PROVE  InOrder(at')
  BY <1>2 DEF InOrder, AuditTypes, CurrentIsNext, InPages
<1>3. CASE Au!TypeFilter
  <2>1. Rec(at', AuditFields) /\ at'.typed = at.typed + 1
        /\ at'.filter = at.filter /\ at'.cursor = at.cursor /\ at'.gen = at.gen /\ at'.loading = at.loading /\ at'.ok = at.ok
        /\ at'.records = at.records /\ at'.loads = at.loads
    BY <1>0, <1>3 DEF Au!TypeFilter, Rec, AuditFields
  <2> QED BY <2>1, <1>0, <1>2
<1>4. CASE Au!ToggleAuto
  <2>1. Rec(at', AuditFields) /\ at'.typed = at.typed
        /\ at'.filter = at.filter /\ at'.cursor = at.cursor /\ at'.gen = at.gen /\ at'.loading = at.loading /\ at'.ok = at.ok
        /\ at'.records = at.records /\ at'.loads = at.loads
    BY <1>0, <1>4 DEF Au!ToggleAuto, Rec, AuditFields
  <2> QED BY <2>1, <1>0, <1>2
<1>5. CASE Au!ApplyFilter
  <2>1. [at EXCEPT !.filter = at.typed] = [at EXCEPT !.typed = at.typed, !.filter = at.typed]
    BY <1>0 DEF Rec, AuditFields
  <2> QED BY <2>1, <1>0, <1>5, AskedFirst DEF Au!ApplyFilter
<1>6. CASE Au!PickFilter
  <2>1. at' = Au!Ask2([at EXCEPT !.typed = at.typed + 1, !.filter = at.typed + 1], FALSE)
    BY <1>6 DEF Au!PickFilter
  <2>2. at.typed + 1 \in Nat
    BY <1>0
  <2> QED BY <2>1, <2>2, AskedFirst
<1>7. CASE Au!AutoRefresh \/ Au!RefreshAudit
  <2>1. at = [at EXCEPT !.typed = at.typed, !.filter = at.filter]
    BY <1>0 DEF Rec, AuditFields
  <2>2. InOrder(Au!Ask2([at EXCEPT !.typed = at.typed, !.filter = at.filter], FALSE))
    BY <1>0, AskedFirst
  <2>3. at' = Au!Ask2(at, FALSE)
    BY <1>7 DEF Au!AutoRefresh, Au!RefreshAudit
  <2> QED BY <2>1, <2>2, <2>3
<1>8. CASE Au!LoadMore
  <2> PICK l : l = [g |-> at.gen, more |-> TRUE, filter |-> at.filter, page |-> at.cursor]
    OBVIOUS
  <2>1. l \in Loads /\ l.g = at.gen /\ l.more = TRUE /\ l.filter = at.filter /\ l.page = at.cursor
    BY <1>0 DEF Loads
  <2> PICK loads, left : loads = at.loads \cup {l} /\ left = at.left - 1
    OBVIOUS
  <2>2. at' = [at EXCEPT !.gen = at.gen, !.loading = TRUE, !.error = FALSE, !.left = left, !.ok = at.ok, !.loads = loads]
    <3>1. (TRUE /\ at.ok) = at.ok
      BY <1>0
    <3> QED BY <3>1, <1>8 DEF Au!LoadMore, Au!Ask2
  <2>3. /\ Rec(at', AuditFields) /\ at'.typed = at.typed /\ at'.filter = at.filter /\ at'.cursor = at.cursor
        /\ at'.gen = at.gen /\ at'.loading = TRUE /\ at'.ok = at.ok /\ at'.records = at.records
        /\ at'.loads = loads
    BY <1>0, <2>2 DEF Rec, AuditFields
  <2>4. at.cursor # 0 /\ at.loading = FALSE
    BY <1>0, <1>8 DEF Au!LoadMore
  <2> QED BY <2>1, <2>3, <2>4, NewMore
<1>9. CASE Au!LoadEnds
  <2> PICK l \in at.loads, fails \in BOOLEAN :
        at' = CASE ~Au!Current(at, l) -> [at EXCEPT !.loads = @ \ {l}]
                [] Au!Current(at, l) /\ fails -> Au!Failed3([at EXCEPT !.loads = @ \ {l}])
                [] Au!Current(at, l) /\ ~fails -> Au!Loaded3([at EXCEPT !.loads = @ \ {l}], l)
    BY <1>9 DEF Au!LoadEnds
  <2> PICK a : a = [at EXCEPT !.loads = @ \ {l}]
    OBVIOUS
  <2>0. l.g \in Nat /\ l.more \in BOOLEAN /\ l.filter \in Nat /\ l.page \in Nat
    BY <1>0 DEF Loads
  <2>1. /\ Rec(a, AuditFields) /\ a.typed = at.typed /\ a.filter = at.filter /\ a.cursor = at.cursor
        /\ a.gen = at.gen /\ a.loading = at.loading /\ a.ok = at.ok /\ a.records = at.records
        /\ a.loads = at.loads \ {l}
    BY <1>0 DEF Rec, AuditFields
  <2>2. CASE l.g # at.gen
    <3>1. at' = a
      BY <2>2 DEF Au!Current
    <3> QED BY <3>1, <2>1, <2>2, VoidEnds
  <2>3. CASE l.g = at.gen /\ fails
    <3>1. at' = Au!Failed3(a)
      BY <2>3 DEF Au!Current
    <3>2. /\ Rec(at', AuditFields) /\ at'.typed = a.typed /\ at'.filter = a.filter /\ at'.cursor = a.cursor
          /\ at'.gen = a.gen /\ at'.loading = FALSE /\ at'.ok = a.ok /\ at'.records = a.records
          /\ at'.loads = a.loads
      BY <2>1, <3>1 DEF Au!Failed3, Rec, AuditFields
    <3> QED BY <2>1, <2>3, <3>2, CurrentFails
  <2>4. CASE l.g = at.gen /\ ~fails
    <3>1. at' = Au!Loaded3(a, l)
      BY <2>4 DEF Au!Current
    <3> PICK first, longer, cursor :
          /\ first = <<[filter |-> l.filter, page |-> 1]>>
          /\ longer = Append(at.records, [filter |-> l.filter, page |-> l.page])
          /\ cursor = IF l.page < AuditPages THEN l.page + 1 ELSE 0
      OBVIOUS
    <3>4. CASE l.more = FALSE
      <4>1. (a.ok \/ ~l.more) = TRUE
        BY <3>4
      <4>2. at' = [a EXCEPT !.records = first, !.cursor = cursor, !.loading = FALSE, !.ok = TRUE]
        BY <4>1, <3>1, <3>4 DEF Au!Loaded3
      <4>3. /\ at'.loading = FALSE /\ at'.cursor = cursor /\ at'.ok = TRUE /\ at'.records = first
        BY <4>2, <2>1 DEF Rec, AuditFields
      <4>4. /\ at'.typed = a.typed /\ at'.filter = a.filter /\ at'.gen = a.gen /\ at'.loads = a.loads
        BY <4>2, <2>1 DEF Rec, AuditFields
      <4>5. Rec(at', AuditFields)
        BY <4>2, <2>1 DEF Rec, AuditFields
      <4>6. /\ at'.typed = at.typed /\ at'.filter = at.filter /\ at'.gen = at.gen /\ at'.loads = at.loads \ {l}
        BY <4>4, <2>1
      <4> QED BY <4>3, <4>5, <4>6, <3>4, <2>4, FirstComes
    <3>5. CASE l.more = TRUE
      <4> PICK ok : ok = at.ok
        OBVIOUS
      <4>1. (a.ok \/ ~l.more) = ok
        BY <3>5, <2>1, <1>0
      <4>2. at' = [a EXCEPT !.records = longer, !.cursor = cursor, !.loading = FALSE, !.ok = ok]
        BY <4>1, <3>1, <3>5, <2>1 DEF Au!Loaded3
      <4>3. /\ at'.loading = FALSE /\ at'.cursor = cursor /\ at'.ok = ok /\ at'.records = longer
        BY <4>2, <2>1 DEF Rec, AuditFields
      <4>4. /\ at'.typed = a.typed /\ at'.filter = a.filter /\ at'.gen = a.gen /\ at'.loads = a.loads
        BY <4>2, <2>1 DEF Rec, AuditFields
      <4>5. Rec(at', AuditFields)
        BY <4>2, <2>1 DEF Rec, AuditFields
      <4>6. /\ at'.typed = at.typed /\ at'.filter = at.filter /\ at'.gen = at.gen /\ at'.loads = at.loads \ {l}
        BY <4>4, <2>1
      <4> QED BY <4>3, <4>5, <4>6, <3>5, <2>4, MoreComes
    <3> QED BY <3>4, <3>5, <2>0
  <2> QED BY <2>2, <2>3, <2>4
<1> QED BY <1>1, <1>3, <1>4, <1>5, <1>6, <1>7, <1>8, <1>9 DEF Au!AuditNext

LEMMA AuditPaged == AuditInv => Au!PagesOfFilter
<1> SUFFICES ASSUME InOrder(at) PROVE Au!PagesOfFilter
  BY DEF AuditInv
<1>1. DOMAIN at.records = 1 .. Len(at.records)
  BY DEF InOrder, AuditTypes
<1> QED BY <1>1 DEF InOrder, InPages, Au!PagesOfFilter, Au!Current

---------------------------------------------------------------------------
\* Gestures on a canvas (PanZoom).

PanFields ==
  {"all", "down", "ptrs", "g", "held", "armed", "tap", "moved", "last", "k", "anim", "target", "safari", "acts"}
Pointers(all, down, ptrs) ==
  IsFiniteSet(ptrs) /\ down \subseteq ptrs /\ ptrs \subseteq all /\ ptrs \ {"m"} = down \ {"m"}
Made(g, ptrs) ==
  \/ g = Pz!NoGesture
  \/ g = Pz!Pinching /\ Cardinality(ptrs \ {"m"}) >= 2
  \/ \E id \in ptrs, moved \in BOOLEAN : g = Pz!Panning(id, moved)
  \/ \E id \in ptrs : g = Pz!Claimed(id)
Taken(held, all, g) == held # Pz!Lone /\ "m" \notin all => g = Pz!Claimed(held)
Moved(moved, down, g) == \A id \in moved \cap down : g = Pz!Panning(id, TRUE) \/ (g = Pz!Pinching /\ id # "m")
Hand(all, down, ptrs, g, held, moved) ==
  Pointers(all, down, ptrs) /\ Made(g, ptrs) /\ Taken(held, all, g) /\ Moved(moved, down, g)
Works(last, down, g) == last = "m" /\ down = {"m"} => Pz!Mine(g, "m")
Glides(k, anim, target) == k \in Int /\ target \in Int /\ (anim = "wheel" => target \in 1 .. MaxZoom)
PanOk(p) ==
  /\ Rec(p, PanFields)
  /\ Pointers(p.all, p.down, p.ptrs) /\ Made(p.g, p.ptrs) /\ Taken(p.held, p.all, p.g)
  /\ Moved(p.moved, p.down, p.g) /\ (p.tap => p.armed) /\ Works(p.last, p.down, p.g) /\ Glides(p.k, p.anim, p.target)
PanInv == PanOk(at)

\* The cardinality that the page's module counts with.
LEMMA PanCounts == \A S : Pz!Cardinality(S) = Cardinality(S)
BY DEF Pz!Cardinality, Cardinality

LEMMA GestureKinds ==
  /\ Pz!NoGesture.kind = "none" /\ Pz!Pinching.kind = "pinch"
  /\ \A id, moved : /\ Pz!Panning(id, moved).kind = "pan" /\ Pz!Panning(id, moved).id = id /\ Pz!Panning(id, moved).moved = moved
                    /\ Pz!Claimed(id).kind = "claimed" /\ Pz!Claimed(id).id = id
                    /\ [Pz!Panning(id, moved) EXCEPT !.moved = TRUE] = Pz!Panning(id, TRUE)
<1>1. \A id, moved : [Pz!Panning(id, moved) EXCEPT !.moved = TRUE] = Pz!Panning(id, TRUE)
  <2> TAKE id, moved
  <2> PICK r : r = Pz!Panning(id, moved)
    OBVIOUS
  <2> PICK s : s = Pz!Panning(id, TRUE)
    OBVIOUS
  <2>1. r = [f \in {"kind", "id", "moved"} |-> r[f]] /\ r.kind = "pan" /\ r.id = id
    BY DEF Pz!Panning
  <2>2. s = [f \in {"kind", "id", "moved"} |-> s[f]] /\ s.kind = "pan" /\ s.id = id /\ s.moved = TRUE
    BY DEF Pz!Panning
  <2> PICK q : q = [r EXCEPT !.moved = TRUE]
    OBVIOUS
  <2>3. q = [f \in {"kind", "id", "moved"} |-> q[f]]
    BY <2>1
  <2>4. q.kind = "pan" /\ q.id = id /\ q.moved = TRUE
    BY <2>1
  <2>5. \A f \in {"kind", "id", "moved"} : q[f] = s[f]
    BY <2>4, <2>2
  <2>6. [f \in {"kind", "id", "moved"} |-> q[f]] = [f \in {"kind", "id", "moved"} |-> s[f]]
    BY <2>5, Zenon
  <2>7. q = s
    BY <2>3, <2>2, <2>6
  <2> QED BY <2>7
<1> QED BY <1>1 DEF Pz!NoGesture, Pz!Pinching, Pz!Panning, Pz!Claimed

LEMMA PanStarts == at \in Pz!PanInits => PanInv
<1> SUFFICES ASSUME at \in Pz!PanInits PROVE PanInv
  OBVIOUS
<1>1. Rec(at, PanFields)
  BY DEF Pz!PanInits, Rec, PanFields
<1>2. /\ at.down = {} /\ at.ptrs = {} /\ at.g = Pz!NoGesture /\ at.held = Pz!Lone /\ at.moved = {} /\ at.tap = FALSE
      /\ at.last = Pz!Lone /\ at.k = 1 /\ at.anim = "none" /\ at.target = 0
  BY DEF Pz!PanInits
<1>3. Pointers(at.all, at.down, at.ptrs)
  BY <1>2, FS_EmptySet DEF Pointers
<1>4. Made(at.g, at.ptrs) /\ Taken(at.held, at.all, at.g) /\ Moved(at.moved, at.down, at.g)
  BY <1>2 DEF Made, Taken, Moved
<1>5. (at.tap => at.armed) /\ Works(at.last, at.down, at.g) /\ Glides(at.k, at.anim, at.target)
  BY <1>2 DEF Works, Glides, Pz!Lone
<1> QED BY <1>1, <1>3, <1>4, <1>5 DEF PanInv, PanOk

\* A gesture is of one kind.
LEMMA GestureIs ==
  ASSUME NEW g, NEW ptrs, Made(g, ptrs)
  PROVE  /\ g.kind \in {"none", "pinch", "pan", "claimed"}
         /\ g.kind = "none" <=> g = Pz!NoGesture
         /\ g.kind = "pinch" <=> g = Pz!Pinching
         /\ g.kind = "pinch" => Cardinality(ptrs \ {"m"}) >= 2
         /\ g.kind = "pan" => g.id \in ptrs /\ g.moved \in BOOLEAN /\ g = Pz!Panning(g.id, g.moved)
         /\ g.kind = "claimed" => g.id \in ptrs /\ g = Pz!Claimed(g.id)
BY GestureKinds DEF Made

LEMMA Alone ==
  ASSUME NEW S, IsFiniteSet(S), NEW x \in S, Cardinality(S) <= 1
  PROVE  S = {x}
<1>1. IsFiniteSet({x}) /\ Cardinality({x}) = 1
  BY FS_Singleton
<1>2. {x} \subseteq S
  OBVIOUS
<1>3. Cardinality(S) \in Nat
  BY FS_CardinalityType
<1>4. Cardinality({x}) <= Cardinality(S)
  BY <1>2, FS_Subset
<1>5. Cardinality(S) = Cardinality({x})
  BY <1>1, <1>3, <1>4
<1> QED BY <1>2, <1>5, FS_Subset

LEMMA ClampedIs == ASSUME NEW k \in Int PROVE Pz!Clamped(k) \in 1 .. MaxZoom
BY ZoomAssumption DEF Pz!Clamped

\* What stays of a record when the hook forgets a glide, or a mouse.
LEMMA FreshIs ==
  ASSUME NEW p, Rec(p, PanFields), NEW id
  PROVE  \E q : /\ q = Pz!Fresh(Pz!StopAnim(p), id)
               /\ Rec(q, PanFields)
               /\ q.all = p.all /\ q.down = p.down /\ q.held = p.held /\ q.armed = p.armed /\ q.tap = p.tap /\ q.moved = p.moved
               /\ q.k = p.k /\ q.anim = "none" /\ q.target = 0
               /\ q.ptrs = (IF id = "m" THEN p.ptrs \ {"m"} ELSE p.ptrs)
               /\ q.g = (IF id = "m" /\ p.ptrs \ {"m"} = {} THEN Pz!NoGesture ELSE p.g)
<1> PICK a : a = Pz!StopAnim(p)
  OBVIOUS
<1>1. /\ Rec(a, PanFields)
      /\ a.all = p.all /\ a.down = p.down /\ a.held = p.held /\ a.armed = p.armed /\ a.tap = p.tap /\ a.moved = p.moved
      /\ a.k = p.k /\ a.anim = "none" /\ a.target = 0 /\ a.ptrs = p.ptrs /\ a.g = p.g
  BY DEF Pz!StopAnim, Rec, PanFields
<1> PICK q : q = Pz!Fresh(a, id)
  OBVIOUS
<1>2. CASE id # "m"
  BY <1>1, <1>2 DEF Pz!Fresh
<1>3. CASE id = "m"
  <2> PICK g : g = (IF p.ptrs \ {"m"} = {} THEN Pz!NoGesture ELSE p.g)
    OBVIOUS
  <2>1. q = [a EXCEPT !.ptrs = p.ptrs \ {"m"}, !.g = g]
    BY <1>1, <1>3 DEF Pz!Fresh, Pz!Fingers
  <2>2. /\ Rec(q, PanFields)
        /\ q.all = a.all /\ q.down = a.down /\ q.held = a.held /\ q.armed = a.armed /\ q.tap = a.tap /\ q.moved = a.moved
        /\ q.k = a.k /\ q.anim = a.anim /\ q.target = a.target /\ q.ptrs = p.ptrs \ {"m"} /\ q.g = g
    BY <2>1, <1>1 DEF Rec, PanFields
  <2> QED BY <2>2, <1>1, <1>3
<1> QED BY <1>2, <1>3

\* What a press makes of the gesture.
PressMakes(id, n, m, g, held, moved, g2, held2, moved2) ==
  \/ /\ id # "m" /\ m >= 2 /\ g2 = Pz!Pinching /\ moved2 = moved \ {"m"}
     /\ held2 = IF g.kind = "claimed" THEN Pz!Lone ELSE held
  \/ /\ id # "m" /\ n >= 2 /\ m < 2 /\ g2 = g /\ moved2 = moved
     /\ held2 = IF g.kind = "claimed" THEN Pz!Lone ELSE held
  \/ id = "m" /\ n > 1 /\ g2 = g /\ moved2 = moved /\ held2 = held
  \/ n <= 1 /\ g2 = Pz!Claimed(id) /\ held2 = id /\ moved2 = moved
  \/ n <= 1 /\ g2 = Pz!Panning(id, FALSE) /\ held2 = held /\ moved2 = moved
SameView(q, p) ==
  /\ q.all = p.all /\ q.down = p.down /\ q.ptrs = p.ptrs /\ q.tap = p.tap
  /\ q.k = p.k /\ q.anim = p.anim /\ q.target = p.target
LEMMA PressedIs ==
  ASSUME NEW p, Rec(p, PanFields), NEW id, NEW takes, NEW q, q = Pz!Pressed(p, id, takes),
         NEW n \in Nat, n = Cardinality(p.ptrs), NEW m \in Nat, m = Cardinality(p.ptrs \ {"m"})
  PROVE  Rec(q, PanFields) /\ SameView(q, p) /\ q.armed = p.armed /\ PressMakes(id, n, m, p.g, p.held, p.moved, q.g, q.held, q.moved)
<1> USE DEF SameView, PressMakes
<1> PICK c : c = Pz!Cancelled(p)
  OBVIOUS
<1>1. /\ Rec(c, PanFields)
      /\ c.all = p.all /\ c.down = p.down /\ c.ptrs = p.ptrs /\ c.g = p.g /\ c.armed = p.armed /\ c.tap = p.tap /\ c.moved = p.moved
      /\ c.k = p.k /\ c.anim = p.anim /\ c.target = p.target
      /\ c.held = IF p.g.kind = "claimed" THEN Pz!Lone ELSE p.held
  BY DEF Pz!Cancelled, Rec, PanFields
<1>0. n = Pz!Cardinality(p.ptrs) /\ m = Pz!Cardinality(Pz!Fingers(p))
  BY PanCounts DEF Pz!Fingers
<1>2. CASE id # "m" /\ n >= 2 /\ m >= 2
  <2>0. id # "m" /\ (Pz!Cardinality(p.ptrs) >= 2) = TRUE /\ (Pz!Cardinality(Pz!Fingers(p)) >= 2) = TRUE
    BY <1>2, <1>0
  <2>1. q = [c EXCEPT !.g = Pz!Pinching, !.moved = c.moved \ {"m"}]
    BY <2>0, Zenon DEF Pz!Pressed
  <2>2. /\ Rec(q, PanFields)
        /\ q.all = c.all /\ q.down = c.down /\ q.ptrs = c.ptrs /\ q.armed = c.armed /\ q.tap = c.tap
        /\ q.k = c.k /\ q.anim = c.anim /\ q.target = c.target /\ q.held = c.held
        /\ q.g = Pz!Pinching /\ q.moved = c.moved \ {"m"}
    BY <2>1, <1>1 DEF Rec, PanFields
  <2> QED BY <2>2, <1>1, <1>2
<1>3. CASE id # "m" /\ n >= 2 /\ m < 2
  <2>1. q = c
    BY <1>3, <1>0 DEF Pz!Pressed
  <2> QED BY <2>1, <1>1, <1>3
<1>4. CASE id = "m" /\ n > 1
  <2>1. q = p
    BY <1>4, <1>0 DEF Pz!Pressed
  <2> QED BY <2>1, <1>4
<1>5. CASE n <= 1 /\ takes
  <2>1. q = [p EXCEPT !.g = Pz!Claimed(id), !.held = id]
    BY <1>5, <1>0 DEF Pz!Pressed
  <2>2. /\ Rec(q, PanFields)
        /\ q.all = p.all /\ q.down = p.down /\ q.ptrs = p.ptrs /\ q.armed = p.armed /\ q.tap = p.tap
        /\ q.k = p.k /\ q.anim = p.anim /\ q.target = p.target /\ q.held = id /\ q.g = Pz!Claimed(id) /\ q.moved = p.moved
    BY <2>1 DEF Rec, PanFields
  <2> QED BY <2>2, <1>5
<1>6. CASE n <= 1 /\ ~takes
  <2>1. q = [p EXCEPT !.g = Pz!Panning(id, FALSE)]
    BY <1>6, <1>0 DEF Pz!Pressed
  <2>2. /\ Rec(q, PanFields)
        /\ q.all = p.all /\ q.down = p.down /\ q.ptrs = p.ptrs /\ q.armed = p.armed /\ q.tap = p.tap
        /\ q.k = p.k /\ q.anim = p.anim /\ q.target = p.target /\ q.held = p.held /\ q.g = Pz!Panning(id, FALSE) /\ q.moved = p.moved
    BY <2>1 DEF Rec, PanFields
  <2> QED BY <2>2, <1>6
<1>7. (n <= 1 \/ n >= 2) /\ (n > 1 <=> n >= 2)
  OBVIOUS
<1>8. (m < 2 \/ m >= 2)
  OBVIOUS
<1> QED BY <1>2, <1>3, <1>4, <1>5, <1>6, <1>7, <1>8

---------------------------------------------------------------------------
\* A press: what the hook knows, then the gesture.
LEMMA PressedPointers ==
  ASSUME NEW all, NEW down, NEW ptrs, Pointers(all, down, ptrs), NEW id \in all \ down
  PROVE  Pointers(all, down \cup {id}, ptrs \cup {id})
<1>1. IsFiniteSet(ptrs \cup {id})
  BY FS_AddElement DEF Pointers
<1> QED BY <1>1 DEF Pointers

LEMMA PressedGesture ==
  ASSUME NEW all, NEW down, NEW ptrs, Pointers(all, down, ptrs), NEW id \in all \ down, NEW g, Made(g, ptrs),
         NEW held, Taken(held, all, g), NEW moved, Moved(moved, down, g),
         NEW g1, g1 = (IF id = "m" /\ ptrs \ {"m"} = {} THEN Pz!NoGesture ELSE g),
         NEW n \in Nat, n = Cardinality(ptrs \cup {id}), NEW m \in Nat, m = Cardinality((ptrs \cup {id}) \ {"m"}),
         NEW g2, NEW held2, NEW moved2, PressMakes(id, n, m, g1, held, moved, g2, held2, moved2)
  PROVE  /\ Made(g2, ptrs \cup {id}) /\ Taken(held2, all, g2) /\ Moved(moved2 \ {id}, down \cup {id}, g2)
         /\ Works(id, down \cup {id}, g2)
<1>0. IsFiniteSet(ptrs \cup {id}) /\ IsFiniteSet(ptrs \ {"m"})
  BY FS_AddElement, FS_Difference DEF Pointers
<1>1. n <= 1 => ptrs \cup {id} = {id}
  BY <1>0, Alone
<1>2. g.kind = "pinch" => Cardinality(ptrs \ {"m"}) >= 2 /\ Cardinality(ptrs \ {"m"}) <= m
  <2>1. ptrs \ {"m"} \subseteq (ptrs \cup {id}) \ {"m"} /\ IsFiniteSet((ptrs \cup {id}) \ {"m"})
    BY <1>0, FS_Difference
  <2> QED BY <2>1, FS_Subset, GestureIs
<1>3. Cardinality(ptrs \ {"m"}) \in Nat
  BY <1>0, FS_CardinalityType
<1>4. ptrs \ {"m"} = {} => Cardinality(ptrs \ {"m"}) = 0
  BY FS_EmptySet
<1>5. Made(g1, ptrs \cup {id})
  <2>1. CASE g.kind = "pinch"
    <3>1. m >= 2
      BY <2>1, <1>2, <1>3
    <3> QED BY <3>1, <2>1, GestureIs DEF Made
  <2>2. CASE g.kind # "pinch"
    BY <2>2, GestureKinds DEF Made
  <2> QED BY <2>1, <2>2
<1>6. Taken(held, all, g1)
  BY DEF Taken, Pointers
<1>7. Moved(moved \ {id}, down \cup {id}, g1)
  BY DEF Moved, Pointers
<1>8. Works(id, down \cup {id}, g1) \/ id # "m" \/ n <= 1
  <2> SUFFICES ASSUME id = "m", down \cup {id} = {"m"}, n > 1 PROVE FALSE
    BY DEF Works
  <2>1. ptrs \cup {id} = {"m"}
    BY DEF Pointers
  <2>2. Cardinality({"m"}) = 1
    BY FS_Singleton
  <2> QED BY <2>1, <2>2
<1>9. id # "m" => g1 = g /\ Works(id, down \cup {id}, g2)
  BY DEF Works
<1>10. CASE id # "m" /\ m >= 2 /\ g2 = Pz!Pinching /\ moved2 = moved \ {"m"} /\ held2 = IF g1.kind = "claimed" THEN Pz!Lone ELSE held
  <2>1. Made(g2, ptrs \cup {id})
    BY <1>10 DEF Made
  <2>2. Taken(held2, all, g2)
    BY <1>10, <1>9, GestureKinds DEF Taken
  <2>3. Moved(moved2 \ {id}, down \cup {id}, g2)
    BY <1>10 DEF Moved
  <2> QED BY <2>1, <2>2, <2>3, <1>9, <1>10
<1>11. CASE id # "m" /\ n >= 2 /\ m < 2 /\ g2 = g1 /\ moved2 = moved /\ held2 = IF g1.kind = "claimed" THEN Pz!Lone ELSE held
  <2>1. Taken(held2, all, g2)
    BY <1>11, <1>9, GestureKinds DEF Taken
  <2> QED BY <2>1, <1>5, <1>7, <1>9, <1>11
<1>12. CASE id = "m" /\ n > 1 /\ g2 = g1 /\ moved2 = moved /\ held2 = held
  BY <1>12, <1>5, <1>6, <1>7, <1>8
<1>13. CASE n <= 1 /\ g2 = Pz!Claimed(id) /\ held2 = id /\ moved2 = moved
  <2>1. Moved(moved2 \ {id}, down \cup {id}, g2)
    BY <1>13, <1>1 DEF Moved, Pointers
  <2>2. Works(id, down \cup {id}, g2)
    BY <1>13, GestureKinds DEF Works, Pz!Mine
  <2>3. Made(g2, ptrs \cup {id}) /\ Taken(held2, all, g2)
    BY <1>13 DEF Made, Taken
  <2> QED BY <2>1, <2>2, <2>3
<1>14. CASE n <= 1 /\ g2 = Pz!Panning(id, FALSE) /\ held2 = held /\ moved2 = moved
  <2>1. Moved(moved2 \ {id}, down \cup {id}, g2)
    BY <1>14, <1>1 DEF Moved, Pointers
  <2>2. Works(id, down \cup {id}, g2)
    BY <1>14, GestureKinds DEF Works, Pz!Mine
  <2>3. Made(g2, ptrs \cup {id})
    BY <1>14 DEF Made
  <2>4. Taken(held2, all, g2)
    <3> SUFFICES ASSUME held # Pz!Lone, "m" \notin all PROVE FALSE
      BY <1>14 DEF Taken
    <3>1. g = Pz!Claimed(held)
      BY DEF Taken
    <3>2. g.kind = "claimed" /\ g.id = held
      BY <3>1, GestureKinds
    <3>3. held \in ptrs
      BY <3>2, GestureIs
    <3> QED BY <3>3, <1>1, <1>14 DEF Pointers
  <2> QED BY <2>1, <2>2, <2>3, <2>4
<1> QED BY <1>10, <1>11, <1>12, <1>13, <1>14 DEF PressMakes

---------------------------------------------------------------------------
\* A release.
LiftMakes(id, n, ptrs, g, g2, armed) ==
  \/ g.kind = "pinch" /\ n >= 2 /\ armed = TRUE /\ g2 = g
  \/ g.kind = "pinch" /\ ptrs \ {"m"} = {} /\ armed = TRUE /\ g2 = Pz!NoGesture
  \/ g.kind = "pinch" /\ n < 2 /\ armed = TRUE /\ \E left \in ptrs \ {"m"} : g2 = Pz!Panning(left, TRUE)
  \/ /\ g.kind # "pinch" /\ (Pz!Mine(g, id) \/ ptrs = {}) /\ g2 = Pz!NoGesture
     /\ Pz!Mine(g, id) /\ g.kind = "pan" /\ g.moved => armed = TRUE
  \/ g.kind # "pinch" /\ ~Pz!Mine(g, id) /\ ptrs # {} /\ g2 = g
LEMMA LiftedIs ==
  ASSUME NEW p, Rec(p, PanFields), NEW id, NEW q, q = Pz!Lifted(p, id), NEW n \in Nat, n = Cardinality(p.ptrs \ {"m"})
  PROVE  Rec(q, PanFields) /\ SameView(q, p) /\ q.held = p.held /\ q.moved = p.moved /\ LiftMakes(id, n, p.ptrs, p.g, q.g, q.armed)
<1> USE DEF SameView, LiftMakes
<1>0. Pz!Fingers(p) = p.ptrs \ {"m"} /\ n = Pz!Cardinality(Pz!Fingers(p))
  BY PanCounts DEF Pz!Fingers
<1>1. CASE p.g.kind = "pinch"
  <2> PICK g : g = (IF n >= 2 THEN p.g ELSE IF p.ptrs \ {"m"} = {} THEN Pz!NoGesture ELSE Pz!Panning(Pz!Left(p), TRUE))
    OBVIOUS
  <2>1. q = [p EXCEPT !.armed = TRUE, !.g = g]
    BY <1>0, <1>1 DEF Pz!Lifted
  <2>2. /\ Rec(q, PanFields)
        /\ q.all = p.all /\ q.down = p.down /\ q.ptrs = p.ptrs /\ q.held = p.held /\ q.tap = p.tap /\ q.moved = p.moved
        /\ q.k = p.k /\ q.anim = p.anim /\ q.target = p.target /\ q.armed = TRUE /\ q.g = g
    BY <2>1 DEF Rec, PanFields
  <2>3. p.ptrs \ {"m"} # {} => Pz!Left(p) \in p.ptrs \ {"m"}
    BY <1>0 DEF Pz!Left
  <2>4. n >= 2 \/ n < 2
    OBVIOUS
  <2> QED BY <2>2, <2>3, <2>4, <1>1
<1>2. CASE p.g.kind # "pinch" /\ (Pz!Mine(p.g, id) \/ p.ptrs = {})
  <2> PICK a : a = (p.armed \/ (Pz!Mine(p.g, id) /\ p.g.kind = "pan" /\ p.g.moved))
    OBVIOUS
  <2>1. q = [p EXCEPT !.armed = a, !.g = Pz!NoGesture]
    BY <1>2 DEF Pz!Lifted
  <2>2. /\ Rec(q, PanFields)
        /\ q.all = p.all /\ q.down = p.down /\ q.ptrs = p.ptrs /\ q.held = p.held /\ q.tap = p.tap /\ q.moved = p.moved
        /\ q.k = p.k /\ q.anim = p.anim /\ q.target = p.target /\ q.armed = a /\ q.g = Pz!NoGesture
    BY <2>1 DEF Rec, PanFields
  <2> QED BY <2>2, <1>2
<1>3. CASE p.g.kind # "pinch" /\ ~(Pz!Mine(p.g, id) \/ p.ptrs = {})
  <2>1. q = p
    BY <1>3 DEF Pz!Lifted
  <2> QED BY <2>1, <1>3
<1> QED BY <1>1, <1>2, <1>3

Ignores(id, moved, armed) == id \in moved => armed = TRUE
LEMMA LiftedGesture ==
  ASSUME NEW all, NEW down, NEW ptrs, NEW g, NEW held, NEW moved, Hand(all, down, ptrs, g, held, moved), NEW id \in down,
         NEW n \in Nat, n = Cardinality((ptrs \ {id}) \ {"m"}), NEW g2, NEW armed, LiftMakes(id, n, ptrs \ {id}, g, g2, armed),
         NEW held2, held2 = (IF held = id THEN Pz!Lone ELSE held)
  PROVE  Hand(all, down \ {id}, ptrs \ {id}, g2, held2, moved) /\ Ignores(id, moved, armed)
<1> USE DEF Hand, Ignores
<1>0. IsFiniteSet(ptrs \ {id}) /\ IsFiniteSet((ptrs \ {id}) \ {"m"})
  BY FS_Difference DEF Pointers
<1>1. Pointers(all, down \ {id}, ptrs \ {id})
  BY <1>0 DEF Pointers
<1>2. /\ g.kind \in {"none", "pinch", "pan", "claimed"}
      /\ g.kind = "pinch" => g = Pz!Pinching
      /\ g.kind = "none" => g = Pz!NoGesture
      /\ g.kind = "pan" => g.id \in ptrs /\ g.moved \in BOOLEAN /\ g = Pz!Panning(g.id, g.moved)
      /\ g.kind = "claimed" => g.id \in ptrs /\ g = Pz!Claimed(g.id)
  BY GestureIs
<1>3. \A x \in moved \cap down : (g.kind = "pan" /\ g.id = x /\ g.moved) \/ (g.kind = "pinch" /\ x # "m")
  <2> TAKE x \in moved \cap down
  <2>1. g = Pz!Panning(x, TRUE) \/ (g = Pz!Pinching /\ x # "m")
    BY DEF Moved
  <2> QED BY <2>1 DEF Pz!Panning, Pz!Pinching
<1>4. held # Pz!Lone /\ "m" \notin all => g.kind = "claimed" /\ g.id = held
  BY GestureKinds DEF Taken
<1>5. CASE g.kind = "pinch"
  <2>1. Taken(held2, all, g2)
    BY <1>4, <1>5 DEF Taken
  <2>2. armed = TRUE
    BY <1>5 DEF LiftMakes
  <2>3. CASE n >= 2 /\ g2 = g
    BY <2>1, <2>2, <2>3, <1>1, <1>2, <1>5 DEF Made, Moved
  <2>4. CASE (ptrs \ {id}) \ {"m"} = {} /\ g2 = Pz!NoGesture
    <3>1. Moved(moved, down \ {id}, g2)
      BY <2>4, <1>3, <1>5 DEF Moved, Pointers
    <3> QED BY <3>1, <2>1, <2>2, <2>4, <1>1 DEF Made
  <2>5. CASE n < 2 /\ \E left \in (ptrs \ {id}) \ {"m"} : g2 = Pz!Panning(left, TRUE)
    <3> PICK left \in (ptrs \ {id}) \ {"m"} : g2 = Pz!Panning(left, TRUE)
      BY <2>5
    <3>1. (ptrs \ {id}) \ {"m"} = {left}
      BY <2>5, <1>0, Alone
    <3>2. Moved(moved, down \ {id}, g2)
      BY <3>1, <1>3, <1>5 DEF Moved, Pointers
    <3>3. Made(g2, ptrs \ {id})
      BY DEF Made
    <3> QED BY <3>2, <3>3, <2>1, <2>2, <1>1
  <2> QED BY <2>3, <2>4, <2>5, <1>5 DEF LiftMakes
<1>6. CASE g.kind # "pinch" /\ (Pz!Mine(g, id) \/ ptrs \ {id} = {}) /\ g2 = Pz!NoGesture /\ (Pz!Mine(g, id) /\ g.kind = "pan" /\ g.moved => armed = TRUE)
  <2>1. Made(g2, ptrs \ {id})
    BY <1>6 DEF Made
  <2>2. Taken(held2, all, g2)
    BY <1>6, <1>4, <1>2 DEF Taken, Pz!Mine
  <2>3. Moved(moved, down \ {id}, g2)
    BY <1>6, <1>3, <1>2 DEF Moved, Pz!Mine, Pointers
  <2>4. id \in moved => armed = TRUE
    BY <1>6, <1>3 DEF Pz!Mine
  <2> QED BY <2>1, <2>2, <2>3, <2>4, <1>1
<1>7. CASE g.kind # "pinch" /\ ~Pz!Mine(g, id) /\ g2 = g
  <2>1. Made(g2, ptrs \ {id})
    BY <1>7, <1>2 DEF Made, Pz!Mine
  <2>2. Taken(held2, all, g2)
    BY <1>7 DEF Taken
  <2>3. Moved(moved, down \ {id}, g2)
    BY <1>7 DEF Moved
  <2>4. id \in moved => armed = TRUE
    BY <1>7, <1>3 DEF Pz!Mine
  <2> QED BY <2>1, <2>2, <2>3, <2>4, <1>1
<1> QED BY <1>5, <1>6, <1>7 DEF LiftMakes

---------------------------------------------------------------------------
\* What a step leaves alone.
SameHands(q, p) ==
  /\ q.all = p.all /\ q.down = p.down /\ q.ptrs = p.ptrs /\ q.g = p.g /\ q.held = p.held /\ q.armed = p.armed
  /\ q.tap = p.tap /\ q.moved = p.moved /\ q.last = Pz!Lone
LEMMA HandsKept ==
  ASSUME NEW p, PanOk(p), NEW q, Rec(q, PanFields), SameHands(q, p), Glides(q.k, q.anim, q.target)
  PROVE  PanOk(q)
BY DEF PanOk, SameHands, Works, Pz!Lone

LEMMA PanStep == PanInv /\ [Pz!PanNext]_at => PanInv'
<1> SUFFICES ASSUME PanOk(at), [Pz!PanNext]_at PROVE PanOk(at')
  BY DEF PanInv
<1>0. /\ Rec(at, PanFields)
      /\ Pointers(at.all, at.down, at.ptrs) /\ Made(at.g, at.ptrs) /\ Taken(at.held, at.all, at.g)
      /\ Moved(at.moved, at.down, at.g) /\ (at.tap => at.armed) /\ Glides(at.k, at.anim, at.target)
  BY DEF PanOk
<1>1. CASE UNCHANGED at
  BY <1>1
<1>2. CASE Pz!Down
  <2>a. PICK id \in at.all \ at.down, takes \in BOOLEAN :
        \E p \in {Pz!Fresh(Pz!StopAnim(at), id)} :
          at' = [Pz!Pressed([p EXCEPT !.ptrs = @ \cup {id}], id, takes)
                   EXCEPT !.down = @ \cup {id}, !.acts = @ - 1, !.moved = @ \ {id}, !.last = id]
    BY <1>2 DEF Pz!Down
  <2>b. PICK p : /\ p = Pz!Fresh(Pz!StopAnim(at), id)
              /\ Rec(p, PanFields)
              /\ p.all = at.all /\ p.down = at.down /\ p.held = at.held /\ p.armed = at.armed /\ p.tap = at.tap /\ p.moved = at.moved
              /\ p.k = at.k /\ p.anim = "none" /\ p.target = 0
              /\ p.ptrs = (IF id = "m" THEN at.ptrs \ {"m"} ELSE at.ptrs)
              /\ p.g = (IF id = "m" /\ at.ptrs \ {"m"} = {} THEN Pz!NoGesture ELSE at.g)
    BY <1>0, FreshIs
  <2>c. PICK u : u = [p EXCEPT !.ptrs = p.ptrs \cup {id}]
    OBVIOUS
  <2>1. /\ Rec(u, PanFields)
        /\ u.all = p.all /\ u.down = p.down /\ u.held = p.held /\ u.armed = p.armed /\ u.tap = p.tap /\ u.moved = p.moved
        /\ u.k = p.k /\ u.anim = p.anim /\ u.target = p.target /\ u.ptrs = p.ptrs \cup {id} /\ u.g = p.g
    BY <2>b, <2>c DEF Rec, PanFields
  <2>2. Pointers(at.all, at.down \cup {id}, at.ptrs \cup {id})
    BY <1>0, PressedPointers
  <2>3a. u.ptrs = at.ptrs \cup {id}
    BY <2>1, <2>b
  <2>3. IsFiniteSet(u.ptrs) /\ IsFiniteSet(u.ptrs \ {"m"})
    BY <2>3a, <2>2, FS_Difference DEF Pointers
  <2>d. PICK n \in Nat : n = Cardinality(u.ptrs)
    BY <2>3, FS_CardinalityType
  <2>e. PICK m \in Nat : m = Cardinality(u.ptrs \ {"m"})
    BY <2>3, FS_CardinalityType
  <2>f. PICK q : q = Pz!Pressed(u, id, takes)
    OBVIOUS
  <2>4. Rec(q, PanFields) /\ SameView(q, u) /\ q.armed = u.armed /\ PressMakes(id, n, m, u.g, u.held, u.moved, q.g, q.held, q.moved)
    BY <2>1, <2>d, <2>e, <2>f, PressedIs
  <2>5. at' = [q EXCEPT !.down = q.down \cup {id}, !.acts = q.acts - 1, !.moved = q.moved \ {id}, !.last = id]
    BY <2>a, <2>b, <2>c, <2>f
  <2>6. /\ Rec(at', PanFields)
        /\ at'.all = q.all /\ at'.down = q.down \cup {id} /\ at'.ptrs = q.ptrs /\ at'.g = q.g /\ at'.held = q.held
        /\ at'.armed = q.armed /\ at'.tap = q.tap /\ at'.moved = q.moved \ {id} /\ at'.last = id
        /\ at'.k = q.k /\ at'.anim = q.anim /\ at'.target = q.target
    BY <2>4, <2>5 DEF Rec, PanFields
  <2>7. u.g = (IF id = "m" /\ at.ptrs \ {"m"} = {} THEN Pz!NoGesture ELSE at.g) /\ u.moved = at.moved /\ u.held = at.held
        /\ n = Cardinality(at.ptrs \cup {id}) /\ m = Cardinality((at.ptrs \cup {id}) \ {"m"})
    BY <2>1, <2>3a, <2>b, <2>d, <2>e
  <2>8. /\ Made(q.g, at.ptrs \cup {id}) /\ Taken(q.held, at.all, q.g) /\ Moved(q.moved \ {id}, at.down \cup {id}, q.g)
        /\ Works(id, at.down \cup {id}, q.g)
    <3>1. PICK g1 : g1 = u.g
      OBVIOUS
    <3>2. PressMakes(id, n, m, g1, at.held, at.moved, q.g, q.held, q.moved)
      BY <2>4, <2>7, <3>1
    <3>3. g1 = (IF id = "m" /\ at.ptrs \ {"m"} = {} THEN Pz!NoGesture ELSE at.g)
      BY <2>7, <3>1
    <3>4. n = Cardinality(at.ptrs \cup {id}) /\ m = Cardinality((at.ptrs \cup {id}) \ {"m"})
      BY <2>7
    <3> QED BY <3>2, <3>3, <3>4, <1>0, PressedGesture
  <2>9. Glides(at'.k, at'.anim, at'.target)
    BY <2>1, <2>4, <2>6, <2>b, <1>0 DEF Glides, SameView
  <2>10. /\ at'.all = at.all /\ at'.down = at.down \cup {id} /\ at'.ptrs = at.ptrs \cup {id} /\ at'.tap = at.tap /\ at'.armed = at.armed
    BY <2>b, <2>1, <2>3a, <2>4, <2>6 DEF SameView
  <2> QED BY <2>2, <2>6, <2>8, <2>9, <2>10, <1>0 DEF PanOk
<1>3. CASE Pz!Move
  <2> PICK id \in at.ptrs :
        \/ /\ at.g.kind = "pinch"
           /\ \E k \in {Pz!Clamped(at.k - 1), Pz!Clamped(at.k + 1)} :
                at' = [at EXCEPT !.k = k, !.last = Pz!Lone, !.moved = @ \cup Pz!Fingers(at)]
        \/ /\ at.g.kind = "pan" /\ at.g.id = id
           /\ at' = [at EXCEPT !.g.moved = TRUE, !.last = Pz!Lone, !.moved = @ \cup {id}]
    BY <1>3 DEF Pz!Move
  <2>1. CASE at.g.kind = "pinch"
    <3> PICK k \in {Pz!Clamped(at.k - 1), Pz!Clamped(at.k + 1)} :
          at' = [at EXCEPT !.k = k, !.last = Pz!Lone, !.moved = at.moved \cup (at.ptrs \ {"m"})]
      BY <2>1 DEF Pz!Fingers
    <3>1. k \in Int
      BY <1>0, ClampedIs DEF Glides
    <3>2. /\ Rec(at', PanFields)
          /\ at'.all = at.all /\ at'.down = at.down /\ at'.ptrs = at.ptrs /\ at'.g = at.g /\ at'.held = at.held
          /\ at'.armed = at.armed /\ at'.tap = at.tap /\ at'.moved = at.moved \cup (at.ptrs \ {"m"}) /\ at'.last = Pz!Lone
          /\ at'.k = k /\ at'.anim = at.anim /\ at'.target = at.target
      BY <1>0 DEF Rec, PanFields
    <3>3. Moved(at'.moved, at.down, at.g)
      BY <3>2, <2>1, <1>0, GestureIs DEF Moved
    <3>4. Works(at'.last, at.down, at.g) /\ Glides(at'.k, at'.anim, at'.target)
      BY <3>1, <3>2, <1>0 DEF Works, Glides, Pz!Lone
    <3> QED BY <3>2, <3>3, <3>4, <1>0 DEF PanOk
  <2>2. CASE at.g.kind = "pan" /\ at.g.id = id /\ at' = [at EXCEPT !.g.moved = TRUE, !.last = Pz!Lone, !.moved = @ \cup {id}]
    <3>1. at.g = Pz!Panning(id, at.g.moved)
      BY <2>2, <1>0, GestureIs
    <3>2. [at.g EXCEPT !.moved = TRUE] = Pz!Panning(id, TRUE)
      <4>1. [Pz!Panning(id, at.g.moved) EXCEPT !.moved = TRUE] = Pz!Panning(id, TRUE)
        BY GestureKinds
      <4> QED BY <4>1, <3>1, Zenon
    <3>3. at' = [at EXCEPT !.g = Pz!Panning(id, TRUE), !.last = Pz!Lone, !.moved = at.moved \cup {id}]
      BY <2>2, <3>2
    <3>4. /\ Rec(at', PanFields)
          /\ at'.all = at.all /\ at'.down = at.down /\ at'.ptrs = at.ptrs /\ at'.g = Pz!Panning(id, TRUE) /\ at'.held = at.held
          /\ at'.armed = at.armed /\ at'.tap = at.tap /\ at'.moved = at.moved \cup {id} /\ at'.last = Pz!Lone
          /\ at'.k = at.k /\ at'.anim = at.anim /\ at'.target = at.target
      BY <3>3, <1>0 DEF Rec, PanFields
    <3>5. Made(at'.g, at.ptrs)
      BY <3>4 DEF Made
    <3>6. Taken(at.held, at.all, at'.g)
      BY <2>2, <1>0 DEF Taken, Pz!Claimed
    <3>7. Moved(at'.moved, at.down, at'.g)
      <4>1. ASSUME NEW x \in at'.moved \cap at.down PROVE x = id
        <5>1. x # id => at.g = Pz!Panning(x, TRUE) \/ at.g = Pz!Pinching
          BY <3>4, <1>0 DEF Moved
        <5> QED BY <5>1, <2>2 DEF Pz!Panning, Pz!Pinching
      <4>2. \A x \in at'.moved \cap at.down : at'.g = Pz!Panning(x, TRUE)
        <5> TAKE x \in at'.moved \cap at.down
        <5>1. x = id
          BY <4>1
        <5> QED BY <5>1, <3>4
      <4> QED BY <4>2 DEF Moved
    <3>8. Works(at'.last, at.down, at'.g)
      BY <3>4 DEF Works, Pz!Lone
    <3> QED BY <3>4, <3>5, <3>6, <3>7, <3>8, <1>0 DEF PanOk
  <2> QED BY <2>1, <2>2
<1>4. CASE Pz!Up
  <2>a. PICK id \in at.down :
        \E p \in {[at EXCEPT !.ptrs = at.ptrs \ {id}, !.down = at.down \ {id}, !.held = IF at.held = id THEN Pz!Lone ELSE at.held]} :
          at' = [Pz!Lifted(p, id) EXCEPT !.tap = id \in at.moved, !.last = Pz!Lone]
    BY <1>4 DEF Pz!Up
  <2>b. PICK held : held = IF at.held = id THEN Pz!Lone ELSE at.held
    OBVIOUS
  <2>c. PICK p : p = [at EXCEPT !.ptrs = at.ptrs \ {id}, !.down = at.down \ {id}, !.held = held]
    OBVIOUS
  <2>1. /\ Rec(p, PanFields)
        /\ p.all = at.all /\ p.down = at.down \ {id} /\ p.ptrs = at.ptrs \ {id} /\ p.g = at.g /\ p.held = held
        /\ p.armed = at.armed /\ p.tap = at.tap /\ p.moved = at.moved /\ p.k = at.k /\ p.anim = at.anim /\ p.target = at.target
    BY <1>0, <2>c DEF Rec, PanFields
  <2>d. PICK n \in Nat : n = Cardinality(p.ptrs \ {"m"})
    BY <2>1, <1>0, FS_Difference, FS_CardinalityType DEF Pointers
  <2>e. PICK q : q = Pz!Lifted(p, id)
    OBVIOUS
  <2>2. Rec(q, PanFields) /\ SameView(q, p) /\ q.held = p.held /\ q.moved = p.moved /\ LiftMakes(id, n, p.ptrs, p.g, q.g, q.armed)
    BY <2>1, <2>d, <2>e, LiftedIs
  <2>f. PICK tap : tap = (id \in at.moved)
    OBVIOUS
  <2>3. at' = [q EXCEPT !.tap = tap, !.last = Pz!Lone]
    BY <2>a, <2>b, <2>c, <2>e, <2>f
  <2>4. /\ Rec(at', PanFields)
        /\ at'.all = q.all /\ at'.down = q.down /\ at'.ptrs = q.ptrs /\ at'.g = q.g /\ at'.held = q.held
        /\ at'.armed = q.armed /\ at'.tap = tap /\ at'.moved = q.moved /\ at'.last = Pz!Lone
        /\ at'.k = q.k /\ at'.anim = q.anim /\ at'.target = q.target
    BY <2>2, <2>3 DEF Rec, PanFields
  <2>5. /\ Pointers(at.all, at.down \ {id}, at.ptrs \ {id}) /\ Made(q.g, at.ptrs \ {id})
        /\ Taken(held, at.all, q.g) /\ Moved(at.moved, at.down \ {id}, q.g)
        /\ id \in at.moved => q.armed = TRUE
    <3>a. PICK g2 : g2 = q.g
      OBVIOUS
    <3>b. PICK armed : armed = q.armed
      OBVIOUS
    <3>1. n = Cardinality((at.ptrs \ {id}) \ {"m"})
      BY <2>1, <2>d
    <3>2. LiftMakes(id, n, at.ptrs \ {id}, at.g, g2, armed)
      BY <2>1, <2>2, <3>a, <3>b
    <3>3. Hand(at.all, at.down, at.ptrs, at.g, at.held, at.moved)
      BY <1>0 DEF Hand
    <3>4. Hand(at.all, at.down \ {id}, at.ptrs \ {id}, g2, held, at.moved) /\ Ignores(id, at.moved, armed)
      BY <3>1, <3>2, <3>3, <2>b, LiftedGesture
    <3> QED BY <3>4, <3>a, <3>b DEF Hand, Ignores
  <2>6. Works(at'.last, at'.down, at'.g) /\ (at'.tap => at'.armed)
    BY <2>4, <2>5, <2>f DEF Works, Pz!Lone
  <2>7. /\ at'.all = at.all /\ at'.down = at.down \ {id} /\ at'.ptrs = at.ptrs \ {id} /\ at'.g = q.g /\ at'.held = held
        /\ at'.moved = at.moved /\ at'.k = at.k /\ at'.anim = at.anim /\ at'.target = at.target
    BY <2>1, <2>2, <2>4 DEF SameView
  <2> QED BY <2>4, <2>5, <2>6, <2>7, <1>0 DEF PanOk
<1>5. CASE Pz!Disarm
  <2>1. /\ Rec(at', PanFields)
        /\ at'.all = at.all /\ at'.down = at.down /\ at'.ptrs = at.ptrs /\ at'.g = at.g /\ at'.held = at.held /\ at'.tap = FALSE
        /\ at'.moved = at.moved /\ at'.last = Pz!Lone /\ at'.k = at.k /\ at'.anim = at.anim /\ at'.target = at.target
    BY <1>0, <1>5 DEF Pz!Disarm, Rec, PanFields
  <2> QED BY <2>1, <1>0 DEF PanOk, Works, Pz!Lone
<1>6. CASE Pz!LoseUp
  <2>1. /\ Rec(at', PanFields)
        /\ at'.all = at.all /\ at'.down = at.down \ {"m"} /\ at'.ptrs = at.ptrs /\ at'.g = at.g /\ at'.held = at.held
        /\ at'.tap = at.tap /\ at'.armed = at.armed
        /\ at'.moved = at.moved /\ at'.last = Pz!Lone /\ at'.k = at.k /\ at'.anim = at.anim /\ at'.target = at.target
    BY <1>0, <1>6 DEF Pz!LoseUp, Rec, PanFields
  <2>2. Pointers(at.all, at.down \ {"m"}, at.ptrs) /\ Moved(at.moved, at.down \ {"m"}, at.g)
    BY <1>0 DEF Pointers, Moved
  <2> QED BY <2>1, <2>2, <1>0 DEF PanOk, Works, Pz!Lone
<1>7. CASE Pz!Notch
  <2> PICK step \in {-1, 1} :
        at' = [[at EXCEPT !.acts = at.acts - 1, !.last = Pz!Lone]
                 EXCEPT !.target = Pz!Clamped(Pz!Base(at) + step), !.anim = IF @ = "none" THEN "wheel" ELSE @]
    BY <1>7 DEF Pz!Notch, Pz!Wheeled
  <2>0. Pz!Base(at) \in Int
    BY <1>0 DEF Pz!Base, Glides
  <2>a. PICK t \in 1 .. MaxZoom : t = Pz!Clamped(Pz!Base(at) + step)
    BY <2>0, ClampedIs
  <2>b. PICK anim : anim = IF at.anim = "none" THEN "wheel" ELSE at.anim
    OBVIOUS
  <2>1. /\ Rec(at', PanFields)
        /\ SameHands(at', at) /\ at'.k = at.k /\ at'.anim = anim /\ at'.target = t
    BY <1>0, <2>a, <2>b DEF Rec, PanFields, SameHands
  <2>2. Glides(at'.k, at'.anim, at'.target)
    BY <2>1, <1>0, ZoomAssumption DEF Glides
  <2> QED BY <2>1, <2>2, HandsKept
<1>8. CASE Pz!TrackPan \/ Pz!TrackPinch \/ Pz!Toolbar
  <2> PICK anim \in {"none", "to"}, k \in {at.k, Pz!Clamped(at.k - 1), Pz!Clamped(at.k + 1)}, acts \in {at.acts - 1} :
        at' = [at EXCEPT !.acts = acts, !.last = Pz!Lone, !.anim = anim, !.target = 0, !.k = k]
    <3> PICK acts : acts = at.acts - 1
      OBVIOUS
    <3> PICK w : w = Pz!Wheeled
      OBVIOUS
    <3>1. /\ Rec(w, PanFields) /\ w = [at EXCEPT !.acts = acts, !.last = Pz!Lone] /\ w.k = at.k
      BY <1>0 DEF Pz!Wheeled, Rec, PanFields
    <3>2. Pz!StopAnim(w) = [at EXCEPT !.acts = acts, !.last = Pz!Lone, !.anim = "none", !.target = 0]
      BY <3>1 DEF Pz!StopAnim
    <3>3. CASE Pz!TrackPan
      <4>1. at' = [at EXCEPT !.acts = acts, !.last = Pz!Lone, !.anim = "none", !.target = 0, !.k = at.k]
        BY <3>2, <3>3, <1>0 DEF Pz!TrackPan, Rec, PanFields
      <4> QED BY <4>1
    <3>4. CASE Pz!TrackPinch
      <4>1. Pz!StopAnim(w).k = at.k
        BY <3>2, <1>0 DEF Rec, PanFields, SameHands
      <4>2. PICK step \in {-1, 1} : at' = [Pz!StopAnim(w) EXCEPT !.k = Pz!Clamped(at.k + step)]
        BY <3>4, <4>1 DEF Pz!TrackPinch
      <4>3. at.k + (-1) = at.k - 1
        BY <1>0 DEF Glides
      <4>4. PICK k \in {Pz!Clamped(at.k - 1), Pz!Clamped(at.k + 1)} : k = Pz!Clamped(at.k + step)
        BY <4>3
      <4>5. at' = [at EXCEPT !.acts = acts, !.last = Pz!Lone, !.anim = "none", !.target = 0, !.k = k]
        BY <3>2, <4>2, <4>4
      <4> QED BY <4>5
    <3>5. CASE Pz!Toolbar
      <4> PICK k \in {Pz!Clamped(at.k - 1), Pz!Clamped(at.k + 1)} : at' = [Pz!StopAnim(w) EXCEPT !.anim = "to", !.k = k]
        BY <3>5 DEF Pz!Toolbar
      <4>1. at' = [at EXCEPT !.acts = acts, !.last = Pz!Lone, !.anim = "to", !.target = 0, !.k = k]
        BY <3>2, <1>0 DEF Rec, PanFields, SameHands
      <4> QED BY <4>1
    <3> QED BY <1>8, <3>3, <3>4, <3>5
  <2>0. k \in Int
    BY <1>0, ClampedIs DEF Glides
  <2>1. /\ Rec(at', PanFields)
        /\ SameHands(at', at) /\ at'.k = k /\ at'.anim = anim /\ at'.target = 0
    BY <1>0 DEF Rec, PanFields, SameHands
  <2>2. Glides(at'.k, at'.anim, at'.target)
    BY <2>0, <2>1 DEF Glides
  <2> QED BY <2>1, <2>2, HandsKept
<1>9. CASE Pz!Safari
  <2> PICK acts : acts = at.acts - 1
    OBVIOUS
  <2> PICK w : w = Pz!Wheeled
    OBVIOUS
  <2>1. /\ Rec(w, PanFields)
        /\ w.all = at.all /\ w.down = at.down /\ w.ptrs = at.ptrs /\ w.g = at.g /\ w.held = at.held
        /\ w.tap = at.tap /\ w.armed = at.armed /\ w.moved = at.moved /\ w.last = Pz!Lone
        /\ w.k = at.k /\ w.anim = at.anim /\ w.target = at.target
    BY <1>0 DEF Pz!Wheeled, Rec, PanFields
  <2>2. CASE at' = [Pz!StopAnim(w) EXCEPT !.safari = TRUE]
    <3>1. /\ Rec(at', PanFields)
          /\ SameHands(at', at) /\ at'.k = w.k /\ at'.anim = "none" /\ at'.target = 0
      BY <2>1, <2>2 DEF Pz!StopAnim, Rec, PanFields, SameHands
    <3>2. Glides(at'.k, at'.anim, at'.target)
      BY <3>1, <2>1, <1>0 DEF Glides
    <3> QED BY <2>1, <3>1, <3>2, HandsKept
  <2>3. CASE \E k \in 1 .. MaxZoom : at' = [w EXCEPT !.k = k]
    <3> PICK k \in 1 .. MaxZoom : at' = [w EXCEPT !.k = k]
      BY <2>3
    <3>1. /\ Rec(at', PanFields)
          /\ SameHands(at', at) /\ at'.k = k /\ at'.anim = w.anim /\ at'.target = w.target
      BY <2>1 DEF Rec, PanFields, SameHands
    <3>2. Glides(at'.k, at'.anim, at'.target)
      BY <3>1, <2>1, <1>0 DEF Glides
    <3> QED BY <2>1, <3>1, <3>2, HandsKept
  <2>4. CASE at' = [w EXCEPT !.safari = FALSE]
    <3>1. /\ Rec(at', PanFields)
          /\ SameHands(at', at) /\ at'.k = w.k /\ at'.anim = w.anim /\ at'.target = w.target
      BY <2>1, <2>4 DEF Rec, PanFields, SameHands
    <3>2. Glides(at'.k, at'.anim, at'.target)
      BY <3>1, <2>1, <1>0 DEF Glides
    <3> QED BY <2>1, <3>1, <3>2, HandsKept
  <2> QED BY <1>9, <2>2, <2>3, <2>4 DEF Pz!Safari
<1>10. CASE Pz!AnimStep
  <2> PICK k \in {at.k, at.target}, t \in {at.target, 0} :
        at' = [at EXCEPT !.anim = "none", !.k = k, !.target = t, !.last = Pz!Lone]
    <3>1. CASE at.anim = "to"
      <4>1. at' = [at EXCEPT !.anim = "none", !.k = at.k, !.target = at.target, !.last = Pz!Lone]
        BY <3>1, <1>10, <1>0 DEF Pz!AnimStep, Rec, PanFields
      <4> QED BY <4>1
    <3>2. CASE at.anim # "to"
      BY <3>2, <1>10 DEF Pz!AnimStep
    <3> QED BY <3>1, <3>2
  <2>1. /\ Rec(at', PanFields)
        /\ SameHands(at', at) /\ at'.k = k /\ at'.anim = "none" /\ at'.target = t
    BY <1>0 DEF Rec, PanFields, SameHands
  <2>2. Glides(at'.k, at'.anim, at'.target)
    BY <2>1, <1>0 DEF Glides
  <2> QED BY <2>1, <2>2, HandsKept
<1> QED BY <1>1, <1>2, <1>3, <1>4, <1>5, <1>6, <1>7, <1>8, <1>9, <1>10 DEF Pz!PanNext

\* What is stated of the gestures follows.
LEMMA PanShown == PanInv => Pz!GesturesEnd /\ Pz!GlideHasTarget /\ Pz!ClickIgnored /\ Pz!PressWorks
<1> SUFFICES ASSUME PanOk(at) PROVE Pz!GesturesEnd /\ Pz!GlideHasTarget /\ Pz!ClickIgnored /\ Pz!PressWorks
  BY DEF PanInv
<1>1. Pz!GesturesEnd
  BY GestureIs, PanCounts DEF PanOk, Pz!GesturesEnd, Taken, Pz!Fingers
<1> QED BY <1>1 DEF PanOk, Works, Glides, Pz!GlideHasTarget, Pz!ClickIgnored, Pz!PressWorks

---------------------------------------------------------------------------
\* The dialog of another node (Remote).

RemoteFields ==
  {"open", "phase", "auth", "stored", "cred", "info", "op", "flows", "valid", "up", "trust", "next"}
Auth == [token : Nat, via : {"none", "trust", "password"}]
\* A flow is told that the dialog is gone only while it opens it.
Flow ==
  {f \in [kind : {"open", "submit", "retry", "probe", "info", "work"},
           step : {"", "stored", "auto", "send", "confirm", "download", "wait", "again"},
           op : {"", "check", "restart", "push", "upgrade"}, auth : Auth, down : BOOLEAN, gone : BOOLEAN] : f.gone => f.kind = "open"}
Connects(f) == f.kind \in {"open", "retry"} /\ ~f.gone
Works2(f) == f.kind = "work" /\ f.step # "confirm"
Connecting(fs) == \E i \in DOMAIN fs : Connects(fs[i])
Signing(fs) == \E i \in DOMAIN fs : fs[i].kind = "submit"
Working(fs) == \E i \in DOMAIN fs : Works2(fs[i])
Covered(open, phase, op, fs) ==
  /\ open /\ phase = "checking" => Connecting(fs)
  /\ phase = "signing" => Signing(fs)
  /\ op \in Rm!BusyOps => Working(fs)
RemoteTypes(r) == Rec(r, RemoteFields) /\ r.auth \in Auth /\ r.stored \in Auth /\ r.next \in Nat /\ r.flows \in Seq(Flow)
RemoteInv == RemoteTypes(at) /\ Covered(at.open, at.phase, at.op, at.flows)

LEMMA RemoteStarts == at \in Rm!RemoteInits => RemoteInv
<1> SUFFICES ASSUME at \in Rm!RemoteInits PROVE RemoteInv
  OBVIOUS
<1>1. Rec(at, RemoteFields)
  BY DEF Rm!RemoteInits, Rec, RemoteFields
<1>2. at.auth = Rm!None2 /\ at.stored = Rm!None2 /\ at.next = 1 /\ at.flows = <<>> /\ at.open = FALSE /\ at.phase = "checking" /\ at.op = "idle"
  BY DEF Rm!RemoteInits
<1>3. Rm!None2 \in Auth
  BY DEF Rm!None2, Auth
<1> QED BY <1>1, <1>2, <1>3 DEF RemoteInv, RemoteTypes, Covered, Rm!BusyOps

LEMMA Between == \A n \in Nat : \A i \in 1 .. n : i - 1 + (n - i) = n - 1
OBVIOUS
LEMMA Removed ==
  ASSUME NEW fs \in Seq(Flow), NEW i \in DOMAIN fs, NEW gs, gs = Rm!RemoveAt(fs, i)
  PROVE  /\ gs \in Seq(Flow)
         /\ \A j \in DOMAIN fs : j # i => \E k \in DOMAIN gs : gs[k] = fs[j]
<1> PICK n \in Nat : n = Len(fs) /\ DOMAIN fs = 1 .. n
  OBVIOUS
<1>1. gs = SubSeq(fs, 1, i - 1) \o SubSeq(fs, i + 1, n)
  BY DEF Rm!RemoveAt
<1>2. SubSeq(fs, 1, i - 1) \in Seq(Flow) /\ Len(SubSeq(fs, 1, i - 1)) = i - 1
      /\ \A k \in 1 .. i - 1 : SubSeq(fs, 1, i - 1)[k] = fs[k]
  BY SubSeqProperties
<1>3. SubSeq(fs, i + 1, n) \in Seq(Flow) /\ Len(SubSeq(fs, i + 1, n)) = n - i
      /\ \A k \in 1 .. n - i : SubSeq(fs, i + 1, n)[k] = fs[i + k]
  BY SubSeqProperties
<1>4. gs \in Seq(Flow) /\ Len(gs) = n - 1
      /\ (\A k \in 1 .. i - 1 : gs[k] = fs[k]) /\ (\A k \in 1 .. n - i : gs[i - 1 + k] = fs[i + k])
  <2> PICK a \in Seq(Flow), b \in Seq(Flow) : a = SubSeq(fs, 1, i - 1) /\ b = SubSeq(fs, i + 1, n)
    BY <1>2, <1>3
  <2>0. gs = a \o b /\ Len(a) = i - 1 /\ Len(b) = n - i
    BY <1>1, <1>2, <1>3
  <2>a. Len(a \o b) = Len(a) + Len(b) /\ a \o b \in Seq(Flow)
        /\ \A k \in 1 .. Len(a) + Len(b) : (a \o b)[k] = IF k <= Len(a) THEN a[k] ELSE b[k - Len(a)]
    BY ConcatProperties
  <2>1. gs \in Seq(Flow) /\ Len(gs) = i - 1 + (n - i)
        /\ \A k \in 1 .. i - 1 + (n - i) : gs[k] = IF k <= i - 1 THEN a[k] ELSE b[k - (i - 1)]
    BY <2>0, <2>a
  <2>b. i - 1 + (n - i) = n - 1
    BY Between
  <2>2. \A k \in 1 .. i - 1 : gs[k] = fs[k]
    <3> TAKE k \in 1 .. i - 1
    <3>0. k \in 1 .. i - 1 + (n - i) /\ k <= i - 1
      <4>1. n \in Nat /\ i \in 1 .. n /\ k \in Nat /\ 1 <= k /\ k <= i - 1
        OBVIOUS
      <4>2. k \in 1 .. n - 1
        BY <4>1
      <4> QED BY <4>1, <4>2, <2>b
    <3>1. gs[k] = a[k]
      BY <3>0, <2>1
    <3> QED BY <3>1, <1>2
  <2>3. \A k \in 1 .. n - i : gs[i - 1 + k] = fs[i + k]
    <3> TAKE k \in 1 .. n - i
    <3>1. i - 1 + k \in 1 .. i - 1 + (n - i) /\ ~(i - 1 + k <= i - 1) /\ (i - 1 + k) - (i - 1) = k
      OBVIOUS
    <3>2. gs[i - 1 + k] = b[k]
      BY <2>1, <3>1
    <3> QED BY <3>2, <1>3
  <2> QED BY <2>1, <2>2, <2>3, <2>b
<1>5. ASSUME NEW j \in 1 .. n, j # i PROVE \E k \in 1 .. n - 1 : gs[k] = fs[j]
  <2>1. CASE j < i
    BY <2>1, <1>4
  <2>2. CASE j > i
    <3>1. j - i \in 1 .. n - i /\ i - 1 + (j - i) = j - 1 /\ i + (j - i) = j /\ j - 1 \in 1 .. n - 1
      BY <2>2
    <3> QED BY <3>1, <1>4
  <2> QED BY <1>5, <2>1, <2>2
<1> QED BY <1>4, <1>5

\* What is under way stays so when another flow ends, begins or moves on.
LEMMA EndedCovers ==
  ASSUME NEW fs \in Seq(Flow), NEW i \in DOMAIN fs, NEW gs, gs = Rm!RemoveAt(fs, i)
  PROVE  /\ gs \in Seq(Flow)
         /\ Connecting(fs) /\ ~Connects(fs[i]) => Connecting(gs)
         /\ Signing(fs) /\ fs[i].kind # "submit" => Signing(gs)
         /\ Working(fs) /\ ~Works2(fs[i]) => Working(gs)
<1>1. gs \in Seq(Flow) /\ \A j \in DOMAIN fs : j # i => \E k \in DOMAIN gs : gs[k] = fs[j]
  BY Removed
<1> QED BY <1>1 DEF Connecting, Signing, Working

LEMMA BegunCovers ==
  ASSUME NEW fs \in Seq(Flow), NEW f \in Flow, NEW gs, gs = Append(fs, f)
  PROVE  /\ gs \in Seq(Flow)
         /\ Connecting(fs) \/ Connects(f) => Connecting(gs)
         /\ Signing(fs) \/ f.kind = "submit" => Signing(gs)
         /\ Working(fs) \/ Works2(f) => Working(gs)
<1> PICK n \in Nat : n = Len(fs) /\ DOMAIN fs = 1 .. n
  OBVIOUS
<1>1. gs \in Seq(Flow) /\ DOMAIN gs = 1 .. n + 1 /\ gs[n + 1] = f /\ \A k \in 1 .. n : gs[k] = fs[k]
  BY AppendProperties
<1> QED BY <1>1 DEF Connecting, Signing, Working

LEMMA MovedCovers ==
  ASSUME NEW fs \in Seq(Flow), NEW i \in DOMAIN fs, NEW f \in Flow, NEW gs, gs = [fs EXCEPT ![i] = f]
  PROVE  /\ gs \in Seq(Flow)
         /\ Connecting(fs) /\ (Connects(fs[i]) => Connects(f)) => Connecting(gs)
         /\ Signing(fs) /\ (fs[i].kind = "submit" => f.kind = "submit") => Signing(gs)
         /\ Working(fs) /\ (Works2(fs[i]) => Works2(f)) => Working(gs)
         /\ Works2(f) => Working(gs)
<1>1. gs \in Seq(Flow) /\ DOMAIN gs = DOMAIN fs /\ gs[i] = f /\ \A k \in DOMAIN fs : k # i => gs[k] = fs[k]
  OBVIOUS
<1> QED BY <1>1 DEF Connecting, Signing, Working

\* The steps of flows, by what becomes of the list.
EndFacts(r, q, i) ==
  /\ RemoteTypes(q) /\ q.flows = Rm!RemoveAt(r.flows, i)
  /\ q.open = r.open /\ q.phase = r.phase /\ q.op = r.op /\ q.auth = r.auth /\ q.stored = r.stored /\ q.next = r.next
LEMMA EndIs ==
  ASSUME NEW r, RemoteTypes(r), NEW i \in DOMAIN r.flows, NEW q, q = Rm!End1(r, i)
  PROVE  EndFacts(r, q, i)
<1> PICK gs : gs = Rm!RemoveAt(r.flows, i)
  OBVIOUS
<1>1. gs \in Seq(Flow)
  BY Removed DEF RemoteTypes
<1>2. q = [r EXCEPT !.flows = gs]
  BY DEF Rm!End1
<1>3. /\ Rec(q, RemoteFields) /\ q.flows = gs
      /\ q.open = r.open /\ q.phase = r.phase /\ q.op = r.op /\ q.auth = r.auth /\ q.stored = r.stored /\ q.next = r.next
  BY <1>2 DEF RemoteTypes, Rec, RemoteFields
<1> QED BY <1>1, <1>3 DEF EndFacts, RemoteTypes

FlowFields == {"kind", "step", "op", "auth", "down", "gone"}
LEMMA FlowShape ==
  ASSUME NEW f, Rec(f, FlowFields), f.kind \in {"open", "submit", "retry", "probe", "info", "work"},
         f.step \in {"", "stored", "auto", "send", "confirm", "download", "wait", "again"},
         f.op \in {"", "check", "restart", "push", "upgrade"}, f.auth \in Auth, f.down \in BOOLEAN, f.gone \in BOOLEAN,
         f.gone => f.kind = "open"
  PROVE  f \in Flow
BY DEF Flow, Rec, FlowFields

\* A sign-in, or none, is taken: the dialog says so; a new one begins a flow.
TakenFacts(r, q) ==
  /\ RemoteTypes(q) /\ q.phase \in {"in", "out"} /\ q.open = r.open /\ q.op = r.op /\ q.next = r.next
  /\ q.flows = r.flows \/ \E f \in Flow : q.flows = Append(r.flows, f)
LEMMA TakenIs ==
  ASSUME NEW r, RemoteTypes(r), NEW a \in Auth, NEW q, q = Rm!SetAuth(r, a)
  PROVE  TakenFacts(r, q)
<1> PICK phase \in {"in", "out"} : phase = IF a.token = 0 THEN "out" ELSE "in"
  OBVIOUS
<1> PICK s : s = [r EXCEPT !.auth = a, !.stored = a, !.phase = phase]
  OBVIOUS
<1>1. /\ Rec(s, RemoteFields) /\ s.flows = r.flows
      /\ s.open = r.open /\ s.phase = phase /\ s.op = r.op /\ s.auth = a /\ s.stored = a /\ s.next = r.next
  BY DEF RemoteTypes, Rec, RemoteFields
<1> PICK f : f = [Rm!Flow1("info") EXCEPT !.auth = a]
  OBVIOUS
<1>2. f \in Flow
  <2>1. /\ Rec(f, FlowFields)
        /\ f.kind = "info" /\ f.step = "" /\ f.op = "" /\ f.auth = a /\ f.down = FALSE /\ f.gone = FALSE
    BY DEF Rm!Flow1, Rec, FlowFields
  <2> QED BY <2>1, FlowShape
<1>3. Append(r.flows, f) \in Seq(Flow)
  BY <1>2, AppendProperties DEF RemoteTypes
<1> PICK fs \in Seq(Flow) : fs = Append(s.flows, f)
  BY <1>1, <1>3
<1> PICK t : t = [s EXCEPT !.flows = fs]
  OBVIOUS
<1>4. /\ Rec(t, RemoteFields) /\ t.flows = fs
      /\ t.open = s.open /\ t.phase = s.phase /\ t.op = s.op /\ t.auth = s.auth /\ t.stored = s.stored /\ t.next = s.next
  BY <1>1 DEF Rec, RemoteFields
<1>5. q = s \/ q = t
  BY DEF Rm!SetAuth, Rm!Start
<1> QED BY <1>1, <1>2, <1>4, <1>5 DEF TakenFacts, RemoteTypes

\* The remote's own sign-ins.
SignedFacts(r, q) ==
  /\ RemoteTypes(q) /\ q.flows = r.flows /\ q.open = r.open /\ q.phase = r.phase /\ q.op = r.op
LEMMA SignedIs ==
  ASSUME NEW r, RemoteTypes(r), NEW a \in Auth, NEW q, q = Rm!SignedBy(r, a)
  PROVE  SignedFacts(r, q)
<1> PICK o : o = Rm!Opened(r)
  OBVIOUS
<1>1. /\ Rec(o, RemoteFields) /\ o.flows = r.flows
      /\ o.open = r.open /\ o.phase = r.phase /\ o.op = r.op /\ o.auth = r.auth /\ o.stored = r.stored /\ o.next = r.next + 1
  BY DEF Rm!Opened, RemoteTypes, Rec, RemoteFields
<1> PICK c : c = (o.cred \/ a.via = "password")
  OBVIOUS
<1> PICK t : t = [o EXCEPT !.cred = c]
  OBVIOUS
<1>2. /\ Rec(t, RemoteFields) /\ t.flows = o.flows
      /\ t.open = o.open /\ t.phase = o.phase /\ t.op = o.op /\ t.auth = o.auth /\ t.stored = o.stored /\ t.next = o.next
  BY <1>1 DEF Rec, RemoteFields
<1>3. q = r \/ q = t
  BY DEF Rm!SignedBy
<1>4. r.next + 1 \in Nat
  BY DEF RemoteTypes
<1> QED BY <1>1, <1>2, <1>3, <1>4 DEF SignedFacts, RemoteTypes

LEMMA OutcomeIs == ASSUME NEW r, RemoteTypes(r), NEW a \in Rm!Outcomes(r) PROVE a \in Auth
BY DEF Rm!Outcomes, Rm!None2, Rm!New, Auth, RemoteTypes
LEMMA NewIs == ASSUME NEW r, RemoteTypes(r) PROVE Rm!New(r, "password") \in Auth /\ Rm!New(r, "trust") \in Auth /\ Rm!None2 \in Auth
BY DEF Rm!None2, Rm!New, Auth, RemoteTypes

---------------------------------------------------------------------------
\* A field that is not looked at here, and the operation, may be set.
Beside(q, p) == q.flows = p.flows /\ q.open = p.open /\ q.phase = p.phase
LEMMA WithOp ==
  ASSUME NEW r, RemoteTypes(r), NEW o, NEW q, q = [r EXCEPT !.op = o]
  PROVE  RemoteTypes(q) /\ Beside(q, r) /\ q.op = o
BY DEF RemoteTypes, Rec, RemoteFields, Beside
LEMMA WithRest ==
  ASSUME NEW r, RemoteTypes(r), NEW x, NEW y, NEW q,
         \/ q = [r EXCEPT !.up = x]
         \/ q = [r EXCEPT !.up = x, !.valid = y]
         \/ q = [r EXCEPT !.info = x]
         \/ q = [r EXCEPT !.cred = x]
         \/ q = [r EXCEPT !.stored = x] /\ x \in Auth
  PROVE  RemoteTypes(q) /\ Beside(q, r) /\ q.op = r.op
BY DEF RemoteTypes, Rec, RemoteFields, Beside
LEMMA SameCovers == ASSUME NEW r, NEW q, Beside(q, r), Covered(r.open, r.phase, r.op, r.flows), q.op = r.op \/ q.op \notin Rm!BusyOps
                    PROVE  Covered(q.open, q.phase, q.op, q.flows)
BY DEF Covered, Beside

Steps == {"", "stored", "auto", "send", "confirm", "download", "wait", "again"}
SteppedFacts(r, q, i, f) ==
  RemoteTypes(q) /\ f \in Flow /\ q.flows = [r.flows EXCEPT ![i] = f] /\ q.open = r.open /\ q.phase = r.phase /\ q.op = r.op
LEMMA StepIs ==
  ASSUME NEW r, RemoteTypes(r), NEW i \in DOMAIN r.flows, NEW s \in Steps, NEW q, q = Rm!Step(r, i, s)
  PROVE  \E f : SteppedFacts(r, q, i, f) /\ f.kind = r.flows[i].kind /\ f.gone = r.flows[i].gone /\ f.step = s
<1>0. r.flows[i] \in Flow
  BY DEF RemoteTypes
<1> PICK f : f = [r.flows[i] EXCEPT !.step = s]
  OBVIOUS
<1>1. f \in Flow /\ f.kind = r.flows[i].kind /\ f.gone = r.flows[i].gone /\ f.step = s
  BY <1>0 DEF Flow, Steps
<1> PICK fs : fs = [r.flows EXCEPT ![i] = f]
  OBVIOUS
<1>2. fs \in Seq(Flow)
  BY <1>1 DEF RemoteTypes
<1>3. q = [r EXCEPT !.flows = fs]
  BY DEF Rm!Step, RemoteTypes, Rec, RemoteFields
<1>4. Rec(q, RemoteFields) /\ q.flows = fs /\ q.open = r.open /\ q.phase = r.phase /\ q.op = r.op /\ q.auth = r.auth
      /\ q.stored = r.stored /\ q.next = r.next
  BY <1>3 DEF RemoteTypes, Rec, RemoteFields
<1> QED BY <1>1, <1>2, <1>4 DEF SteppedFacts, RemoteTypes

BegunFacts(r, q, f) ==
  RemoteTypes(q) /\ q.flows = Append(r.flows, f) /\ q.open = r.open /\ q.phase = r.phase /\ q.op = r.op
LEMMA StartIs ==
  ASSUME NEW r, RemoteTypes(r), NEW f \in Flow, NEW q, q = Rm!Start(r, f)
  PROVE  BegunFacts(r, q, f)
<1> PICK fs : fs = Append(r.flows, f)
  OBVIOUS
<1>1. fs \in Seq(Flow)
  BY AppendProperties DEF RemoteTypes
<1>2. q = [r EXCEPT !.flows = fs]
  BY DEF Rm!Start
<1>3. Rec(q, RemoteFields) /\ q.flows = fs /\ q.open = r.open /\ q.phase = r.phase /\ q.op = r.op /\ q.auth = r.auth
      /\ q.stored = r.stored /\ q.next = r.next
  BY <1>2 DEF RemoteTypes, Rec, RemoteFields
<1> QED BY <1>1, <1>3 DEF BegunFacts, RemoteTypes
LEMMA BegunStill ==
  ASSUME NEW r, RemoteTypes(r), Covered(r.open, r.phase, r.op, r.flows), NEW f \in Flow, NEW q, BegunFacts(r, q, f)
  PROVE  Covered(q.open, q.phase, q.op, q.flows)
BY BegunCovers DEF BegunFacts, Covered, RemoteTypes

\* A new flow of a kind.
LEMMA NewFlows ==
  /\ \A k \in {"submit", "retry", "probe"} : Rm!Flow1(k) \in Flow /\ Rm!Flow1(k).kind = k /\ Rm!Flow1(k).gone = FALSE
  /\ \E f \in Flow : f = [Rm!Flow1("open") EXCEPT !.step = "stored"] /\ f.kind = "open" /\ f.gone = FALSE
  /\ \A a \in Auth : \A o \in {"check", "restart", "push", "upgrade"} : \A s \in {"send", "confirm"} :
       \E f \in Flow : f = [Rm!Flow1("work") EXCEPT !.op = o, !.step = s, !.auth = a] /\ f.kind = "work" /\ f.step = s
<1>1. ASSUME NEW k \in {"submit", "retry", "probe"}
      PROVE  Rm!Flow1(k) \in Flow /\ Rm!Flow1(k).kind = k /\ Rm!Flow1(k).gone = FALSE
  <2> PICK f : f = Rm!Flow1(k)
    OBVIOUS
  <2>1. /\ Rec(f, FlowFields) /\ f.kind = k /\ f.step = "" /\ f.op = "" /\ f.auth = Rm!None2 /\ f.down = FALSE /\ f.gone = FALSE
        /\ Rm!None2 \in Auth
    BY DEF Rm!Flow1, Rec, FlowFields, Auth, Rm!None2
  <2> QED BY <2>1, FlowShape
<1>2. \E f \in Flow : f = [Rm!Flow1("open") EXCEPT !.step = "stored"] /\ f.kind = "open" /\ f.gone = FALSE
  <2> PICK f : f = [Rm!Flow1("open") EXCEPT !.step = "stored"]
    OBVIOUS
  <2>1. /\ Rec(f, FlowFields) /\ f.kind = "open" /\ f.step = "stored" /\ f.op = "" /\ f.auth = Rm!None2 /\ f.down = FALSE /\ f.gone = FALSE
        /\ Rm!None2 \in Auth
    BY DEF Rm!Flow1, Rec, FlowFields, Auth, Rm!None2
  <2> QED BY <2>1, FlowShape
<1>3. ASSUME NEW a \in Auth, NEW o \in {"check", "restart", "push", "upgrade"}, NEW s \in {"send", "confirm"}
      PROVE  \E f \in Flow : f = [Rm!Flow1("work") EXCEPT !.op = o, !.step = s, !.auth = a] /\ f.kind = "work" /\ f.step = s
  <2> PICK f : f = [Rm!Flow1("work") EXCEPT !.op = o, !.step = s, !.auth = a]
    OBVIOUS
  <2>1. Rec(f, FlowFields) /\ f.kind = "work" /\ f.step = s /\ f.op = o /\ f.auth = a /\ f.down = FALSE /\ f.gone = FALSE
    BY DEF Rm!Flow1, Rec, FlowFields
  <2> QED BY <2>1, FlowShape
<1> QED BY <1>1, <1>2, <1>3

\* A flow ends with a sign-in taken, of whatever the remote gave out meanwhile.
LEMMA EndsTaken ==
  ASSUME NEW r, RemoteTypes(r), Covered(r.open, r.phase, r.op, r.flows), NEW i \in DOMAIN r.flows, ~Works2(r.flows[i]),
         NEW s, SignedFacts(r, s), NEW e, EndFacts(s, e, i), NEW q, TakenFacts(e, q)
  PROVE  RemoteTypes(q) /\ Covered(q.open, q.phase, q.op, q.flows)
<1>1. s.flows = r.flows /\ r.flows \in Seq(Flow) /\ e.flows = Rm!RemoveAt(r.flows, i) /\ e.flows \in Seq(Flow)
  BY DEF SignedFacts, EndFacts, RemoteTypes
<1>2. Working(r.flows) => Working(e.flows)
  BY <1>1, EndedCovers
<1>3. Working(e.flows) => Working(q.flows)
  BY <1>1, BegunCovers DEF TakenFacts
<1>4. q.phase \in {"in", "out"} /\ q.op = r.op
  BY DEF TakenFacts, EndFacts, SignedFacts
<1> QED BY <1>2, <1>3, <1>4 DEF TakenFacts, Covered

\* What a step must leave, and the ways it comes about.
Kept(q) == RemoteTypes(q) /\ Covered(q.open, q.phase, q.op, q.flows)

\* A flow ends: what it stood for must not be shown any more.
LEMMA EndKept ==
  ASSUME NEW r, Kept(r), NEW i \in DOMAIN r.flows, NEW q, EndFacts(r, q, i), NEW p, RemoteTypes(p), p.flows = q.flows, p.open = r.open,
         Connects(r.flows[i]) => p.phase # "checking", r.flows[i].kind = "submit" => p.phase # "signing",
         Works2(r.flows[i]) => p.op \notin Rm!BusyOps,
         p.phase = r.phase \/ p.phase \in {"in", "out"}, p.op = r.op \/ p.op \notin Rm!BusyOps
  PROVE  Kept(p)
<1>1. r.flows \in Seq(Flow) /\ q.flows = Rm!RemoveAt(r.flows, i)
  BY DEF Kept, RemoteTypes, EndFacts
<1>2. /\ Connecting(r.flows) /\ ~Connects(r.flows[i]) => Connecting(q.flows)
      /\ Signing(r.flows) /\ r.flows[i].kind # "submit" => Signing(q.flows)
      /\ Working(r.flows) /\ ~Works2(r.flows[i]) => Working(q.flows)
  BY <1>1, EndedCovers
<1> QED BY <1>2 DEF Kept, Covered

\* A flow moves on and keeps its kind.
LEMMA SteppedKept ==
  ASSUME NEW r, Kept(r), NEW i \in DOMAIN r.flows, NEW f, NEW q, SteppedFacts(r, q, i, f), f.kind = r.flows[i].kind, f.gone = r.flows[i].gone,
         NEW p, RemoteTypes(p), p.flows = q.flows, p.open = r.open, p.phase = r.phase,
         \/ p.op = r.op /\ (f.step = "confirm" => r.flows[i].step = "confirm")
         \/ p.op \notin Rm!BusyOps
         \/ f.kind = "work" /\ f.step # "confirm"
  PROVE  Kept(p)
<1>1. r.flows \in Seq(Flow) /\ q.flows = [r.flows EXCEPT ![i] = f] /\ f \in Flow
  BY DEF Kept, RemoteTypes, SteppedFacts
<1>2. /\ Connecting(r.flows) /\ (Connects(r.flows[i]) => Connects(f)) => Connecting(q.flows)
      /\ Signing(r.flows) /\ (r.flows[i].kind = "submit" => f.kind = "submit") => Signing(q.flows)
      /\ Working(r.flows) /\ (Works2(r.flows[i]) => Works2(f)) => Working(q.flows)
      /\ Works2(f) => Working(q.flows)
  BY <1>1, MovedCovers
<1>3. /\ Connects(r.flows[i]) => Connects(f)
      /\ (f.step = "confirm" => r.flows[i].step = "confirm") => (Works2(r.flows[i]) => Works2(f))
      /\ f.kind = "work" /\ f.step # "confirm" => Works2(f)
  BY DEF Connects, Works2
<1> QED BY <1>2, <1>3 DEF Kept, Covered

\* A flow begins that stands for what is shown from now on.
LEMMA BegunKept ==
  ASSUME NEW r, Kept(r), NEW p, RemoteTypes(p), p.flows = r.flows, NEW f \in Flow, NEW q, BegunFacts(p, q, f),
         p.open = r.open \/ (p.phase = "checking" /\ Connects(f)),
         p.phase = r.phase \/ (p.phase = "checking" /\ Connects(f)) \/ (p.phase = "signing" /\ f.kind = "submit"),
         p.op = r.op \/ p.op \notin Rm!BusyOps \/ Works2(f)
  PROVE  Kept(q)
<1>1. r.flows \in Seq(Flow) /\ q.flows = Append(r.flows, f)
  BY DEF Kept, RemoteTypes, BegunFacts
<1>2. /\ Connecting(r.flows) \/ Connects(f) => Connecting(q.flows)
      /\ Signing(r.flows) \/ f.kind = "submit" => Signing(q.flows)
      /\ Working(r.flows) \/ Works2(f) => Working(q.flows)
  BY <1>1, BegunCovers
<1>3. q.open = p.open /\ q.phase = p.phase /\ q.op = p.op /\ RemoteTypes(q)
  BY DEF BegunFacts
<1> QED BY <1>2, <1>3 DEF Kept, Covered

\* A sign-in is taken, or none, at the end of a flow or by itself.
LEMMA TakenKept ==
  ASSUME NEW e, RemoteTypes(e), NEW q, TakenFacts(e, q), NEW p, RemoteTypes(p), p.flows = q.flows, p.phase = q.phase,
         p.op \in Rm!BusyOps => p.op = e.op /\ (e.op \in Rm!BusyOps => Working(e.flows))
  PROVE  Kept(p)
<1>1. e.flows \in Seq(Flow)
  BY DEF RemoteTypes
<1>2. Working(e.flows) => Working(q.flows)
  BY <1>1, BegunCovers DEF TakenFacts
<1>3. p.phase \in {"in", "out"}
  BY DEF TakenFacts
<1> QED BY <1>2, <1>3 DEF Kept, Covered

LEMMA RemoteStep == RemoteInv /\ [Rm!RemoteNext]_at => RemoteInv'
<1> SUFFICES ASSUME RemoteInv, [Rm!RemoteNext]_at PROVE RemoteInv'
  OBVIOUS
<1>0. Kept(at) /\ RemoteTypes(at)
  BY DEF Kept, RemoteInv
<1>q. Kept(at') => RemoteInv'
  BY DEF Kept, RemoteInv, RemoteTypes, Covered, Connecting, Signing, Working
<1>1. CASE Rm!Cut \/ Rm!Back \/ Rm!NodeRestart
  <2>1. \E x, y : at' = [at EXCEPT !.up = x] \/ at' = [at EXCEPT !.up = x, !.valid = y]
    BY <1>1 DEF Rm!Cut, Rm!Back, Rm!NodeRestart
  <2>2. RemoteTypes(at') /\ Beside(at', at) /\ at'.op = at.op
    BY <2>1, <1>0, WithRest
  <2> QED BY <2>2, <1>0, <1>q, SameCovers DEF Kept
<1>2. CASE Rm!Open
  <2>a. PICK f \in Flow : f = [Rm!Flow1("open") EXCEPT !.step = "stored"] /\ f.kind = "open" /\ f.gone = FALSE
    BY NewFlows
  <2>b. PICK p : p = [at EXCEPT !.open = TRUE, !.op = "idle", !.info = FALSE, !.phase = "checking"]
    OBVIOUS
  <2>1. at' = Rm!Start(p, f)
    BY <1>2, <2>a, <2>b DEF Rm!Open
  <2>2. RemoteTypes(p) /\ p.flows = at.flows /\ p.open = TRUE /\ p.phase = "checking" /\ p.op = "idle"
    BY <2>b, <1>0 DEF RemoteTypes, Rec, RemoteFields
  <2>3. BegunFacts(p, at', f)
    BY <2>1, <2>2, StartIs
  <2>4. Connects(f) /\ p.op \notin Rm!BusyOps
    BY <2>a, <2>2 DEF Connects, Rm!BusyOps
  <2> QED BY <2>2, <2>3, <2>4, <1>0, <1>q, BegunKept
<1>3. CASE Rm!Close
  <2>a. PICK fs : fs = [i \in DOMAIN at.flows |-> IF at.flows[i].kind = "open" THEN [at.flows[i] EXCEPT !.gone = TRUE] ELSE at.flows[i]]
    OBVIOUS
  <2>1. at' = [at EXCEPT !.open = FALSE, !.flows = fs]
    BY <1>3, <2>a, <1>0 DEF Rm!Close, RemoteTypes, Rec, RemoteFields
  <2>2. at.flows \in Seq(Flow)
    BY <1>0 DEF RemoteTypes
  <2>3. ASSUME NEW i \in DOMAIN at.flows
        PROVE  /\ fs[i] \in Flow
               /\ at.flows[i].kind = "submit" => fs[i].kind = "submit"
               /\ Works2(at.flows[i]) => Works2(fs[i])
    <3>1. at.flows[i] \in Flow
      BY <2>2
    <3>2. CASE at.flows[i].kind = "open"
      <4>1. fs[i] = [at.flows[i] EXCEPT !.gone = TRUE]
        BY <2>a, <3>2
      <4>2. fs[i] \in Flow
        BY <3>1, <3>2, <4>1 DEF Flow
      <4> QED BY <3>2, <4>2 DEF Works2
    <3>3. CASE at.flows[i].kind # "open"
      BY <2>a, <3>1, <3>3
    <3> QED BY <3>2, <3>3
  <2>4. fs \in Seq(Flow) /\ DOMAIN fs = DOMAIN at.flows
    <3>1. PICK n \in Nat : DOMAIN at.flows = 1 .. n
      BY <2>2
    <3>2. fs \in [1 .. n -> Flow]
      BY <2>3, <2>a, <3>1
    <3> QED BY <3>1, <3>2
  <2>5. Rec(at', RemoteFields) /\ at'.flows = fs /\ at'.open = FALSE /\ at'.phase = at.phase /\ at'.op = at.op
        /\ at'.auth = at.auth /\ at'.stored = at.stored /\ at'.next = at.next
    BY <2>1, <1>0 DEF RemoteTypes, Rec, RemoteFields
  <2>6. (Signing(at.flows) => Signing(fs)) /\ (Working(at.flows) => Working(fs))
    BY <2>3, <2>4 DEF Signing, Working
  <2>7. RemoteTypes(at')
    BY <2>4, <2>5, <1>0 DEF RemoteTypes
  <2>8. Covered(at'.open, at'.phase, at'.op, at'.flows)
    BY <2>5, <2>6, <1>0 DEF Kept, Covered
  <2> QED BY <2>7, <2>8, <1>q DEF Kept
<1>4. CASE Rm!Submit1 \/ Rm!Retry
  <2>a. PICK f \in Flow, ph \in {"signing", "checking"} : /\ at' = Rm!Start([at EXCEPT !.phase = ph], f)
                              /\ \/ ph = "signing" /\ f.kind = "submit"
                                 \/ ph = "checking" /\ f.kind = "retry" /\ f.gone = FALSE
    <3>1. /\ Rm!Flow1("submit") \in Flow /\ Rm!Flow1("submit").kind = "submit"
          /\ Rm!Flow1("retry") \in Flow /\ Rm!Flow1("retry").kind = "retry" /\ Rm!Flow1("retry").gone = FALSE
      BY NewFlows
    <3>2. CASE Rm!Submit1
      BY <3>1, <3>2 DEF Rm!Submit1
    <3>3. CASE Rm!Retry
      BY <3>1, <3>3 DEF Rm!Retry
    <3> QED BY <1>4, <3>2, <3>3
  <2>b. PICK p : p = [at EXCEPT !.phase = ph]
    OBVIOUS
  <2>2. RemoteTypes(p) /\ p.flows = at.flows /\ p.open = at.open /\ p.phase = ph /\ p.op = at.op
    BY <2>b, <1>0 DEF RemoteTypes, Rec, RemoteFields
  <2>3. BegunFacts(p, at', f)
    BY <2>a, <2>b, <2>2, StartIs
  <2>4. (ph = "checking" /\ Connects(f)) \/ (ph = "signing" /\ f.kind = "submit")
    BY <2>a DEF Connects
  <2> QED BY <2>2, <2>3, <2>4, <1>0, <1>q, BegunKept
<1>5. CASE Rm!SignOut1
  <2>a. PICK reached \in {at.up, FALSE} :
          at' = [Rm!SetAuth(at, Rm!None2) EXCEPT !.cred = FALSE, !.info = FALSE, !.op = "idle",
                                                 !.valid = IF reached THEN @ \ {at.auth.token} ELSE @]
    BY <1>5 DEF Rm!SignOut1
  <2>b. PICK s : s = Rm!SetAuth(at, Rm!None2)
    OBVIOUS
  <2>1. TakenFacts(at, s)
    BY <2>b, <1>0, NewIs, TakenIs
  <2>c. PICK v : v = IF reached THEN s.valid \ {at.auth.token} ELSE s.valid
    OBVIOUS
  <2>2. at' = [s EXCEPT !.cred = FALSE, !.info = FALSE, !.op = "idle", !.valid = v]
    BY <2>a, <2>b, <2>c, <2>1 DEF TakenFacts, RemoteTypes, Rec, RemoteFields
  <2>3. RemoteTypes(at') /\ at'.flows = s.flows /\ at'.phase = s.phase /\ at'.op = "idle"
    BY <2>1, <2>2 DEF TakenFacts, RemoteTypes, Rec, RemoteFields
  <2>4. at'.op \notin Rm!BusyOps
    BY <2>3 DEF Rm!BusyOps
  <2> QED BY <2>1, <2>3, <2>4, <1>0, <1>q, TakenKept
<1>6. CASE Rm!Probe
  <2>1. at' = Rm!Start(at, Rm!Flow1("probe")) /\ Rm!Flow1("probe") \in Flow
    BY <1>6, NewFlows DEF Rm!Probe
  <2>2. BegunFacts(at, at', Rm!Flow1("probe"))
    BY <2>1, <1>0, StartIs
  <2> QED BY <2>1, <2>2, <1>0, <1>q, BegunKept
<1>7. CASE Rm!Check
  <2>a. PICK f \in Flow : f = [Rm!Flow1("work") EXCEPT !.op = "check", !.step = "send", !.auth = at.auth] /\ f.kind = "work" /\ f.step = "send"
    BY <1>0, NewFlows DEF RemoteTypes
  <2>b. PICK p : p = [at EXCEPT !.op = "checking"]
    OBVIOUS
  <2>1. at' = Rm!Start(p, f)
    BY <1>7, <2>a, <2>b DEF Rm!Check
  <2>2. RemoteTypes(p) /\ Beside(p, at)
    BY <2>b, <1>0, WithOp
  <2>3. BegunFacts(p, at', f) /\ Works2(f)
    BY <2>a, <2>1, <2>2, StartIs DEF Works2
  <2> QED BY <2>2, <2>3, <1>0, <1>q, BegunKept DEF Beside
<1>8. CASE Rm!Ask
  <2>1. PICK o \in {"check", "restart", "push", "upgrade"} :
          at' = Rm!Start(at, [Rm!Flow1("work") EXCEPT !.op = o, !.step = "confirm", !.auth = at.auth])
    BY <1>8 DEF Rm!Ask
  <2>a. PICK f \in Flow : f = [Rm!Flow1("work") EXCEPT !.op = o, !.step = "confirm", !.auth = at.auth] /\ f.kind = "work" /\ f.step = "confirm"
    <3>1. at.auth \in Auth
      BY <1>0 DEF RemoteTypes
    <3> QED BY <3>1, NewFlows
  <2>2. BegunFacts(at, at', f)
    BY <2>a, <2>1, <1>0, StartIs
  <2> QED BY <2>2, <1>0, <1>q, BegunKept
<1>9. ASSUME NEW i \in DOMAIN at.flows, Rm!OpenStep(i) PROVE RemoteInv'
  <2>0. at.flows[i].kind = "open" /\ ~Works2(at.flows[i]) /\ at.stored \in Auth /\ at.flows[i] \in Flow
    BY <1>9, <1>0 DEF Rm!OpenStep, Works2, RemoteTypes
  <2>1. ASSUME NEW s, SignedFacts(at, s), NEW a \in Auth,
               at' = IF at.flows[i].gone THEN Rm!End1(s, i) ELSE Rm!SetAuth(Rm!End1(s, i), a)
        PROVE  RemoteInv'
    <3>1. EndFacts(s, Rm!End1(s, i), i)
      BY <2>1, EndIs DEF SignedFacts
    <3>2. CASE at.flows[i].gone = FALSE
      <4>1. TakenFacts(Rm!End1(s, i), at')
        BY <2>1, <3>1, <3>2, TakenIs DEF EndFacts
      <4> QED BY <2>0, <2>1, <3>1, <4>1, <1>0, <1>q, EndsTaken DEF Kept
    <3>3. CASE at.flows[i].gone = TRUE
      <4>1. at' = Rm!End1(s, i)
        BY <2>1, <3>3
      <4>2. Kept(s) /\ i \in DOMAIN s.flows /\ s.flows = at.flows
        BY <2>1, <1>0 DEF Kept, SignedFacts
      <4>3. ~Connects(s.flows[i]) /\ s.flows[i].kind # "submit" /\ ~Works2(s.flows[i])
        BY <2>0, <3>3, <4>2 DEF Connects
      <4>4. EndFacts(s, at', i)
        BY <3>1, <4>1
      <4>5. RemoteTypes(at') /\ at'.open = s.open /\ at'.phase = s.phase /\ at'.op = s.op
        BY <4>4 DEF EndFacts
      <4> QED BY <4>2, <4>3, <4>4, <4>5, <1>q, EndKept
    <3> QED BY <3>2, <3>3, <2>0 DEF Flow
  <2>2. CASE \E a \in Rm!Outcomes(at) : at' = IF at.flows[i].gone THEN Rm!End1(Rm!SignedBy(at, a), i) ELSE Rm!SetAuth(Rm!End1(Rm!SignedBy(at, a), i), a)
    <3>1. PICK a \in Rm!Outcomes(at) : at' = IF at.flows[i].gone THEN Rm!End1(Rm!SignedBy(at, a), i) ELSE Rm!SetAuth(Rm!End1(Rm!SignedBy(at, a), i), a)
      BY <2>2
    <3>2. a \in Auth
      BY <1>0, OutcomeIs
    <3>3. SignedFacts(at, Rm!SignedBy(at, a))
      BY <1>0, <3>2, SignedIs
    <3> QED BY <2>1, <3>1, <3>2, <3>3
  <2>3. CASE at' = IF at.flows[i].gone THEN Rm!End1(at, i) ELSE Rm!SetAuth(Rm!End1(at, i), at.stored)
    <3>1. SignedFacts(at, at)
      BY <1>0 DEF SignedFacts
    <3> QED BY <2>0, <2>1, <2>3, <3>1
  <2>4. CASE at' = Rm!Step(at, i, "auto")
    <3>0. "auto" \in Steps
      BY DEF Steps
    <3>1. PICK f : SteppedFacts(at, at', i, f) /\ f.kind = at.flows[i].kind /\ f.gone = at.flows[i].gone /\ f.step = "auto"
      BY <2>4, <3>0, <1>0, StepIs
    <3> QED BY <3>1, <1>0, <1>q, SteppedKept DEF SteppedFacts
  <2> QED BY <2>2, <2>3, <2>4, <1>9 DEF Rm!OpenStep
<1>10. ASSUME NEW i \in DOMAIN at.flows, Rm!SubmitStep(i) PROVE RemoteInv'
  <2>0. at.flows[i].kind = "submit" /\ ~Works2(at.flows[i]) /\ ~Connects(at.flows[i])
    BY <1>10 DEF Rm!SubmitStep, Works2, Connects
  <2>1. CASE at' = Rm!SetAuth(Rm!End1([Rm!Opened(at) EXCEPT !.cred = TRUE], i), Rm!New(at, "password"))
    <3>a. PICK s : s = [Rm!Opened(at) EXCEPT !.cred = TRUE]
      OBVIOUS
    <3>1. SignedFacts(at, s)
      <4>1. s = [at EXCEPT !.valid = at.valid \cup {at.next}, !.next = at.next + 1, !.cred = TRUE]
        BY <3>a, <1>0 DEF Rm!Opened, RemoteTypes, Rec, RemoteFields
      <4>2. at.next + 1 \in Nat
        BY <1>0 DEF RemoteTypes
      <4> QED BY <4>1, <4>2, <1>0 DEF SignedFacts, RemoteTypes, Rec, RemoteFields
    <3>2. EndFacts(s, Rm!End1(s, i), i)
      BY <3>1, EndIs DEF SignedFacts
    <3>3. TakenFacts(Rm!End1(s, i), at')
      <4>1. Rm!New(at, "password") \in Auth /\ RemoteTypes(Rm!End1(s, i))
        BY <1>0, <3>2, NewIs DEF EndFacts
      <4> QED BY <2>1, <3>a, <4>1, TakenIs
    <3> QED BY <2>0, <3>1, <3>2, <3>3, <1>0, <1>q, EndsTaken DEF Kept
  <2>2. CASE at' = Rm!Refuse(Rm!End1(at, i))
    <3>a. PICK e : e = Rm!End1(at, i)
      OBVIOUS
    <3>1. EndFacts(at, e, i)
      BY <3>a, <1>0, EndIs
    <3>2. at' = [e EXCEPT !.phase = "out"]
      BY <2>2, <3>a DEF Rm!Refuse
    <3>3. RemoteTypes(at') /\ at'.flows = e.flows /\ at'.open = at.open /\ at'.op = at.op /\ at'.phase = "out"
      BY <3>1, <3>2 DEF EndFacts, RemoteTypes, Rec, RemoteFields
    <3> QED BY <2>0, <3>1, <3>3, <1>0, <1>q, EndKept
  <2> QED BY <2>1, <2>2, <1>10 DEF Rm!SubmitStep
\* A flow ends, and whatever sign-in there is afterwards is taken.
<1>s. ASSUME NEW i \in DOMAIN at.flows, NEW a \in Rm!Outcomes(at)
      PROVE  LET e == Rm!SignedBy(Rm!End1(at, i), a)
             IN  TakenFacts(e, Rm!SetAuth(e, a)) /\ RemoteTypes(e) /\ e.op = at.op
                 /\ (~Works2(at.flows[i]) /\ at.op \in Rm!BusyOps => Working(e.flows))
  <2>a. PICK d : d = Rm!End1(at, i)
    OBVIOUS
  <2>b. PICK e : e = Rm!SignedBy(d, a)
    OBVIOUS
  <2>0. a \in Auth /\ at.flows \in Seq(Flow)
    BY <1>0, OutcomeIs DEF RemoteTypes
  <2>1. EndFacts(at, d, i)
    BY <2>a, <1>0, EndIs
  <2>2. SignedFacts(d, e)
    BY <2>0, <2>1, <2>b, SignedIs DEF EndFacts
  <2>3. TakenFacts(e, Rm!SetAuth(e, a))
    BY <2>0, <2>2, TakenIs DEF SignedFacts
  <2>4. Working(at.flows) /\ ~Works2(at.flows[i]) => Working(e.flows)
    <3>1. e.flows = Rm!RemoveAt(at.flows, i)
      BY <2>1, <2>2 DEF EndFacts, SignedFacts
    <3> QED BY <2>0, <3>1, EndedCovers
  <2>5. RemoteTypes(e) /\ e.op = at.op /\ (at.op \in Rm!BusyOps => Working(at.flows))
    BY <2>1, <2>2, <1>0 DEF SignedFacts, EndFacts, Kept, Covered
  <2> QED BY <2>a, <2>b, <2>3, <2>4, <2>5
<1>11. ASSUME NEW i \in DOMAIN at.flows, Rm!RetryStep(i) PROVE RemoteInv'
  <2>a. PICK a \in Rm!Outcomes(at) : at' = Rm!SetAuth(Rm!SignedBy(Rm!End1(at, i), a), a)
    BY <1>11 DEF Rm!RetryStep
  <2>b. PICK e : e = Rm!SignedBy(Rm!End1(at, i), a)
    OBVIOUS
  <2>0. ~Works2(at.flows[i])
    BY <1>11 DEF Rm!RetryStep, Works2
  <2>1. TakenFacts(e, at') /\ RemoteTypes(e) /\ e.op = at.op /\ (at.op \in Rm!BusyOps => Working(e.flows))
    BY <2>a, <2>b, <2>0, <1>s
  <2>2. RemoteTypes(at') /\ at'.op = e.op
    BY <2>1 DEF TakenFacts
  <2> QED BY <2>1, <2>2, <1>q, TakenKept
<1>12. ASSUME NEW i \in DOMAIN at.flows, Rm!Again(i) PROVE RemoteInv'
  <2>a. PICK a \in Rm!Outcomes(at) :
          LET r == Rm!SetAuth(Rm!SignedBy(Rm!End1(at, i), a), a)
          IN  at' = [r EXCEPT !.op = IF a.token = 0 \/ (at.flows[i].auth.via = "trust" /\ a.via # "trust") THEN "error"
                                     ELSE IF at.flows[i].op = "restart" THEN "restarted" ELSE "done",
                              !.info = @ \/ (at.flows[i].op # "restart" /\ a.token # 0)]
    BY <1>12 DEF Rm!Again
  <2>b. PICK e : e = Rm!SignedBy(Rm!End1(at, i), a)
    OBVIOUS
  <2>c. PICK r : r = Rm!SetAuth(e, a)
    OBVIOUS
  <2>d. PICK o \in {"error", "restarted", "done"} :
          o = IF a.token = 0 \/ (at.flows[i].auth.via = "trust" /\ a.via # "trust") THEN "error"
              ELSE IF at.flows[i].op = "restart" THEN "restarted" ELSE "done"
    OBVIOUS
  <2>e. PICK x : x = (r.info \/ (at.flows[i].op # "restart" /\ a.token # 0))
    OBVIOUS
  <2>1. TakenFacts(e, r) /\ RemoteTypes(e)
    BY <2>b, <2>c, <1>s
  <2>2. at' = [r EXCEPT !.op = o, !.info = x]
    BY <2>a, <2>b, <2>c, <2>d, <2>e
  <2>3. RemoteTypes(at') /\ Beside(at', r) /\ at'.op = o
    <3>1. RemoteTypes(r)
      BY <2>1 DEF TakenFacts
    <3>t. PICK t : t = [r EXCEPT !.op = o, !.info = x]
      OBVIOUS
    <3>2. RemoteTypes(t) /\ Beside(t, r) /\ t.op = o
      BY <3>1, <3>t DEF RemoteTypes, Rec, RemoteFields, Beside
    <3> QED BY <2>2, <3>t, <3>2
  <2>4. at'.op \notin Rm!BusyOps
    BY <2>3 DEF Rm!BusyOps
  <2> QED BY <2>1, <2>3, <2>4, <1>q, TakenKept DEF Beside
\* What a flow that is not for the sign-in dialog leaves of itself when it ends.
<1>e. ASSUME NEW i \in DOMAIN at.flows, at.flows[i].kind \in {"probe", "info", "work"}, NEW p, RemoteTypes(p),
             p.flows = Rm!End1(at, i).flows, p.open = at.open, p.phase = at.phase,
             (p.op = at.op /\ ~Works2(at.flows[i])) \/ p.op \notin Rm!BusyOps
      PROVE  Kept(p)
  <2>1. EndFacts(at, Rm!End1(at, i), i)
    BY <1>0, EndIs
  <2>2. ~Connects(at.flows[i]) /\ at.flows[i].kind # "submit"
    BY <1>e DEF Connects
  <2>3. at.op \in Rm!BusyOps \/ at.op \notin Rm!BusyOps
    OBVIOUS
  <2>4. CASE p.op \notin Rm!BusyOps
    BY <2>1, <2>2, <2>4, <1>0, <1>e, EndKept
  <2>5. CASE p.op = at.op /\ ~Works2(at.flows[i])
    BY <2>1, <2>2, <2>5, <1>0, <1>e, EndKept
  <2> QED BY <2>4, <2>5, <1>e
<1>13. ASSUME NEW i \in DOMAIN at.flows, Rm!ProbeStep(i) \/ Rm!InfoStep(i) PROVE RemoteInv'
  <2>0. at.flows[i].kind \in {"probe", "info", "work"} /\ ~Works2(at.flows[i])
    BY <1>13 DEF Rm!ProbeStep, Rm!InfoStep, Works2
  <2>1. RemoteTypes(at') /\ at'.flows = Rm!End1(at, i).flows /\ at'.open = at.open /\ at'.phase = at.phase /\ at'.op = at.op
    <3>a. PICK e : e = Rm!End1(at, i)
      OBVIOUS
    <3>1. EndFacts(at, e, i)
      BY <3>a, <1>0, EndIs
    <3>2. CASE at' = e
      BY <3>a, <3>1, <3>2 DEF EndFacts
    <3>3. CASE \E x : at' = [e EXCEPT !.info = x]
      <4>1. PICK x : at' = [e EXCEPT !.info = x]
        BY <3>3
      <4>2. RemoteTypes(e)
        BY <3>1 DEF EndFacts
      <4>3. RemoteTypes(at') /\ Beside(at', e) /\ at'.op = e.op
        BY <4>1, <4>2, WithRest
      <4> QED BY <3>a, <3>1, <4>3 DEF EndFacts, Beside
    <3>4. CASE at' = [Rm!End1(Rm!Opened(at), i) EXCEPT !.stored = Rm!New(at, "trust")]
      <4>a. PICK o : o = Rm!Opened(at)
        OBVIOUS
      <4>1. /\ Rec(o, RemoteFields) /\ o.flows = at.flows /\ o.open = at.open /\ o.phase = at.phase /\ o.op = at.op
            /\ o.auth = at.auth /\ o.stored = at.stored /\ o.next = at.next + 1
        BY <4>a, <1>0 DEF Rm!Opened, RemoteTypes, Rec, RemoteFields
      <4>2. RemoteTypes(o)
        BY <4>1, <1>0 DEF RemoteTypes
      <4>b. PICK d : d = Rm!End1(o, i)
        OBVIOUS
      <4>3. EndFacts(o, d, i)
        BY <4>b, <4>1, <4>2, EndIs
      <4>4. Rm!New(at, "trust") \in Auth
        BY <1>0, NewIs
      <4>5. at' = [d EXCEPT !.stored = Rm!New(at, "trust")]
        BY <3>4, <4>a, <4>b
      <4>6. RemoteTypes(at') /\ Beside(at', d) /\ at'.op = d.op
        <5>1. RemoteTypes(d)
          BY <4>3 DEF EndFacts
        <5> QED BY <5>1, <4>4, <4>5, WithRest
      <4> QED BY <4>6, <4>3, <4>1, <3>a, <3>1 DEF EndFacts, Beside
    <3> QED BY <1>13, <3>a, <3>2, <3>3, <3>4 DEF Rm!ProbeStep, Rm!InfoStep
  <2> QED BY <2>0, <2>1, <1>e, <1>q
<1>f. ASSUME NEW i \in DOMAIN at.flows, at.flows[i].kind = "work", NEW o \in {"error", "checked"}, at' = [Rm!End1(at, i) EXCEPT !.op = o]
      PROVE  RemoteInv'
  <2>a. PICK e : e = Rm!End1(at, i)
    OBVIOUS
  <2>1. EndFacts(at, e, i)
    BY <2>a, <1>0, EndIs
  <2>2. RemoteTypes(at') /\ Beside(at', e) /\ at'.op = o
    <3>1. RemoteTypes(e) /\ at' = [e EXCEPT !.op = o]
      BY <2>a, <2>1, <1>f DEF EndFacts
    <3> QED BY <3>1, WithOp
  <2>3. at'.op \notin Rm!BusyOps
    BY <2>2 DEF Rm!BusyOps
  <2> QED BY <2>a, <2>1, <2>2, <2>3, <1>f, <1>e, <1>q DEF EndFacts, Beside
<1>g. ASSUME NEW i \in DOMAIN at.flows, at.flows[i].kind = "work", NEW s \in {"send", "confirm", "download", "wait", "again"}, NEW o,
             at' = [Rm!Step(at, i, s) EXCEPT !.op = o], s = "confirm" => o \notin Rm!BusyOps
      PROVE  RemoteInv'
  <2>a. PICK t : t = Rm!Step(at, i, s)
    OBVIOUS
  <2>b. PICK f : SteppedFacts(at, t, i, f) /\ f.kind = at.flows[i].kind /\ f.gone = at.flows[i].gone /\ f.step = s
    <3>1. s \in Steps
      BY DEF Steps
    <3> QED BY <2>a, <3>1, <1>0, StepIs
  <2>1. RemoteTypes(at') /\ Beside(at', t) /\ at'.op = o
    <3>1. RemoteTypes(t) /\ at' = [t EXCEPT !.op = o]
      BY <2>a, <2>b, <1>g DEF SteppedFacts
    <3> QED BY <3>1, WithOp
  <2>2. RemoteTypes(at') /\ at'.flows = t.flows /\ at'.open = at.open /\ at'.phase = at.phase
    BY <2>1, <2>b DEF Beside, SteppedFacts
  <2>3. at'.op \notin Rm!BusyOps \/ (f.kind = "work" /\ f.step # "confirm")
    BY <2>1, <2>b, <1>g
  <2> QED BY <2>b, <2>2, <2>3, <1>0, <1>q, SteppedKept
<1>h. ASSUME NEW i \in DOMAIN at.flows, at.flows[i].kind = "work", NEW s \in {"send", "download", "wait", "again"}, at' = Rm!Step(at, i, s)
      PROVE  RemoteInv'
  <2>b. PICK f : SteppedFacts(at, at', i, f) /\ f.kind = at.flows[i].kind /\ f.gone = at.flows[i].gone /\ f.step = s
    <3>1. s \in Steps
      BY DEF Steps
    <3> QED BY <1>h, <3>1, <1>0, StepIs
  <2> QED BY <2>b, <1>0, <1>q, SteppedKept DEF SteppedFacts
<1>14. ASSUME NEW i \in DOMAIN at.flows, Rm!Confirm(i) PROVE RemoteInv'
  <2>0. at.flows[i].kind \in {"probe", "info", "work"} /\ ~Works2(at.flows[i]) /\ at.flows[i].kind = "work"
    BY <1>14 DEF Rm!Confirm, Works2
  <2>1. CASE at' = Rm!End1(at, i)
    <3>1. EndFacts(at, at', i)
      BY <2>1, <1>0, EndIs
    <3> QED BY <2>0, <2>1, <3>1, <1>e, <1>q DEF EndFacts
  <2>2. CASE at' = [Rm!Step(at, i, "send") EXCEPT !.op = Rm!Begun(at.flows[i].op)]
    BY <2>0, <2>2, <1>g
  <2> QED BY <2>1, <2>2, <1>14 DEF Rm!Confirm
<1>15. ASSUME NEW i \in DOMAIN at.flows, Rm!Send(i) PROVE RemoteInv'
  <2>0. at.flows[i].kind = "work" /\ "idle" \notin Rm!BusyOps
    BY <1>15 DEF Rm!Send, Rm!BusyOps
  <2>1. \/ at' = [Rm!End1(at, i) EXCEPT !.op = "error"]
        \/ at' = [Rm!End1(at, i) EXCEPT !.op = "checked"]
        \/ at' = Rm!Step(at, i, "wait")
        \/ at' = Rm!Step(at, i, "download")
        \/ at' = [Rm!Step(at, i, "wait") EXCEPT !.op = "restarting"]
        \/ at' = [Rm!Step(at, i, "confirm") EXCEPT !.op = "idle"]
    BY <1>15 DEF Rm!Send, Rm!Fail
  <2> QED BY <2>0, <2>1, <1>f, <1>g, <1>h
<1>16. ASSUME NEW i \in DOMAIN at.flows, Rm!Download(i) PROVE RemoteInv'
  <2>0. at.flows[i].kind = "work" /\ at.flows[i].step = "download"
    BY <1>16 DEF Rm!Download
  <2>1. CASE at' = [at EXCEPT !.op = "downloading"]
    <3>1. RemoteTypes(at') /\ Beside(at', at)
      BY <2>1, <1>0, WithOp
    <3>2. Working(at.flows)
      BY <2>0 DEF Working, Works2
    <3>3. Covered(at'.open, at'.phase, at'.op, at'.flows)
      BY <3>1, <3>2, <1>0 DEF Kept, Covered, Beside
    <3> QED BY <3>1, <3>3, <1>q DEF Kept
  <2>2. \/ at' = [at EXCEPT !.op = "downloading"]
        \/ at' = [Rm!End1(at, i) EXCEPT !.op = "error"]
        \/ at' = [Rm!Step(at, i, "wait") EXCEPT !.op = "restarting"]
    BY <1>16 DEF Rm!Download, Rm!Fail
  <2> QED BY <2>0, <2>1, <2>2, <1>f, <1>g
<1>17. ASSUME NEW i \in DOMAIN at.flows, Rm!Wait(i) PROVE RemoteInv'
  <2>0. at.flows[i].kind = "work" /\ at.flows[i] \in Flow /\ at.flows[i].step = "wait"
    BY <1>17, <1>0 DEF Rm!Wait, RemoteTypes
  <2>1. CASE at' = [at EXCEPT !.flows[i].down = TRUE]
    <3>a. PICK f : f = [at.flows[i] EXCEPT !.down = TRUE]
      OBVIOUS
    <3>1. f \in Flow /\ f.kind = at.flows[i].kind /\ f.gone = at.flows[i].gone /\ f.step = at.flows[i].step
      BY <3>a, <2>0 DEF Flow
    <3>b. PICK fs : fs = [at.flows EXCEPT ![i] = f]
      OBVIOUS
    <3>2. fs \in Seq(Flow)
      BY <3>1, <3>b, <1>0 DEF RemoteTypes
    <3>3. at' = [at EXCEPT !.flows = fs]
      BY <2>1, <3>a, <3>b, <1>0 DEF RemoteTypes, Rec, RemoteFields
    <3>4. SteppedFacts(at, at', i, f)
      BY <3>1, <3>2, <3>3, <3>b, <1>0 DEF SteppedFacts, RemoteTypes, Rec, RemoteFields
    <3> QED BY <3>1, <3>4, <2>0, <1>0, <1>q, SteppedKept DEF SteppedFacts
  <2>2. \/ at' = [at EXCEPT !.flows[i].down = TRUE]
        \/ at' = Rm!Step(at, i, "again")
        \/ at' = [Rm!End1(at, i) EXCEPT !.op = "error"]
    BY <1>17 DEF Rm!Wait, Rm!Fail
  <2> QED BY <2>0, <2>1, <2>2, <1>f, <1>h
<1>18. CASE UNCHANGED at
  BY <1>18, <1>0, <1>q
<1> QED
  <2> USE <1>1, <1>2, <1>3, <1>4, <1>5, <1>6, <1>7, <1>8
  <2>1. CASE \E i \in DOMAIN at.flows : Rm!OpenStep(i) \/ Rm!SubmitStep(i) \/ Rm!RetryStep(i) \/ Rm!ProbeStep(i) \/ Rm!InfoStep(i)
                                        \/ Rm!Confirm(i) \/ Rm!Send(i) \/ Rm!Download(i) \/ Rm!Wait(i) \/ Rm!Again(i)
    BY <2>1, <1>9, <1>10, <1>11, <1>12, <1>13, <1>14, <1>15, <1>16, <1>17
  <2> QED BY <2>1, <1>18 DEF Rm!RemoteNext

\* What is under way is told of when it ends.
LEMMA RemoteLive == RemoteInv => Rm!NeverStuck
<1> SUFFICES ASSUME RemoteInv PROVE Rm!NeverStuck
  OBVIOUS
<1>1. Connecting(at.flows) => \E i \in DOMAIN at.flows : at.flows[i].kind \in {"open", "retry"} /\ ~at.flows[i].gone
  BY DEF Connecting, Connects
<1>2. \A i \in DOMAIN at.flows : at.flows[i] \in Flow
  BY DEF RemoteInv, RemoteTypes
<1>3. Signing(at.flows) => \E i \in DOMAIN at.flows : at.flows[i].kind \in {"submit"} /\ ~at.flows[i].gone
  BY <1>2 DEF Signing, Flow
<1>4. Working(at.flows) => \E i \in DOMAIN at.flows : at.flows[i].kind \in {"work"} /\ ~at.flows[i].gone
  BY <1>2 DEF Working, Works2, Flow
<1> QED BY <1>1, <1>3, <1>4 DEF RemoteInv, Covered, Rm!NeverStuck

---------------------------------------------------------------------------
\* Each page or dialog keeps its invariant while it is in use.
FlowsInv ==
  /\ scene = "session" => SessionInv
  /\ scene = "dialogs" => AliveInv
  /\ scene = "question" => QuestionInv
  /\ scene = "hold" => HoldInv
  /\ scene = "upload" => UploadInv
  /\ scene = "log" => LogInv /\ PagedInv
  /\ scene = "upgrade" => UpgradeInv
  /\ scene = "audit" => AuditInv
  /\ scene = "pan" => PanInv
  /\ scene = "remote" => RemoteInv

LEMMA FlowsStarts == FlowsInit => FlowsInv
BY SessionStarts, AliveStarts, QuestionStarts, HoldStarts, UploadStarts, LogStarts, PagedStarts, UpgradeStarts, AuditStarts, PanStarts, RemoteStarts
   DEF FlowsInit, FlowStart, FlowsInv

LEMMA FlowsKeep == FlowsInv /\ [FlowsNext]_vars => FlowsInv'
<1> SUFFICES ASSUME FlowsInv, [FlowsNext]_vars PROVE FlowsInv'
  OBVIOUS
<1>0. scene' = scene
  BY DEF FlowsNext, vars
<1>1. ASSUME scene = "session" PROVE SessionInv'
  <2>1. SessionInv /\ [Ss!SessionNext]_at
    BY <1>1 DEF FlowsNext, vars, FlowStep, FlowsInv
  <2> QED BY <2>1, SessionStep
<1>2. ASSUME scene = "question" PROVE QuestionInv'
  <2>1. QuestionInv /\ [Dg!QuestionNext]_at
    BY <1>2 DEF FlowsNext, vars, FlowStep, FlowsInv
  <2> QED BY <2>1, QuestionStep
<1>3. ASSUME scene = "hold" PROVE HoldInv'
  <2>1. HoldInv /\ [Dg!HoldNext]_at
    BY <1>3 DEF FlowsNext, vars, FlowStep, FlowsInv
  <2> QED BY <2>1, HoldStep
<1>4. ASSUME scene = "upload" PROVE UploadInv'
  <2>1. UploadInv /\ [Up!UploadNext]_at
    BY <1>4 DEF FlowsNext, vars, FlowStep, FlowsInv
  <2> QED BY <2>1, UploadStep
<1>5. ASSUME scene = "log" PROVE LogInv' /\ PagedInv'
  <2>1. LogInv /\ PagedInv /\ [Lg!LogNext]_at
    BY <1>5 DEF FlowsNext, vars, FlowStep, FlowsInv
  <2> QED BY <2>1, LogStep, PagedStep
<1>6. ASSUME scene = "upgrade" PROVE UpgradeInv'
  <2>1. UpgradeInv /\ [Up!UpgradeNext]_at
    BY <1>6 DEF FlowsNext, vars, FlowStep, FlowsInv
  <2> QED BY <2>1, UpgradeStep
<1>7. ASSUME scene = "audit" PROVE AuditInv'
  <2>1. AuditInv /\ [Au!AuditNext]_at
    BY <1>7 DEF FlowsNext, vars, FlowStep, FlowsInv
  <2> QED BY <2>1, AuditStep
<1>8. ASSUME scene = "pan" PROVE PanInv'
  <2>1. PanInv /\ [Pz!PanNext]_at
    BY <1>8 DEF FlowsNext, vars, FlowStep, FlowsInv
  <2> QED BY <2>1, PanStep
<1>9. ASSUME scene = "remote" PROVE RemoteInv'
  <2>1. RemoteInv /\ [Rm!RemoteNext]_at
    BY <1>9 DEF FlowsNext, vars, FlowStep, FlowsInv
  <2> QED BY <2>1, RemoteStep
<1>10. ASSUME scene = "dialogs" PROVE AliveInv'
  <2>1. AliveInv /\ [Dg!DialogsNext]_at
    BY <1>10 DEF FlowsNext, vars, FlowStep, FlowsInv
  <2> QED BY <2>1, AliveStep
<1> QED BY <1>0, <1>1, <1>2, <1>3, <1>4, <1>5, <1>6, <1>7, <1>8, <1>9, <1>10 DEF FlowsInv

\* The invariants hold throughout, whatever page or dialog is in use.
THEOREM FlowsHold == FlowsSpec => []FlowsInv
BY FlowsStarts, FlowsKeep, PTL DEF FlowsSpec

\* A browser that has signed out, in this tab or another, holds nothing that
\* signs it in (lib/store.ts, App.tsx, api/client.ts).
THEOREM LeavesNothingBehind == FlowsSpec => []LeavesNothing
<1>1. FlowsInv => LeavesNothing
  BY DEF FlowsInv, LeavesNothing, SessionInv, Good, Holds, LeftClean, Ss!SignedOutIsClean
<1> QED BY <1>1, FlowsHold, PTL

\* Nothing shows progress, blocks the page or holds the pointer with nothing
\* left to end it (Modal.tsx, RemoteNodeDialog.tsx, UpgradeDialog.tsx, usePanZoom.ts).
THEOREM AllEnds == FlowsSpec => []NothingStuck
<1>1. FlowsInv => NothingStuck
  <2>1. scene = "upload" /\ FlowsInv => Up!UploadNotStuck
    BY DEF FlowsInv, UploadInv
  <2> QED BY <2>1, AliveShown, RemoteLive, UpgradeLive, PanShown DEF FlowsInv, NothingStuck
<1> QED BY <1>1, FlowsHold, PTL

\* An answer that comes late, or to a question asked before another, is never
\* taken for the current one (ConfirmDialog, LogsPage.tsx, AuditPage.tsx).
THEOREM LateIsDropped == FlowsSpec => []LatestCounts
<1>1. FlowsInv => LatestCounts
  <2>1. scene = "question" /\ FlowsInv => Dg!LastIsAsked
    BY DEF FlowsInv, QuestionInv
  <2> QED BY <2>1, AuditPaged, LogTold, PageShown DEF FlowsInv, LatestCounts
<1> QED BY <1>1, FlowsHold, PTL

\* A press counts once, as what it was (usePanZoom.ts, lib/longpress).
THEOREM PressIsOnce == FlowsSpec => []PressesCount
<1>1. FlowsInv => PressesCount
  <2>1. scene = "hold" /\ FlowsInv => Dg!HoldOnlyOpens
    BY DEF FlowsInv, HoldInv, Dg!HoldOnlyOpens
  <2> QED BY <2>1, PanShown DEF FlowsInv, PressesCount
<1> QED BY <1>1, FlowsHold, PTL
=============================================================================

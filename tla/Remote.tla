-------------------------------- MODULE Remote ------------------------------
(***************************************************************************)
(* The dialog that signs in to another node through the mesh and restarts  *)
(* or upgrades it (components/RemoteModal.tsx), over the sessions the tab  *)
(* keeps (utils/remoteAuth.ts).                                            *)
(*                                                                         *)
(* Everything asynchronous is a flow: what it captured when it started and *)
(* where it stands. Closing the dialog ends no flow; only the sign-in of   *)
(* the opening is told that it is gone.                                    *)
(***************************************************************************)
EXTENDS Integers, Sequences, FiniteSets, SequencesExt

CONSTANTS Flows,       \* bound on flows at a time
          Tokens       \* bound on sessions the remote gives out

VARIABLE remote

None2 == [token |-> 0, via |-> "none"]
BusyOps == {"checking", "downloading", "pushing", "restarting"}
SignedIn(r) == r.phase = "in" /\ r.auth.token # 0
Flow1(kind) == [kind |-> kind, step |-> "", op |-> "", auth |-> None2, down |-> FALSE, gone |-> FALSE]
Start(r, f) == [r EXCEPT !.flows = Append(@, f)]
End1(r, i) == [r EXCEPT !.flows = RemoveAt(@, i)]
Step(r, i, s) == [r EXCEPT !.flows[i].step = s]
Room1 == Len(remote.flows) < Flows

\* setAuth: shown and kept at once; a new sign-in also asks for the remote's version.
SetAuth(r, a) ==
  LET s == [r EXCEPT !.auth = a, !.stored = a, !.phase = IF a.token = 0 THEN "out" ELSE "in"]
  IN  IF s.open /\ a.token # 0 /\ (a # r.auth \/ r.phase # "in") THEN Start(s, [Flow1("info") EXCEPT !.auth = a]) ELSE s

RemoteInits ==
  {[open |-> FALSE, phase |-> "checking", auth |-> None2, stored |-> None2, cred |-> FALSE, info |-> FALSE, op |-> "idle",
    flows |-> <<>>, valid |-> {}, up |-> TRUE, trust |-> t, next |-> 1] : t \in BOOLEAN}

---------------------------------------------------------------------------
\* The remote node. A restart ends its sessions; a cut tunnel does not.

Accepts(r, token) == r.up /\ token \in r.valid
New(r, via) == [token |-> r.next, via |-> via]
Opened(r) == [r EXCEPT !.valid = @ \cup {r.next}, !.next = @ + 1]
Cut == remote.up /\ remote' = [remote EXCEPT !.up = FALSE]
Back == ~remote.up /\ remote' = [remote EXCEPT !.up = TRUE]
NodeRestart == remote.valid # {} /\ remote' = [remote EXCEPT !.up = FALSE, !.valid = {}]

\* autoSignIn: the relay trust, then the credentials this tab has, which the
\* remote may refuse.
AutoOk(r) == r.up /\ r.next <= Tokens
Auto(r, a) ==
  \/ AutoOk(r) /\ r.trust /\ a = New(r, "trust")
  \/ AutoOk(r) /\ ~r.trust /\ a = New(r, "password")
  \/ (~r.up \/ ~r.trust \/ r.next > Tokens) /\ a = None2
SignedBy(r, a) == IF a.token = 0 THEN r ELSE [Opened(r) EXCEPT !.cred = @ \/ a.via = "password"]
Outcomes(r) == {None2, New(r, "trust"), New(r, "password")}

---------------------------------------------------------------------------
\* Opening, signing in and out.

Open ==
  /\ ~remote.open /\ Room1
  /\ remote' = Start([remote EXCEPT !.open = TRUE, !.op = "idle", !.info = FALSE, !.phase = "checking"],
                     [Flow1("open") EXCEPT !.step = "stored"])
Close ==
  /\ remote.open
  /\ remote' = [remote EXCEPT !.open = FALSE,
                              !.flows = [i \in DOMAIN @ |-> IF @[i].kind = "open" THEN [@[i] EXCEPT !.gone = TRUE] ELSE @[i]]]

\* A kept session that still works is used; otherwise the automatic sign-in.
OpenStep(i) ==
  LET f == remote.flows[i]
      take(r, a) == IF f.gone THEN End1(r, i) ELSE SetAuth(End1(r, i), a)
  IN  /\ f.kind = "open"
      /\ \/ /\ f.step = "stored"
            /\ remote' = IF remote.stored.token # 0 /\ Accepts(remote, remote.stored.token)
                         THEN take(remote, remote.stored) ELSE Step(remote, i, "auto")
         \/ /\ f.step = "auto"
            /\ \E a \in Outcomes(remote) : Auto(remote, a) /\ remote' = take(SignedBy(remote, a), a)

FormShown == remote.open /\ remote.phase \in {"out", "signing"}
Submit1 ==
  /\ FormShown /\ remote.phase # "signing" /\ Room1
  /\ remote' = Start([remote EXCEPT !.phase = "signing"], Flow1("submit"))
Refuse(r) == [r EXCEPT !.phase = "out"]
SubmitStep(i) ==
  /\ remote.flows[i].kind = "submit"
  /\ \/ /\ AutoOk(remote)
        /\ remote' = SetAuth(End1([Opened(remote) EXCEPT !.cred = TRUE], i), New(remote, "password"))
     \/ remote' = Refuse(End1(remote, i))
Retry == FormShown /\ Room1 /\ remote' = Start([remote EXCEPT !.phase = "checking"], Flow1("retry"))
RetryStep(i) ==
  /\ remote.flows[i].kind = "retry"
  /\ \E a \in Outcomes(remote) : Auto(remote, a) /\ remote' = SetAuth(SignedBy(End1(remote, i), a), a)

\* By its button while nothing is busy, or at the sign-in's expiry, busy or not.
\* The remote session is ended too, if the request gets there.
SignOut1 ==
  /\ SignedIn(remote) /\ (remote.open \/ remote.op \notin BusyOps)
  /\ \E reached \in {remote.up, FALSE} :
       remote' = [SetAuth(remote, None2) EXCEPT !.cred = FALSE, !.info = FALSE, !.op = "idle",
                                                !.valid = IF reached THEN @ \ {remote.auth.token} ELSE @]
\* Another page's trust probe of the same node, started when nothing was kept.
Probe == remote.stored.token = 0 /\ Room1 /\ remote.trust /\ remote' = Start(remote, Flow1("probe"))
ProbeStep(i) ==
  /\ remote.flows[i].kind = "probe"
  /\ remote' = IF AutoOk(remote) THEN [End1(Opened(remote), i) EXCEPT !.stored = New(remote, "trust")] ELSE End1(remote, i)
InfoStep(i) ==
  /\ remote.flows[i].kind = "info"
  /\ remote' = [End1(remote, i) EXCEPT !.info = Accepts(remote, remote.flows[i].auth.token)]

---------------------------------------------------------------------------
\* Operations. Each is confirmed first, with the sign-in captured at the click.

Check ==
  /\ remote.open /\ SignedIn(remote) /\ remote.op \notin BusyOps /\ Room1
  /\ remote' = Start([remote EXCEPT !.op = "checking"], [Flow1("work") EXCEPT !.op = "check", !.step = "send", !.auth = remote.auth])
Ask ==
  /\ remote.open /\ SignedIn(remote) /\ remote.op \notin BusyOps /\ remote.info /\ Room1
  /\ \E o \in {"restart", "push"} \cup (IF remote.op = "checked" THEN {"upgrade"} ELSE {}) :
       remote' = Start(remote, [Flow1("work") EXCEPT !.op = o, !.step = "confirm", !.auth = remote.auth])
Begun(o) == CASE o = "restart" -> "restarting" [] o = "push" -> "pushing" [] OTHER -> "downloading"
Confirm(i) ==
  LET f == remote.flows[i]
  IN  /\ f.kind = "work" /\ f.step = "confirm"
      /\ \/ remote' = End1(remote, i)
         \/ remote' = [Step(remote, i, "send") EXCEPT !.op = Begun(f.op)]

Fail(r, i) == [End1(r, i) EXCEPT !.op = "error"]
\* The request is refused without its session. A push of a build that is not
\* official is confirmed once more.
Send(i) ==
  LET f == remote.flows[i]
  IN  /\ f.kind = "work" /\ f.step = "send"
      /\ \/ ~Accepts(remote, f.auth.token) /\ remote' = Fail(remote, i)
         \/ /\ Accepts(remote, f.auth.token)
            /\ \/ f.op = "check" /\ remote' = [End1(remote, i) EXCEPT !.op = "checked"]
               \/ f.op = "restart" /\ remote' = Step(remote, i, "wait")
               \/ f.op = "upgrade" /\ remote' = Step(remote, i, "download")
               \/ f.op = "push" /\ remote' = [Step(remote, i, "wait") EXCEPT !.op = "restarting"]
               \/ f.op = "push" /\ remote' = [Step(remote, i, "confirm") EXCEPT !.op = "idle"]
Download(i) ==
  LET f == remote.flows[i]
  IN  /\ f.kind = "work" /\ f.step = "download"
      /\ \/ remote' = [remote EXCEPT !.op = "downloading"]
         \/ remote' = Fail(remote, i)
         \/ Accepts(remote, f.auth.token) /\ remote' = [Step(remote, i, "wait") EXCEPT !.op = "restarting"]

\* Back when the session is gone, or it answers after not answering.
Wait(i) ==
  LET f == remote.flows[i]
  IN  /\ f.kind = "work" /\ f.step = "wait"
      /\ \/ ~remote.up /\ ~f.down /\ remote' = [remote EXCEPT !.flows[i].down = TRUE]
         \/ remote.up /\ (f.down \/ f.auth.token \notin remote.valid) /\ remote' = Step(remote, i, "again")
         \/ remote' = Fail(remote, i)
\* Then it signs in again the same way.
Again(i) ==
  LET f == remote.flows[i]
  IN  /\ f.kind = "work" /\ f.step = "again"
      /\ \E a \in Outcomes(remote) :
           /\ Auto(remote, a)
           /\ LET r == SetAuth(SignedBy(End1(remote, i), a), a)
              IN  remote' = [r EXCEPT !.op = IF a.token = 0 \/ (f.auth.via = "trust" /\ a.via # "trust") THEN "error"
                                             ELSE IF f.op = "restart" THEN "restarted" ELSE "done",
                                      !.info = @ \/ (f.op # "restart" /\ a.token # 0)]

RemoteNext ==
  \/ Cut \/ Back \/ NodeRestart \/ Open \/ Close \/ Submit1 \/ Retry \/ SignOut1 \/ Probe \/ Check \/ Ask
  \/ \E i \in DOMAIN remote.flows : OpenStep(i) \/ SubmitStep(i) \/ RetryStep(i) \/ ProbeStep(i) \/ InfoStep(i)
                                    \/ Confirm(i) \/ Send(i) \/ Download(i) \/ Wait(i) \/ Again(i)

---------------------------------------------------------------------------
\* Properties.

\* Closed and opened again, signed out or expired in the middle of anything, the
\* dialog is never stuck: while it says it is connecting, signing in or busy,
\* something is still under way that will say how it ended.
NeverStuck ==
  LET Running(kinds) == \E i \in DOMAIN remote.flows : remote.flows[i].kind \in kinds /\ ~remote.flows[i].gone
  IN  /\ (remote.open /\ remote.phase = "checking") => Running({"open", "retry"})
      /\ remote.phase = "signing" => Running({"submit"})
      /\ remote.op \in BusyOps => Running({"work"})
=============================================================================

------------------------------- MODULE Session ------------------------------
(***************************************************************************)
(* Signing in and out of the console in one browser tab: the token in the  *)
(* tab's storage, the store the pages are rendered from, what is kept      *)
(* beside them, and the transitions between the two screens                *)
(* (hooks/authTransition.ts, hooks/useAuth.ts, store/auth.ts, App.tsx,     *)
(* pages/LoginPage.tsx, api/client.ts, bootstrap/handoff.ts, main.tsx).    *)
(***************************************************************************)
EXTENDS Integers, FiniteSets

CONSTANTS Logins,      \* bound on sign-ins
          Outs,        \* bound on requests under way and sign-outs they may start
          Elsewhere    \* bound on what other tabs do to what tabs share

VARIABLE tab

Foreign == 100         \* the token of another tab's session
Idle == [stage |-> "none", how |-> "", remember |-> FALSE, token |-> 0, forced |-> FALSE]
Slots == 1..Outs       \* requests under way: the token each carries, or -1

---------------------------------------------------------------------------
\* What is rendered: the login page without a session, /settings only while a
\* new password is due.
Routed(t) ==
  CASE t.store = 0 -> [t EXCEPT !.path = "login"]
    [] t.store # 0 /\ t.forced -> [t EXCEPT !.path = "settings"]
    [] t.store # 0 /\ ~t.forced /\ t.path = "login" -> [t EXCEPT !.path = "overview"]
    [] OTHER -> t

\* The arriving screen takes the hand-off of the one that was left, once.
Arrived(t) ==
  LET at == IF t.store = 0 THEN "app" ELSE "login"
      s == [t EXCEPT !.handoff = IF @ = at THEN "none" ELSE @]
  IN  IF t.store = 0 THEN [s EXCEPT !.saved = (t.cred # "none" /\ ~t.proxy)] ELSE s
Show(t, s) == IF (t.store = 0) = (s.store = 0) THEN Routed(s) ELSE Arrived(Routed(s))

\* A page that starts: the store is what the tab's storage holds.
Started(t) ==
  Arrived(Routed([t EXCEPT !.store = t.stored, !.forced = FALSE, !.sign = Idle, !.outs = [asking |-> 0, leaving |-> 0],
                           !.calls = [i \in Slots |-> -1], !.handoff = "none"]))

\* A proxied page without a token may be given one: handed over by the page
\* that opened it, or minted by the node. 50 stands for that token.
TokensAt(t) == IF t.proxy /\ t.stored = 0 THEN {0, 50} ELSE {t.stored}
Blank(proxy, cred) ==
  [proxy |-> proxy, path |-> "login", stored |-> 0, store |-> 0, hash |-> FALSE, cookie |-> 0, cred |-> cred,
   saved |-> FALSE, forced |-> FALSE, sign |-> Idle, outs |-> [asking |-> 0, leaving |-> 0],
   calls |-> [i \in Slots |-> -1], valid |-> {}, handoff |-> "none", next |-> 1, elsewhere |-> Elsewhere]
Opened(t) == {Started([t EXCEPT !.stored = k, !.valid = {k} \ {0}]) : k \in TokensAt(t)}
SessionInits == UNION {Opened(Blank(p, c)) : p \in BOOLEAN, c \in {"none", "right", "stale"}}

Reload == tab' \in {Started([tab EXCEPT !.stored = k, !.valid = IF k = 0 THEN @ ELSE @ \cup {k}]) : k \in TokensAt(tab)}

---------------------------------------------------------------------------
\* Signing in.

\* The form is sent: with the saved hash while its field is untouched, or with
\* a typed password.
Submit ==
  /\ tab.path = "login" /\ ~tab.proxy /\ tab.sign.stage = "none" /\ tab.next <= Logins
  /\ \E how \in {"typed", "saved"}, keep \in BOOLEAN :
       /\ how = "saved" => tab.saved /\ tab.cred # "none"
       /\ tab' = [tab EXCEPT !.sign = [Idle EXCEPT !.stage = "asked", !.how = how, !.remember = keep],
                             !.saved = @ /\ how = "saved"]

\* Accepted: everything is stored, then the screens change, at once or after a
\* fade. A typed password that is not to be remembered forgets a saved one.
Stored(t, forced) ==
  [t EXCEPT !.stored = t.next, !.valid = @ \cup {t.next}, !.hash = TRUE, !.cookie = t.next, !.next = @ + 1,
            !.cred = IF t.sign.remember THEN "right" ELSE IF t.sign.how = "typed" THEN "none" ELSE @,
            !.sign = [@ EXCEPT !.stage = "entering", !.token = t.next, !.forced = forced]]
Accepted ==
  /\ tab.sign.stage = "asked" /\ (tab.sign.how = "saved" => tab.cred = "right")
  /\ \E forced, fade \in BOOLEAN : tab' = [Stored(tab, forced) EXCEPT !.handoff = IF fade THEN "login" ELSE @]
\* Refused, or not answered: a saved password is forgotten then.
Refused ==
  /\ tab.sign.stage = "asked"
  /\ tab' = [tab EXCEPT !.sign = Idle, !.cred = IF tab.sign.how = "saved" THEN "none" ELSE @]
Enter ==
  /\ tab.sign.stage = "entering"
  /\ tab' = Show(tab, [tab EXCEPT !.store = tab.sign.token, !.forced = tab.sign.forced, !.sign = Idle, !.path = "overview"])

---------------------------------------------------------------------------
\* Requests, and the end of a session.

Go == /\ tab.store # 0 /\ \E p \in {"overview", "settings"} : tab' = Routed([tab EXCEPT !.path = p])
Room == tab.outs.asking + tab.outs.leaving + Cardinality({i \in Slots : tab.calls[i] # -1}) < Outs
Call ==
  /\ tab.store # 0 /\ Room
  /\ \E i \in Slots : tab.calls[i] = -1 /\ tab' = [tab EXCEPT !.calls[i] = tab.stored]
\* Every 401 signs the tab out while the app is shown, whosever token it was.
Answer ==
  \E i \in Slots :
    /\ tab.calls[i] # -1
    /\ LET done == [tab EXCEPT !.calls[i] = -1]
       IN  tab' = IF tab.calls[i] \in tab.valid \/ tab.store = 0 THEN done ELSE [done EXCEPT !.outs.asking = @ + 1]
SignOut == tab.store # 0 /\ Room /\ tab' = [tab EXCEPT !.outs.asking = @ + 1]

\* (a plausible mistake: the hash for remote nodes is not cleared)
EndSessionM(t) == [t EXCEPT !.stored = 0, !.store = 0, !.forced = FALSE, !.cookie = IF t.proxy THEN @ ELSE 0]
EndSession(t) ==
  [t EXCEPT !.stored = 0, !.store = 0, !.forced = FALSE,
            !.hash = IF t.proxy THEN @ ELSE FALSE, !.cookie = IF t.proxy THEN @ ELSE 0]
\* The node serves this build: fade (or not) and hand over. Otherwise: reload.
SameBuild ==
  /\ tab.outs.asking > 0
  /\ LET t == [tab EXCEPT !.outs.asking = @ - 1]
     IN  \/ tab.store # 0 /\ tab' = [t EXCEPT !.outs.leaving = @ + 1]
         \/ tab' = Show(tab, EndSession(t))
OtherBuild == tab.outs.asking > 0 /\ tab' = Started(EndSession(tab))
Leave ==
  /\ tab.outs.leaving > 0
  /\ tab' = Show(tab, [EndSession([tab EXCEPT !.outs.leaving = @ - 1]) EXCEPT !.handoff = "app"])

\* The node forgets a session; another tab signs in or out, or saves a password.
Expire == \E k \in tab.valid : tab' = [tab EXCEPT !.valid = @ \ {k}]
OtherTab ==
  /\ tab.elsewhere > 0
  /\ \/ \E k \in {0, Foreign} : tab' = [tab EXCEPT !.cookie = k, !.elsewhere = @ - 1]
     \/ \E c \in {"none", "right", "stale"} : tab' = [tab EXCEPT !.cred = c, !.elsewhere = @ - 1]

SessionNext == Reload \/ Submit \/ Accepted \/ Refused \/ Enter \/ Go \/ Call \/ Answer \/ SignOut
               \/ SameBuild \/ OtherBuild \/ Leave \/ Expire \/ OtherTab

---------------------------------------------------------------------------
\* Properties.

\* However many sign-outs and sign-ins overlap, a tab that shows the login page
\* and is not entering the app has nothing left of a session: no token, no hash
\* for remote nodes, and the shared cookie only if it is another tab's
\* (endSession, Accepted's order of stores, a reload in between).
SignedOutIsClean ==
  (tab.store = 0 /\ tab.sign.stage # "entering") =>
    /\ tab.stored = 0
    /\ ~tab.proxy => ~tab.hash /\ tab.cookie \in {0, Foreign}
=============================================================================

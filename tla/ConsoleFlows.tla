----------------------------- MODULE ConsoleFlows -----------------------------
(***************************************************************************)
(* The pages and dialogs of the web interface that are about what comes    *)
(* when: signing in and out, other nodes and upgrades, dialogs and         *)
(* questions, gestures, polls. What is stated of the parts is collected    *)
(* here under what the user may rely on.                                   *)
(***************************************************************************)
EXTENDS ConsoleScene, Naturals

CONSTANTS Rendered, Questions, Logins, Outs, Elsewhere, Flows, Tokens, JobSteps, Devices, PanActs, MaxZoom,
          LogLines, LogRestarts, LogRing, LogMax, LogPage, AuditPages, AuditLoads, AuditFilters
ASSUME ZoomAssumption == MaxZoom \in Nat \ {0}   \* the steps of the zoom, the least of them 1
ASSUME DialogsAssumption == Rendered \in Nat
ASSUME LogAssumption == LogPage \in Nat \ {0} /\ LogRing \in Nat /\ LogMax \in Nat

Dg == INSTANCE Dialogs WITH dialogs <- at, question <- at, hold <- at
Ss == INSTANCE Session WITH tab <- at
Rm == INSTANCE Remote WITH remote <- at
Up == INSTANCE Upgrade WITH upgrade <- at, upload <- at
Pz == INSTANCE PanZoom WITH pan <- at
Lg == INSTANCE LogView WITH log <- at
Au == INSTANCE AuditView WITH audit <- at

\* Where a page or dialog starts, and what may happen while it is in use.
FlowStart(s) ==
  \/ s = "dialogs" /\ at \in Dg!DialogsInits
  \/ s = "question" /\ at \in Dg!QuestionInits
  \/ s = "hold" /\ at \in Dg!HoldInits
  \/ s = "session" /\ at \in Ss!SessionInits
  \/ s = "remote" /\ at \in Rm!RemoteInits
  \/ s = "upgrade" /\ at \in Up!UpgradeInits
  \/ s = "upload" /\ at \in Up!UploadInits
  \/ s = "pan" /\ at \in Pz!PanInits
  \/ s = "log" /\ at \in Lg!LogInits
  \/ s = "audit" /\ at \in Au!AuditInits

FlowStep(s) ==
  \/ s = "dialogs" /\ Dg!DialogsNext
  \/ s = "question" /\ Dg!QuestionNext
  \/ s = "hold" /\ Dg!HoldNext
  \/ s = "session" /\ Ss!SessionNext
  \/ s = "remote" /\ Rm!RemoteNext
  \/ s = "upgrade" /\ Up!UpgradeNext
  \/ s = "upload" /\ Up!UploadNext
  \/ s = "pan" /\ Pz!PanNext
  \/ s = "log" /\ Lg!LogNext
  \/ s = "audit" /\ Au!AuditNext

FlowsInit == \E s \in Scenes : scene = s /\ FlowStart(s)
FlowsNext == FlowStep(scene) /\ UNCHANGED scene
FlowsSpec == FlowsInit /\ [][FlowsNext]_vars

---------------------------------------------------------------------------
\* A browser that is signed out holds nothing that signs it in.
LeavesNothing == scene = "session" => Ss!SignedOutIsClean

\* Nothing shows progress, blocks the page or holds the pointer with nothing left
\* to end it: the dialog of another node, the upgrade feed and its upload, a
\* gesture on a canvas; every open dialog is on the stack once and takes clicks or
\* is about to, and one that is closed is on its way out.
NothingStuck ==
  /\ scene = "dialogs" => Dg!NeverDead
  /\ scene = "remote" => Rm!NeverStuck
  /\ scene = "upgrade" => Up!LiveWhileShown
  /\ scene = "upload" => Up!UploadNotStuck
  /\ scene = "pan" => Pz!GesturesEnd /\ Pz!GlideHasTarget

\* An answer that comes late, or to a question asked before another, is never
\* taken for the current one: the confirmation, the audit pages, the news of the
\* log, whose page on view is one that has lines.
LatestCounts ==
  /\ scene = "question" => Dg!LastIsAsked
  /\ scene = "audit" => Au!PagesOfFilter
  /\ scene = "log" => Lg!UnseenIsTold /\ Lg!PageOnView

\* A press counts once, as what it was: a click after a moved view does nothing,
\* one that moved nothing works, and a long one that opens a menu does not act.
PressesCount == (scene = "pan" => Pz!ClickIgnored /\ Pz!PressWorks) /\ (scene = "hold" => Dg!HoldOnlyOpens)
=============================================================================

-------------------------------- MODULE Upgrade -----------------------------
(***************************************************************************)
(* The node's own upgrade in the console: the live stream of the job's     *)
(* state (api/client.ts, liveStream), the store and button it drives       *)
(* (components/upgrade.tsx) and the upload of a package                    *)
(* (components/UpgradeUploadModal.tsx).                                    *)
(***************************************************************************)
EXTENDS Integers, Sequences, FiniteSets

CONSTANTS JobSteps     \* bound on changes of the node's job

VARIABLES upgrade,      \* the feed, the store, the button, and the node's job
          upload        \* the upload dialog

\* The job on the node: its state, whether a newer release is known, and a
\* count that tells its states apart.
Job(st, latest, n) == [state |-> st, latest |-> latest, n |-> n]
NoStatus == Job("none", FALSE, 0)
Closed1 == [es |-> "none", timer |-> FALSE, idle |-> FALSE, gone |-> TRUE]
NoUpload == [open |-> FALSE, file |-> FALSE, busy |-> FALSE, sending |-> 0, asking |-> "no"]

UpgradeInits ==
  {[stream |-> Closed1, hidden |-> FALSE, status |-> NoStatus, job |-> Job("idle", FALSE, 1), frames |-> <<>>, fetches |-> {},
    checking |-> FALSE, applying |-> FALSE, asked |-> FALSE, reload |-> FALSE]}

---------------------------------------------------------------------------
\* liveStream: one EventSource, reopened after an error or when the tab is shown.

CloseEs(s) == [s EXCEPT !.es = "none", !.timer = FALSE]
OpenEs(s) == [CloseEs(s) EXCEPT !.es = "open"]

\* Opening a stream brings the job's state as its first frame.
WithStream(u, s) ==
  [u EXCEPT !.stream = s, !.frames = IF s.es = "open" THEN <<u.job>> ELSE IF s.es = "none" THEN <<>> ELSE @]

\* The main layout mounts where upgrades are possible: a fetch and the stream.
Subscribe ==
  /\ upgrade.stream.gone
  /\ upgrade' = [WithStream(upgrade, OpenEs([upgrade.stream EXCEPT !.gone = FALSE])) EXCEPT !.fetches = @ \cup {[at |-> upgrade.job]}]
Unsubscribe ==
  /\ ~upgrade.stream.gone
  /\ upgrade' = WithStream(upgrade, [CloseEs(upgrade.stream) EXCEPT !.gone = TRUE, !.idle = FALSE])

\* An error the browser retries by itself, or one it gives up on: then the state
\* is fetched and the stream reopened later.
Retrying == upgrade.stream.es = "open" /\ upgrade' = WithStream(upgrade, [upgrade.stream EXCEPT !.es = "retry"])
Resumed == upgrade.stream.es = "retry" /\ upgrade' = WithStream(upgrade, [upgrade.stream EXCEPT !.es = "open"])
GaveUp ==
  /\ upgrade.stream.es \in {"open", "retry"}
  /\ upgrade' = [WithStream(upgrade, [CloseEs(upgrade.stream) EXCEPT !.timer = TRUE]) EXCEPT !.fetches = @ \cup {[at |-> upgrade.job]}]
Reopen == upgrade.stream.timer /\ upgrade' = WithStream(upgrade, OpenEs(upgrade.stream))

Hide == /\ ~upgrade.hidden
        /\ upgrade' = [upgrade EXCEPT !.hidden = TRUE, !.stream.idle = ~upgrade.stream.gone]
IdleClose == upgrade.stream.idle /\ upgrade' = WithStream(upgrade, [CloseEs(upgrade.stream) EXCEPT !.idle = FALSE])
Show2 ==
  /\ upgrade.hidden
  /\ LET s == [upgrade.stream EXCEPT !.idle = FALSE]
         u == [upgrade EXCEPT !.hidden = FALSE]
     IN  upgrade' = IF s.gone \/ s.es # "none" THEN [u EXCEPT !.stream = s] ELSE WithStream(u, OpenEs(s))

---------------------------------------------------------------------------
\* The store. A frame or a fetched state replaces what was known; the first
\* idle state without a known release starts a check.

Take(u, st) ==
  LET s == [u EXCEPT !.status = st]
  IN  IF st.state = "idle" /\ ~st.latest /\ ~u.checking /\ (u.status.state # "idle" \/ u.status.latest)
      THEN [s EXCEPT !.checking = TRUE] ELSE s
Frame ==
  /\ upgrade.frames # <<>> /\ upgrade.stream.es = "open"
  /\ upgrade' = Take([upgrade EXCEPT !.frames = Tail(@)], Head(upgrade.frames))
Fetched ==
  \E f \in upgrade.fetches :
    \/ upgrade' = Take([upgrade EXCEPT !.fetches = @ \ {f}], f.at)
    \/ upgrade' = [upgrade EXCEPT !.fetches = @ \ {f}]

\* The node: the job moves on, and every open stream is told.
Moves(st) ==
  CASE st = "idle" -> {"checking", "downloading"} [] st = "checking" -> {"idle", "error"} [] st = "downloading" -> {"ready", "error"}
    [] st = "ready" -> {"applying"} [] OTHER -> {"idle"}
JobMoves(u, st, latest) ==
  LET j == Job(st, latest, u.job.n + 1)
  IN  [u EXCEPT !.job = j, !.frames = IF u.stream.es = "open" THEN Append(@, j) ELSE @]
NodeMoves ==
  /\ upgrade.job.n < JobSteps
  /\ \E st \in Moves(upgrade.job.state) : upgrade' = JobMoves(upgrade, st, upgrade.job.latest \/ upgrade.job.state = "checking")

---------------------------------------------------------------------------
\* The button: check, download, apply; which one is offered depends on the store.

Offers(u) ==
  IF u.applying \/ u.status.state \in {"none", "downloading", "applying"} THEN "nothing"
  ELSE IF u.status.state = "ready" THEN "apply"
  ELSE IF u.status.latest THEN "download"
  ELSE IF u.checking \/ u.status.state = "checking" THEN "nothing" ELSE "check"
CheckClick == Offers(upgrade) = "check" /\ upgrade' = [upgrade EXCEPT !.checking = TRUE]
CheckDone == upgrade.checking /\ upgrade' = [upgrade EXCEPT !.checking = FALSE]
DownloadClick ==
  /\ Offers(upgrade) = "download" /\ upgrade.job.n < JobSteps
  /\ upgrade' = IF upgrade.job.state = "idle" THEN JobMoves(upgrade, "downloading", upgrade.job.latest) ELSE upgrade
ApplyClick == Offers(upgrade) = "apply" /\ ~upgrade.asked /\ upgrade' = [upgrade EXCEPT !.asked = TRUE]
ApplyAnswer ==
  /\ upgrade.asked
  /\ LET u == [upgrade EXCEPT !.asked = FALSE]
     IN  \/ upgrade' = u
         \/ upgrade.job.state # "ready" /\ upgrade' = u
         \/ upgrade.job.state = "ready" /\ upgrade.job.n < JobSteps
            /\ upgrade' = [JobMoves(u, "applying", u.job.latest) EXCEPT !.applying = TRUE, !.reload = TRUE]
PageReload ==
  /\ upgrade.reload
  /\ upgrade' = [upgrade EXCEPT !.stream = Closed1, !.hidden = FALSE, !.status = NoStatus, !.frames = <<>>, !.fetches = {},
                                !.checking = FALSE, !.applying = FALSE, !.asked = FALSE, !.reload = FALSE]

UpgradeNext ==
  \/ Subscribe \/ Unsubscribe \/ Retrying \/ Resumed \/ GaveUp \/ Reopen \/ Hide \/ IdleClose \/ Show2
  \/ Frame \/ Fetched \/ NodeMoves \/ CheckClick \/ CheckDone \/ DownloadClick \/ ApplyClick \/ ApplyAnswer \/ PageReload

---------------------------------------------------------------------------
\* The package upload: confirmed, and once more for a build that is not
\* official. Closing the dialog does not stop what is being sent.

UploadInits == {NoUpload}
OpenUpload == ~upload.open /\ upload' = [upload EXCEPT !.open = TRUE]
ClosedUpload(u) == [u EXCEPT !.open = FALSE, !.file = FALSE, !.busy = FALSE]
CloseUpload == upload.open /\ upload' = ClosedUpload(upload)
PickFile == upload.open /\ ~upload.busy /\ upload' = [upload EXCEPT !.file = TRUE]
UploadClick == /\ upload.open /\ upload.file /\ ~upload.busy /\ upload.asking = "no"
               /\ upload' = [upload EXCEPT !.asking = "install"]
UploadAnswer ==
  /\ upload.asking # "no"
  /\ LET ended == [upload EXCEPT !.asking = "no", !.busy = FALSE]
     IN  \/ upload' = ended
         \/ upload.sending < 2 /\ upload' = [ended EXCEPT !.busy = TRUE, !.sending = @ + 1]
Uploaded ==
  /\ upload.sending > 0
  /\ LET u == [upload EXCEPT !.sending = @ - 1]
     IN  \/ upload' = ClosedUpload(u)
         \/ upload' = [u EXCEPT !.busy = FALSE]
         \/ upload.asking = "no" /\ upload' = [u EXCEPT !.asking = "unofficial"]
UploadNext == OpenUpload \/ CloseUpload \/ PickFile \/ UploadClick \/ UploadAnswer \/ Uploaded

---------------------------------------------------------------------------
\* Properties.

\* While the feed is wanted and the tab is shown, a stream is open, retried by
\* the browser or about to be reopened, whatever errors and switches of tabs
\* came before; once unsubscribed, nothing is left that could open one.
LiveWhileShown ==
  LET s == upgrade.stream
  IN  IF s.gone THEN s.es = "none" /\ ~s.timer /\ ~s.idle
      ELSE ~upgrade.hidden => s.es # "none" \/ s.timer

\* An upload dialog that shows progress has something to wait for.
UploadNotStuck == upload.busy => upload.sending > 0 \/ upload.asking # "no"
=============================================================================

-------------------------------- MODULE LogView ------------------------------
(***************************************************************************)
(* The logs page (pages/LogsPage.tsx) over the node's ring of lines        *)
(* (core/logbuf/logbuf.go). The page polls for lines after the last number *)
(* it has seen, reloads everything when asked, and numbers its pages from  *)
(* the oldest line to the newest. A process that starts numbers its lines  *)
(* from one, or on from the lines kept on disk. A restart takes longer     *)
(* than an answer already sent, so it fails the calls in flight. A node    *)
(* that keeps no lines for a while answers without a newest number, which  *)
(* the page takes as one that compares with nothing.                       *)
(***************************************************************************)
EXTENDS Integers, Sequences, FiniteSets, Filter

CONSTANTS LogLines,     \* bound on the lines written
          LogRestarts,  \* bound on restarts, and on switching the keeping of lines
          LogRing,      \* lines the node keeps
          LogMax,       \* lines the page keeps
          LogPage       \* lines on a page

VARIABLE log

NaN == -1
NoCall == [st |-> "idle"]
LogInits ==
  {[proc |-> 1, on |-> TRUE, kept |-> <<>>, seq |-> 0, lines |-> LogLines, restarts |-> LogRestarts,
    entries |-> <<>>, last |-> 0, poll |-> NoCall, refresh |-> NoCall,
    only |-> "all", page |-> 0, bottom |-> TRUE, follow |-> TRUE, unseen |-> 0]}

Newest(lines, n) == IF Len(lines) > n THEN SubSeq(lines, Len(lines) - n + 1, Len(lines)) ELSE lines
LinesIn(lines) == {lines[i] : i \in DOMAIN lines}
Since(l, after) == Only(l.kept, {e \in LinesIn(l.kept) : e.seq > after})

---------------------------------------------------------------------------
\* The node.

LogLine ==
  /\ log.lines > 0 /\ log.on
  /\ \E bad \in BOOLEAN :
       log' = [log EXCEPT !.lines = @ - 1, !.seq = @ + 1,
                          !.kept = Newest(Append(@, [proc |-> log.proc, seq |-> log.seq + 1, bad |-> bad]), LogRing)]
CutCall(c) == IF c.st = "idle" THEN c ELSE [st |-> "failed"]
LogRestart ==
  /\ log.restarts > 0
  /\ \E disk \in BOOLEAN :
       log' = [log EXCEPT !.restarts = @ - 1, !.proc = @ + 1, !.kept = <<>>, !.seq = IF disk THEN @ ELSE 0,
                          !.poll = CutCall(@), !.refresh = CutCall(@)]
LogSwitch ==
  log.restarts > 0 /\ log' = [log EXCEPT !.restarts = @ - 1, !.on = ~@, !.kept = IF log.on THEN <<>> ELSE @]
LogWipe == log.kept # <<>> /\ log' = [log EXCEPT !.kept = <<>>]

Served(l, after) == [st |-> "back", entries |-> Since(l, after), last |-> IF l.on THEN l.seq ELSE NaN]
ServePoll == log.poll.st = "sent" /\ log' = [log EXCEPT !.poll = Served(log, @.after)]
ServeRefresh == log.refresh.st = "sent" /\ log' = [log EXCEPT !.refresh = Served(log, 0)]
LogCallFails ==
  \/ log.poll.st = "sent" /\ log' = [log EXCEPT !.poll = [st |-> "failed"]]
  \/ log.refresh.st = "sent" /\ log' = [log EXCEPT !.refresh = [st |-> "failed"]]

---------------------------------------------------------------------------
\* The page's calls. Polls follow one another; a reload may fall between.

\* (a number the answer lacked asks for everything)
SendPoll == log.poll.st = "idle" /\ log' = [log EXCEPT !.poll = [st |-> "sent", after |-> log.last]]
TakePoll ==
  /\ log.poll.st = "back"
  /\ log' = IF NaN # log.poll.last /\ log.poll.last < log.last THEN [log EXCEPT !.last = 0, !.entries = <<>>, !.poll = NoCall]
            ELSE [log EXCEPT !.entries = Newest(@ \o log.poll.entries, LogMax), !.last = IF @ = NaN THEN NaN ELSE log.poll.last,
                             !.unseen = IF log.bottom THEN @ ELSE @ + Len(log.poll.entries), !.poll = NoCall]
SendRefresh == log.refresh.st = "idle" /\ log' = [log EXCEPT !.refresh = [st |-> "sent"]]
TakeRefresh ==
  /\ log.refresh.st = "back"
  /\ log' = [log EXCEPT !.last = log.refresh.last, !.entries = Newest(log.refresh.entries, LogMax), !.unseen = 0, !.refresh = NoCall]
TakeFailure ==
  \/ log.poll.st = "failed" /\ log' = [log EXCEPT !.poll = NoCall]
  \/ log.refresh.st = "failed" /\ log' = [log EXCEPT !.refresh = NoCall]

---------------------------------------------------------------------------
\* What is on view: pages of the lines the filter lets through; page 0 is the
\* newest one, whichever that is.

ShownLines(l) == Only(l.entries, {e \in LinesIn(l.entries) : l.only = "all" \/ e.bad})
PageCount(l) == LET n == Len(ShownLines(l)) IN IF n = 0 THEN 1 ELSE (n + LogPage - 1) \div LogPage
CurPage(l) == IF l.page = 0 \/ l.page > PageCount(l) THEN PageCount(l) ELSE l.page
OnLast(l) == CurPage(l) = PageCount(l)
PageRows(l) ==
  LET n == Len(ShownLines(l))  last == CurPage(l) * LogPage
  IN  SubSeq(ShownLines(l), (CurPage(l) - 1) * LogPage + 1, IF last < n THEN last ELSE n)

SetFilter == \E f \in {"all", "error"} \ {log.only} : log' = [log EXCEPT !.only = f, !.page = 0]
TurnTo ==
  \E p \in 1..PageCount(log) :
    LET newest == p = PageCount(log) IN
    log' = [log EXCEPT !.page = IF newest THEN 0 ELSE p, !.bottom = newest, !.follow = newest,
                       !.unseen = IF newest THEN 0 ELSE @]
\* Scrolling; the view may be short enough to be at its end whatever is done.
ScrollLog ==
  \E end \in BOOLEAN :
    LET bottom == end /\ OnLast(log) IN
    log' = [log EXCEPT !.bottom = bottom, !.follow = bottom, !.unseen = IF bottom THEN 0 ELSE @]
LatestButton == ~log.follow \/ ~OnLast(log)
ToLatest == LatestButton /\ log' = [log EXCEPT !.page = 0, !.bottom = TRUE, !.follow = TRUE, !.unseen = 0]

LogNext ==
  \/ LogLine \/ LogRestart \/ LogSwitch \/ LogWipe \/ ServePoll \/ ServeRefresh \/ LogCallFails
  \/ SendPoll \/ TakePoll \/ SendRefresh \/ TakeRefresh \/ TakeFailure
  \/ SetFilter \/ TurnTo \/ ScrollLog \/ ToLatest

---------------------------------------------------------------------------
\* Lines that arrive while the view is not at its end are announced by the
\* button that leads there, and never counted with no button to show it.
UnseenIsTold == log.unseen > 0 => LatestButton
\* The page on view is never empty while there are lines to show, however the
\* list shrinks under it.
PageOnView == ShownLines(log) # <<>> => PageRows(log) # <<>>
=============================================================================

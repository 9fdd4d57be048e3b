# hy2scale in TLA+

hy2scale joins Hysteria 2 nodes into an overlay: an *ingress* accepts user
connections, a *policy* decides which exit and which path they take, *relays*
forward streams between nodes, and an *exit* dials the target. Since 1.3.10 the
connection between ingress and exit is a **msess session** (`core/msess`): one
byte stream carried by several connections ("subflows") that may die, be
spliced by an intermediate hop, be replaced or be switched at any time, "without
losing, duplicating or reordering a byte" (`core/msess/wire.go`). Every node is
run through its **web interface** (`web/app`), half of the program's code: pages
over polled reports, forms over late answers, drawings that several sessions
change, a rule editor that writes a graph back as a dozen requests.

Both halves keep promises that a unit test hardly reaches. This directory holds
TLA+ models of the session layer and of the web interface with the parts of the
node it talks to, the TLC runs that check them, and proofs for TLAPS.

## 1. Inventory

The node, written in Go:

| part | state | operations | hard about it | what makes it correct | modelled |
|---|---|---|---|---|---|
| msess session (`session.go`, `ring.go`, `wire.go`) | send queue `sq` from `sBase`, `sNext`, `retx`, receive queue `rq` from `rRead`, `ooo`, FIN offsets, ACKs owed, subflows with `infl` | Write, Read, CloseWrite, Close, abort; per subflow a writeLoop and a readLoop; a ticker | all of it runs concurrently, subflows reorder and duplicate, a subflow dies between any two steps | byte stream in order; nothing in flight forgotten; EOF after everything; termination | `Msess`, `ByteStream` |
| subflow health (`session.go`) | unanswered PINGs, watermarks, capacity, deadline | queue and answer PING, cap PING, tick | the table of PINGs is bounded; capacity is released only by PONGs | silent paths dropped, capacity released only for what arrived | `SubflowHealth` |
| path manager (`dialer.go`) | `dialing`, `backoff`, active carrier | evaluate, join, fail over, switch, retire | joins race with deaths, with one another and with the end of the session | one carrier at a time, at both ends | in `Msess` (timing abstracted) |
| exit server (`server.go`) | `sessions`, `pending`, `closed`; one pump per session | Handle (open, join, probe), pump, forget, Close | goroutines block on sockets nobody else can wake | no slot leaked, one target per id, everything released | `MsessServer` |
| rule sets (`internal/app/policy.go`) | condition and policy sets, references | create, update, delete, order, members | a reference must not dangle | refused or kept | `RulesNode`, for the editor |
| drawings, interfaces, log ring (`internal/app`, `core/logbuf`) | what the interface asks for | put, delete, list | another session writes too | - | in `Canvas`, `Interfaces`, `LogView` |
| prober, relay registry, bridges, legacy bond, path racing, deferred dial, policy matching, rules table, audit, storage, history, self-update, UDP hop, VPN mux, DNS, certificates | see section 7 | | | | no |

The web interface, written in TypeScript:

| part | state | operations | hard about it | what makes it correct | modelled |
|---|---|---|---|---|---|
| rules editor (`components/policy`) | a draft graph, its base, undo and redo, saves under way | link, add, delete, inspect, copy, undo, arrange, save, import, export | a save is a dozen requests, any of which may fail; another session writes; the draft outlives its view | a tree per set; what is drawn is what is saved; what is not touched stays | `RulesModel`, `RulesNode`, `RulesGraph`, `RulesFile`, `RulesForm`, `RulesLayout` |
| session of a tab (`authTransition.ts`, `useAuth.ts`, `App.tsx`, `client.ts`, `handoff.ts`) | token in the storage, store, cookie, hash, forced password, transitions | sign in, enter, sign out, expire, reload | two screens at once, other tabs, answers to an old session | signed out means nothing is left | `Session` |
| other nodes (`RemoteModal.tsx`, `remoteAuth.ts`) and upgrade (`upgrade.tsx`, `UpgradeUploadModal.tsx`) | a sign-in per node, jobs, a live feed | sign in, check, push, download, restart, poll | closing ends no call; the node restarts under the poll | no progress without something that ends it | `Remote`, `Upgrade` |
| dialogs, lists (`ui-framework`) | a stack of dialogs in motion, selection, pages, columns | open, close, confirm, hold, sort, page, act on many | a list changes under what was selected | focus is never dead; actions run on what was chosen | `Dialogs`, `Lists` |
| node entries (`NodeModal.tsx`, `EditSelfModal.tsx`), links (`nodeLink.ts`, `parseHy2Url.ts`) | a form, late loads | type, paste, fill in, save, import | loads arrive when the dialog shows another entry | what is sent is what is shown; what is written is what is read | `NodeForm`, `NodeLink` |
| nodes page (`NodesPage.tsx`, `graphModel.ts`, `NodesGraphView.tsx`, `layouts.ts`, `usePanZoom.ts`) | one report of the mesh, drawings, gestures | poll, select, open, switch, drag, save, pan, zoom | the same tree is walked by six pieces of code; two sessions drag | they agree; drawings converge; what is held stays in the hand | `Mesh`, `NodesPicture`, `Canvas`, `PanZoom` |
| interfaces page (`InterfacesPage.tsx`, `ifaceLayouts.ts`) | list, egress pair, dialogs | create, edit, move, delete, toggle | a list a poll old, references | what is referred to exists; pictures do not overlap | `Interfaces`, `IfaceDiagram` |
| users (`UsersPage.tsx`, `UserModal.tsx`, `ExitPathList.tsx`) | rows that follow a value that follows the rows | edit, reorder, save | two effects answer each other | the stored mode is kept | `UserForm` |
| log and audit pages (`LogsPage.tsx`, `AuditPage.tsx`) | a position, pages, filters | poll, reload, filter, page | restarts, answers out of order | nothing unseen, no mixture of filters | `LogView`, `AuditView` |
| shell (`App.tsx`) | the page in use | - | - | - | `Console` composes the parts |
| overview, tools, settings, proxies, endpoints, certificates, storage pages, sign-in animation, charts, texts | what one request answers | | | | no |

How they interact. `internal/app` builds an `exit.Engine` and a `node.Node`. A
flow is matched by `policy`, its paths are ranked by the prober, `msess.Dial`
opens a stream per path through `node` (directly, over via hops, or by a reverse
dial), the exit's `Server.Handle` answers it, and two goroutines pump between
session and target. The parts share state only inside a process and under
mutexes; between processes there are only byte streams that end. The web
interface calls the node over HTTP, a request at a time per action, and hears of
changes by polls and by live feeds; between two calls other sessions change the
same configuration. Inside the page the parts share the report of the mesh, the
configuration that was read last, and the session.

The hazards this code has are in `PROJECT.json`, each at its line, with the
properties that watch it or the reason why none does.

## 2. Modules

| module | what it is | code |
|---|---|---|
| `ByteStream` | the promise: two FIFO byte pipes with an end | `net.Conn` as `Conn` in `dialer.go` implements it |
| `Msess` | both ends of one session and the connections between them | `session.go`, `dialer.go`, the join half of `server.go` |
| `MsessServer` | the exit's table, its handlers and pumps | `server.go`, wired by `core/exit/msess.go` |
| `SubflowHealth` | one end's judgement of one subflow | `session.go`: PING, PONG, capacity, death |
| `RulesModel` | sets drawn as decision chains, and chains compiled to sets | `policy/graph/model.ts` |
| `RulesNode` | what a node accepts of sets, and in what order it answers | `internal/app/policy.go` |
| `RulesGraph` | the editor: draft, links, undo, saves and their failures | `RulesGraph.tsx`, `draft.ts`, `save.ts` |
| `RulesFile`, `RulesForm`, `RulesLayout` | rules as a file; the dialog of one set; the automatic picture | `rulesFile.ts`, `RulesImportExport.tsx`; `SetModal.tsx`, `FlowEditor.tsx`, `CondEditor.tsx`; `layout.ts` |
| `Session` | a browser tab signing in and out | `authTransition.ts`, `useAuth.ts`, `store/auth.ts`, `client.ts`, `handoff.ts`, `main.tsx` |
| `Remote`, `Upgrade` | the dialog for another node; the feed of this node's upgrade and the upload | `RemoteModal.tsx`, `remoteAuth.ts`; `upgrade.tsx`, `UpgradeUploadModal.tsx` |
| `Dialogs`, `Lists` | stacked dialogs, questions, press and hold; tables, trees, bulk actions | `ui-framework/components`, `hooks` |
| `NodeForm`, `NodeLink` | entries and this node; addresses and links | `NodeModal.tsx`, `EditSelfModal.tsx`; `parseHy2Url.ts`, `nodeLink.ts`, `NodeImportModal.tsx` |
| `Mesh` | six walks over one report of the mesh | `NodesPage.tsx`, `graphModel.ts`, `store/node.ts`, `useExitPaths.ts`, `remoteAuth.ts` |
| `NodesPicture`, `Canvas`, `PanZoom` | automatic drawings; drawings kept by the node; gestures | `layouts.ts`, `NodesGraphView.tsx`; `usePanZoom.ts` |
| `Interfaces`, `IfaceDiagram` | the interfaces page against the node; its picture | `InterfacesPage.tsx` and its dialogs, `internal/app/egress.go`; `ifaceLayouts.ts` |
| `UserForm`, `LogView`, `AuditView` | users; logs over the node's ring; audit pages | `UsersPage.tsx`, `UserModal.tsx`, `ExitPathList.tsx`; `LogsPage.tsx`, `logbuf.go`; `AuditPage.tsx` |
| `Filter` | JavaScript's `filter`, with a set for its condition | - |
| `ConsoleScene`, `ConsoleFlows`, `ConsoleForms`, `Console` | the page in use; what is about when things come; forms and drawings; all of it, and what the user may rely on | `App.tsx` |
| `MC*` | constants for TLC | |
| `MsessProofs`, `MsessEndProofs` | theorems about a session: its bytes; what its ends say and hold; its carriers, its end and the pipe it implements | |
| `MsessServerProofs`, `SubflowHealthProofs` | theorems about the exit, and about a subflow's health | |
| `FilterProofs`, `ConsoleFlowsProofs`, `ConsoleEntryProofs`, `ConsoleFormsProofs` | lemmas on filtering and sequences; theorems about the web interface | |

### Msess

A variable per field of `session`, indexed by end; `st[e][s]` is the life of the
subflow in slot `s` at end `e` (`up`, `retiring`, `killed` = another goroutine
killed it and its reader has not noticed, `off`). `net[e][s]` is everything `e`
has queued or written on `s` that the peer has not read, in order: `ctrl`, the
writer's buffer and the connection are one FIFO. A critical section of `s.mu` is
an action:

* the application: `Write`, `Read`, `ReadEOF`, `CloseWrite`, `Close`;
* `writeLoop`: `SendData` (`nextDataLocked`), `SendFin`;
* `readLoop`: `RecvOldData`, `RecvInOrder`, `RecvOutOfOrder`, `RecvAck`,
  `RecvFin`, `RecvRst`, `RecvRole`, `RecvGap`, `ReadError`, `ReaderExit`;
* the ticker: `TickAck`, `TickRescue`, `TickFinish`, `TickReset`, `GiveUp`;
* the path manager: `StartJoin`, `ServerJoin`, `ClientAttach`, `JoinSettle`,
  `Failover`, `RetireKill`, `JoinFail`, `JoinRefused`;
* what breaks: `PathDies`, `Splice`, `CloseCarrier`.

`maybeAckLocked`, `killLocked`, `requeueLocked`, `onAckLocked`,
`setActiveLocked` and `abortLocked` are operators used inside those actions, so
an action is the whole handler.

Abstractions: time (a timer may expire whenever its other conditions hold);
in-flight capacity and PINGs (a carrier may decline to send, or die, at any
moment - refined in `SubflowHealth`); checksums; datagram sessions; path ranking.
`infl` is a set where the code has a list of which an ACK drops a prefix; the
spans left over end below `sBase` and are clipped when they are requeued, so the
two agree. `ServerJoin` merges HELLO_ACK and `attach` at the server. There is no
action for "conflicting FIN" and "receive window exceeded": `OneFin` and
`WindowRespected` show that they never happen. `Read` goes on after the session's
end with what it has queued.

### MsessServer

`ph[h]` is the program counter of handler `h` in `Server.Handle`/`open`; `up`,
`down` and `waiter` are the three goroutines of a pump. Each step between two
blocking points is an action, so the ten seconds of a dial, the handshake write,
the lookup of a join and its later `attach` interleave with all the rest. The
session itself is reduced to live or dead, with the two facts the pump sees:
the client's FIN (`peerFin`) and its own `Close`. `pumpPacket` is the same with
`Kind(i) = "packet"`. `DownData` goes on after the session's death with what `Read`
still finds queued. A failed dial that kept its slot would not break
`WithinCapacity`; that the slots in `pending` are exactly those of dials under way is
the theorem `ReservationsAreExact` (section 5).

### SubflowHealth

A FIFO in each direction, a table `pings` of the unanswered PINGs with their age
in ticks and their watermark, and the two counters `written` and `pongMark`
whose difference is in flight. `FallSilent` makes the path swallow everything.
`deadline()` may change within `Deadlines` whenever its inputs change.

### The rules editor

`RulesModel` draws sets as nodes and edges in the source's order and compiles a
drawing back; both directions are pure operators. `RulesGraph` adds the draft,
which lives outside the view, and the saves: each is a program with a list of
requests left (`todo`), answered by `RulesNode` one at a time, in the order the
code computes, while the view may be left, another session may write
(`Elsewhere`), and a request may be refused (`FailSave`) or lost (`LoseRequest`), its
answer may be lost after it was carried out (`LoseAnswer`), and the fetch at the end
may fail with everything written (`UnreadSave`). The draft is kept then, and a later
save starts from its old base. A source is a user or a proxy. `RulesFile` imports a
parsed file set by set, naming in place of ids; `RulesForm` is the dialog of one
set, where a click on "text" or "flow" takes effect only once a chunk has been
loaded and may come after more typing.

### Console

Each part of the web interface is a record in a variable of its own module, with
a set of initial records, one action per handler, effect, timer or answer, and
its own properties. `Console` holds one of them at a time: `scene` is the page
or dialog in use, `at` its record, and its invariants collect the parts'
properties under what a user may rely on. It is put together in three layers, so
that there is something to prove about: `ConsoleFlows` has the parts that are
about when things come (signing in, other nodes, dialogs, gestures, polls),
`ConsoleForms` the forms and drawings, and `Console` extends both by the parts
that need recursion (lists, walks, pictures, links). Each of the first two has a
behaviour of its own, `FlowsSpec` and `FormsSpec`: those of `Console` that stay
in one of its scenes; of other scenes the properties stated there say nothing. Parts of different scenes share no state that a property is about: a dialog
takes its data from the report or the configuration, which its module changes at
will. Where parts do share, they are one scene: the list, the graph and the
details of `Mesh`; the list, its dialogs and the node's configuration in
`Interfaces`; drags, polls and saves in `Canvas`.

What the records leave out is wording, colour, the order of equal things and
lengths nothing compares. Pictures are modelled where a property is about them,
in whole pixels with averages rounded down. `NodesPicture` draws two of the four
presets, takes any of the spreads the code tries (how crowded a drawing is, is
not modelled), and leaves out the shortcut for more than 700 pairs of links.

Where the program does what a reader would not expect and no document says
otherwise, the model does the same and the property is stated around it; section
4 lists these places.

## 3. What the runs show

| run | instance | properties |
|---|---|---|
| `msess_reorder` | bond, 4 bytes in 1-byte segments, window 3, one join, one rescue | `DeliveredInOrder`, `AckedIsConsumed`, `WindowRespected`, `ImplementsByteStream` |
| `msess_failure` | bond, 2 bytes, a death, a join, FIN | `NothingForgotten`, `OneFin`, `EofMeansAll` |
| `msess_selector` | selector, a death, a join, one quality switch | `OneCarrier`, `CarriesBothWays` |
| `msess_close` | bond over one slot, Close by the client, FIN by the server, a death, a join, a reset | `FinishedIsDelivered`, `EndsAfterDelivery` |
| `msess_live` | fair, selector download that never reaches AckEvery, a death and a join | `Delivery`, `EveryByteAcked` |
| `msess_stale_role` | selector, 3 slots, two deaths, two joins | `CarriesBothWays` is violated |
| `server` | fair; 2 handlers, 1 or 2 ids, MaxSessions = 1 | `WithinCapacity`, `SingleTarget`, `StillJoinable`, `NoFalseBlame`, `ReplyNotCut`, `DeadIsReleased` |
| `health` | fair; 4 PINGs remembered, deadlines below that, capacity 2, 3 segments | `PongProves`, `SilentIsDropped`, `CapIsReleased` |
| `health_forgotten` | a deadline above the table's span | `SilentIsDropped` is violated |
| `rules` | eight starts. Four of edits: two of a rich graph; one and a save of it with a failure and another writer; two of a small graph and a save with a failure; three of a small graph, so that one is undone and done again. Four of saves: two edits and two saves, the first of which may fail, with two sets or one; a set created and edited before it is saved; two failures and the retry with another writer | `TreePerSet`, `RedrawnAlike`, `SavedAsDrawn`, `UntouchedStays` |
| `console` | every scene of the web interface, 28 of them | the fourteen below |
| `console_graph` | the nodes page | `GraphWithinList` is violated |

`console` checks, each over the scenes it names:

* `SendsWhatItShows` - node entry, user, link to this node: what is sent is sound by
  the form's own rules, and the stored mode of a user's exits is kept;
* `OwnsItsEntry` - loads and seeds belong to the entry the dialog is open for;
* `LeavesNothing` - a signed-out tab holds nothing that signs it in;
* `NothingStuck` - no progress, feed, upload or gesture without something left to
  end it, and of open dialogs one answers;
* `ListsAreWhole` - pages, columns and trees show everything once;
* `LatestCounts` - no late answer is taken for the current one, and the page of the
  log on view is never empty while there are lines;
* `MeshAsReported` - rows, dots, ways and reachability agree with the report, and
  the route that is lit is the selected one's;
* `DrawingsConverge` - two sessions' drawings come to the same;
* `PressesCount` - a press is a click, a drag or a hold, and counts once;
* `InterfacesKept` - each interface has one row, what is referred to exists, what is
  not changed stays;
* `PicturesAreClear` - no box of the interfaces' picture lies on another, no lane
  crosses a box, the columns are the best there are; no box of the rules' picture
  lies on another, with up to five users and two groups of sources at a set, but for one
  clash that the code has (section 4); the nodes lie apart;
* `ReadsWhatIsWritten` - addresses, links, rule files and rule sets come back as they
  were;
* `InHandIsKept` (action property) - while one drawing is shown, no frame, poll,
  answer, expiry or other save moves the dot or the line in hand, takes it away or
  lets it begin to slide; of typing it says nothing (section 4);
* `NothingUnasked` (action property) - a bulk action runs on what was selected, the
  page opens what there is, and no dot moves that nobody moves.

Why the bounds are enough. Reordering, duplication and a retransmission that
races an ACK need two carriers and two segments; a gap that is filled from behind
needs three, and one more than the window has room for shows that the window
holds while segments are kept out of order (`msess_reorder`). One death covers requeueing, FIN and ACK loss and the replacement;
`msess_stale_role` has two, which is what the disagreement of the two ends needs.
A slot is taken again once its connection is gone at both ends, and `msess_close`
lives on a single slot. One session and one handler more than it can admit
already show every race for the table. In `SubflowHealth` only the relation
between table size and deadline matters, and both sides of it are run. In `rules`
an edit is one link, node or condition; what a save can get wrong needs one
difference per kind of request, a failure at any place of the first save - its
request lost, its answer lost, or the sets not fetched at the end -, an edit or an
undo between it and the second, and one foreign write. One user and one proxy are
there, which the code writes by requests of their own. In `console.cfg` the bounds are counts of what is done in a
scene: two sign-ins with two requests under way (an answer to the first session
in the second), two flows of the remote dialog (one left over when it is opened
again), two dots and one line in two sessions with one failed save, three fingers
or a mouse and a finger, two lines in a ring of two with one restart, three pages
of audit under two filters, lists of three rows over pages of one or two. Names
of two characters suffice wherever a property compares names; the meshes, the
interface lists, the plans and the addresses in `MCConsole` are chosen so that
each branch of the walks is taken. Forms are bounded by what is typed
(`FieldEdits`, `FormEdits`, `UserActs`) since a second visit to a field meets no
code the first did not.

`CHECK_DEADLOCK FALSE` is everywhere: a session that has ended, an application that
writes no more and a user who does nothing more all stop.

Fairness. Every goroutine of the program runs: an application reads what it is
given, a readLoop takes frames, an eligible writeLoop sends, the ticker fires, a
handler's dial ends (10 s) and the path manager starts a join when it has no
carrier. Nothing forces a subflow to die, a client to send, an application to
close, or a quality switch. A target reads what is sent to it (`TargetFairness`),
and nothing forces it to send or to end; without that assumption `DeadIsReleased`
is false, see section 4. These are the assumptions Go's scheduler and the timers
in `manage` give. One of them is strong: a session that has ended still hands out
what it had queued (`DownData`), and since that no longer grows, whoever goes on
reading comes to the error (`SF` of `DownReadFails`). The web interface is checked for safety only: that something
ends is stated as there being something left to end it.

## 4. Disagreements and defects met on the way

Three runs refute what the code says of itself:

* `msess_stale_role`: the server honours a ROLE that comes from a subflow it has
  already dropped (`session.go:779`). Its active carrier is then dead, and although
  the client goes on with a healthy subflow nothing makes it the server's: the
  download stands still.
* `health_forgotten`: with more than 64 PINGs outstanding the oldest is forgotten,
  so a silent path whose deadline exceeds 64 PING intervals is never declared dead
  (`session.go:459`); this needs about 3.2 s of deadline at `PingBusy`, that is a
  slow path or a large RTT.
* `console_graph`: `graphModel.ts:5-10` says the graph "never shows more than the
  list". The list leaves out the children of a disabled entry, the node goes on
  reporting them while the entry is nested, and the graph draws them.

Other behaviour a maintainer would want to know of, which the models either show
(their properties are stated around it) or leave out (said so at the module):

* Server: a target that neither reads nor sends keeps the pump, its socket and the
  session's table entry after the session has died (`server.go:219`).
* Rules: removed sets are deleted in the order of the base, so one that another
  removed set still refers to is refused (`save.ts:110-121`); a retry deletes once
  more what was deleted, is told 404, and fails each time; a set whose creation was
  not answered, or that was taken back by undo after a failed save, is created a
  second time, and after a save whose last fetch failed (`RulesGraph.tsx:365-372`) the
  draft keeps its unsaved ids and creates its sets again; `en.json:145` says that edits
  "replace the sets as drawn", but when a new set gets its id, its ends are renamed by
  their current value and the links to them by the value they had when they were
  drawn (`model.ts:311-322`), so that an end whose value was changed in between is lost
  from the set that is stored; and what a failed save has written and the user then
  puts back equals the draft's base, is not sent by the next save (`save.ts:64`), and
  stays on the node. `SavedAsDrawn` leaves these two out (`EndsByValue`, `PutBack`), and
  is violated without either. The picture puts the
  sources of a called set over the "true" and "false" of a condition set beside it
  (`layout.ts`, `RulesLayout.AboveBeside`, which `PicturesAreClear` leaves out); edits made while a
  save is under way are replaced by what was fetched (`RulesGraph.tsx:366`); a failing save
  leaves the new sets behind, created and still empty (`save.ts:48-56`); a failed import keeps a created set that others refer to
  (`RulesImportExport.tsx:90-95`).
* Session: a late 401 to a request of an old session signs the new one out
  (`client.ts:37-42`, `App.tsx:73-79`); `restoreSession` is never called.
* Other nodes: an expiring sign-in while a job is polled, and closing and opening
  again, reset what the dialog shows of the job; the trust probe overwrites a
  stored sign-in; an upload goes on after its dialog closed and a second may be
  started; a late fetch of the upgrade's state overwrites a newer frame
  (`upgrade.tsx:11-14`).
* Kit: Escape in an Autocomplete closes the dialog as well; a second question drops
  the promise of the first (`ConfirmDialog.tsx:82-89`); a failing bulk action does
  not refetch (`useBulkAction.ts`).
* Node entries: renaming a connected peer races its reconnection
  (`NodeModal.tsx:147-151`); a password filled in from a remote node may arrive in
  the form of another entry; the late answer of `getClients`, and what is filled in
  from a remote node, overwrite what was typed meanwhile (`NodeModal.tsx:240-288`,
  `110-127`; `NodeForm.Loaded2`), which no property forbids; a blank form can be saved when the clients did not
  load; an import does not check names.
* Nodes page: while a dot that another session moved slides, a save of something else
  stores the place it is passing (`NodesGraphView.tsx:992`), and every session takes that
  over; a bulk action includes this node itself (`NodesPage.tsx:419-422`);
  connected and disabled names are merged by bare name; a dot whose slide ends after
  the drawing was switched is saved into the other drawing
  (`NodesGraphView.tsx:982-1006`); two saves in flight may be stored in the other
  order; a late save re-creates a deleted drawing; a failed save leaves the page
  ahead of the node. A dot just dropped is not protected from a frame sent before its
  save arrived, since the page's own copy of the list already clears its mark: it
  goes back until the frame of the save comes. A slide that began before the press
  goes on in the hand (`InHandIsKept` leaves it out). A notch of the wheel during a glide is lost, and a mouse
  released outside the window leaves a drag held until the next press
  (`usePanZoom.ts:101-106`). Two fingers on a canvas that a mouse is panning
  start a pinch, and the mouse's pan is forgotten; the click that ends its press then acts
  although the view has moved (`usePanZoom.ts:268-271`, `307-318`).
* Interfaces: `putEgress` sends both families from a cached list
  (`InterfacesPage.tsx:100-110`); egress on an interface that is down makes every
  later change of the other family fail (`internal/app/egress.go:54-65`); a bulk
  delete retried after a partial failure fails on the first name that is gone; the
  form takes an MTU of 68 to 9216 and the node 576 to 9000; the search for columns
  breaks off at `l.cols < n` (`ifaceLayouts.ts:546`).
* Users: two empty rows filled in give two paths with an empty mode; a user that
  vanishes while edited seeds the dialog as a new one; a late answer to a save
  closes whichever dialog is open.
* Logs: a reload that overtakes a poll duplicates lines; a late poll is taken for a
  restart; a restarted process with more lines than the page's position is not
  noticed; when the node keeps no lines the position becomes NaN and every poll
  repeats all of them (`LogsPage.tsx:84`). Audit: when the first page of a new
  filter fails the old cursor stays (`AuditPage.tsx:78-98`).

## 5. What is proved

Eight modules hold 39 theorems. None uses fairness, and each is for every value of
the constants that the named assumptions of its specification allow.

### A session

`MsessProofs.tla`, for every mode, every number of slots, every data, window,
segment size and every bound:

* `TypeCorrect`: `Spec => []TypeOK`;
* `StreamInvariant`: `Spec => []StreamInv`;
* `DeliveryIsInOrder`: `Spec => []DeliveredInOrder` - no byte is lost, duplicated
  or reordered in what `Read` returns, through any deaths, splices, joins,
  switches, retransmissions and rescues.

They rest on the assumptions named in `Msess` (`ModeAssumption`,
`SubAssumption`, `DataAssumption`, `SizeAssumption`, `BoundAssumption`) and no
others. `DeliveredInOrder` is not inductive: what `Read` returns
comes from `rq`, which comes from DATA frames and from `ooo`, which were copied
out of `sq` by spans of `retx` and `infl`. `StreamInv` therefore says of each of
these places that it holds the sender's bytes at its offset (`BytesInPlace`), and
of every span that it lies within what has been written (`SpansWritten`), so that
the copy is of real bytes. Lemmas establish that slices of slices, concatenations
and out-of-order pieces keep that property; the main proof has one case per
action. (`StreamInv` can be
given to TLC as an invariant of `msess_reorder`, where it holds.)

`MsessEndProofs.tla`, for the same constants. Its first part: what the two ends tell
each other, and what they hold.

* `AckInvariant`: `Spec => []AckInv`, and from it
* `AckedMeansConsumed` (`AckedIsConsumed`), `FinsAgree` (`OneFin`) and
  `EofAfterAll` (`EofMeansAll`);
* `WindowInvariant`: `Spec => []WindowInv`, and from it `WindowHolds`
  (`WindowRespected`).

`AckedIsConsumed` needs to know what an ACK on the way says, `EofMeansAll` where the
FIN that was received came from, and both that no byte is received that was not
written. `AckInv` adds to `StreamInv` what each frame says of its sender
(`FramesSound`: an ACK names an offset that has been read, and with its FIN flag an
end that has consumed everything; a FIN the offset where the data ends; a RST an end
that has ended; DATA bytes that were written), what a HELLO says (`HelloSound`), and
what an end believes (`FinSound`, `ReceivedWritten`, `EofSound`). What is said stays
true: `WrittenGrows`, `ReceivedGrows`, `FinSetOnce`, `DoneLasts` and `OverLasts` say
that offsets only grow, that a FIN offset is set once and that an end is final. The
lemma `Movers` lists the actions that change any of this.

`WindowRespected` is about all an end holds, in order and out of order. That the sum
stays within the window follows from where the bytes lie: the sender is never
further than the window ahead of what was acknowledged, which is never ahead of
what was read. That the segments that came out of order do not overlap each other
is harder, and is why the code may count their bytes by adding: `nextDataLocked`
cuts new data at will, and what is resent must be the same pieces again.
`WindowInv` says so: beyond what is acknowledged any two pieces of the data,
whether they wait to be resent, are in flight, on the way or held, are the same or
apart (`PiecesApart`); no span on its way is longer than a segment, so that none is
cut a second time (`ShortSpans`); and what is held starts beyond the next byte, one
segment to an offset (`OooBeyond`). An acknowledgement may cut the first span, but
only at a place that nobody holds any more.

Its second part: the carriers, the end, the pipe.

* `CarrierInvariant`: `Spec => []CarrierInv`, and from it
  `NothingIsForgotten` (`NothingForgotten`), `SelectorHasOneCarrier` (`OneCarrier`)
  and `FinHasLiveCarrier` (`FinOnLive`);
* `EndInvariant`: `Spec => []EndInv`, and from it
  `FinishMeansDelivered` (`FinishedIsDelivered`) and `EndAfterDelivery`
  (`EndsAfterDelivery`);
* `SessionIsPipe`: `Spec => ImplementsByteStream`, the refinement of `ByteStream`.

The three parts of `CarrierInv` are proved together: a switch requeues the spans of
the old carrier only if it lives, which loses nothing because spans are on live
subflows only (`OnLive`), and only the old carrier's, which is enough because the
selector has no others (`OnActive`). The splitting of a span by `nextDataLocked`
and the clipping of acknowledged bytes (`ClipKeeps`) are shown to leave no gap.
`EndInv` adds to `AckInv` that an acknowledged FIN was consumed, that a finished end
has both directions complete, and that a join is refused only by an exit that has
ended the session (`RefusedSound`). The first end to end then does so by its own
tick: a RST on the way or a refused join needs an end that ended before.
For the refinement, each action is from `AckInv` a step of the pipe or leaves it
alone: only `Write`, `Read`, `ReadEOF`, `CloseWrite` and `Close` move it. Whatever
the carriers, frames, retransmissions and joins do is a stutter.

### The exit and a subflow's health

`MsessServerProofs.tla`, for every set of handlers and session ids, every
`MaxSessions` and every set of `Arrivals` (`NoneAssumption`,
`MaxSessionsAssumption`, `ArrivalsAssumption`):

* `ServerTypeCorrect`: `Spec => []TypeOK`;
* `TableInvariant`: `Spec => []TableInv`, and from it
  `ReservationsAreExact` (`PendingIsDialing`), `CapacityHolds`
  (`WithinCapacity`), `OneTargetPerId` (`SingleTarget`) and
  `JoinsFindTheirSession` (`StillJoinable`);
* `PumpInvariant`: `Spec => []PumpInv`, and from it `BlameIsEarned`
  (`NoFalseBlame`) and `HalfCloseKeepsReply` (the action property `ReplyNotCut`).

None of the four of the table is inductive alone. That a session enters the table
under a free id needs the reservation (`Reserved`: one dialing handler per id in
`pending`, and `pending` disjoint from the table), which is why `open` reserves
before it unlocks to dial. That it leaves only when nothing is left to find needs
the order at the end of a pump (`TargetInTable`: the target is closed before the
waiter waits for `done`; `PumpAfterHandler`: no pump runs before its handler has
finished). The count then follows: `Admit` adds one to the sum only below
`MaxSessions`, and `DialDone` moves one from `pending` to the table.

`PumpInv` says why a target may be found closed (`ClosedIsExcused`: the session is
dead, `closedByUs` was raised before the close, or the reading direction has
ended) and why a direction may have ended (`EndsForAReason`). The lemma
`WhoChanges` lists for each variable of a session the actions that may change it;
`Lasting` derives from it that death, closed sockets and raised flags stay, so
each step of the invariant only looks at the actions that create a new reason.

`SubflowHealthProofs.tla`, for every size of the table of PINGs, capacity, depth of
the path and set of deadlines (`CapAssumption`, `DeadlinesAssumption`,
`PathAssumption`):

* `HealthInvariant`: `Spec => []HealthInv`, and from it
* `PongsProveDelivery` (`PongProves`) - capacity is released only for bytes that
  have arrived.

A PONG proves what its PING's watermark says if the segments it counts went ahead of
it. The table holds the latest PINGs, the queue the latest of those
(`TableInOrder`, `QueueInOrder`), so that an identifier says how long ago its PING
was made although PINGs are forgotten. `PathInOrder` gives to every place on the path
the number of PINGs made after those ahead of it and the number of segments that will
have arrived when it is reached, and says that identifiers and watermarks agree with
the two. Identifiers are used again; that there are more of them than can be under
way is `PathAssumption`.

### The web interface

A property of a part is a statement about one record under the actions of one scene;
the theorems are about `FlowsSpec` and `FormsSpec` (section 2). Each scene has an
invariant of its own, and `FlowsInv` and `FormsInv` put them together.

`FilterProofs.tla` has what the proofs need of sequences that nobody has typed: a
filter returns what its condition lets through, in its order, each as often as it
was there (`OnlyWhat`); what appending, concatenating and replacing one element do.
`Only` is a recursive function, of which the provers know nothing until they are
told that there is one: `FilterExists` and `UpTo` establish it by the least length
at which it would fail.

`ConsoleFlowsProofs.tla`, for every number of sign-ins, requests, tokens, job steps,
pointers, zooms, dialogs, lines of the log, pages and filters of the audit
(`ZoomAssumption`, `DialogsAssumption`, `LogAssumption`):

* `FlowsHold`: `FlowsSpec => []FlowsInv`, and from it
* `LeavesNothingBehind` (`LeavesNothing`), `AllEnds` (`NothingStuck`),
  `LateIsDropped` (`LatestCounts`) and `PressIsOnce` (`PressesCount`).

`LeavesNothing` alone is not inductive: a late sign-in or a token found in the storage
could bring something back. `SessionInv` adds that a sign-in that was accepted has a
token to enter with, that the storage is empty while the login page is shown, and
that what is kept beside the token went with it. For the dialogs `AliveInv` says that
the stack is exactly the open ones, each once, and of every dialog which motion it
may be in: open and taking clicks or on its way in, closed and on its way out, or not
there; so a motion that is cut short always leaves another that ends. The log's
`PagedInv` is only about the shape of lines and answers; that a page on view is never
empty is arithmetic on the last page (`PagesFit`). The audit's invariant says of
every request under way which filter and page it was asked for; that of the remote
dialog lists, for each phase it shows, the request or timer that will end it; that of
a gesture which pointers are known, held and moved.

`ConsoleEntryProofs.tla` (lemmas, about entries, this node and users) and
`ConsoleFormsProofs.tla` (the rest, and the theorems), for every set of entries,
users, paths, interfaces and dots and every number of edits here and in other
sessions:

* `FormsHold`: `FormsSpec => []FormsInv`, and from it
* `SentAsShown` (`SendsWhatItShows`), `LoadedIsOwn` (`OwnsItsEntry`), `RestIsKept`
  (`InterfacesKept`), `DrawingsComeTogether` (`DrawingsConverge`) and
  `NothingMovesInHand` (the action property `InHandIsKept`).

The assumptions: edits are counted (`EditsAssumption`); stored entries and what is
typed are addresses of three parts and texts (`EntriesAssumption`); the users are
at first as a node stores them, which aggregates only at one exit and keeps no mode
without a path (`StoredAssumption`: `SanitizeExitMode`, `core/exit/dial.go:79-107`, which
the handlers that store a user call); one device is there and sub-interfaces have the
reported shape (`NicsAssumption`); there is a dot, and no dot has one of the two
names that stand for the line and for nothing in hand (`CanvasAssumption`).

* `SentInv`: the form of an entry is whole whatever is typed into it, and holds a
  ceiling only while it shows it; what is loaded is of an entry there is; and what
  is being saved passed every check of `handleSubmit` (`SubmittedIsSound` goes
  through them).
* `ExitsInv`: two effects answer each other in `ExitPathList`, one making rows of a
  value, one a value of rows. The invariant names the four phases between them
  (`StandStill`, `NewToRows`, `RowsGiven`, `RowsTyped`) and says in each whether the
  rows are those of the value; a form nobody typed in can then only tell what it was
  given. Every value that is stored, told, shown or sent has a mode its paths permit
  (`ExitOk`), since `ModeFor` computes it anew whenever rows are told.
* `LinkInv`: the link that was made last leads somewhere.
* `NicsInv`: what is stored, listed, referred to, under way and in the dialogs is of
  interfaces there are, each listed once.
* `CanvasInv`: the last frame on its way is what the node stores; with no frame, save
  or failure what is listed is; what is in hand is dragged or slides; the map's
  drawing has no dots.
* `NformInv`, `UformInv`, `SformInv`: loads that are still heard, and the seed, are of
  the entry the dialog is open for.

### What is only model-checked, and why

* That both ends of a selector agree on the carrier (`CarriesBothWays`): it is false
  in general (`msess_stale_role`), and holds in `msess_selector` by its bounds.
* Liveness: `Delivery`, `EveryByteAcked`, `DeadIsReleased`, `SilentIsDropped`,
  `CapIsReleased`. Fairness and ENABLED are beyond the prover.
* The rules editor (`TreePerSet`, `RedrawnAlike`, `SavedAsDrawn`, `UntouchedStays`),
  lists, the mesh, pictures, links and files (`ListsAreWhole`, `MeshAsReported`,
  `PicturesAreClear`, `ReadsWhatIsWritten`, `NothingUnasked`): their models walk
  trees and search by RECURSIVE operators, of which the prover knows nothing, and
  what they compute would need induction over data.

## 6. Running it

    tlc -workers 2 -config msess_failure.cfg MCMsess.tla     (all msess_*.cfg)
    tlc -workers 2 -config server.cfg MCMsessServer.tla
    tlc -workers 2 -config health.cfg MCSubflowHealth.tla    (and health_forgotten.cfg)
    tlc -workers 2 -config rules.cfg MCRulesGraph.tla
    tlc -workers 2 -config console.cfg MCConsole.tla         (and console_graph.cfg)
    tlapm MsessProofs.tla          tlapm MsessEndProofs.tla
    tlapm MsessServerProofs.tla    tlapm SubflowHealthProofs.tla
    tlapm FilterProofs.tla         tlapm ConsoleFlowsProofs.tla
    tlapm ConsoleEntryProofs.tla   tlapm ConsoleFormsProofs.tla

Every definition marked "mistake" or "mutant" is a plausible error in the
definition that follows it; put in its place, it violates the property it is paired with in
`PROJECT.json`.

## 7. Not modelled

* **Relay registry, bridges, access, tree** (`core/node`): 3000 lines of slots,
  control streams and reverse dials. Its races are in the list of hazards, at their
  lines; they are the next thing to model. A module needs the two slots of a name,
  register, attach, clean-up, disconnect and promotion, and the reverse dial with
  its waiter, refusal, late stream and timeout; a model of the lookups alone would
  leave out the part that is hard. What intermediate hops may do to a carrier is in
  `Msess` (`Splice`, `PathDies`).
* **Prober, path ranking, backoff, the race of the first dial** (`prober.go`,
  `adaptive.go`, `dial.go`): they decide when and where joins are made. `Msess`
  lets a join be made at any time, which is more.
* **Deferred dial and sniffing** (`sniff.go`): three racers for one dial; listed as a
  hazard. The TLS, HTTP and QUIC parsers are byte formats.
* **Legacy bond** (`exit/bond*.go`): the transport before msess, kept for old peers.
* **Matching of flows, the rules table, audit, storage, history**: `RulesNode` has
  what the node accepts of rule sets; which rule a flow matches is a pure lookup
  over addresses and domains. Audit and storage are append, prune and wipe behind
  one lock, on files.
* **Self-update**: signatures and the replacement of a binary by the system's
  loader; the interface's side is `Upgrade`.
* **UDP hopping, VPN mux, QUIC client and server, DNS proxy, certificates, netlink**:
  wrappers over libraries, sockets, files or the kernel.
* **Datagram sessions and checksums** of msess; estimates of RTT and rate.
* **Pages without a model**: overview, tools, settings, proxies, endpoints,
  certificates and storage pages render what one request answers; the animation of
  the sign-in page, charts, translations and the widgets of the kit without state of
  their own are output.
* **Between scenes**: that a page is left while another opens is modelled only where
  something outlives it (the rules draft, the flows of the remote dialog, the
  session). Two pages in use in one tab at the same time do not exist in the code.

------------------------------- MODULE Canvas -------------------------------
(***************************************************************************)
(* The graph of the nodes page (components/NodesGraphView.tsx): the        *)
(* drawings that the node keeps for every session, one of them shown and   *)
(* changed here, while frames of the live list and the polled mesh keep    *)
(* coming. A drawing is a place for some dots and a shape for the one line *)
(* between them; place 0 and shape 0 are the automatic ones. A dot that     *)
(* another session moved slides to its new place, and on its way is at      *)
(* place ON_THE_WAY, where nobody put it.                                  *)
(***************************************************************************)
EXTENDS Integers, Sequences, SequencesExt, FiniteSets, Functions

CONSTANTS DotKeys,      \* the dots there may be
          OwnActs,      \* bounds: what is done here,
          OtherActs,    \*   in another session,
          CanvasFails   \*   and saves that fail

VARIABLE canvas

NoDots == [k \in {} |-> 0]
Drawing(n, e) == [n |-> n, e |-> e]
Blank0 == Drawing(NoDots, 0)
GEO == "geo"
ON_THE_WAY == 3
None2 == "none"

CanvasInits ==
  {[srv |-> [id \in {"default"} |-> Drawing([k \in {"a"} |-> 1], 0)], feed |-> <<>>, known |-> FALSE, slow |-> FALSE,
    list |-> [id \in {} |-> Blank0], pick |-> "default", geo |-> FALSE, loading |-> FALSE,
    loaded |-> None2, pos |-> NoDots, line |-> 0, busy |-> {}, busyLine |-> FALSE, pend |-> NoDots, pendLine |-> {}, anim |-> NoDots,
    drag |-> None2, moved |-> FALSE, start |-> 0, slide |-> {}, puts |-> {}, failed |-> FALSE, dots |-> DotKeys, linked |-> TRUE,
    own |-> OwnActs, other |-> OtherActs, fails |-> CanvasFails]}

\* What is shown: the chosen drawing if it is in the list, else the default
\* one, else an arrangement of the program's own; on the map, its own lines.
ActiveId(c) ==
  IF c.pick = "preset" \/ ~(c.known \/ c.slow) THEN None2
  ELSE IF c.pick \in DOMAIN c.list \ {GEO} THEN c.pick
  ELSE IF "default" \in DOMAIN c.list THEN "default" ELSE None2
EditId(c) == IF c.geo THEN GEO ELSE ActiveId(c)
Shown(c, id) == IF id \in DOMAIN c.list THEN c.list[id] ELSE Blank0

---------------------------------------------------------------------------
\* Each change of the list, of the mesh or of the drawing chosen is followed
\* by a pass over what is shown.

Slots(c, stored) == [k \in DOMAIN stored \cup c.dots |-> IF k \in DOMAIN stored THEN stored[k] ELSE 0]
Take(c, id) ==
  [c EXCEPT !.loaded = id, !.pos = Slots(c, Shown(c, id).n), !.line = Shown(c, id).e, !.pend = NoDots, !.pendLine = {},
            !.anim = NoDots]
\* A dot in hand, or saved here and not yet seen to be, stays where it is.
Waits(c, remote, k) == k \in c.busy \/ (k \in DOMAIN c.pend /\ c.pend[k] # remote[k])
\* (a plausible mistake: a frame that deletes the dot in hand takes it away)
MergedM(c, remote) ==
  [k \in DOMAIN remote \cup c.dots |->
     CASE k \in DOMAIN remote /\ ~Waits(c, remote, k) -> remote[k]
       [] k \in DOMAIN c.pos /\ (k \notin DOMAIN remote \/ Waits(c, remote, k)) -> c.pos[k]
       [] OTHER -> 0]
Merged(c, remote) ==
  LET kept == {k \in DOMAIN remote : ~Waits(c, remote, k) \/ k \in DOMAIN c.pos} \cup (c.busy \cap DOMAIN c.pos)
      at(k) == IF k \in DOMAIN remote /\ ~Waits(c, remote, k) THEN remote[k] ELSE c.pos[k]
      fill(k) == IF k \in DOMAIN c.pos /\ k \notin DOMAIN remote THEN c.pos[k] ELSE 0 IN
  [k \in kept \cup c.dots |-> IF k \in kept THEN at(k) ELSE fill(k)]
\* A dot that is drawn already slides there, over what it slid to before.
At(c, to) == [k \in DOMAIN to |-> IF k \in DOMAIN c.pos THEN c.pos[k] ELSE to[k]]
Slides(c, to) == {k \in (DOMAIN to \cap DOMAIN c.pos) \ c.busy : c.pos[k] # to[k]}
Moves(c, to) ==
  [k \in Slides(c, to) \cup (DOMAIN c.anim \cap DOMAIN to) |-> IF k \in Slides(c, to) THEN to[k] ELSE c.anim[k]]
LineWaits(c, remote) == c.busyLine \/ (c.pendLine # {} /\ c.pendLine # {remote})
\* What the list has as it was saved here waits no longer (a line without a
\* shape is in no list, so it waits on). A shape the list no longer has goes,
\* unless it waits for its save.
StillWaits(c, remote) == {k \in DOMAIN c.pend : k \in c.busy \/ (k \in DOMAIN remote => c.pend[k] # remote[k])}
Reconcile(c) ==
  IF EditId(c) = None2 THEN [c EXCEPT !.loaded = None2]
  ELSE IF c.loaded # EditId(c) THEN Take(c, EditId(c))
  ELSE LET r == Shown(c, EditId(c))  to == Merged(c, r.n) IN
       [c EXCEPT !.pos = At(c, to), !.anim = Moves(c, to), !.line = IF LineWaits(c, r.e) THEN @ ELSE r.e,
                 !.pend = Restrict(@, StillWaits(c, r.n)),
                 !.pendLine = IF @ = {r.e} /\ r.e # 0 /\ ~c.busyLine THEN {} ELSE @]

---------------------------------------------------------------------------
\* The list: a snapshot, then one frame per change; asked for once more where
\* the first frame is slow.

Frame ==
  /\ canvas.feed # <<>>
  /\ canvas' = Reconcile([canvas EXCEPT !.list = Head(canvas.feed), !.known = TRUE, !.feed = Tail(@), !.failed = FALSE])
FirstList == ~canvas.known /\ canvas.feed = <<>> /\ canvas' = [canvas EXCEPT !.feed = <<canvas.srv>>]
SlowList == ~canvas.known /\ ~canvas.slow /\ canvas' = Reconcile([canvas EXCEPT !.slow = TRUE])
\* The polled mesh: a dot or the line comes or goes.
MeshChanges ==
  /\ canvas.own > 0
  /\ \E dots \in {DotKeys, {"a"}} : \E linked \in {dots = DotKeys} :
       /\ dots # canvas.dots
       /\ canvas' = Reconcile([canvas EXCEPT !.dots = dots, !.linked = linked, !.own = @ - 1])
\* A pass on the next poll; what was saved three seconds ago, or more, waits
\* no longer, whether or not the node has answered.
Expire1 ==
  \E old \in SUBSET DOMAIN canvas.pend : \E oldLine \in SUBSET canvas.pendLine :
    canvas' = Reconcile([canvas EXCEPT !.pend = Restrict(@, DOMAIN @ \ old), !.pendLine = @ \ oldLine])
\* Each frame of a slide, in hand or not, and its end.
Animate ==
  \E k \in DOMAIN canvas.anim : \E at \in {ON_THE_WAY, canvas.anim[k]} :
    canvas' = [canvas EXCEPT !.pos = [x \in DOMAIN @ \cup {k} |-> IF x = k THEN at ELSE @[x]],
                             !.anim = IF at = ON_THE_WAY THEN @ ELSE Restrict(@, DOMAIN @ \ {k})]

\* The node stores what it is sent, whichever comes first, and tells everyone.
Put(id, d) == [id |-> id, d |-> d]
Change(c, srv) == [c EXCEPT !.srv = srv, !.feed = IF c.known \/ c.feed # <<>> THEN Append(@, srv) ELSE @]
With(srv, id, d) == [x \in DOMAIN srv \cup {id} |-> IF x = id THEN d ELSE srv[x]]
Store ==
  \E p \in canvas.puts : \E srv \in {With(canvas.srv, p.id, p.d)} :
    canvas' = Change([canvas EXCEPT !.puts = @ \ {p}], srv)
StoreFails ==
  /\ canvas.fails > 0
  /\ \E p \in canvas.puts : canvas' = [canvas EXCEPT !.puts = @ \ {p}, !.fails = @ - 1, !.failed = TRUE]
OtherSession ==
  /\ canvas.other > 0
  /\ \E id \in DOMAIN canvas.srv :
       \/ \E d \in {Drawing(IF id = GEO THEN NoDots ELSE [k \in {"a"} |-> 2], 1)} :
            canvas' = Change([canvas EXCEPT !.other = @ - 1], With(canvas.srv, id, d))
       \/ id # GEO /\ canvas' = Change([canvas EXCEPT !.other = @ - 1], Restrict(canvas.srv, DOMAIN canvas.srv \ {id}))

---------------------------------------------------------------------------
\* Changing it. A save takes the whole drawing, drops the shape of a line
\* that is not there, and on the map keeps lines only.

Saved(c, n, e) ==
  IF EditId(c) = None2 THEN c
  ELSE LET id == EditId(c)
           e2 == IF c.linked THEN e ELSE 0
           d == Drawing(IF id = GEO THEN NoDots ELSE n, e2) IN
       Reconcile([c EXCEPT !.pend = [k \in DOMAIN n \cup DOMAIN @ |-> IF k \in DOMAIN n THEN n[k] ELSE @[k]],
                           !.pendLine = IF Shown(c, id).e # 0 \/ e2 # 0 THEN {e2} ELSE @,
                           !.list = With(@, id, d), !.puts = @ \cup {Put(id, d)}])
CanDrag(c) == EditId(c) # None2 /\ c.drag = None2 /\ c.own > 0 /\ c.known
GrabDot ==
  /\ CanDrag(canvas) /\ ~canvas.geo
  /\ \E k \in canvas.dots :
       canvas' = [canvas EXCEPT !.drag = k, !.moved = FALSE, !.start = canvas.pos[k], !.busy = @ \cup {k}, !.own = @ - 1]
MoveDot ==
  \E k \in canvas.dots \cap {canvas.drag} : canvas' = [canvas EXCEPT !.pos = [x \in DOMAIN @ \cup {k} |-> IF x = k THEN 2 ELSE @[x]], !.moved = TRUE]
\* Let go: it slides to its place (a free one, on the grid), then is saved.
DropDot ==
  \E k \in DotKeys \cap {canvas.drag} :
    IF ~canvas.moved THEN canvas' = [canvas EXCEPT !.drag = None2, !.busy = @ \ {k}]
    ELSE canvas' = [canvas EXCEPT !.drag = None2, !.moved = FALSE,
                                  !.slide = @ \cup {[k |-> k, to |-> IF k \in DOMAIN canvas.pos THEN canvas.pos[k] ELSE canvas.start]}]
Slid ==
  \E s \in canvas.slide :
    \E pos \in {[k \in DOMAIN canvas.pos \cup {s.k} |-> IF k = s.k THEN s.to ELSE canvas.pos[k]]} :
      \E c \in {[canvas EXCEPT !.slide = @ \ {s}, !.pos = pos, !.busy = @ \ {s.k}]} : canvas' = Saved(c, pos, c.line)
\* (a plausible mistake: what was in hand is never released)
CancelDragM == canvas.drag # None2 /\ canvas' = [canvas EXCEPT !.drag = None2, !.moved = FALSE]
CancelDrag ==
  /\ canvas.drag # None2
  /\ \E k \in {canvas.drag} :
       canvas' = [canvas EXCEPT !.drag = None2, !.moved = FALSE, !.busy = @ \ {k}, !.busyLine = FALSE,
                                !.pos = IF k = "line" THEN @ ELSE [x \in DOMAIN @ \cup {k} |-> IF x = k THEN canvas.start ELSE @[x]]]
\* A bend or the label of the line.
GrabLine == CanDrag(canvas) /\ canvas.linked /\ canvas' = [canvas EXCEPT !.drag = "line", !.moved = FALSE, !.busyLine = TRUE, !.own = @ - 1]
MoveLine == canvas.drag = "line" /\ canvas' = [canvas EXCEPT !.line = 2, !.moved = TRUE]
DropLine ==
  /\ canvas.drag = "line"
  /\ \E c \in {[canvas EXCEPT !.drag = None2, !.moved = FALSE, !.busyLine = FALSE]} :
       canvas' = IF canvas.moved THEN Saved(c, c.pos, c.line) ELSE c
ResetLine ==
  /\ CanDrag(canvas) /\ canvas.line # 0
  /\ \E c \in {[canvas EXCEPT !.line = 0, !.own = @ - 1]} : canvas' = Saved(c, c.pos, 0)

Act(c) == canvas.own > 0 /\ canvas' = [c EXCEPT !.own = @ - 1]
\* The menu: another drawing, a copy, a name, everything back, away with it.
Pick == \E p \in (DOMAIN canvas.list \ {GEO}) \cup {"preset"} : p # canvas.pick /\ Act(Reconcile([canvas EXCEPT !.pick = p]))
Picture(c) == IF ActiveId(c) = None2 THEN Drawing([k \in c.dots |-> 0], 0) ELSE Drawing(c.pos, c.line)
Copy ==
  /\ canvas.known /\ "copy" \notin DOMAIN canvas.list /\ ~canvas.geo /\ canvas.puts = {}
  /\ \E d \in {Picture(canvas)} : \E srv \in {With(canvas.srv, "copy", d)} :
       Act(Reconcile(Change([canvas EXCEPT !.list = With(@, "copy", d), !.pick = "copy"], srv)))
Rename ==
  /\ ActiveId(canvas) # None2 /\ ~canvas.geo
  /\ Act([canvas EXCEPT !.puts = @ \cup {Put(ActiveId(canvas), Shown(canvas, ActiveId(canvas)))}])
Reset2 ==
  /\ ActiveId(canvas) # None2 /\ ~canvas.geo /\ canvas.known
  /\ Act(Saved([canvas EXCEPT !.pos = [k \in canvas.dots |-> 0], !.line = 0, !.anim = NoDots], NoDots, 0))
Delete2 ==
  /\ ActiveId(canvas) # None2 /\ ~canvas.geo /\ ActiveId(canvas) \in DOMAIN canvas.srv
  /\ \E keep \in {DOMAIN canvas.srv \ {ActiveId(canvas)}} : \E srv \in {Restrict(canvas.srv, keep)} :
       Act(Reconcile(Change([canvas EXCEPT !.list = Restrict(@, DOMAIN @ \ {ActiveId(canvas)}), !.pick = "preset"], srv)))

\* The map is fetched once; with it the lines are the map's own.
AskMap == ~canvas.geo /\ ~canvas.loading /\ Act([canvas EXCEPT !.loading = TRUE])
MapComes ==
  canvas.loading /\ (canvas' = [canvas EXCEPT !.loading = FALSE] \/ canvas' = Reconcile([canvas EXCEPT !.loading = FALSE, !.geo = TRUE]))
LeaveMap == canvas.geo /\ canvas' = Reconcile([canvas EXCEPT !.geo = FALSE])

CanvasNext ==
  \/ Frame \/ FirstList \/ SlowList \/ MeshChanges \/ Expire1 \/ Animate \/ Store \/ StoreFails \/ OtherSession
  \/ GrabDot \/ MoveDot \/ DropDot \/ Slid \/ CancelDrag \/ GrabLine \/ MoveLine \/ DropLine \/ ResetLine
  \/ Pick \/ Copy \/ Rename \/ Reset2 \/ Delete2 \/ AskMap \/ MapComes \/ LeaveMap

---------------------------------------------------------------------------
\* When nothing is under way (no save, no frame, nothing in hand or sliding) and
\* the last save did not fail, the next poll (three seconds after the last save)
\* shows what the node has stored, or slides there; a drawing that was taken away
\* is not shown.
Still(c) ==
  c.known /\ c.feed = <<>> /\ c.puts = {} /\ c.drag = None2 /\ c.slide = {} /\ c.anim = NoDots /\ ~c.failed
Goes(c, k) == IF k \in DOMAIN c.anim THEN c.anim[k] ELSE c.pos[k]
Converged ==
  Still(canvas) => \E c \in {Reconcile([canvas EXCEPT !.pend = NoDots, !.pendLine = {}])} :
    /\ c.list = c.srv
    /\ EditId(c) \notin {None2, GEO} => EditId(c) \in DOMAIN c.srv
    /\ EditId(c) # None2 =>
         /\ c.line = Shown(c, EditId(c)).e
         /\ \A k \in DOMAIN Shown(c, EditId(c)).n : Goes(c, k) = Shown(c, EditId(c)).n[k]

\* As long as one drawing is shown, nothing but the gesture itself moves the dot
\* or the line in hand, from the press until its save: not a frame, which may
\* move or delete it, not a poll, which may have lost the node, not a save of
\* another dot, an answer or an expiry. Nor does it begin to slide. (A slide
\* that began before the press goes on in hand.)
OwnMove == MoveDot \/ MoveLine \/ Slid \/ CancelDrag \/ Reset2
InHandStays ==
  canvas'.loaded = canvas.loaded /\ ~OwnMove =>
    /\ \A k \in (canvas.busy \cap DOMAIN canvas.pos) \ DOMAIN canvas.anim :
         k \in DOMAIN canvas'.pos /\ canvas'.pos[k] = canvas.pos[k] /\ k \notin DOMAIN canvas'.anim
    /\ canvas.busyLine /\ canvas'.busyLine => canvas'.line = canvas.line
\* The map's drawing has lines only.
MapHasNoDots == GEO \in DOMAIN canvas.srv => canvas.srv[GEO].n = NoDots
=============================================================================

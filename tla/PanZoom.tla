------------------------------ MODULE PanZoom ------------------------------
(***************************************************************************)
(* The gestures on the topology canvases (hooks/usePanZoom.ts): fingers    *)
(* and the mouse pan, zoom or hold something of the canvas's; the wheel    *)
(* and the toolbar glide. A release of the mouse may never be reported.    *)
(***************************************************************************)
EXTENDS Integers, FiniteSets

CONSTANTS Devices,      \* the sets of pointers there may be; "m" is a mouse
          PanActs,      \* bound on the presses and wheel events
          MaxZoom       \* zooms are 1..MaxZoom

VARIABLE pan

NoGesture == [kind |-> "none"]
Panning(id, moved) == [kind |-> "pan", id |-> id, moved |-> moved]
Pinching == [kind |-> "pinch"]
Claimed(id) == [kind |-> "claimed", id |-> id]
Mine(g, id) == g.kind \in {"pan", "claimed"} /\ g.id = id
Lone == "none"

\* "down" is what is really pressed, "ptrs" what the hook knows of it; "held"
\* is what the canvas took of a press; "tap" the click that a release brings.
PanInits ==
  {[all |-> d, down |-> {}, ptrs |-> {}, g |-> NoGesture, held |-> Lone, armed |-> FALSE, tap |-> FALSE, moved |-> {},
    last |-> Lone, k |-> 1, anim |-> "none", target |-> 0, safari |-> FALSE, acts |-> PanActs] : d \in Devices}

Fingers(p) == p.ptrs \ {"m"}
\* A glide of the toolbar or of the wheel ends where the next input begins.
StopAnim(p) == [p EXCEPT !.anim = "none", !.target = 0]
Clamped(k) == IF k < 1 THEN 1 ELSE IF k > MaxZoom THEN MaxZoom ELSE k

---------------------------------------------------------------------------
\* A press. A mouse whose release was lost is forgotten; a second finger
\* takes over what the first one was doing; else what the canvas does not
\* take pans. Two fingers take over from a mouse too, whose pan is forgotten
\* with it: the click that its release brings is not told from any other.
Fresh(p, id) ==
  IF id # "m" THEN p
  ELSE [p EXCEPT !.ptrs = Fingers(p), !.g = IF Fingers(p) = {} THEN NoGesture ELSE @]
\* (a plausible mistake: what was held is not let go)
CancelledM(p) == p
Cancelled(p) == IF p.g.kind = "claimed" THEN [p EXCEPT !.held = Lone] ELSE p
Pressed(p, id, takes) ==
  IF id # "m" /\ Cardinality(p.ptrs) >= 2
  THEN IF Cardinality(Fingers(p)) >= 2 THEN [Cancelled(p) EXCEPT !.g = Pinching, !.moved = @ \ {"m"}] ELSE Cancelled(p)
  ELSE IF Cardinality(p.ptrs) > 1 THEN p
  ELSE IF takes THEN [p EXCEPT !.g = Claimed(id), !.held = id] ELSE [p EXCEPT !.g = Panning(id, FALSE)]
Down ==
  /\ pan.acts > 0 /\ ~pan.tap
  /\ \E id \in pan.all \ pan.down, takes \in BOOLEAN :
       \E p \in {Fresh(StopAnim(pan), id)} :
         pan' = [Pressed([p EXCEPT !.ptrs = @ \cup {id}], id, takes)
                   EXCEPT !.down = @ \cup {id}, !.acts = @ - 1, !.moved = @ \ {id}, !.last = id]

\* Moving: a pinch zooms by its fingers, a press past the threshold pans, and
\* a claimed one is the canvas's.
Move ==
  /\ \E id \in pan.ptrs :
       \/ /\ pan.g.kind = "pinch" /\ Cardinality(Fingers(pan)) >= 2
          /\ \E k \in {Clamped(pan.k - 1), Clamped(pan.k + 1)} :
               pan' = [pan EXCEPT !.k = k, !.last = Lone, !.moved = @ \cup Fingers(pan)]
       \/ /\ pan.g.kind = "pan" /\ pan.g.id = id
          /\ pan' = [pan EXCEPT !.g.moved = TRUE, !.last = Lone, !.moved = @ \cup {id}]

\* The finger that is left when there is one.
Left(p) == CHOOSE id \in Fingers(p) : TRUE
\* (a plausible mistake: the finger left after a pinch pans as a new press)
LiftedM(p, id) ==
  IF p.g.kind = "pinch" /\ Cardinality(Fingers(p)) = 1 THEN [p EXCEPT !.armed = TRUE, !.g = Panning(Left(p), FALSE)]
  ELSE IF p.g.kind = "pinch" /\ Cardinality(Fingers(p)) >= 2 THEN [p EXCEPT !.armed = TRUE]
  ELSE IF Mine(p.g, id) THEN [p EXCEPT !.g = NoGesture, !.armed = @ \/ (p.g.kind = "pan" /\ p.g.moved)]
  ELSE p
\* A release: the fingers left go on pinching, the last one pans; the click
\* it brings is ignored where the view was moved.
Lifted(p, id) ==
  IF p.g.kind = "pinch"
  THEN [p EXCEPT !.armed = TRUE, !.g = IF Cardinality(Fingers(p)) >= 2 THEN @
                                       ELSE IF Fingers(p) = {} THEN NoGesture ELSE Panning(Left(p), TRUE)]
  ELSE IF Mine(p.g, id) \/ p.ptrs = {}
  THEN [p EXCEPT !.armed = @ \/ (Mine(p.g, id) /\ p.g.kind = "pan" /\ p.g.moved), !.g = NoGesture]
  ELSE p
Up ==
  /\ ~pan.tap
  /\ \E id \in pan.down :
       \E p \in {[pan EXCEPT !.ptrs = @ \ {id}, !.down = @ \ {id}, !.held = IF @ = id THEN Lone ELSE @]} :
         pan' = [Lifted(p, id) EXCEPT !.tap = id \in pan.moved, !.last = Lone]
\* The click, and the timer behind it.
Disarm == pan.armed /\ pan' = [pan EXCEPT !.armed = FALSE, !.tap = FALSE, !.last = Lone]
LoseUp == "m" \in pan.down /\ pan' = [pan EXCEPT !.down = @ \ {"m"}, !.last = Lone]

---------------------------------------------------------------------------
\* The wheel: a notch of a mouse moves the target of a glide, a trackpad pans
\* or zooms at once, unless Safari reports the pinch itself.

Base(p) == IF p.anim # "none" /\ p.target # 0 THEN p.target ELSE p.k
Wheeled == [pan EXCEPT !.acts = @ - 1, !.last = Lone]
Notch ==
  /\ pan.acts > 0
  /\ \E step \in {-1, 1} :
       pan' = [Wheeled EXCEPT !.target = Clamped(Base(pan) + step), !.anim = IF @ = "none" THEN "wheel" ELSE @]
TrackPan == pan.acts > 0 /\ pan' = StopAnim(Wheeled)
TrackPinch ==
  /\ pan.acts > 0 /\ ~pan.safari
  /\ \E step \in {-1, 1} : pan' = [StopAnim(Wheeled) EXCEPT !.k = Clamped(@ + step)]
Safari ==
  /\ pan.acts > 0
  /\ \/ pan' = [StopAnim(Wheeled) EXCEPT !.safari = TRUE]
     \/ pan.safari /\ \E k \in 1..MaxZoom : pan' = [Wheeled EXCEPT !.k = k]
     \/ pan.safari /\ pan' = [Wheeled EXCEPT !.safari = FALSE]
\* The toolbar: zoom by a step, or fit.
Toolbar ==
  /\ pan.acts > 0
  /\ \E k \in {Clamped(pan.k - 1), Clamped(pan.k + 1)} : pan' = [StopAnim(Wheeled) EXCEPT !.anim = "to", !.k = k]
\* A frame of the glide; the last one lands on its target.
AnimStep ==
  /\ pan.anim # "none"
  /\ pan' = IF pan.anim = "to" THEN [pan EXCEPT !.anim = "none", !.last = Lone]
            ELSE [pan EXCEPT !.anim = "none", !.k = pan.target, !.target = 0, !.last = Lone]

PanNext ==
  \/ Down \/ Move \/ Up \/ Disarm \/ LoseUp
  \/ Notch \/ TrackPan \/ TrackPinch \/ Safari \/ Toolbar \/ AnimStep

---------------------------------------------------------------------------
\* A gesture is made by pointers that the hook still knows, a pinch by two
\* fingers, and none is left when all are up; what the canvas took it keeps
\* until it is told otherwise.
GesturesEnd ==
  /\ pan.g.kind \in {"pan", "claimed"} => pan.g.id \in pan.ptrs
  /\ pan.g.kind = "pinch" => Cardinality(Fingers(pan)) >= 2
  /\ pan.held # Lone /\ "m" \notin pan.all => pan.g = Claimed(pan.held)
\* The click that ends a press which moved the view does nothing, but for a
\* mouse whose pan two fingers took over.
ClickIgnored == pan.tap => pan.armed
\* After a lost release, a press of the mouse works as ever.
PressWorks == pan.last = "m" /\ pan.down = {"m"} => Mine(pan.g, "m")
\* A glide of the wheel has somewhere to go.
GlideHasTarget == pan.anim = "wheel" => pan.target \in 1..MaxZoom
=============================================================================

-------------------------------- MODULE Dialogs -----------------------------
(***************************************************************************)
(* The dialogs of the console's kit: their motion and stacking             *)
(* (ui-framework/components/Modal.tsx), the lists and menus that open in   *)
(* them (Select, MultiSelect, Menu, ExpandButton, Autocomplete, all over   *)
(* hooks/useDismiss.ts), the questions of ConfirmDialog.tsx and the hold   *)
(* of an ExpandButton.                                                     *)
(***************************************************************************)
EXTENDS Integers, Sequences, SequencesExt, FiniteSets, Filter

CONSTANTS Rendered,   \* how many dialogs a page renders
          Questions   \* bound on questions asked

VARIABLES dialogs,    \* the dialogs
          question,   \* the one confirmation dialog of the app
          hold        \* a button with secondary actions

Modals == 1 .. Rendered   \* in the order of the page's code
DialogsInits ==
  {[open |-> [m \in Modals |-> FALSE], present |-> [m \in Modals |-> FALSE], inter |-> [m \in Modals |-> FALSE],
    ends |-> [m \in Modals |-> {}],   \* what its motion does when it ends
    stack |-> <<>>, list |-> "none"]}

---------------------------------------------------------------------------
\* Motions. A new motion of a dialog cancels the one under way.

Begin(d, m, how) == [d EXCEPT !.ends[m] = {how}]
Top(d) == IF d.stack = <<>> THEN 0 ELSE Last(d.stack)

\* A modal whose `open` turned on or off in this commit stops taking clicks.
Turned(d, opens, closes) ==
  [d EXCEPT !.open = [m \in Modals |-> (d.open[m] \/ m \in opens) /\ m \notin closes],
            !.present = [m \in Modals |-> d.present[m] \/ m \in opens],
            !.inter = [m \in Modals |-> d.inter[m] /\ m \notin opens \cup closes],
            !.list = "none"]

\* The commit's dialogs move together: each that opens takes the place of one
\* that closes while there is one, the others grow out and shrink away.
Flushed(d, opens, closes) ==
  LET rest == Only(d.stack, Modals \ closes)
      going == {m \in Modals : m \in closes}
      news == Only([m \in Modals |-> m], opens)
  IN  [d EXCEPT !.stack = rest \o news,
                !.ends = [m \in Modals |->
                            CASE m \in going -> Begin(d, m, "exited").ends[m]
                              [] m \in opens -> Begin(d, m, "entered").ends[m]
                              [] OTHER -> d.ends[m]]]
Commit ==
  \E opens, closes \in SUBSET Modals :
    /\ opens \cup closes # {} /\ \A m \in opens : ~dialogs.open[m]
    /\ \A m \in closes : dialogs.open[m]
    /\ \E d \in {Turned(dialogs, opens, closes)} : dialogs' = Flushed(d, opens, closes)

MotionEnds ==
  \E m \in Modals : \E e \in dialogs.ends[m] :
    LET d == [dialogs EXCEPT !.ends[m] = @ \ {e}]
    IN  dialogs' = IF e = "entered" THEN [d EXCEPT !.inter[m] = TRUE] ELSE [d EXCEPT !.present[m] = FALSE, !.inter[m] = FALSE]

\* The page that renders a dialog goes away.
Unmount ==
  \E m \in Modals :
    /\ dialogs.present[m]
    /\ dialogs' = [dialogs EXCEPT !.open[m] = FALSE, !.present[m] = FALSE, !.inter[m] = FALSE, !.ends[m] = {},
                                  !.stack = Only(@, Modals \ {m}), !.list = "none"]

---------------------------------------------------------------------------
\* A list in the topmost dialog, and what closes it and the dialog.

OpenList == /\ Top(dialogs) # 0 /\ dialogs.inter[Top(dialogs)] /\ dialogs.list = "none"
            /\ \E l \in {"select", "auto"} : dialogs' = [dialogs EXCEPT !.list = l]
PressOutside == dialogs.list # "none" /\ dialogs' = [dialogs EXCEPT !.list = "none"]
CloseTop(d) == Flushed(Turned(d, {}, {Top(d)}), {}, {Top(d)})
\* A list consumes Escape; the input of an Autocomplete closes its list and
\* lets the key through.
Escape ==
  /\ Top(dialogs) # 0
  /\ dialogs' = IF dialogs.list = "select" THEN [dialogs EXCEPT !.list = "none"] ELSE CloseTop(dialogs)
\* A press and release on the backdrop of a dialog that takes clicks.
Backdrop == \E m \in Modals : /\ dialogs.inter[m] /\ dialogs.open[m] /\ dialogs.list = "none"
                              /\ dialogs' = Flushed(Turned(dialogs, {}, {m}), {}, {m})

DialogsNext == Commit \/ MotionEnds \/ Unmount \/ OpenList \/ PressOutside \/ Escape \/ Backdrop

---------------------------------------------------------------------------
\* Questions: asked one at a time or over one another; the answer is heard by
\* the last asked. The text stays for the exit and is cleared after it.

QuestionInits == {[shown |-> 0, open |-> FALSE, clear |-> FALSE, waiting |-> {}, asked |-> 0]}
AskQuestion ==
  /\ question.asked < Questions
  /\ question' = [shown |-> question.asked + 1, open |-> TRUE, clear |-> FALSE,
                  waiting |-> question.waiting \cup {question.asked + 1}, asked |-> question.asked + 1]
AnswerQuestion ==
  /\ question.open /\ question.shown # 0
  /\ question' = [question EXCEPT !.waiting = @ \ {question.shown}, !.open = FALSE, !.clear = TRUE]
ClearQuestion == question.clear /\ question' = [question EXCEPT !.shown = 0, !.clear = FALSE]
QuestionNext == AskQuestion \/ AnswerQuestion \/ ClearQuestion

---------------------------------------------------------------------------
\* A button with more actions: they open on a hover, on a hold, or from the
\* caret; the click that ends a hold only leaves them open. `ran` tells what the
\* last click did, `held` whether the press it ended had opened the actions.

HoldInits == {[open |-> FALSE, hover |-> "none", press |-> FALSE, long |-> FALSE, down |-> FALSE, ran |-> "none", held |-> FALSE]}
Over == \E t \in {"open", "close"} : hold' = [hold EXCEPT !.hover = t]
HoverTimer == hold.hover # "none" /\ hold' = [hold EXCEPT !.open = hold.hover = "open", !.hover = "none"]
PressDown == ~hold.down /\ hold' = [hold EXCEPT !.down = TRUE, !.long = FALSE, !.press = TRUE, !.held = FALSE, !.ran = "none"]
PressTimer == hold.press /\ hold' = [hold EXCEPT !.press = FALSE, !.long = TRUE, !.open = TRUE, !.held = hold.down]
\* Released on the button, which is a click, or elsewhere: then its timer runs on.
Click(h) == IF h.long THEN [h EXCEPT !.long = FALSE, !.ran = "none"] ELSE [h EXCEPT !.open = FALSE, !.ran = "main"]
Release == /\ hold.down
           /\ hold' \in {Click([hold EXCEPT !.down = FALSE, !.press = FALSE]), [hold EXCEPT !.down = FALSE]}
Caret == hold' = [hold EXCEPT !.hover = "none", !.open = ~@]
Dismiss == hold.open /\ hold' = [hold EXCEPT !.open = FALSE]
HoldNext == Over \/ HoverTimer \/ PressDown \/ PressTimer \/ Release \/ Caret \/ Dismiss

---------------------------------------------------------------------------
\* Properties.

\* Every open dialog is on the stack once and takes clicks or is about to; one
\* that is only present is on its way out and will be unmounted, whichever
\* motions were cut short by others (ModalMotion's stop and whenDone, flushMotion).
NeverDead ==
  \A m \in Modals :
    /\ Cardinality({i \in DOMAIN dialogs.stack : dialogs.stack[i] = m}) = IF dialogs.open[m] THEN 1 ELSE 0
    /\ dialogs.open[m] => dialogs.present[m] /\ (dialogs.inter[m] \/ dialogs.ends[m] = {"entered"})
    /\ ~dialogs.open[m] /\ dialogs.present[m] => ~dialogs.inter[m] /\ dialogs.ends[m] = {"exited"}

\* The question asked last is on screen until it is answered: the timer of an
\* earlier answer does not clear it (ConfirmProvider).
LastIsAsked == question.asked \in question.waiting => question.open /\ question.shown = question.asked

\* The click that ends a hold which opened the actions does not run the main one.
HoldOnlyOpens == hold.held => hold.ran = "none"
=============================================================================

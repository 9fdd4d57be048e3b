----------------------------- MODULE ConsoleForms -----------------------------
(***************************************************************************)
(* The forms and drawings of the web interface: what is typed and dragged  *)
(* in them, and what other sessions, polls and late answers bring in the   *)
(* meantime. What is stated of the parts is collected here under what the  *)
(* user may rely on.                                                       *)
(***************************************************************************)
EXTENDS ConsoleScene, Naturals, Sequences, FiniteSets

CONSTANTS FieldEdits, NodeEntries, Typed, DotKeys, OwnActs, OtherActs, CanvasFails, Nics, Subs, NewNames, NicActs, NicOthers,
          Stored0, PathTexts, TargetOf, Several, UserActs

Nf == INSTANCE NodeForm WITH nform <- at, sform <- at
Cv == INSTANCE Canvas WITH canvas <- at
If == INSTANCE Interfaces WITH nics <- at
Uf == INSTANCE UserForm WITH uform <- at

\* The bounds are numbers; one of the dots is the node's own, and no dot has the
\* name of the line or of nothing.
ASSUME EditsAssumption == FieldEdits \in Nat
ASSUME CanvasAssumption == "a" \in DotKeys /\ DotKeys \cap {"line", "none"} = {} /\ OwnActs \in Nat
\* Entries, and what is typed, are whole: addresses with their three parts, names
\* and bindings that are texts.
ASSUME EntriesAssumption ==
  /\ Typed.rows \subseteq Nf!Addresses
  /\ \A x \in DOMAIN NodeEntries :
       /\ NodeEntries[x].addrs \in Seq(Nf!Addresses)
       /\ NodeEntries[x].punch.signal \in Seq(STRING) /\ NodeEntries[x].punch.binds \in Seq(STRING)
\* Paths are texts, finitely many; the users at first are as the node stores them.
ASSUME StoredAssumption ==
  /\ IsFiniteSet(PathTexts) /\ PathTexts \subseteq STRING
  /\ \A x \in DOMAIN Stored0 : /\ Stored0[x] = Uf!Value(Stored0[x].paths, Stored0[x].mode)
                               /\ Stored0[x].paths \in Seq(STRING) /\ Uf!Sanitized(Stored0[x])
\* One device is there, a sub-interface is none of the devices and has the shape
\* the node reports.
ASSUME NicsAssumption ==
  /\ "eth0" \in DOMAIN Nics
  /\ \A x \in DOMAIN Subs : /\ x \notin DOMAIN Nics
                            /\ Subs[x] = If!Sub(Subs[x].parent, Subs[x].on, Subs[x].set)
                            /\ Subs[x].set \in {If!Off, If!Dhcp} \/ Subs[x].set = If!Static(Subs[x].set.addrs, Subs[x].set.dns)

\* Where a form or drawing starts, and what may happen while it is in use.
FormStart(s) ==
  \/ s = "nform" /\ at \in Nf!NformInits
  \/ s = "sform" /\ at \in Nf!SformInits
  \/ s = "canvas" /\ at \in Cv!CanvasInits
  \/ s = "nics" /\ at \in If!NicsInits
  \/ s = "uform" /\ at \in Uf!UformInits

FormStep(s) ==
  \/ s = "nform" /\ Nf!NformNext
  \/ s = "sform" /\ Nf!SformNext
  \/ s = "canvas" /\ Cv!CanvasNext
  \/ s = "nics" /\ If!NicsNext
  \/ s = "uform" /\ Uf!UformNext

FormsInit == \E s \in Scenes : scene = s /\ FormStart(s)
FormsNext == FormStep(scene) /\ UNCHANGED scene
FormsSpec == FormsInit /\ [][FormsNext]_vars

---------------------------------------------------------------------------
\* What a form sends is sound by the form's own rules and is what it shows: a node
\* entry; the exits of a user, who keep the mode the node stores for them and are
\* aggregated only at one exit; a link to this node, which leads somewhere, or
\* through a node both reach.
SendsWhatItShows ==
  /\ scene = "nform" => Nf!SentIsSound
  /\ scene = "uform" => Uf!ExitsKept /\ Uf!OneExit
  /\ scene = "sform" => Nf!LinkLeads

\* What a dialog has loaded, was seeded with or saves belongs to the entry or the
\* user it is open for, however the list changes and answers are delayed.
OwnsItsEntry == (scene = "nform" => Nf!LoadsAreOwn) /\ (scene = "uform" => Uf!UserIsOwn)

\* The drawings of several sessions come to the same, and the map keeps no dots.
DrawingsConverge == scene = "canvas" => Cv!Converged /\ Cv!MapHasNoDots

\* The interface page keeps what it does not change: every interface has its row,
\* what is shown writes back as it was, what moves finds an interface that stays,
\* what is referred to is there.
InterfacesKept == scene = "nics" => If!OneRowEach /\ If!WritesBack /\ If!MovesToWhatStays /\ If!RefersToWhatIs

\* While one drawing is shown, no frame, poll, answer or expiry moves the dot or
\* the line in hand, or deletes it.
InHandIsKept == [][scene = "canvas" => Cv!InHandStays]_at
=============================================================================

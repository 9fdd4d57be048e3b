------------------------------- MODULE UserForm ------------------------------
(***************************************************************************)
(* Users: the page with its polled list (pages/UsersPage.tsx), the dialog  *)
(* of one user (components/UserModal.tsx) and in it the list of exit paths *)
(* (components/ExitPathList.tsx), whose rows and the dialog's value follow *)
(* each other through effects that run after each commit. A path is one of *)
(* a few texts.                                                            *)
(***************************************************************************)
EXTENDS Integers, Sequences, SequencesExt, FiniteSets, Filter

CONSTANTS Stored0,      \* the users at first: id -> [paths, mode]
          PathTexts,    \* what a row may hold; "" is an empty one
          TargetOf,     \* the exit each path ends at
          Several,      \* the paths with several connections on their way
          UserActs      \* bound on what is done

VARIABLE uform

Value(paths, mode) == [paths |-> paths, mode |-> mode]
Norm(v) == IF v.paths = <<>> THEN Value(<<"">>, v.mode) ELSE v
Filled2(paths) == Only(paths, ToSet(paths) \ {""})
Targets(paths) == {TargetOf[p] : p \in ToSet(Filled2(paths))}
\* What the node stores of a mode: none without a path, aggregation at one exit.
Sanitized(v) ==
  /\ Filled2(v.paths) = <<>> => v.mode = ""
  /\ v.mode = "aggregate" => Cardinality(Targets(v.paths)) <= 1
\* To the node and back.
ToApi(v) == Value(Filled2(v.paths), v.mode)
FromApi(s) == Norm(s)
NewUser == Value(<<"">>, "")
Idle2 == [id |-> "none"]

\* "of" is whom the fields are of, "seed" what they were set to; the exit list
\* has its rows, what it last told, and the mode a button wants.
UformInits ==
  {[users |-> Stored0, seen |-> Stored0, open |-> FALSE, edit |-> "", prev |-> [open |-> FALSE, key |-> ""], of |-> "",
    seed |-> NewUser, touched |-> FALSE, pw |-> "", value |-> NewUser, items |-> <<"">>, last |-> NewUser, want |-> "keep",
    sync |-> FALSE, newValue |-> FALSE, newItems |-> FALSE, saving |-> Idle2, acts |-> UserActs]}

---------------------------------------------------------------------------
\* The dialog is seeded when it opens, or is for somebody else; a user who is
\* gone from the list is as a new one.

EditingOf(u) == IF u.edit \in DOMAIN u.seen THEN u.edit ELSE ""
SeedWith(u, v) ==
  [u EXCEPT !.of = EditingOf(u), !.seed = v, !.touched = FALSE, !.pw = IF EditingOf(u) = "" THEN "" ELSE "own",
            !.value = v, !.newValue = TRUE]
Seeded(u) ==
  LET fresh == u.open /\ (~u.prev.open \/ u.prev.key # EditingOf(u))
      v == IF EditingOf(u) = "" THEN NewUser ELSE FromApi(u.seen[EditingOf(u)]) IN
  [IF fresh THEN SeedWith(u, v) ELSE u EXCEPT !.prev = [open |-> u.open, key |-> EditingOf(u)]]

Settled(u) == ~u.newValue /\ ~u.newItems
OpenUser ==
  /\ ~uform.open /\ Settled(uform)
  /\ \E id \in DOMAIN uform.seen \cup {""} : uform' = Seeded([uform EXCEPT !.open = TRUE, !.edit = id])
CloseUser == uform.open /\ Settled(uform) /\ uform' = Seeded([uform EXCEPT !.open = FALSE])
PollUsers == Settled(uform) /\ uform.seen # uform.users /\ uform' = Seeded([uform EXCEPT !.seen = uform.users])
OtherUsers ==
  /\ uform.acts > 0
  /\ \E id \in DOMAIN uform.users :
       \/ uform' = [uform EXCEPT !.users = [x \in DOMAIN @ \ {id} |-> @[x]], !.acts = @ - 1]
       \/ uform' = [uform EXCEPT !.users[id] = Value(<<"a">>, ""), !.acts = @ - 1]

---------------------------------------------------------------------------
\* The exit list's effects. A value it was given becomes its rows; the old
\* rows are not told meanwhile. Else rows that changed are told, with the mode
\* that fits them.

Taken2(u) ==
  IF u.newValue /\ Norm(u.value) # u.last THEN [u EXCEPT !.last = Norm(u.value), !.items = Norm(u.value).paths, !.sync = TRUE, !.newItems = TRUE]
  ELSE [u EXCEPT !.newItems = FALSE]
ModeFor(u) ==
  LET m == IF u.want # "keep" THEN u.want ELSE u.value.mode IN
  CASE Filled2(u.items) = <<>> -> ""
    [] m = "aggregate" /\ Cardinality(Targets(u.items)) > 1 -> "quality"
    [] OTHER -> m
Told(u) ==
  LET v == Value(u.items, ModeFor(u)) IN
  IF v = u.last THEN [u EXCEPT !.want = "keep"] ELSE [u EXCEPT !.want = "keep", !.last = v, !.value = v, !.newValue = TRUE]
\* (a plausible mistake: the old rows are told along with the new value)
EmittedM(u) == IF u.sync /\ u.newItems THEN Told([u EXCEPT !.items = uform.items, !.sync = FALSE]) ELSE Told([u EXCEPT !.sync = FALSE])
Emitted(u) ==
  CASE u.sync /\ u.newItems -> u            \* given just now: the rows are not there yet
    [] u.sync /\ ~u.newItems -> [u EXCEPT !.sync = FALSE]
    [] OTHER -> Told(u)
Commit2 == ~Settled(uform) /\ uform' = Emitted([Taken2(uform) EXCEPT !.newValue = FALSE])

---------------------------------------------------------------------------
\* What is typed, when the form stands still.

Ready == uform.open /\ Settled(uform) /\ uform.acts > 0
Rows5(items, want) ==
  uform' = [uform EXCEPT !.items = items, !.want = want, !.newItems = TRUE, !.touched = TRUE, !.acts = @ - 1]
TypePath == Ready /\ \E i \in DOMAIN uform.items, p \in PathTexts : Rows5([uform.items EXCEPT ![i] = p], uform.want)
AddPath ==
  /\ Ready /\ Len(uform.items) < 3
  /\ Rows5(Append(uform.items, ""), IF uform.items = <<>> THEN "" ELSE IF uform.value.mode = "" THEN "quality" ELSE uform.value.mode)
Keeps(paths) == Len(paths) > 1 \/ (Len(paths) = 1 /\ paths[1] \in Several)
RemovePath ==
  /\ Ready
  /\ \E i \in DOMAIN uform.items : \E rest \in {RemoveAt(uform.items, i)} :
       Rows5(rest, IF Keeps(Filled2(rest)) THEN uform.value.mode ELSE "")
ReorderPaths == Ready /\ Rows5(Reverse(uform.items), uform.want)
\* All the ways to a node that was given by its name alone.
CompletePaths ==
  /\ Ready
  /\ \E p \in ToSet(Filled2(uform.items)) : \E all \in {Only(SetToSeq(PathTexts), {q \in PathTexts \ {""} : TargetOf[q] = p})} :
       Len(Filled2(uform.items)) = 1 /\ TargetOf[p] = p /\ Len(all) > 1 /\ Rows5(all, IF uform.value.mode = "" THEN "quality" ELSE uform.value.mode)
ModeFree(m, filled) ==
  CASE m = "" -> Len(filled) <= 1
    [] m = "quality" -> Keeps(filled)
    [] OTHER -> Keeps(filled) /\ Cardinality(Targets(filled)) <= 1
SetMode ==
  /\ Ready
  /\ \E m \in {"", "quality", "aggregate"} :
       ModeFree(m, Filled2(uform.items))
       /\ uform' = [uform EXCEPT !.value = Value(uform.items, m), !.newValue = TRUE, !.touched = TRUE, !.acts = @ - 1]
TypePassword == Ready /\ \E p \in {"", "new", "server's"} : uform' = [uform EXCEPT !.pw = p, !.acts = @ - 1]
\* Another tab of the dialog, and back: the list is made anew.
Remount ==
  Ready /\ uform' = [uform EXCEPT !.items = Norm(uform.value).paths, !.last = Norm(uform.value), !.want = "keep", !.sync = FALSE, !.newItems = TRUE]

SaveUser ==
  /\ uform.open /\ Settled(uform) /\ uform.saving = Idle2 /\ uform.pw \notin {"", "server's"} /\ uform.acts > 0
  /\ uform' = [uform EXCEPT !.saving = [id |-> EditingOf(uform), of |-> uform.of, body |-> ToApi(uform.value)], !.acts = @ - 1]
\* The answer closes the dialog, whoever it shows by then.
UserSaved ==
  /\ uform.saving # Idle2 /\ Settled(uform)
  /\ \E id \in {IF uform.saving.id = "" THEN "new" ELSE uform.saving.id} :
       \/ /\ id \in DOMAIN uform.users \cup {"new"}
          /\ uform' = Seeded([uform EXCEPT !.saving = Idle2, !.open = FALSE,
                                           !.users = [x \in DOMAIN @ \cup {id} |-> IF x = id THEN uform.saving.body ELSE @[x]]])
       \/ uform' = [uform EXCEPT !.saving = Idle2]

UformNext ==
  \/ OpenUser \/ CloseUser \/ PollUsers \/ OtherUsers \/ Commit2 \/ TypePath \/ AddPath \/ RemovePath \/ ReorderPaths
  \/ CompletePaths \/ SetMode \/ TypePassword \/ Remount \/ SaveUser \/ UserSaved

---------------------------------------------------------------------------
\* A form nobody has typed in holds what the node stores for the user it was
\* opened for ("emitting old items with it ... reset a quality/aggregate
\* user's mode to direct"), and the rows on screen are what would be saved.
ExitsKept ==
  Settled(uform) /\ uform.open =>
    /\ ~uform.touched => uform.value = uform.seed
    /\ uform.items = Norm(uform.value).paths
\* Aggregation is only ever left on paths that end at one exit.
OneExit == Settled(uform) /\ uform.value.mode = "aggregate" => Cardinality(Targets(uform.value.paths)) <= 1
\* A user is updated with the form of that user, also where the list changed
\* while it was open: never one with what was seeded for another.
UserIsOwn == (uform.open => uform.of = EditingOf(uform)) /\ (uform.saving # Idle2 => uform.saving.of = uform.saving.id)
=============================================================================

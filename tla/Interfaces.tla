----------------------------- MODULE Interfaces -----------------------------
(***************************************************************************)
(* The interfaces page (pages/InterfacesPage.tsx) with its list and its    *)
(* topology (components/InterfacesTopoView.tsx) and its dialogs            *)
(* (InterfaceModal, InterfaceParentModal, InterfaceDetailModal,            *)
(* InterfaceDeleteModal): the NICs of the node, the sub-interfaces made on *)
(* them, and what refers to them: the exits of the two families and the    *)
(* interface for punched connections. One family's settings stand for      *)
(* both.                                                                   *)
(***************************************************************************)
EXTENDS Integers, Sequences, SequencesExt, FiniteSets

CONSTANTS Nics,         \* the interfaces of the system: name -> [kind, takes]
          Subs,         \* the sub-interfaces configured at first: name -> Sub
          NewNames,     \* the names that may be typed
          NicActs,      \* bounds: what is done here
          NicOthers     \*   and in another session

VARIABLE nics

Off == [mode |-> "off", addrs |-> <<>>, dns |-> {}]
Dhcp == [mode |-> "dhcp", addrs |-> <<>>, dns |-> {}]
Static(addrs, dns) == [mode |-> "static", addrs |-> addrs, dns |-> dns]
Sub(parent, on, set) == [parent |-> parent, on |-> on, set |-> set]
NoWindow == [kind |-> "none"]

NicsInits ==
  {[subs |-> Subs, exits |-> [f \in {"v4", "v6"} |-> IF f = "v4" THEN "eth0" ELSE ""], punch |-> "",
    seen |-> <<>>, all |-> FALSE, sel |-> {}, win |-> NoWindow, loops |-> {}, busy |-> FALSE,
    acts |-> NicActs, others |-> NicOthers]}

---------------------------------------------------------------------------
\* What the node reports: the settings of a sub-interface, or what it was
\* leased, and what may carry an exit.

ViewSet(s) ==
  IF s.set.mode = "dhcp" /\ s.on THEN [mode |-> "dhcp", addrs |-> <<"leased">>, dns |-> {"leased"}] ELSE s.set
Report3 ==
  [subs |-> [x \in DOMAIN nics.subs |-> Sub(nics.subs[x].parent, nics.subs[x].on, ViewSet(nics.subs[x]))],
   exits |-> nics.exits, punch |-> nics.punch]
\* The settings as they are sent back.
ChildToBody(x, s) ==
  [name |-> x, parent |-> s.parent, on |-> s.on,
   set |-> IF s.set.mode = "static" THEN s.set ELSE [mode |-> s.set.mode, addrs |-> <<>>, dns |-> {}]]

Data == nics.seen # <<>>
Page == nics.seen[1]
Hidden(x) == x \in DOMAIN Nics /\ Nics[x].kind # "physical"
Listed == IF Data THEN {x \in DOMAIN Nics \cup DOMAIN Page.subs : nics.all \/ ~Hidden(x)} ELSE {}
IsSub(x) == Data /\ x \in DOMAIN Page.subs
Kind(x) == IF IsSub(x) THEN "child" ELSE Nics[x].kind
Selected == nics.sel \cap Listed
Parents == {x \in Listed : Kind(x) = "physical" /\ Nics[x].takes}

\* The tree: a row per interface, the sub-interfaces below their NIC; one
\* whose NIC is not there is a row of its own.
Known == {x \in Listed : ~IsSub(x)}
KidsOf(x) == {c \in Listed : IsSub(c) /\ Page.subs[c].parent = x}
Tops == Known \cup {c \in Listed : IsSub(c) /\ Page.subs[c].parent \notin Known}
Rows == {<<x>> : x \in Tops} \cup UNION {{<<x, c>> : c \in KidsOf(x)} : x \in {y \in Tops : ~IsSub(y)}}

---------------------------------------------------------------------------
\* The page: polled, and fetched again after what is done here. Rows that are
\* not shown any more are not selected; a dialog of details closes with its
\* interface.

Poll ==
  /\ nics' = [nics EXCEPT !.seen = <<Report3>>,
                          !.sel = @ \cap {x \in DOMAIN Nics \cup DOMAIN nics.subs : nics.all \/ ~Hidden(x)},
                          !.win = IF @.kind = "detail" /\ @.of \notin DOMAIN Nics \cup DOMAIN nics.subs THEN NoWindow ELSE @]
Act3 == nics.acts > 0 /\ Data
ShowAll ==
  /\ Act3
  /\ nics' = [nics EXCEPT !.acts = @ - 1, !.all = ~@, !.sel = IF nics.all THEN {x \in @ : ~Hidden(x)} ELSE @,
                          !.win = IF nics.all /\ @.kind = "detail" /\ Hidden(@.of) THEN NoWindow ELSE @]
\* A click in the topology selects one, a check mark in the list adds one.
PickNic ==
  /\ Act3 /\ nics.win = NoWindow
  /\ \E x \in Listed : \E sel \in {{x}, IF x \in nics.sel THEN nics.sel \ {x} ELSE nics.sel \cup {x}} :
       Cardinality(sel) <= 2 /\ nics' = [nics EXCEPT !.sel = sel]
OpenNic == nics.win = NoWindow /\ \E x \in Listed : nics' = [nics EXCEPT !.win = [kind |-> "detail", of |-> x]]
CloseNic == nics.win # NoWindow /\ nics' = [nics EXCEPT !.win = NoWindow]

\* What is asked of the node goes one by one, up to the first refusal.
Request(op, x, arg) == [op |-> op, x |-> x, arg |-> arg]
Start(n, todo, win) == [n EXCEPT !.loops = @ \cup {[todo |-> todo, win |-> win]}, !.acts = @ - 1]
Enabling(xs, on) ==
  LET turn == {x \in xs : Page.subs[x].on # on} IN
  [i \in 1..Cardinality(turn) |->
     LET x == SetToSeq(turn)[i] IN Request("update", x, [ChildToBody(x, Page.subs[x]) EXCEPT !.on = on])]
BulkEnable ==
  /\ Act3 /\ Selected # {} /\ nics.win = NoWindow
  /\ \A x \in Selected : IsSub(x)
  /\ \E on \in BOOLEAN :
       (\E x \in Selected : Page.subs[x].on # on) /\ nics' = Start(nics, Enabling(Selected, on), "")
ToggleNic ==
  /\ Act3 /\ nics.win.kind = "detail" /\ IsSub(nics.win.of)
  /\ nics' = Start(nics, Enabling({nics.win.of}, ~Page.subs[nics.win.of].on), "")

\* One exit is changed by sending both; one such request at a time.
CanExit(x) == IF IsSub(x) THEN Page.subs[x].on /\ Page.subs[x].set.mode # "off" ELSE Nics[x].kind = "physical"
SetExit ==
  /\ Act3 /\ ~nics.busy /\ Cardinality(Selected) = 1 /\ nics.win = NoWindow
  /\ \E x \in Selected, f \in {"v4", "v6"} :
       /\ Page.exits[f] = x \/ CanExit(x)
       /\ nics' = [Start(nics, <<Request("exits", x, [Page.exits EXCEPT ![f] = IF @ = x THEN "" ELSE x])>>, "") EXCEPT !.busy = TRUE]
SetPunch ==
  /\ Act3 /\ ~nics.busy /\ Cardinality(Selected) = 1 /\ nics.win = NoWindow
  /\ \E x \in Selected :
       nics' = [Start(nics, <<Request("punch", x, IF Page.punch = x THEN "" ELSE x)>>, "") EXCEPT !.busy = TRUE]

\* The form, of a new sub-interface or of one there is.
Form(editing, body) == [kind |-> "form", editing |-> editing, body |-> body, saving |-> FALSE]
AddSub ==
  /\ Act3
  /\ \/ nics.win = NoWindow /\ Parents # {}
        /\ nics' = [nics EXCEPT !.win = IF Cardinality(Selected) = 1 /\ Selected \subseteq Parents
                                        THEN Form("", [name |-> "", parent |-> CHOOSE p \in Selected : TRUE, on |-> TRUE, set |-> Dhcp])
                                        ELSE [kind |-> "pick"]]
     \/ nics.win.kind = "pick" /\ \E p \in Parents :
          nics' = [nics EXCEPT !.win = Form("", [name |-> "", parent |-> p, on |-> TRUE, set |-> Dhcp])]
     \/ nics.win.kind = "detail" /\ nics.win.of \in Parents
        /\ nics' = [nics EXCEPT !.win = Form("", [name |-> "", parent |-> nics.win.of, on |-> TRUE, set |-> Dhcp])]
EditSub ==
  /\ Act3
  /\ \E x \in IF nics.win.kind = "detail" THEN {nics.win.of} ELSE IF nics.win = NoWindow THEN Selected ELSE {} :
       IsSub(x) /\ nics' = [nics EXCEPT !.win = Form(x, ChildToBody(x, Page.subs[x]))]
TypeSub ==
  /\ nics.acts > 0 /\ nics.win.kind = "form" /\ ~nics.win.saving
  /\ \/ \E n \in NewNames : nics' = [nics EXCEPT !.win.body.name = n, !.acts = @ - 1]
     \/ \E p \in Parents : nics.win.editing # "" /\ nics' = [nics EXCEPT !.win.body.parent = p, !.acts = @ - 1]
     \/ \E s \in {Off, Dhcp, Static(<<"a">>, {"d"}), Static(<<>>, {})} : nics' = [nics EXCEPT !.win.body.set = s, !.acts = @ - 1]
FormFits(w) ==
  /\ w.body.name # "" /\ (w.body.name # w.editing => w.body.name \notin Listed)
  /\ w.body.set.mode = "static" => w.body.set.addrs # <<>>
SaveSub ==
  /\ nics.acts > 0 /\ nics.win.kind = "form" /\ ~nics.win.saving /\ FormFits(nics.win)
  /\ nics' = Start([nics EXCEPT !.win.saving = TRUE],
                   <<Request(IF nics.win.editing = "" THEN "create" ELSE "update", nics.win.editing, nics.win.body)>>, "form")

\* Deleting, one by one; what refers to the ones that go moves to another.
AskDelete ==
  /\ Act3
  /\ \E xs \in {IF nics.win.kind = "detail" THEN {nics.win.of} ELSE IF nics.win = NoWindow THEN Selected ELSE {}} :
       /\ xs # {} /\ \A x \in xs : IsSub(x)
       /\ nics' = [nics EXCEPT !.win = [kind |-> "delete", xs |-> SetToSeq(xs), to |-> "", busy |-> FALSE]]
\* (a plausible mistake: only the first of them is left out)
CandidatesM(xs) == Listed \ {Head(xs)}
Candidates(xs) == Listed \ Range(xs)
ChooseTo ==
  /\ nics.win.kind = "delete" /\ ~nics.win.busy
  /\ \E to \in Candidates(nics.win.xs) : nics' = [nics EXCEPT !.win.to = to]
Delete3 ==
  /\ nics.acts > 0 /\ nics.win.kind = "delete" /\ nics.win.to # "" /\ ~nics.win.busy
  /\ nics' = Start([nics EXCEPT !.win.busy = TRUE],
                   [i \in DOMAIN nics.win.xs |-> Request("delete", nics.win.xs[i], nics.win.to)], "delete")

---------------------------------------------------------------------------
\* The node. What refers to a sub-interface follows it.

Exists(x) == x \in DOMAIN Nics \cup DOMAIN nics.subs
Moved(x, old, new) == IF x = old THEN new ELSE x
Without3(subs, x) == [y \in DOMAIN subs \ {x} |-> subs[y]]
Stored3(b) == Sub(b.parent, b.on, IF b.set.mode = "static" THEN b.set ELSE [b.set EXCEPT !.addrs = <<>>])
Accepts(r) ==
  CASE r.op = "create" -> ~Exists(r.arg.name) /\ r.arg.parent \in DOMAIN Nics
    [] r.op = "update" -> r.x \in DOMAIN nics.subs /\ r.arg.parent \in DOMAIN Nics /\ (r.arg.name # r.x => ~Exists(r.arg.name))
    [] r.op = "delete" -> r.x \in DOMAIN nics.subs /\ r.arg # r.x /\ Exists(r.arg)
    [] r.op = "exits" -> \A f \in DOMAIN r.arg : r.arg[f] # "" => Exists(r.arg[f])
    [] OTHER -> r.arg = "" \/ Exists(r.arg)
Named3(subs, name, s) == [y \in DOMAIN subs \cup {name} |-> IF y = name THEN s ELSE subs[y]]
Effect(n, r) ==
  CASE r.op = "create" -> [n EXCEPT !.subs = Named3(@, r.arg.name, Stored3(r.arg))]
    [] r.op = "update" -> [n EXCEPT !.subs = Named3(Without3(@, r.x), r.arg.name, Stored3(r.arg)),
                                    !.exits = [f \in DOMAIN @ |-> Moved(@[f], r.x, r.arg.name)], !.punch = Moved(@, r.x, r.arg.name)]
    [] r.op = "delete" -> [n EXCEPT !.subs = Without3(@, r.x),
                                    !.exits = [f \in DOMAIN @ |-> Moved(@[f], r.x, r.arg)], !.punch = Moved(@, r.x, r.arg)]
    [] r.op = "exits" -> [n EXCEPT !.exits = r.arg]
    [] OTHER -> [n EXCEPT !.punch = r.arg]
\* A dialog closes when its requests are done, and stays after a refusal.
Ended(n, l, ok) ==
  [n EXCEPT !.loops = @ \ {l}, !.busy = @ /\ l.todo # <<>> /\ l.todo[1].op \notin {"exits", "punch"},
            !.win = IF @.kind # l.win THEN @ ELSE IF ok THEN NoWindow
                    ELSE IF l.win = "form" THEN [@ EXCEPT !.saving = FALSE] ELSE [@ EXCEPT !.busy = FALSE]]
Serve3 ==
  \E l \in nics.loops :
    \E r \in {l.todo[1]} :
      IF ~Accepts(r) THEN nics' = Ended(nics, l, FALSE)
      ELSE IF Len(l.todo) = 1 THEN nics' = Ended(Effect(nics, r), l, TRUE)
      ELSE nics' = [Effect(nics, r) EXCEPT !.loops = (@ \ {l}) \cup {[l EXCEPT !.todo = Tail(@)]}]
OtherNics ==
  /\ nics.others > 0
  /\ \E x \in DOMAIN nics.subs : \E r \in {Request("delete", x, "eth0"), Request("exits", x, [v4 |-> x, v6 |-> ""]),
                                           Request("punch", x, x)} :
       Accepts(r) /\ nics' = [Effect(nics, r) EXCEPT !.others = @ - 1]

NicsNext ==
  \/ Poll \/ ShowAll \/ PickNic \/ OpenNic \/ CloseNic \/ BulkEnable \/ ToggleNic \/ SetExit \/ SetPunch
  \/ AddSub \/ EditSub \/ TypeSub \/ SaveSub \/ AskDelete \/ ChooseTo \/ Delete3 \/ Serve3 \/ OtherNics

---------------------------------------------------------------------------
\* Each interface listed has one row, whatever became of its NIC.
OneRowEach == Data => \E rows \in {Rows} : \A x \in Listed : Cardinality({r \in rows : Last(r) = x}) = 1
\* Sending back what is shown of a sub-interface that nobody changed since
\* changes nothing of it: never what it was leased.
WritesBack ==
  Data => \A x \in DOMAIN Page.subs \cap DOMAIN nics.subs :
    Page.subs[x] = Report3.subs[x] => Stored3(ChildToBody(x, Page.subs[x])) = nics.subs[x]
\* What moves when interfaces are deleted moves to one that stays, and a
\* request of several is about sub-interfaces only.
MovesToWhatStays ==
  \A l \in nics.loops : \A i \in DOMAIN l.todo :
    /\ l.todo[i].op = "delete" => \A j \in DOMAIN l.todo : l.todo[j].x # l.todo[i].arg
    /\ l.todo[i].op \in {"delete", "update"} => l.todo[i].x \notin DOMAIN Nics
\* An exit or the punch interface is always one that there is.
RefersToWhatIs == \A x \in {nics.exits.v4, nics.exits.v6, nics.punch} \ {""} : Exists(x)
=============================================================================

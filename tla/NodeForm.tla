------------------------------- MODULE NodeForm -----------------------------
(***************************************************************************)
(* The dialogs that add and change a node: an entry of this node's list    *)
(* (components/NodeModal.tsx, OrderedList.tsx) and this node itself        *)
(* (components/EditSelfModal.tsx). An address is its host, its port and    *)
(* the interface it is bound to; a host or a binding is one of a few that  *)
(* the form tells apart.                                                   *)
(***************************************************************************)
EXTENDS Integers, Sequences, SequencesExt, FiniteSets, Filter

CONSTANTS FieldEdits,   \* bound on what is typed
          NodeEntries,  \* the entries the node holds, by name
          Typed         \* what may be typed: [rows, paths, binds, names]

VARIABLES nform,        \* the dialog of one entry
          sform         \* the dialog of this node

V6 == "v6"              \* an IPv6 address, bare or in brackets
Bracketed(h) == IF h = V6 THEN "[v6]" ELSE h
FamilyOf(b) == CASE b = "eth0/4" -> 4 [] b = "eth0/6" -> 6 [] OTHER -> 0
BindFits(b, fam) == FamilyOf(b) \in {0, fam}
Addresses == [host : STRING, port : STRING, bind : STRING]
Row(h, p, b) == [host |-> h, port |-> p, bind |-> b]
BlankRow == Row("", "", "")
ValidPort(p) == p \in {"443", "500-600"}
Banned(name) == name \in {"a/b", "h1:443#eth0/4", "[v6]:443#eth0/4", "h1:500-600#eth0/4", "[v6]:500-600#eth0/4"}
AddrName(r) == r.host \o ":" \o r.port \o (IF r.bind = "" THEN "" ELSE "#" \o r.bind)
Full(s) == Only(s, ToSet(s) \ {""})
Fitting(binds, fam) == Only(binds, {b \in ToSet(binds) : BindFits(b, fam)})

---------------------------------------------------------------------------
\* Opening: the fields go back to their defaults at once; for an entry, the
\* node is asked for it, and the answer to an earlier target is dropped.

Defaults(target, punch) ==
  [name |-> IF punch # "" THEN punch ELSE target,
   rows |-> IF punch # "" THEN <<>> ELSE <<BlankRow>>, pw |-> "", insecure |-> TRUE,
   signal |-> IF punch # "" THEN <<punch>> ELSE <<"">>,   \* each path by the node it ends at
   binds |-> <<"">>, fam |-> 4, brutal |-> FALSE, tx |-> "", caSource |-> "none", caText |-> ""]
NoSave == [op |-> "none"]
NformInits ==
  {[open |-> FALSE, target |-> "", punch |-> "", form |-> Defaults("", ""), from |-> "", loads |-> {}, fills |-> {},
    saving |-> NoSave, edits |-> FieldEdits, live |-> [n \in DOMAIN NodeEntries |-> FALSE]]}

OpenNode ==
  /\ ~nform.open
  /\ \E target \in DOMAIN NodeEntries \cup {""}, punch \in {"", "P"} :
       /\ target # "" => punch = ""
       /\ nform' = [nform EXCEPT !.open = TRUE, !.target = target, !.punch = punch, !.form = Defaults(target, punch),
                                 !.from = "", !.loads = IF target = "" THEN @ ELSE {[of |-> target, on |-> TRUE]}]
\* What a closed form holds is never seen: opening it sets every field.
Closed3(f) == [f EXCEPT !.open = FALSE, !.loads = {[l EXCEPT !.on = FALSE] : l \in f.loads}, !.form = Defaults("", ""), !.from = ""]
CloseNode == nform.open /\ nform' = Closed3(nform)

\* What an entry's values look like in the form.
FormOf(e, name) ==
  [name |-> name, rows |-> IF e.addrs = <<>> THEN <<BlankRow>> ELSE e.addrs, pw |-> e.pw, insecure |-> e.insecure,
   signal |-> IF e.punch.signal = <<>> THEN <<"">> ELSE e.punch.signal,
   binds |-> IF e.punch.binds = <<>> THEN <<"">> ELSE e.punch.binds, fam |-> e.punch.fam,
   brutal |-> e.tx # "", tx |-> e.tx, caSource |-> e.caKind, caText |-> IF e.caKind = "manual" THEN e.ca ELSE ""]
Loaded2M(f, l) == [f EXCEPT !.loads = @ \ {l}, !.form = FormOf(NodeEntries[l.of], f.form.name), !.from = l.of]
Loaded2(f, l) == IF l.on THEN [f EXCEPT !.loads = @ \ {l}, !.form = FormOf(NodeEntries[l.of], f.form.name), !.from = l.of]
                 ELSE [f EXCEPT !.loads = @ \ {l}]
LoadNode == \E l \in nform.loads : nform' = Loaded2(nform, l)

\* The password of a node this tab is signed in to: asked for, and put in the
\* form when it comes, whatever the form shows by then.
Fill == /\ nform.open /\ nform.punch # "" /\ nform.fills = {}
        /\ nform' = [nform EXCEPT !.fills = {nform.punch}]
Filled == \E p \in nform.fills : nform' \in {[nform EXCEPT !.fills = {}, !.form.pw = IF nform.open THEN "of " \o p ELSE @], [nform EXCEPT !.fills = {}]}

---------------------------------------------------------------------------
\* Typing. The name of a connected node that is not a foreign server is locked.

Locked(f) == f.target # "" /\ f.live[f.target] /\ ~NodeEntries[f.target].native
RowChanges(f) ==
  {[f EXCEPT !.rows[i] = r] : i \in DOMAIN f.rows, r \in Typed.rows}
  \cup (IF Len(f.rows) < 2 THEN {[f EXCEPT !.rows = Append(@, BlankRow)]} ELSE {})
  \cup {[f EXCEPT !.rows = RemoveAt(@, i)] : i \in IF Len(f.rows) > IF Full(f.signal) = <<>> THEN 1 ELSE 0 THEN DOMAIN f.rows ELSE {}}
\* Another family drops bindings of the other.
PunchChanges(f) ==
  {[f EXCEPT !.signal[i] = s] : i \in DOMAIN f.signal, s \in Typed.paths}
  \cup {[f EXCEPT !.binds = <<b>>] : b \in {x \in Typed.binds : BindFits(x, f.fam)}}
  \cup {[f EXCEPT !.fam = 10 - @, !.binds = LET kept == Fitting(f.binds, 10 - f.fam) IN IF kept = <<>> THEN <<"">> ELSE kept]}
\* Closing Brutal clears its ceilings.
OptionChanges(f) ==
  {[f EXCEPT !.brutal = ~@, !.tx = IF f.brutal THEN "" ELSE @]}
  \cup {[f EXCEPT !.tx = "20"] : x \in IF f.brutal THEN {1} ELSE {}}
  \cup {[f EXCEPT !.caSource = c] : c \in {"none", "cert", "manual"}}
  \cup {[f EXCEPT !.caText = "pem"] : x \in IF f.caSource = "manual" THEN {1} ELSE {}}
FieldChanges(f, locked) ==
  {[f EXCEPT !.name = n] : n \in IF locked THEN {} ELSE Typed.names} \cup {[f EXCEPT !.pw = p] : p \in {"", "typed"}}
  \cup RowChanges(f) \cup PunchChanges(f) \cup OptionChanges(f)
TypeField ==
  /\ nform.open /\ nform.edits > 0
  /\ \E f \in FieldChanges(nform.form, Locked(nform)) : nform' = [nform EXCEPT !.form = f, !.edits = @ - 1]
\* The peer connects or goes.
Peer == nform.target # "" /\ nform' = [nform EXCEPT !.live[nform.target] = ~@]

---------------------------------------------------------------------------
\* Saving.

ManualBlank(f) == \A i \in DOMAIN f.rows : f.rows[i].host = "" /\ f.rows[i].port = ""
RowOk(r) == r.host # "" /\ r.host # "::bad" /\ ValidPort(r.port)
SentRows(f) == [i \in DOMAIN f.rows |-> [f.rows[i] EXCEPT !.host = Bracketed(@)]]
NoDup(s) == Cardinality(ToSet(s)) = Len(s)
AddrsOk(f) == \/ ManualBlank(f) /\ Full(f.signal) # <<>>
              \/ f.rows # <<>> /\ (\A i \in DOMAIN f.rows : RowOk(f.rows[i])) /\ NoDup(SentRows(f))
AddrsOf(f) == IF ManualBlank(f) /\ Full(f.signal) # <<>> THEN <<>> ELSE SentRows(f)
\* A new entry without a name takes its first address for one.
NameFor(f, target) ==
  CASE f.name # "" -> IF Banned(f.name) THEN "" ELSE f.name
    [] f.name = "" /\ target = "" /\ AddrsOf(f) # <<>> -> AddrName(AddrsOf(f)[1])
    [] OTHER -> ""
PathsEnd(f, name) == \A i \in DOMAIN f.signal : f.signal[i] \in {"", name}
Submittable(f, target) ==
  /\ AddrsOk(f) /\ NameFor(f, target) # ""
  /\ AddrsOf(f) # <<>> => f.pw # ""
  /\ PathsEnd(f, NameFor(f, target))
EntryOf(f, target) ==
  [name |-> NameFor(f, target), addrs |-> AddrsOf(f), pw |-> f.pw, insecure |-> f.insecure, tx |-> f.tx,
   punch |-> [signal |-> Full(f.signal), fam |-> f.fam,
              binds |-> IF Full(f.signal) = <<>> THEN <<>> ELSE Fitting(f.binds, f.fam)],
   ca |-> CASE f.caSource = "manual" -> f.caText [] f.caSource = "none" -> "" [] OTHER -> f.caSource]
SaveNode ==
  /\ nform.open /\ nform.saving = NoSave /\ Submittable(nform.form, nform.target)
  /\ nform' = [nform EXCEPT !.saving = [op |-> "save", target |-> nform.target, entry |-> EntryOf(nform.form, nform.target),
                                        live |-> Locked(nform), brutal |-> nform.form.brutal, from |-> nform.from]]
\* Its answer closes the dialog, whichever entry that shows by then.
SaveDone == nform.saving # NoSave
            /\ nform' \in {Closed3([nform EXCEPT !.saving = NoSave]), [nform EXCEPT !.saving = NoSave]}

NformNext == OpenNode \/ CloseNode \/ LoadNode \/ Fill \/ Filled \/ TypeField \/ Peer \/ SaveNode \/ SaveDone

---------------------------------------------------------------------------
\* This node: seeded when it opens, or when the node's state comes in later;
\* its password must not be a user's; its link holds addresses others can dial.

Wildcard(h) == h \in {"", "0.0.0.0", "::"}
SformInits ==
  {[open |-> FALSE, node |-> n, known |-> k, users |-> u, host |-> "", share |-> "", port |-> "", pw |-> "", seeded |-> "",
    sent |-> "", link |-> NoSave, left |-> FieldEdits] :
     n \in {[host |-> "0.0.0.0", pw |-> "p"], [host |-> "[v6]", pw |-> ""]}, k, u \in BOOLEAN}
SeedSelf(s) ==
  IF s.open /\ s.known
  THEN [s EXCEPT !.host = IF s.node.host = "[v6]" THEN V6 ELSE s.node.host, !.port = "443", !.pw = s.node.pw, !.seeded = "yes",
                 !.share = IF Wildcard(s.node.host) THEN "" ELSE V6]
  ELSE s
OpenSelf == ~sform.open /\ sform' = SeedSelf([sform EXCEPT !.open = TRUE, !.seeded = ""])
CloseSelf == sform.open /\ sform' = [sform EXCEPT !.open = FALSE]
NodeComes == ~sform.known /\ sform' = SeedSelf([sform EXCEPT !.known = TRUE])
\* Later answers of the node do not touch the form.
NodeAgain == sform.known /\ \E p \in {"p", "q"} : sform' = [sform EXCEPT !.node.pw = p]
UsersCome == ~sform.users /\ sform' = [sform EXCEPT !.users = TRUE]
TypeSelf ==
  /\ sform.open /\ sform.left > 0
  /\ \E s \in {[sform EXCEPT !.share = h] : h \in {"", V6, "::", "_relay_api_"}} \cup {[sform EXCEPT !.port = p] : p \in {"", "0", "443"}}
              \cup {[sform EXCEPT !.pw = "user's"]} :
       sform' = [s EXCEPT !.left = @ - 1]
SaveSelf ==
  /\ sform.open /\ ~(sform.users /\ sform.pw = "user's")
  /\ sform' = [sform EXCEPT !.sent = sform.pw]
SelfSaved == sform.sent # "" /\ sform' = [sform EXCEPT !.sent = "", !.open = FALSE]
PublicHosts == <<"1.2.3.4", V6>>
Shareable(h, port) == ~Wildcard(h) /\ h # "_relay_api_" /\ port \notin {"", "0"}
LinkAddrs(s) == LET hosts == IF s.share = "" THEN PublicHosts ELSE <<s.share>> IN Only(hosts, {h \in ToSet(hosts) : Shareable(h, s.port)})
ExportSelf ==
  /\ sform.open /\ sform.pw # ""
  /\ \E via \in {<<>>, <<"N">>} :
       /\ LinkAddrs(sform) # <<>> \/ via # <<>>
       /\ sform' = [sform EXCEPT !.link = [op |-> "link", addrs |-> LinkAddrs(sform), port |-> sform.port, via |-> via]]
SformNext == OpenSelf \/ CloseSelf \/ NodeComes \/ NodeAgain \/ UsersCome \/ TypeSelf \/ SaveSelf \/ SelfSaved \/ ExportSelf

---------------------------------------------------------------------------
\* Properties.

\* The form never takes the values of another entry than the one it is open
\* for, however late the node answers (the effect's cancelled flag).
LoadsAreOwn == nform.open => nform.from \in {"", nform.target}

\* Whatever was typed, in whichever order: an entry is sent with complete and
\* distinct addresses and a password for them, or with a way to punch; its
\* punch paths end at the name it is sent under, its bindings fit their family,
\* and no ceiling goes with it that the form does not show (handleSubmit).
SentIsSound ==
  nform.saving # NoSave =>
    LET e == nform.saving.entry
    IN  /\ e.addrs # <<>> \/ e.punch.signal # <<>>
        /\ NoDup(e.addrs) /\ \A i \in DOMAIN e.addrs : e.addrs[i].host \notin {"", V6} /\ ValidPort(e.addrs[i].port)
        /\ e.addrs # <<>> => e.pw # ""
        /\ \A i \in DOMAIN e.punch.signal : e.punch.signal[i] = e.name
        /\ \A i \in DOMAIN e.punch.binds : BindFits(e.punch.binds[i], e.punch.fam)
        /\ e.tx # "" => nform.saving.brutal

\* A link this node exports leads somewhere: to an address another node can
\* dial, or through a node both reach (EditSelfModal.tsx).
LinkLeads ==
  /\ sform.link # NoSave => /\ sform.link.addrs # <<>> \/ sform.link.via # <<>>
                            /\ \A i \in DOMAIN sform.link.addrs : Shareable(sform.link.addrs[i], sform.link.port)
=============================================================================

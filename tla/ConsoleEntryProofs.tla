-------------------------- MODULE ConsoleEntryProofs --------------------------
(***************************************************************************)
(* What the dialogs of a node's entry, of this node and of a user may be   *)
(* relied on for, whatever is stored, typed, answered late or changed in   *)
(* another session: the lemmas from which ConsoleFormsProofs concludes.    *)
(***************************************************************************)
EXTENDS ConsoleForms, FilterProofs, Integers, Sequences, SequencesExt, FiniteSets, FiniteSetTheorems, SequenceTheorems, TLAPS

\* A record with these fields and no other.
Rec(r, fields) == r = [f \in fields |-> r[f]]

---------------------------------------------------------------------------
\* The dialog of a node's entry (NodeForm) and of a user (UserForm).

NformFields == {"open", "target", "punch", "form", "from", "loads", "fills", "saving", "edits", "live"}

\* The loads that are still heard are of the entry the dialog is open for.
OwnLoads(f) ==
  /\ Rec(f, NformFields)
  /\ \A l \in f.loads : Rec(l, {"of", "on"}) /\ (l.on => f.open /\ l.of = f.target)
  /\ f.open => f.from \in {"", f.target}
NformInv == OwnLoads(at)

LEMMA NformStarts == at \in Nf!NformInits => NformInv
<1> SUFFICES ASSUME at \in Nf!NformInits PROVE OwnLoads(at)
  BY DEF NformInv
<1>1. Rec(at, NformFields)
  BY DEF Nf!NformInits, Rec, NformFields
<1>2. at.loads = {} /\ at.from = ""
  <2> PICK form, live, saving :
        at = [open |-> FALSE, target |-> "", punch |-> "", form |-> form, from |-> "", loads |-> {}, fills |-> {},
              saving |-> saving, edits |-> FieldEdits, live |-> live]
    BY DEF Nf!NformInits
  <2> QED OBVIOUS
<1> QED BY <1>1, <1>2 DEF OwnLoads

LEMMA OthersKeep ==
  ASSUME NEW f, OwnLoads(f), NEW x, NEW y
  PROVE  /\ OwnLoads([f EXCEPT !.fills = x, !.form = y]) /\ OwnLoads([f EXCEPT !.form = x, !.edits = y])
         /\ OwnLoads([f EXCEPT !.live = x]) /\ OwnLoads([f EXCEPT !.saving = x]) /\ OwnLoads([f EXCEPT !.fills = x])
BY DEF OwnLoads, Rec, NformFields

LEMMA ClosedKeeps == ASSUME NEW f, OwnLoads(f) PROVE OwnLoads(Nf!Closed3(f))
<1> PICK loads, form : loads = {[l EXCEPT !.on = FALSE] : l \in f.loads} /\ form = Nf!Defaults("", "")
  OBVIOUS
<1> PICK c : c = Nf!Closed3(f)
  OBVIOUS
<1>1. c = [f EXCEPT !.open = FALSE, !.loads = loads, !.form = form, !.from = ""]
  BY DEF Nf!Closed3
<1>2. Rec(c, NformFields) /\ c.from = "" /\ c.loads = loads
  BY <1>1 DEF OwnLoads, Rec, NformFields
<1>3. \A l \in loads : Rec(l, {"of", "on"}) /\ l.on = FALSE
  BY DEF OwnLoads, Rec
<1> QED BY <1>2, <1>3 DEF OwnLoads

LEMMA LoadedKeeps == ASSUME NEW f, OwnLoads(f), NEW l \in f.loads PROVE OwnLoads(Nf!Loaded2(f, l))
<1> PICK form, loads : form = Nf!FormOf(NodeEntries[l.of], f.form.name) /\ loads = f.loads \ {l}
  OBVIOUS
<1>1. CASE l.on
  <2>1. Nf!Loaded2(f, l) = [f EXCEPT !.loads = loads, !.form = form, !.from = l.of]
    BY <1>1 DEF Nf!Loaded2
  <2>2. l.of = f.target
    BY <1>1 DEF OwnLoads
  <2> QED BY <2>1, <2>2 DEF OwnLoads, Rec, NformFields
<1>2. CASE ~l.on
  <2>1. Nf!Loaded2(f, l) = [f EXCEPT !.loads = loads]
    BY <1>2 DEF Nf!Loaded2
  <2> QED BY <2>1 DEF OwnLoads, Rec, NformFields
<1> QED BY <1>1, <1>2

LEMMA NformStep == NformInv /\ [Nf!NformNext]_at => NformInv'
<1> SUFFICES ASSUME OwnLoads(at), [Nf!NformNext]_at PROVE OwnLoads(at')
  BY DEF NformInv
<1>1. CASE UNCHANGED at
  BY <1>1
<1>2. CASE Nf!OpenNode
  <2> PICK target, punch :
        at' = [at EXCEPT !.open = TRUE, !.target = target, !.punch = punch, !.form = Nf!Defaults(target, punch),
                         !.from = "", !.loads = IF target = "" THEN @ ELSE {[of |-> target, on |-> TRUE]}]
    BY <1>2 DEF Nf!OpenNode
  <2> PICK form, loads : form = Nf!Defaults(target, punch) /\ loads = IF target = "" THEN at.loads ELSE {[of |-> target, on |-> TRUE]}
    OBVIOUS
  <2>1. at' = [at EXCEPT !.open = TRUE, !.target = target, !.punch = punch, !.form = form, !.from = "", !.loads = loads]
    OBVIOUS
  <2>2. /\ Rec(at', NformFields) /\ at'.open = TRUE /\ at'.target = target /\ at'.from = "" /\ at'.loads = loads
    BY <2>1 DEF OwnLoads, Rec, NformFields
  <2>3. \A l \in loads : Rec(l, {"of", "on"}) /\ (l.on => l.of = target)
    <3>1. \A l \in at.loads : Rec(l, {"of", "on"}) /\ ~l.on
      BY <1>2 DEF Nf!OpenNode, OwnLoads
    <3>2. Rec([of |-> target, on |-> TRUE], {"of", "on"}) /\ [of |-> target, on |-> TRUE].of = target
      BY DEF Rec
    <3>3. loads = at.loads \/ loads = {[of |-> target, on |-> TRUE]}
      OBVIOUS
    <3> QED BY <3>1, <3>2, <3>3
  <2> QED BY <2>2, <2>3 DEF OwnLoads
<1>3. CASE Nf!CloseNode
  BY <1>3, ClosedKeeps DEF Nf!CloseNode
<1>4. CASE Nf!LoadNode
  BY <1>4, LoadedKeeps DEF Nf!LoadNode
<1>5. CASE Nf!Fill
  <2>1. at' = [at EXCEPT !.fills = {at.punch}]
    BY <1>5 DEF Nf!Fill
  <2> QED BY <2>1, OthersKeep
<1>6. CASE Nf!Filled
  <2> PICK p : at' \in {[at EXCEPT !.fills = {}, !.form.pw = IF at.open THEN "of " \o p ELSE @], [at EXCEPT !.fills = {}]}
    BY <1>6 DEF Nf!Filled
  <2> PICK form : form = [at.form EXCEPT !.pw = IF at.open THEN "of " \o p ELSE @]
    OBVIOUS
  <2>1. at' = [at EXCEPT !.fills = {}, !.form = form] \/ at' = [at EXCEPT !.fills = {}]
    BY DEF OwnLoads, Rec, NformFields
  <2>2. OwnLoads([at EXCEPT !.fills = {}, !.form = form]) /\ OwnLoads([at EXCEPT !.fills = {}])
    BY OthersKeep
  <2> QED BY <2>1, <2>2
<1>7. CASE Nf!TypeField
  <2> PICK f : at' = [at EXCEPT !.form = f, !.edits = @ - 1]
    BY <1>7 DEF Nf!TypeField
  <2> PICK n : n = at.edits - 1
    OBVIOUS
  <2>1. at' = [at EXCEPT !.form = f, !.edits = n]
    OBVIOUS
  <2>2. OwnLoads([at EXCEPT !.form = f, !.edits = n])
    BY OthersKeep
  <2> QED BY <2>1, <2>2
<1>8. CASE Nf!Peer
  <2> PICK live : live = [at.live EXCEPT ![at.target] = ~@]
    OBVIOUS
  <2>1. at' = [at EXCEPT !.live = live]
    BY <1>8 DEF Nf!Peer
  <2> QED BY <2>1, OthersKeep
<1>9. CASE Nf!SaveNode
  <2> PICK s : at' = [at EXCEPT !.saving = s]
    BY <1>9 DEF Nf!SaveNode
  <2> QED BY OthersKeep
<1>10. CASE Nf!SaveDone
  <2> PICK f : f = [at EXCEPT !.saving = Nf!NoSave]
    OBVIOUS
  <2>1. OwnLoads(f)
    BY OthersKeep
  <2>2. at' \in {Nf!Closed3(f), f}
    BY <1>10 DEF Nf!SaveDone
  <2> QED BY <2>1, <2>2, ClosedKeeps
<1> QED BY <1>1, <1>2, <1>3, <1>4, <1>5, <1>6, <1>7, <1>8, <1>9, <1>10 DEF Nf!NformNext

LEMMA NformOwn == NformInv => Nf!LoadsAreOwn
BY DEF NformInv, OwnLoads, Nf!LoadsAreOwn

---------------------------------------------------------------------------
\* What the dialog of an entry sends (SentIsSound): whatever was typed.

FormFields == {"name", "rows", "pw", "insecure", "signal", "binds", "fam", "brutal", "tx", "caSource", "caText"}

\* A form holds addresses of three parts; the ceilings it holds, it shows.
AddressOk(r) == Rec(r, {"host", "port", "bind"})
RowsOk(rows) == Series(rows) /\ \A i \in DOMAIN rows : AddressOk(rows[i])
FormOk(f) ==
  /\ Rec(f, FormFields) /\ RowsOk(f.rows) /\ Series(f.signal) /\ Series(f.binds)
  /\ f.tx # "" => f.brutal = TRUE
\* An entry that can be sent.
EntryIsSound(e, brutal) ==
  /\ e.addrs # <<>> \/ e.punch.signal # <<>>
  /\ Nf!NoDup(e.addrs) /\ \A i \in DOMAIN e.addrs : e.addrs[i].host \notin {"", Nf!V6} /\ Nf!ValidPort(e.addrs[i].port)
  /\ e.addrs # <<>> => e.pw # ""
  /\ \A i \in DOMAIN e.punch.signal : e.punch.signal[i] = e.name
  /\ \A i \in DOMAIN e.punch.binds : Nf!BindFits(e.punch.binds[i], e.punch.fam)
  /\ e.tx # "" => brutal
SentOk(f) ==
  /\ FormOk(f.form)
  /\ \A l \in f.loads : l.of \in DOMAIN NodeEntries
  /\ f.saving # Nf!NoSave => EntryIsSound(f.saving.entry, f.saving.brutal)
SentInv == SentOk(at)

\* What the filters of the forms return.
LEMMA NfOnly ==
  ASSUME NEW X, NEW s \in Seq(X), NEW S
  PROVE  Nf!Only(s, S) \in Seq(X \cap S) /\ Vals(Nf!Only(s, S)) = Vals(s) \cap S
<1>1. Nf!Only(s, S) = Only(s, S)
  BY DEF Nf!Only, Only
<1>2. Only(s, S) \in Seq(X \cap S) /\ Vals(Only(s, S)) = Vals(s) \cap S
  BY OnlyWhat
<1> QED BY <1>1, <1>2

LEMMA ValsAre == ASSUME NEW X, NEW s \in Seq(X) PROVE Nf!ToSet(s) = Vals(s) /\ DOMAIN s = 1 .. Len(s) /\ \A i \in DOMAIN s : s[i] \in X
<1>1. DOMAIN s = 1 .. Len(s)
  BY LenProperties
<1> QED BY <1>1, ElementOfSeq DEF Nf!ToSet, Vals

LEMMA FullWhat ==
  ASSUME NEW s, Series(s), NEW t, t = Nf!Full(s)
  PROVE  /\ Series(t) /\ \A i \in DOMAIN t : t[i] # "" /\ \E k \in DOMAIN s : s[k] = t[i]
         /\ t = <<>> => \A k \in DOMAIN s : s[k] = ""
<1> PICK S, X : S = Nf!ToSet(s) \ {""} /\ X = {s[i] : i \in DOMAIN s}
  OBVIOUS
<1>1. t \in Seq(X \cap S) /\ Vals(t) = Vals(s) \cap S
  BY NfOnly DEF Nf!Full, Series
<1>2. Nf!ToSet(s) = Vals(s) /\ DOMAIN s = 1 .. Len(s)
  BY ValsAre DEF Series
<1>3. Series(t)
  BY <1>1, SeriesIs
<1>4. DOMAIN t = 1 .. Len(t)
  BY <1>1, ValsAre
<1>5. \A i \in DOMAIN t : t[i] \in Vals(s) /\ t[i] # ""
  BY <1>1, <1>2, <1>4 DEF Vals
<1>6. ASSUME t = <<>> PROVE Vals(s) \subseteq {""}
  <2>1. Vals(t) = {}
    BY <1>6, EmptyVals
  <2> QED BY <2>1, <1>1, <1>2
<1> QED BY <1>2, <1>3, <1>5, <1>6 DEF Vals

LEMMA FittingWhat ==
  ASSUME NEW s, Series(s), NEW fam, NEW t, t = Nf!Fitting(s, fam)
  PROVE  Series(t) /\ \A i \in DOMAIN t : Nf!BindFits(t[i], fam)
<1> PICK S, X : S = {b \in Nf!ToSet(s) : Nf!BindFits(b, fam)} /\ X = {s[i] : i \in DOMAIN s}
  OBVIOUS
<1>1. t \in Seq(X \cap S)
  BY NfOnly DEF Nf!Fitting, Series
<1>2. Series(t)
  BY <1>1, SeriesIs
<1>3. \A i \in DOMAIN t : t[i] \in S
  BY <1>1, ValsAre
<1> QED BY <1>2, <1>3

LEMMA RemoveKeeps == ASSUME NEW X, NEW s \in Seq(X), NEW i \in DOMAIN s PROVE Nf!RemoveAt(s, i) \in Seq(X)
<1> PICK n \in Nat : n = Len(s) /\ DOMAIN s = 1 .. n
  BY LenProperties
<1>1. \A k \in 1 .. n : s[k] \in X
  BY ElementOfSeq
<1>2. SubSeq(s, 1, i - 1) \in Seq(X)
  BY <1>1, SubSeqProperties
<1>3. SubSeq(s, i + 1, n) \in Seq(X)
  BY <1>1, SubSeqProperties
<1>4. Nf!RemoveAt(s, i) = SubSeq(s, 1, i - 1) \o SubSeq(s, i + 1, n)
  BY DEF Nf!RemoveAt
<1> QED BY <1>2, <1>3, <1>4, ConcatProperties

LEMMA BlankIsRow == AddressOk(Nf!BlankRow) /\ RowsOk(<<Nf!BlankRow>>) /\ RowsOk(<<>>)
<1>1. AddressOk(Nf!BlankRow)
  BY DEF Nf!BlankRow, Nf!Row, AddressOk, Rec
<1>2. RowsOk(<<Nf!BlankRow>>)
  BY <1>1, OneSeries DEF RowsOk
<1> QED BY <1>1, <1>2, NoSeries DEF RowsOk

\* What a form starts with, and what an entry looks like in it.
LEMMA DefaultsOk == ASSUME NEW target, NEW punch PROVE FormOk(Nf!Defaults(target, punch))
<1> PICK f : f = Nf!Defaults(target, punch)
  OBVIOUS
<1>1. /\ Rec(f, FormFields) /\ f.rows \in {<<>>, <<Nf!BlankRow>>} /\ f.signal \in {<<punch>>, <<"">>} /\ f.binds = <<"">> /\ f.tx = ""
  BY DEF Nf!Defaults, Rec, FormFields
<1> QED BY <1>1, BlankIsRow, OneSeries DEF FormOk

LEMMA FormOfOk == ASSUME NEW x \in DOMAIN NodeEntries, NEW name PROVE FormOk(Nf!FormOf(NodeEntries[x], name))
<1> PICK e : e = NodeEntries[x]
  OBVIOUS
<1> PICK addrs, signal, binds : addrs = e.addrs /\ signal = e.punch.signal /\ binds = e.punch.binds
  OBVIOUS
<1>1. addrs \in Seq(Nf!Addresses) /\ Series(signal) /\ Series(binds)
  BY EntriesAssumption, SeriesIs
<1>2. RowsOk(addrs)
  <2>1. Series(addrs) /\ \A i \in DOMAIN addrs : addrs[i] \in Nf!Addresses
    BY <1>1, SeriesIs, ValsAre
  <2>2. \A r \in Nf!Addresses : AddressOk(r)
    BY DEF Nf!Addresses, AddressOk, Rec
  <2> QED BY <2>1, <2>2 DEF RowsOk
<1> PICK f : f = Nf!FormOf(e, name)
  OBVIOUS
<1>3. /\ Rec(f, FormFields) /\ f.rows \in {<<Nf!BlankRow>>, addrs} /\ f.signal \in {<<"">>, signal} /\ f.binds \in {<<"">>, binds}
      /\ f.tx = e.tx /\ f.brutal = (e.tx # "")
  BY DEF Nf!FormOf, Rec, FormFields
<1> QED BY <1>1, <1>2, <1>3, BlankIsRow, OneSeries DEF FormOk

LEMMA SeriesRemove ==
  ASSUME NEW s, Series(s), NEW i \in DOMAIN s, NEW t, t = Nf!RemoveAt(s, i)
  PROVE  Series(t) /\ \A j \in DOMAIN t : \E k \in DOMAIN s : t[j] = s[k]
<1> PICK X : X = {s[k] : k \in DOMAIN s}
  OBVIOUS
<1>1. s \in Seq(X)
  BY DEF Series
<1>2. t \in Seq(X)
  BY <1>1, RemoveKeeps
<1> QED BY <1>2, SeriesIs, ValsAre

\* What is typed.
LEMMA TypedOk == ASSUME NEW f, FormOk(f), NEW locked, NEW g \in Nf!FieldChanges(f, locked) PROVE FormOk(g)
<1> PICK rows, signal, binds : rows = f.rows /\ signal = f.signal /\ binds = f.binds
  OBVIOUS
<1>t. RowsOk(rows) /\ Series(signal) /\ Series(binds) /\ (f.tx # "" => f.brutal = TRUE)
  BY DEF FormOk
<1>plain. ASSUME NEW x, g \in {[f EXCEPT !.name = x], [f EXCEPT !.pw = x], [f EXCEPT !.caSource = x], [f EXCEPT !.caText = x]}
          PROVE FormOk(g)
  BY <1>plain DEF FormOk, Rec, FormFields
<1>rows. ASSUME NEW x, RowsOk(x), g = [f EXCEPT !.rows = x] PROVE FormOk(g)
  BY <1>rows DEF FormOk, Rec, FormFields
<1>signal. ASSUME NEW x, Series(x), g = [f EXCEPT !.signal = x] PROVE FormOk(g)
  BY <1>signal DEF FormOk, Rec, FormFields
<1>binds. ASSUME NEW x, Series(x), NEW y, g = [f EXCEPT !.binds = x] \/ g = [f EXCEPT !.fam = y, !.binds = x] PROVE FormOk(g)
  BY <1>binds DEF FormOk, Rec, FormFields
<1>1. ASSUME NEW x, g \in {[f EXCEPT !.name = x], [f EXCEPT !.pw = x], [f EXCEPT !.caSource = x], [f EXCEPT !.caText = x]} PROVE FormOk(g)
  BY <1>1, <1>plain
<1>2. ASSUME NEW i \in DOMAIN rows, NEW r \in Typed.rows, g = [f EXCEPT !.rows[i] = r] PROVE FormOk(g)
  <2> PICK x : x = [rows EXCEPT ![i] = r]
    OBVIOUS
  <2>1. AddressOk(r)
    BY EntriesAssumption DEF Nf!Addresses, AddressOk, Rec
  <2>2. RowsOk(x)
    BY <2>1, <1>t, SeriesExcept DEF RowsOk
  <2>3. g = [f EXCEPT !.rows = x]
    BY <1>2 DEF FormOk, Rec, FormFields
  <2> QED BY <2>2, <2>3, <1>rows
<1>3. ASSUME g = [f EXCEPT !.rows = Append(@, Nf!BlankRow)] PROVE FormOk(g)
  <2>a. LongerBy(Append(rows, Nf!BlankRow), rows, Nf!BlankRow)
    BY <1>t, SeriesAppend DEF RowsOk
  <2> PICK x : x = Append(rows, Nf!BlankRow)
    OBVIOUS
  <2>r. Series(rows) /\ \A j \in DOMAIN rows : AddressOk(rows[j])
    BY <1>t DEF RowsOk
  <2>x. LongerBy(x, rows, Nf!BlankRow)
    BY <2>a
  <2>1. RowsOk(x)
    BY <2>r, <2>x, BlankIsRow DEF RowsOk, LongerBy
  <2>2. g = [f EXCEPT !.rows = x]
    BY <1>3
  <2> QED BY <2>1, <2>2, <1>rows
<1>4. ASSUME NEW i \in DOMAIN rows, g = [f EXCEPT !.rows = Nf!RemoveAt(@, i)] PROVE FormOk(g)
  <2> PICK x : x = Nf!RemoveAt(rows, i)
    OBVIOUS
  <2>r. Series(rows) /\ \A j \in DOMAIN rows : AddressOk(rows[j])
    BY <1>t DEF RowsOk
  <2>x. Series(x) /\ \A j \in DOMAIN x : \E k \in DOMAIN rows : x[j] = rows[k]
    BY <2>r, SeriesRemove
  <2>1. RowsOk(x)
    BY <2>r, <2>x DEF RowsOk
  <2>2. g = [f EXCEPT !.rows = x]
    BY <1>4
  <2> QED BY <2>1, <2>2, <1>rows
<1>5. ASSUME NEW i \in DOMAIN signal, NEW s, g = [f EXCEPT !.signal[i] = s] PROVE FormOk(g)
  <2> PICK x : x = [signal EXCEPT ![i] = s]
    OBVIOUS
  <2>1. Series(x)
    BY <1>t, SeriesExcept
  <2>2. g = [f EXCEPT !.signal = x]
    BY <1>5 DEF FormOk, Rec, FormFields
  <2> QED BY <2>1, <2>2, <1>signal
<1>6. ASSUME NEW b, g = [f EXCEPT !.binds = <<b>>] PROVE FormOk(g)
  BY <1>6, <1>binds, OneSeries
<1>7. ASSUME g = [f EXCEPT !.fam = 10 - @, !.binds = LET kept == Nf!Fitting(f.binds, 10 - f.fam) IN IF kept = <<>> THEN <<"">> ELSE kept]
      PROVE FormOk(g)
  <2> PICK x, y : x = (LET kept == Nf!Fitting(binds, 10 - f.fam) IN IF kept = <<>> THEN <<"">> ELSE kept) /\ y = 10 - f.fam
    OBVIOUS
  <2>1. Series(Nf!Fitting(binds, 10 - f.fam))
    BY <1>t, FittingWhat
  <2>2. Series(x)
    BY <2>1, OneSeries
  <2>3. g = [f EXCEPT !.fam = y, !.binds = x]
    BY <1>7
  <2> QED BY <2>2, <2>3, <1>binds
<1>8. ASSUME g = [f EXCEPT !.brutal = ~@, !.tx = IF f.brutal THEN "" ELSE @] PROVE FormOk(g)
  <2>1. /\ Rec(g, FormFields) /\ g.rows = rows /\ g.signal = signal /\ g.binds = binds
        /\ g.brutal = ~f.brutal /\ g.tx = IF f.brutal THEN "" ELSE f.tx
    BY <1>8 DEF FormOk, Rec, FormFields
  <2>2. g.tx # "" => g.brutal = TRUE
    BY <2>1, <1>t
  <2> QED BY <2>1, <2>2, <1>t DEF FormOk
<1>9. ASSUME f.brutal, g = [f EXCEPT !.tx = "20"] PROVE FormOk(g)
  <2>1. /\ Rec(g, FormFields) /\ g.rows = rows /\ g.signal = signal /\ g.binds = binds /\ g.brutal = f.brutal /\ g.tx = "20"
    BY <1>9 DEF FormOk, Rec, FormFields
  <2>2. g.brutal = TRUE
    BY <1>9, <2>1, <1>t
  <2> QED BY <2>1, <2>2, <1>t DEF FormOk
<1> DEFINE Plain == \E x : g \in {[f EXCEPT !.name = x], [f EXCEPT !.pw = x], [f EXCEPT !.caSource = x], [f EXCEPT !.caText = x]}
           Retyped == \E i \in DOMAIN rows, r \in Typed.rows : g = [f EXCEPT !.rows[i] = r]
           More == g = [f EXCEPT !.rows = Append(@, Nf!BlankRow)]
           Less == \E i \in DOMAIN rows : g = [f EXCEPT !.rows = Nf!RemoveAt(@, i)]
           Via == \E i \in DOMAIN signal, v \in Typed.paths : g = [f EXCEPT !.signal[i] = v]
           Bound == \E b : g = [f EXCEPT !.binds = <<b>>]
           Fam == g = [f EXCEPT !.fam = 10 - @, !.binds = LET kept == Nf!Fitting(f.binds, 10 - f.fam) IN IF kept = <<>> THEN <<"">> ELSE kept]
           Brutal == g = [f EXCEPT !.brutal = ~@, !.tx = IF f.brutal THEN "" ELSE @]
           Tx == f.brutal /\ g = [f EXCEPT !.tx = "20"]
<1> DEFINE S1 == {[f EXCEPT !.name = n] : n \in IF locked THEN {} ELSE Typed.names}
           S2 == {[f EXCEPT !.rows[i] = r] : i \in DOMAIN f.rows, r \in Typed.rows}
           S3 == IF Len(f.rows) < 2 THEN {[f EXCEPT !.rows = Append(@, Nf!BlankRow)]} ELSE {}
           S4 == {[f EXCEPT !.rows = Nf!RemoveAt(@, i)] : i \in IF Len(f.rows) > IF Nf!Full(f.signal) = <<>> THEN 1 ELSE 0 THEN DOMAIN f.rows ELSE {}}
           S5 == {[f EXCEPT !.pw = p] : p \in {"", "typed"}}
           S6 == {[f EXCEPT !.signal[i] = v] : i \in DOMAIN f.signal, v \in Typed.paths}
           S7 == {[f EXCEPT !.binds = <<b>>] : b \in {x \in Typed.binds : Nf!BindFits(x, f.fam)}}
           S8 == {[f EXCEPT !.fam = 10 - @, !.binds = LET kept == Nf!Fitting(f.binds, 10 - f.fam) IN IF kept = <<>> THEN <<"">> ELSE kept]}
           S9 == {[f EXCEPT !.brutal = ~@, !.tx = IF f.brutal THEN "" ELSE @]}
           S10 == {[f EXCEPT !.tx = "20"] : x \in IF f.brutal THEN {1} ELSE {}}
           S11 == {[f EXCEPT !.caSource = c] : c \in {"none", "cert", "manual"}}
           S12 == {[f EXCEPT !.caText = "pem"] : x \in IF f.caSource = "manual" THEN {1} ELSE {}}
<1>10. Plain \/ Retyped \/ More \/ Less \/ Via \/ Bound \/ Fam \/ Brutal \/ Tx
  <2>1. g \in S1 \/ g \in S5 \/ g \in Nf!RowChanges(f) \/ g \in Nf!PunchChanges(f) \/ g \in Nf!OptionChanges(f)
    BY DEF Nf!FieldChanges
  <2>2. g \in Nf!RowChanges(f) => g \in S2 \/ g \in S3 \/ g \in S4
    BY DEF Nf!RowChanges
  <2>3. g \in Nf!PunchChanges(f) => g \in S6 \/ g \in S7 \/ g \in S8
    BY DEF Nf!PunchChanges
  <2>4. g \in Nf!OptionChanges(f) => g \in S9 \/ g \in S10 \/ g \in S11 \/ g \in S12
    BY DEF Nf!OptionChanges
  <2>p. g \in S1 \cup S5 \cup S11 \cup S12 => Plain
    OBVIOUS
  <2>r. g \in S2 => Retyped
    OBVIOUS
  <2>m. g \in S3 => More
    OBVIOUS
  <2>l. g \in S4 => Less
    BY Zenon
  <2>v. g \in S6 => Via
    OBVIOUS
  <2>b. g \in S7 => Bound
    OBVIOUS
  <2>f. g \in S8 => Fam
    OBVIOUS
  <2>u. g \in S9 => Brutal
    OBVIOUS
  <2>t. g \in S10 => Tx
    OBVIOUS
  <2> HIDE DEF S1, S2, S3, S4, S5, S6, S7, S8, S9, S10, S11, S12, Plain, Retyped, More, Less, Via, Bound, Fam, Brutal, Tx
  <2> QED BY <2>1, <2>2, <2>3, <2>4, <2>p, <2>r, <2>m, <2>l, <2>v, <2>b, <2>f, <2>u, <2>t
<1> QED
  <2> HIDE DEF S1, S2, S3, S4, S5, S6, S7, S8, S9, S10, S11, S12
  <2>p. Plain => FormOk(g)
    BY <1>1
  <2>r. Retyped => FormOk(g)
    BY <1>2
  <2>m. More => FormOk(g)
    BY <1>3
  <2>1. (Plain \/ Retyped \/ More) => FormOk(g)
    <3> HIDE DEF Plain, Retyped, More
    <3> QED BY <2>p, <2>r, <2>m
  <2>2. (Less \/ Via \/ Bound) => FormOk(g)
    BY <1>4, <1>5, <1>6
  <2>3. (Fam \/ Brutal \/ Tx) => FormOk(g)
    BY <1>7, <1>8, <1>9
  <2> HIDE DEF Plain, Retyped, More, Less, Via, Bound, Fam, Brutal, Tx
  <2> QED BY <1>10, <2>1, <2>2, <2>3

\* What can be submitted is sound.
LEMMA SentRowsWhat ==
  ASSUME NEW f, FormOk(f), NEW t, t = Nf!SentRows(f)
  PROVE  /\ DOMAIN t = DOMAIN f.rows /\ Series(t) /\ (f.rows # <<>> => t # <<>>)
         /\ \A i \in DOMAIN t : t[i].host = Nf!Bracketed(f.rows[i].host) /\ t[i].port = f.rows[i].port
<1> PICK rows : rows = f.rows
  OBVIOUS
<1>1. t = [i \in DOMAIN rows |-> [rows[i] EXCEPT !.host = Nf!Bracketed(@)]]
  BY DEF Nf!SentRows
<1>r. Series(rows) /\ \A i \in DOMAIN rows : AddressOk(rows[i])
  BY DEF FormOk, RowsOk
<1> PICK n \in Nat : n = Len(rows) /\ DOMAIN rows = 1 .. n
  BY <1>r, LenProperties DEF Series
<1>2. DOMAIN t = 1 .. n /\ t = [i \in DOMAIN t |-> t[i]]
  BY <1>1
<1>3. \A i \in 1 .. n : t[i].host = Nf!Bracketed(rows[i].host) /\ t[i].port = rows[i].port
  <2> TAKE i \in 1 .. n
  <2> PICK r, h : r = rows[i] /\ h = Nf!Bracketed(r.host)
    OBVIOUS
  <2>1. t[i] = [r EXCEPT !.host = h]
    BY <1>1
  <2>2. AddressOk(r)
    BY <1>r
  <2>3. t[i].host = h /\ t[i].port = r.port
    BY <2>1, <2>2 DEF AddressOk, Rec
  <2> QED BY <2>3
<1>4. Series(t)
  <2> PICK X : X = {t[i] : i \in DOMAIN t}
    OBVIOUS
  <2>1. t \in [1 .. n -> X]
    BY <1>2
  <2>2. t \in Seq(X)
    BY <2>1, SeqDef
  <2> QED BY <2>2 DEF Series
<1>5. rows # <<>> => t # <<>>
  <2>1. ASSUME n = 0 PROVE rows = <<>>
    <3>1. rows \in Seq({rows[i] : i \in DOMAIN rows})
      BY <1>r DEF Series
    <3> QED BY <2>1, <3>1, EmptySeq
  <2>2. n # 0 => t # <<>>
    BY <1>2, NoSeries
  <2> QED BY <2>1, <2>2
<1> QED BY <1>2, <1>3, <1>4, <1>5

LEMMA SubmitSound ==
  ASSUME NEW f, FormOk(f), NEW target, Nf!Submittable(f, target)
  PROVE  EntryIsSound(Nf!EntryOf(f, target), f.brutal)
<1>a. PICK full, sent, fits : full = Nf!Full(f.signal) /\ sent = Nf!SentRows(f) /\ fits = Nf!Fitting(f.binds, f.fam)
  OBVIOUS
<1>b. PICK addrs, name, binds, ca :
      /\ addrs = Nf!AddrsOf(f) /\ name = Nf!NameFor(f, target) /\ binds = IF full = <<>> THEN <<>> ELSE fits
      /\ ca = CASE f.caSource = "manual" -> f.caText [] f.caSource = "none" -> "" [] OTHER -> f.caSource
  OBVIOUS
<1>c. PICK punch : punch = [signal |-> full, fam |-> f.fam, binds |-> binds]
  OBVIOUS
<1>d. PICK e : e = [name |-> name, addrs |-> addrs, pw |-> f.pw, insecure |-> f.insecure, tx |-> f.tx, punch |-> punch, ca |-> ca]
  OBVIOUS
<1>1. Nf!EntryOf(f, target) = e
  BY <1>a, <1>b, <1>c, <1>d DEF Nf!EntryOf
<1>2. Nf!AddrsOk(f) /\ (addrs # <<>> => f.pw # "") /\ Nf!PathsEnd(f, name)
  BY <1>b DEF Nf!Submittable
<1>3. \/ addrs = <<>> /\ full # <<>>
      \/ addrs = sent /\ f.rows # <<>> /\ (\A i \in DOMAIN f.rows : Nf!RowOk(f.rows[i])) /\ Nf!NoDup(sent)
  BY <1>a, <1>b, <1>2 DEF Nf!AddrsOf, Nf!AddrsOk
<1>4. addrs # <<>> \/ full # <<>>
  BY <1>a, <1>3, SentRowsWhat
<1>5. Nf!NoDup(addrs)
  <2>1. Nf!NoDup(<<>>)
    <3>1. Nf!ToSet(<<>>) = {}
      BY NoSeries DEF Nf!ToSet
    <3>2. Nf!Cardinality({}) = Cardinality({})
      BY DEF Nf!Cardinality, Cardinality
    <3>3. Cardinality({}) = 0 /\ Len(<<>>) = 0
      BY FS_EmptySet
    <3> QED BY <3>1, <3>2, <3>3 DEF Nf!NoDup
  <2> QED BY <2>1, <1>3
<1>6. \A i \in DOMAIN addrs : addrs[i].host \notin {"", Nf!V6} /\ Nf!ValidPort(addrs[i].port)
  <2>1. CASE addrs = <<>>
    BY <2>1, NoSeries
  <2>2. CASE addrs = sent /\ \A i \in DOMAIN f.rows : Nf!RowOk(f.rows[i])
    <3> SUFFICES ASSUME NEW i \in DOMAIN addrs PROVE addrs[i].host \notin {"", Nf!V6} /\ Nf!ValidPort(addrs[i].port)
      OBVIOUS
    <3> PICK h : h = f.rows[i].host
      OBVIOUS
    <3>0. DOMAIN sent = DOMAIN f.rows /\ \A k \in DOMAIN sent : sent[k].host = Nf!Bracketed(f.rows[k].host) /\ sent[k].port = f.rows[k].port
      BY <1>a, SentRowsWhat
    <3>1. addrs[i].host = Nf!Bracketed(h) /\ addrs[i].port = f.rows[i].port /\ i \in DOMAIN f.rows
      BY <2>2, <3>0
    <3>2. h # "" /\ Nf!ValidPort(f.rows[i].port)
      BY <2>2, <3>1 DEF Nf!RowOk
    <3>3. Nf!Bracketed(h) \notin {"", Nf!V6}
      BY <3>2 DEF Nf!Bracketed, Nf!V6
    <3> QED BY <3>1, <3>2, <3>3
  <2> QED BY <2>1, <2>2, <1>3
<1>7. \A i \in DOMAIN full : full[i] = name
  <2>1. Series(f.signal)
    BY DEF FormOk
  <2>2. \A i \in DOMAIN full : full[i] # "" /\ \E k \in DOMAIN f.signal : f.signal[k] = full[i]
    BY <1>a, <2>1, FullWhat
  <2> QED BY <2>2, <1>2 DEF Nf!PathsEnd
<1>8. \A i \in DOMAIN binds : Nf!BindFits(binds[i], f.fam)
  <2>1. \A i \in DOMAIN fits : Nf!BindFits(fits[i], f.fam)
    BY <1>a, FittingWhat DEF FormOk
  <2> QED BY <1>b, <2>1, NoSeries
<1>9. f.tx # "" => f.brutal = TRUE
  BY DEF FormOk
<1>10. e.addrs = addrs /\ e.name = name /\ e.pw = f.pw /\ e.tx = f.tx /\ e.punch.signal = full /\ e.punch.binds = binds /\ e.punch.fam = f.fam
  BY <1>c, <1>d
<1>11. EntryIsSound(e, f.brutal)
  BY <1>2, <1>4, <1>5, <1>6, <1>7, <1>8, <1>9, <1>10 DEF EntryIsSound
<1> QED BY <1>1, <1>11

\* The form another one comes to keeps what is sent.
SentFrom(f, g) ==
  /\ Rec(g, NformFields) /\ FormOk(g.form) /\ \A l \in g.loads : l.of \in DOMAIN NodeEntries
  /\ g.saving \in {f.saving, Nf!NoSave}
LEMMA SentMoves == ASSUME NEW f, SentOk(f), NEW g, SentFrom(f, g) PROVE SentOk(g)
BY DEF SentOk, SentFrom

LEMMA SentStarts == at \in Nf!NformInits => SentInv
<1> SUFFICES ASSUME at \in Nf!NformInits PROVE SentOk(at)
  BY DEF SentInv
<1> PICK form, live, saving :
      /\ form = Nf!Defaults("", "") /\ saving = Nf!NoSave
      /\ at = [open |-> FALSE, target |-> "", punch |-> "", form |-> form, from |-> "", loads |-> {}, fills |-> {},
               saving |-> saving, edits |-> FieldEdits, live |-> live]
  BY DEF Nf!NformInits
<1>1. at.form = form /\ at.loads = {} /\ at.saving = Nf!NoSave
  OBVIOUS
<1> QED BY <1>1, DefaultsOk DEF SentOk

LEMMA ClosedSends == ASSUME NEW f, OwnLoads(f), SentOk(f) PROVE SentOk(Nf!Closed3(f))
<1> PICK loads, form : loads = {[l EXCEPT !.on = FALSE] : l \in f.loads} /\ form = Nf!Defaults("", "")
  OBVIOUS
<1> PICK c : c = [f EXCEPT !.open = FALSE, !.loads = loads, !.form = form, !.from = ""]
  OBVIOUS
<1>1. Rec(c, NformFields) /\ c.form = form /\ c.loads = loads /\ c.saving = f.saving
  BY DEF OwnLoads, Rec, NformFields
<1>2. \A l \in loads : l.of \in DOMAIN NodeEntries
  <2>1. \A l \in f.loads : [l EXCEPT !.on = FALSE].of = l.of
    BY DEF OwnLoads, Rec
  <2> QED BY <2>1 DEF SentOk
<1>f. FormOk(form)
  BY DefaultsOk
<1>3. SentFrom(f, c)
  BY <1>1, <1>2, <1>f DEF SentFrom
<1>4. Nf!Closed3(f) = c
  BY DEF Nf!Closed3
<1> QED BY <1>3, <1>4, SentMoves

LEMMA LoadedSends == ASSUME NEW f, OwnLoads(f), SentOk(f), NEW l \in f.loads PROVE SentOk(Nf!Loaded2(f, l))
<1> PICK form, loads : form = Nf!FormOf(NodeEntries[l.of], f.form.name) /\ loads = f.loads \ {l}
  OBVIOUS
<1> PICK c : c = Nf!Loaded2(f, l)
  OBVIOUS
<1>0. l.of \in DOMAIN NodeEntries /\ FormOk(f.form)
  BY DEF SentOk
<1>1. c = [f EXCEPT !.loads = loads, !.form = form, !.from = l.of] \/ c = [f EXCEPT !.loads = loads]
  BY DEF Nf!Loaded2
<1>2. Rec(c, NformFields) /\ c.form \in {form, f.form} /\ c.loads = loads /\ c.saving = f.saving
  BY <1>1 DEF OwnLoads, Rec, NformFields
<1>3. FormOk(form)
  BY <1>0, FormOfOk
<1>4. SentFrom(f, c)
  BY <1>0, <1>2, <1>3 DEF SentFrom, SentOk
<1> QED BY <1>4, SentMoves

LEMMA SentStep == OwnLoads(at) /\ SentInv /\ [Nf!NformNext]_at => SentInv'
<1> SUFFICES ASSUME OwnLoads(at), SentOk(at), [Nf!NformNext]_at PROVE SentOk(at')
  BY DEF SentInv
<1>r. Rec(at, NformFields) /\ FormOk(at.form) /\ \A l \in at.loads : l.of \in DOMAIN NodeEntries
  BY DEF OwnLoads, SentOk
<1>1. CASE UNCHANGED at
  BY <1>1
<1>2. CASE Nf!OpenNode
  <2> PICK target, punch :
        /\ target \in DOMAIN NodeEntries \cup {""}
        /\ at' = [at EXCEPT !.open = TRUE, !.target = target, !.punch = punch, !.form = Nf!Defaults(target, punch),
                            !.from = "", !.loads = IF target = "" THEN @ ELSE {[of |-> target, on |-> TRUE]}]
    BY <1>2 DEF Nf!OpenNode
  <2> PICK form, loads : form = Nf!Defaults(target, punch) /\ loads = IF target = "" THEN at.loads ELSE {[of |-> target, on |-> TRUE]}
    OBVIOUS
  <2>1. at' = [at EXCEPT !.open = TRUE, !.target = target, !.punch = punch, !.form = form, !.from = "", !.loads = loads]
    OBVIOUS
  <2>2. /\ Rec(at', NformFields) /\ at'.form = form /\ at'.loads = loads /\ at'.saving = at.saving
    BY <2>1, <1>r DEF Rec, NformFields
  <2>3. \A l \in loads : l.of \in DOMAIN NodeEntries
    <3>1. CASE target = ""
      BY <3>1, <1>r
    <3>2. CASE target # ""
      <4>1. loads = {[of |-> target, on |-> TRUE]} /\ target \in DOMAIN NodeEntries
        BY <3>2
      <4>2. [of |-> target, on |-> TRUE].of = target
        OBVIOUS
      <4> QED BY <4>1, <4>2, Zenon
    <3> QED BY <3>1, <3>2
  <2>f. FormOk(form)
    BY DefaultsOk
  <2>4. SentFrom(at, at')
    BY <2>2, <2>3, <2>f DEF SentFrom
  <2> QED BY <2>4, SentMoves
<1>3. CASE Nf!CloseNode
  BY <1>3, ClosedSends DEF Nf!CloseNode
<1>4. CASE Nf!LoadNode
  BY <1>4, LoadedSends DEF Nf!LoadNode
<1>f. ASSUME NEW fills, at' = [at EXCEPT !.fills = fills] PROVE SentOk(at')
  <2>1. Rec(at', NformFields) /\ at'.form = at.form /\ at'.loads = at.loads /\ at'.saving = at.saving
    BY <1>f, <1>r DEF Rec, NformFields
  <2>2. SentFrom(at, at')
    BY <2>1, <1>r DEF SentFrom
  <2> QED BY <2>2, SentMoves
<1>5. CASE Nf!Fill
  BY <1>5, <1>f DEF Nf!Fill
<1>6. CASE Nf!Filled
  <2> PICK p : at' \in {[at EXCEPT !.fills = {}, !.form.pw = IF at.open THEN "of " \o p ELSE @], [at EXCEPT !.fills = {}]}
    BY <1>6 DEF Nf!Filled
  <2> PICK pw : pw = IF at.open THEN "of " \o p ELSE at.form.pw
    OBVIOUS
  <2> PICK form : form = [at.form EXCEPT !.pw = pw]
    OBVIOUS
  <2>0. FormOk(form)
    BY <1>r DEF FormOk, Rec, FormFields
  <2>1. ASSUME at' # [at EXCEPT !.fills = {}]
        PROVE  Rec(at', NformFields) /\ at'.form = form /\ at'.loads = at.loads /\ at'.saving = at.saving
    BY <2>1, <1>r DEF Rec, NformFields
  <2>2. at' # [at EXCEPT !.fills = {}] => SentFrom(at, at')
    BY <2>0, <2>1, <1>r DEF SentFrom
  <2> QED BY <2>2, <1>f, SentMoves
<1>7. CASE Nf!TypeField
  <2> PICK f, n : f \in Nf!FieldChanges(at.form, Nf!Locked(at)) /\ n = at.edits - 1 /\ at' = [at EXCEPT !.form = f, !.edits = n]
    BY <1>7 DEF Nf!TypeField
  <2>1. Rec(at', NformFields) /\ at'.form = f /\ at'.loads = at.loads /\ at'.saving = at.saving
    BY <1>r DEF Rec, NformFields
  <2>2. FormOk(f)
    BY <1>r, TypedOk
  <2>3. SentFrom(at, at')
    BY <2>1, <2>2, <1>r DEF SentFrom
  <2> QED BY <2>3, SentMoves
<1>8. CASE Nf!Peer
  <2> PICK live : live = [at.live EXCEPT ![at.target] = ~@]
    OBVIOUS
  <2>1. at' = [at EXCEPT !.live = live]
    BY <1>8 DEF Nf!Peer
  <2>2. Rec(at', NformFields) /\ at'.form = at.form /\ at'.loads = at.loads /\ at'.saving = at.saving
    BY <2>1, <1>r DEF Rec, NformFields
  <2>3. SentFrom(at, at')
    BY <2>2, <1>r DEF SentFrom
  <2> QED BY <2>3, SentMoves
<1>9. CASE Nf!SaveNode
  <2> PICK entry, live, brutal, form : entry = Nf!EntryOf(at.form, at.target) /\ live = Nf!Locked(at) /\ form = at.form /\ brutal = form.brutal
    OBVIOUS
  <2> PICK s : s = [op |-> "save", target |-> at.target, entry |-> entry, live |-> live, brutal |-> brutal, from |-> at.from]
    OBVIOUS
  <2>1. at' = [at EXCEPT !.saving = s] /\ Nf!Submittable(at.form, at.target)
    BY <1>9 DEF Nf!SaveNode
  <2>2. at'.form = at.form /\ at'.loads = at.loads /\ at'.saving = s
    BY <2>1, <1>r DEF Rec, NformFields
  <2>3. s.entry = entry /\ s.brutal = brutal
    OBVIOUS
  <2>4. EntryIsSound(entry, brutal)
    BY <2>1, <1>r, SubmitSound
  <2> QED BY <2>2, <2>3, <2>4, <1>r DEF SentOk
<1>10. CASE Nf!SaveDone
  <2> PICK f : f = [at EXCEPT !.saving = Nf!NoSave]
    OBVIOUS
  <2>1. Rec(f, NformFields) /\ f.form = at.form /\ f.loads = at.loads /\ f.saving = Nf!NoSave /\ f.open = at.open /\ f.from = at.from /\ f.target = at.target
    BY <1>r DEF Rec, NformFields
  <2>2. SentOk(f) /\ OwnLoads(f)
    BY <2>1, <1>r DEF SentOk, OwnLoads
  <2>3. at' \in {Nf!Closed3(f), f}
    BY <1>10 DEF Nf!SaveDone
  <2> QED BY <2>2, <2>3, ClosedSends
<1> QED BY <1>1, <1>2, <1>3, <1>4, <1>5, <1>6, <1>7, <1>8, <1>9, <1>10 DEF Nf!NformNext

LEMMA SentHolds == SentInv => Nf!SentIsSound
BY DEF SentInv, SentOk, EntryIsSound, Nf!SentIsSound

---------------------------------------------------------------------------
UformFields ==
  {"users", "seen", "open", "edit", "prev", "of", "seed", "touched", "pw", "value", "items", "last", "want", "sync",
   "newValue", "newItems", "saving", "acts"}
\* The effect that seeds the dialog has seen what is open now.
OwnUser(u) ==
  /\ Rec(u, UformFields)
  /\ u.prev.open = u.open /\ u.prev.key = Uf!EditingOf(u)
  /\ u.open => u.of = Uf!EditingOf(u)
  /\ u.saving # Uf!Idle2 => u.saving.of = u.saving.id
UformInv == OwnUser(at)

LEMMA UformStarts == at \in Uf!UformInits => UformInv
<1> SUFFICES ASSUME at \in Uf!UformInits PROVE OwnUser(at)
  BY DEF UformInv
<1>1. Rec(at, UformFields)
  BY DEF Uf!UformInits, Rec, UformFields
<1>2. at.prev.open = FALSE /\ at.prev.key = "" /\ at.open = FALSE /\ at.edit = "" /\ at.saving = Uf!Idle2
  <2> PICK prev, new, saving :
        /\ prev = [open |-> FALSE, key |-> ""] /\ saving = Uf!Idle2
        /\ at = [users |-> Stored0, seen |-> Stored0, open |-> FALSE, edit |-> "", prev |-> prev, of |-> "",
                 seed |-> new, touched |-> FALSE, pw |-> "", value |-> new, items |-> <<"">>, last |-> new, want |-> "keep",
                 sync |-> FALSE, newValue |-> FALSE, newItems |-> FALSE, saving |-> saving, acts |-> UserActs]
    BY DEF Uf!UformInits
  <2> QED OBVIOUS
<1>3. Uf!EditingOf(at) = ""
  BY <1>2 DEF Uf!EditingOf
<1> QED BY <1>1, <1>2, <1>3 DEF OwnUser

\* Nothing but what was seen last is set.
OnlyPrev(r, s, prev) ==
  /\ Rec(r, UformFields) /\ r.prev = prev
  /\ r.of = s.of /\ r.open = s.open /\ r.edit = s.edit /\ r.seen = s.seen /\ r.saving = s.saving
LEMMA PrevIsSet == ASSUME NEW s, Rec(s, UformFields), NEW prev, NEW r, r = [s EXCEPT !.prev = prev] PROVE OnlyPrev(r, s, prev)
BY DEF OnlyPrev, Rec, UformFields
\* The effect runs after whatever opens or closes the dialog, or changes the list.
LEMMA SeededOwns ==
  ASSUME NEW u, NEW v, OwnUser(u), Rec(v, UformFields), v.prev = u.prev, v.of = u.of,
         v.saving # Uf!Idle2 => v.saving = u.saving
  PROVE  OwnUser(Uf!Seeded(v))
<1> PICK key : key = Uf!EditingOf(v)
  OBVIOUS
<1> PICK w : w = IF key = "" THEN Uf!NewUser ELSE Uf!FromApi(v.seen[key])
  OBVIOUS
<1> PICK pw : pw = IF key = "" THEN "" ELSE "own"
  OBVIOUS
<1> PICK open : open = v.open
  OBVIOUS
<1> PICK prev : prev = [open |-> v.open, key |-> key] /\ prev.open = open /\ prev.key = key
  <2>1. [open |-> open, key |-> key].open = open /\ [open |-> open, key |-> key].key = key
    OBVIOUS
  <2> QED BY <2>1
<1>1. u.prev.open = u.open /\ u.prev.key = Uf!EditingOf(u) /\ (u.open => u.of = Uf!EditingOf(u))
      /\ (u.saving # Uf!Idle2 => u.saving.of = u.saving.id)
  BY DEF OwnUser
<1>2. v.saving # Uf!Idle2 => v.saving.of = v.saving.id
  BY <1>1
<1>3. CASE v.open /\ (~v.prev.open \/ v.prev.key # key)
  <2> PICK s : s = [v EXCEPT !.of = key, !.seed = w, !.touched = FALSE, !.pw = pw, !.value = w, !.newValue = TRUE]
    OBVIOUS
  <2>1. Uf!Seeded(v) = [s EXCEPT !.prev = prev]
    BY <1>3 DEF Uf!Seeded, Uf!SeedWith
  <2>2. Rec(s, UformFields) /\ s.of = key /\ s.open = v.open /\ s.edit = v.edit /\ s.seen = v.seen /\ s.saving = v.saving
    BY DEF Rec, UformFields
  <2> PICK r : r = Uf!Seeded(v)
    OBVIOUS
  <2>3. /\ Rec(r, UformFields) /\ r.of = key /\ r.open = v.open /\ r.edit = v.edit /\ r.seen = v.seen /\ r.saving = v.saving
        /\ r.prev = prev
    <3>1. r = [s EXCEPT !.prev = prev]
      BY <2>1
    <3>s. Rec(s, UformFields)
      BY <2>2
    <3>2. OnlyPrev(r, s, prev)
      BY <3>1, <3>s, PrevIsSet
    <3> QED BY <2>2, <3>2 DEF OnlyPrev
  <2>4. Uf!EditingOf(r) = key
    BY <2>3 DEF Uf!EditingOf
  <2>5. r.prev.open = r.open /\ r.prev.key = key
    BY <2>3
  <2>6. r.saving # Uf!Idle2 => r.saving.of = r.saving.id
    BY <2>3, <1>2
  <2> QED BY <2>3, <2>4, <2>5, <2>6 DEF OwnUser
<1>4. CASE ~(v.open /\ (~v.prev.open \/ v.prev.key # key))
  <2> PICK r : r = Uf!Seeded(v)
    OBVIOUS
  <2>1. r = [v EXCEPT !.prev = prev]
    BY <1>4 DEF Uf!Seeded
  <2>2. /\ Rec(r, UformFields) /\ r.of = v.of /\ r.open = v.open /\ r.edit = v.edit /\ r.seen = v.seen /\ r.saving = v.saving
        /\ r.prev = prev
    BY <2>1 DEF Rec, UformFields
  <2>3. Uf!EditingOf(r) = key
    BY <2>2 DEF Uf!EditingOf
  <2>4. r.open => r.of = key
    <3>1. v.open => v.prev.open /\ v.prev.key = key
      BY <1>4
    <3> QED BY <2>2, <3>1, <1>1
  <2>5. r.prev.open = r.open /\ r.prev.key = key
    BY <2>2
  <2>6. r.saving # Uf!Idle2 => r.saving.of = r.saving.id
    BY <2>2, <1>2
  <2> QED BY <2>2, <2>3, <2>4, <2>5, <2>6 DEF OwnUser
<1> QED BY <1>3, <1>4

\* What else is done leaves whose dialog it is.
LEMMA RestOwns ==
  ASSUME NEW u, OwnUser(u), NEW v, Rec(v, UformFields), v.open = u.open, v.edit = u.edit, v.seen = u.seen,
         v.prev = u.prev, v.of = u.of, v.saving = u.saving
  PROVE  OwnUser(v)
<1>1. Uf!EditingOf(v) = Uf!EditingOf(u)
  BY DEF Uf!EditingOf
<1> QED BY <1>1 DEF OwnUser

SameUser(u, v) ==
  /\ Rec(v, UformFields) /\ v.open = u.open /\ v.edit = u.edit /\ v.seen = u.seen
  /\ v.prev = u.prev /\ v.of = u.of /\ v.saving = u.saving

LEMMA ToldSame == ASSUME NEW u, NEW v, SameUser(u, v) PROVE SameUser(u, Uf!Told(v))
<1> PICK w : w = Uf!Value(v.items, Uf!ModeFor(v))
  OBVIOUS
<1>1. Uf!Told(v) = IF w = v.last THEN [v EXCEPT !.want = "keep"] ELSE [v EXCEPT !.want = "keep", !.last = w, !.value = w, !.newValue = TRUE]
  BY DEF Uf!Told
<1> QED BY <1>1 DEF SameUser, Rec, UformFields

LEMMA CommitSame == ASSUME NEW u, Rec(u, UformFields) PROVE SameUser(u, Uf!Emitted([Uf!Taken2(u) EXCEPT !.newValue = FALSE]))
<1> PICK n : n = Uf!Norm(u.value)
  OBVIOUS
<1> PICK t : t = Uf!Taken2(u)
  OBVIOUS
<1>1. t = [u EXCEPT !.last = n, !.items = n.paths, !.sync = TRUE, !.newItems = TRUE] \/ t = [u EXCEPT !.newItems = FALSE]
  BY DEF Uf!Taken2
<1>2. SameUser(u, t)
  BY <1>1 DEF SameUser, Rec, UformFields
<1> PICK f : f = [t EXCEPT !.newValue = FALSE]
  OBVIOUS
<1>3. SameUser(u, f) /\ SameUser(u, [f EXCEPT !.sync = FALSE])
  BY <1>2 DEF SameUser, Rec, UformFields
<1>4. Uf!Emitted(f) \in {f, [f EXCEPT !.sync = FALSE], Uf!Told(f)}
  BY DEF Uf!Emitted
<1> QED BY <1>3, <1>4, ToldSame

LEMMA UformStep == UformInv /\ [Uf!UformNext]_at => UformInv'
<1> SUFFICES ASSUME OwnUser(at), [Uf!UformNext]_at PROVE OwnUser(at')
  BY DEF UformInv
<1>0. Rec(at, UformFields)
  BY DEF OwnUser
<1>same. ASSUME SameUser(at, at') PROVE OwnUser(at')
  BY <1>same, RestOwns DEF SameUser
<1>1. CASE UNCHANGED at
  BY <1>1
<1>2. CASE Uf!OpenUser
  <2> PICK id : at' = Uf!Seeded([at EXCEPT !.open = TRUE, !.edit = id])
    BY <1>2 DEF Uf!OpenUser
  <2> PICK v : v = [at EXCEPT !.open = TRUE, !.edit = id]
    OBVIOUS
  <2>1. Rec(v, UformFields) /\ v.prev = at.prev /\ v.of = at.of /\ v.saving = at.saving
    BY <1>0 DEF Rec, UformFields
  <2>2. OwnUser(Uf!Seeded(v))
    BY <2>1, SeededOwns
  <2> QED BY <2>2
<1>3. CASE Uf!CloseUser
  <2> PICK v : v = [at EXCEPT !.open = FALSE]
    OBVIOUS
  <2>1. Rec(v, UformFields) /\ v.prev = at.prev /\ v.of = at.of /\ v.saving = at.saving
    BY <1>0 DEF Rec, UformFields
  <2>2. OwnUser(Uf!Seeded(v))
    BY <2>1, SeededOwns
  <2> QED BY <2>2, <1>3 DEF Uf!CloseUser
<1>4. CASE Uf!PollUsers
  <2> PICK v : v = [at EXCEPT !.seen = at.users]
    OBVIOUS
  <2>1. Rec(v, UformFields) /\ v.prev = at.prev /\ v.of = at.of /\ v.saving = at.saving
    BY <1>0 DEF Rec, UformFields
  <2>2. OwnUser(Uf!Seeded(v))
    BY <2>1, SeededOwns
  <2> QED BY <2>2, <1>4 DEF Uf!PollUsers
<1>5. CASE Uf!OtherUsers
  <2>1. SameUser(at, at')
    BY <1>0, <1>5 DEF Uf!OtherUsers, SameUser, Rec, UformFields
  <2> QED BY <2>1, <1>same
<1>6. CASE Uf!Commit2
  <2>1. SameUser(at, at')
    BY <1>0, <1>6, CommitSame DEF Uf!Commit2
  <2> QED BY <2>1, <1>same
<1>7. ASSUME NEW items, NEW want, Uf!Rows5(items, want) PROVE OwnUser(at')
  <2> PICK n : n = at.acts - 1
    OBVIOUS
  <2>1. at' = [at EXCEPT !.items = items, !.want = want, !.newItems = TRUE, !.touched = TRUE, !.acts = n]
    BY <1>7 DEF Uf!Rows5
  <2>2. SameUser(at, at')
    BY <1>0, <2>1 DEF SameUser, Rec, UformFields
  <2> QED BY <2>2, <1>same
<1>8. CASE Uf!TypePath \/ Uf!AddPath \/ Uf!RemovePath \/ Uf!ReorderPaths \/ Uf!CompletePaths
  <2>1. \E items, want : Uf!Rows5(items, want)
    <3>1. CASE Uf!TypePath
      BY <3>1 DEF Uf!TypePath
    <3>2. CASE Uf!AddPath
      BY <3>2 DEF Uf!AddPath
    <3>3. CASE Uf!RemovePath
      BY <3>3 DEF Uf!RemovePath
    <3>4. CASE Uf!ReorderPaths
      BY <3>4 DEF Uf!ReorderPaths
    <3>5. CASE Uf!CompletePaths
      BY <3>5 DEF Uf!CompletePaths
    <3> QED BY <1>8, <3>1, <3>2, <3>3, <3>4, <3>5
  <2> QED BY <2>1, <1>7
<1>9. CASE Uf!SetMode
  <2> PICK w, n : at' = [at EXCEPT !.value = w, !.newValue = TRUE, !.touched = TRUE, !.acts = n]
    BY <1>9 DEF Uf!SetMode
  <2>1. SameUser(at, at')
    BY <1>0 DEF SameUser, Rec, UformFields
  <2> QED BY <2>1, <1>same
<1>10. CASE Uf!TypePassword
  <2> PICK p, n : at' = [at EXCEPT !.pw = p, !.acts = n]
    BY <1>10 DEF Uf!TypePassword
  <2>1. SameUser(at, at')
    BY <1>0 DEF SameUser, Rec, UformFields
  <2> QED BY <2>1, <1>same
<1>11. CASE Uf!Remount
  <2> PICK items, last : at' = [at EXCEPT !.items = items, !.last = last, !.want = "keep", !.sync = FALSE, !.newItems = TRUE]
    BY <1>11 DEF Uf!Remount
  <2>1. SameUser(at, at')
    BY <1>0 DEF SameUser, Rec, UformFields
  <2> QED BY <2>1, <1>same
<1>12. CASE Uf!SaveUser
  <2> PICK s, n : s = [id |-> Uf!EditingOf(at), of |-> at.of, body |-> Uf!ToApi(at.value)] /\ n = at.acts - 1
    OBVIOUS
  <2>1. at' = [at EXCEPT !.saving = s, !.acts = n] /\ at.open
    BY <1>12 DEF Uf!SaveUser
  <2>2. /\ Rec(at', UformFields) /\ at'.open = at.open /\ at'.edit = at.edit /\ at'.seen = at.seen
        /\ at'.prev = at.prev /\ at'.of = at.of /\ at'.saving = s
    BY <1>0, <2>1 DEF Rec, UformFields
  <2>3. s.of = s.id
    BY <2>1 DEF OwnUser
  <2>4. Uf!EditingOf(at') = Uf!EditingOf(at)
    BY <2>2 DEF Uf!EditingOf
  <2> QED BY <2>2, <2>3, <2>4 DEF OwnUser
<1>13. CASE Uf!UserSaved
  <2>1. PICK users :
           \/ at' = Uf!Seeded([at EXCEPT !.saving = Uf!Idle2, !.open = FALSE, !.users = users])
           \/ at' = [at EXCEPT !.saving = Uf!Idle2]
    BY <1>13 DEF Uf!UserSaved
  <2> PICK v, r : /\ v = [at EXCEPT !.saving = Uf!Idle2, !.open = FALSE, !.users = users]
                  /\ r = [at EXCEPT !.saving = Uf!Idle2]
    OBVIOUS
  <2>2. Rec(v, UformFields) /\ v.prev = at.prev /\ v.of = at.of /\ v.saving = Uf!Idle2
    BY <1>0 DEF Rec, UformFields
  <2>3. OwnUser(Uf!Seeded(v))
    BY <2>2, SeededOwns
  <2>4. /\ Rec(r, UformFields) /\ r.open = at.open /\ r.edit = at.edit /\ r.seen = at.seen
        /\ r.prev = at.prev /\ r.of = at.of /\ r.saving = Uf!Idle2
    BY <1>0 DEF Rec, UformFields
  <2>5. Uf!EditingOf(r) = Uf!EditingOf(at)
    BY <2>4 DEF Uf!EditingOf
  <2>6. OwnUser(r)
    BY <2>4, <2>5 DEF OwnUser
  <2> QED BY <2>1, <2>3, <2>6
<1> QED BY <1>1, <1>2, <1>3, <1>4, <1>5, <1>6, <1>8, <1>9, <1>10, <1>11, <1>12, <1>13 DEF Uf!UformNext

LEMMA UformOwn == UformInv => Uf!UserIsOwn
BY DEF UformInv, OwnUser, Uf!UserIsOwn

---------------------------------------------------------------------------
\* The exits of a user (ExitsKept, OneExit).

\* No text; named, for the prover of arithmetic knows no empty one.
NoText == ""
\* Exits as the node stores them.
ExitOk(v) == v = Uf!Value(v.paths, v.mode) /\ Series(v.paths) /\ Uf!Sanitized(v)
UsersOk(us) == \A x \in DOMAIN us : ExitOk(us[x])

\* The rows and the value of the dialog follow each other in four phases: both
\* stand still, the rows being what was told last; a value is new to the rows;
\* rows were made of a value; rows were typed.
StandStill(u) == u.newValue = FALSE /\ u.newItems = FALSE /\ u.sync = FALSE /\ u.last = Uf!Norm(u.value) /\ u.items = u.last.paths /\ u.want = "keep"
NewToRows(u) == u.newValue = TRUE /\ u.newItems = FALSE /\ u.sync = FALSE /\ u.items = u.last.paths /\ u.want = "keep"
RowsGiven(u) == u.newValue = FALSE /\ u.newItems = TRUE /\ u.sync = TRUE /\ u.last = Uf!Norm(u.value) /\ u.items = u.last.paths /\ u.want = "keep"
RowsTyped(u) ==
  /\ u.newValue = FALSE /\ u.newItems = TRUE /\ u.sync = FALSE /\ u.last = Uf!Norm(u.value)
  /\ u.touched = TRUE \/ (u.items = u.last.paths /\ u.want = "keep")
InStep(u) == StandStill(u) \/ NewToRows(u) \/ RowsGiven(u) \/ RowsTyped(u)

\* What is stored and sent, and what is shown.
ExitsStored(u) == UsersOk(u.users) /\ UsersOk(u.seen) /\ (u.saving # Uf!Idle2 => ExitOk(u.saving.body))
ExitsShown(u) ==
  /\ ExitOk(u.value) /\ ExitOk(u.seed) /\ Series(u.items)
  /\ u.touched \in BOOLEAN /\ (u.touched = FALSE => u.value = u.seed)
  /\ InStep(u)
ExitsOk(u) == ExitsStored(u) /\ ExitsShown(u)
ExitsInv == ExitsOk(at)

---------------------------------------------------------------------------
LEMMA NoTextIs == NoText # "aggregate" /\ NoText # "quality"
BY Zenon DEF NoText

LEMMA FilledWhat ==
  ASSUME NEW s, Series(s), NEW t, t = Uf!Filled2(s)
  PROVE  Series(t) /\ Uf!ToSet(t) = Uf!ToSet(s) \ {NoText} /\ (t = <<>> <=> Uf!ToSet(s) \subseteq {NoText})
<1>s. PICK S : S = Uf!ToSet(s) \ {NoText}
  OBVIOUS
<1>x. PICK X : X = {s[i] : i \in DOMAIN s}
  OBVIOUS
<1>1. s \in Seq(X)
  BY <1>x DEF Series
<1>2. t = Only(s, S)
  BY <1>s DEF Uf!Filled2, Uf!Only, Only, NoText
<1>3. t \in Seq(X \cap S) /\ Vals(t) = Vals(s) \cap S
  BY <1>1, <1>2, OnlyWhat
<1>4. Uf!ToSet(s) = Vals(s) /\ Uf!ToSet(t) = Vals(t)
  <2>1. DOMAIN s = 1 .. Len(s) /\ DOMAIN t = 1 .. Len(t)
    BY <1>1, <1>3, ValsAre
  <2> QED BY <2>1 DEF Uf!ToSet, Vals
<1>5. Series(t)
  BY <1>3, SeriesIs
<1>6. Uf!ToSet(t) = Uf!ToSet(s) \ {NoText}
  BY <1>3, <1>4, <1>s
<1>7. t = <<>> <=> Uf!ToSet(t) = {}
  <2>1. t = <<>> => Vals(t) = {}
    BY EmptyVals
  <2>2. ASSUME t # <<>> PROVE Vals(t) # {}
    <3>1. PICK n \in Nat : n = Len(t) /\ DOMAIN t = 1 .. n
      BY <1>3, LenProperties
    <3>2. n # 0
      BY <1>3, <2>2, <3>1, EmptySeq
    <3>3. t[1] \in Vals(t)
      BY <3>1, <3>2 DEF Vals
    <3> QED BY <3>3
  <2> QED BY <2>1, <2>2, <1>4
<1> QED BY <1>5, <1>6, <1>7

\* The exits that paths end at are finitely many.
LEMMA TargetsNumber == ASSUME NEW s, Series(s) PROVE Uf!Cardinality(Uf!Targets(s)) \in Nat
<1>1. PICK t : t = Uf!Filled2(s)
  OBVIOUS
<1>2. Series(t)
  BY <1>1, FilledWhat
<1>3. PICK n \in Nat : DOMAIN t = 1 .. n
  BY <1>2, LenProperties DEF Series
<1>4. PICK T : T = {TargetOf[t[i]] : i \in 1 .. n}
  OBVIOUS
<1>5. Uf!Targets(s) = T
  BY <1>1, <1>3, <1>4 DEF Uf!Targets, Uf!ToSet
<1>6. [i \in 1 .. n |-> TargetOf[t[i]]] \in Surjection(1 .. n, T)
  BY <1>4 DEF Surjection
<1>7. IsFiniteSet(1 .. n)
  BY FS_Interval
<1>8. Cardinality(T) \in Nat
  BY <1>6, <1>7, FS_Surjection, FS_CardinalityType
<1>9. Uf!Cardinality(T) = Cardinality(T)
  BY DEF Uf!Cardinality, Cardinality
<1> QED BY <1>5, <1>8, <1>9

\* Rows with the same paths in them store alike.
SamePaths(p, q) == Uf!ToSet(p) \ {NoText} = Uf!ToSet(q) \ {NoText}
LEMMA SameTargets ==
  ASSUME NEW p, NEW q, Series(p), Series(q), SamePaths(p, q)
  PROVE  Uf!Targets(p) = Uf!Targets(q) /\ (Uf!Filled2(p) = <<>> <=> Uf!Filled2(q) = <<>>)
<1>1. Uf!ToSet(Uf!Filled2(p)) = Uf!ToSet(Uf!Filled2(q))
  BY FilledWhat DEF SamePaths
<1>2. Uf!Targets(p) = Uf!Targets(q)
  BY <1>1 DEF Uf!Targets
<1>3. Uf!ToSet(p) \subseteq {NoText} <=> Uf!ToSet(q) \subseteq {NoText}
  BY DEF SamePaths
<1>t. PICK t, v : t = Uf!Filled2(p) /\ v = Uf!Filled2(q)
  OBVIOUS
<1>4. t = <<>> <=> Uf!ToSet(p) \subseteq {NoText}
  BY <1>t, FilledWhat
<1>5. v = <<>> <=> Uf!ToSet(q) \subseteq {NoText}
  BY <1>t, FilledWhat
<1> QED BY <1>2, <1>3, <1>4, <1>5, <1>t

\* Without a path there is no exit.
LEMMA NoTargets == ASSUME NEW s, Uf!Filled2(s) = <<>> PROVE Uf!Cardinality(Uf!Targets(s)) = 0
<1>1. Uf!Targets(s) = {}
  BY NoSeries DEF Uf!Targets, Uf!ToSet
<1>2. Uf!Cardinality({}) = Cardinality({})
  BY DEF Uf!Cardinality, Cardinality
<1> QED BY <1>1, <1>2, FS_EmptySet

LEMMA SaneIs ==
  ASSUME NEW p, NEW m
  PROVE  /\ Uf!Value(p, m).paths = p /\ Uf!Value(p, m).mode = m
         /\ Uf!Sanitized(Uf!Value(p, m)) <=> /\ Uf!Filled2(p) = <<>> => m = NoText
                                             /\ m = "aggregate" => Uf!Cardinality(Uf!Targets(p)) <= 1
<1>1. Uf!Value(p, m).paths = p /\ Uf!Value(p, m).mode = m
  BY DEF Uf!Value
<1> QED BY <1>1 DEF Uf!Sanitized, NoText

LEMMA SaneSame ==
  ASSUME NEW p, NEW q, Series(p), Series(q), SamePaths(p, q), NEW m, ExitOk(Uf!Value(p, m))
  PROVE  ExitOk(Uf!Value(q, m))
<1>1. Uf!Sanitized(Uf!Value(p, m))
  BY DEF ExitOk
<1>a. Uf!Targets(p) = Uf!Targets(q) /\ (Uf!Filled2(p) = <<>> <=> Uf!Filled2(q) = <<>>)
  BY SameTargets
<1>b. (Uf!Filled2(p) = <<>> => m = NoText) /\ (m = "aggregate" => Uf!Cardinality(Uf!Targets(p)) <= 1)
  BY <1>1, SaneIs
<1>c. (Uf!Filled2(q) = <<>> => m = NoText) /\ (m = "aggregate" => Uf!Cardinality(Uf!Targets(q)) <= 1)
  BY <1>a, <1>b
<1>2. Uf!Sanitized(Uf!Value(q, m))
  BY <1>c, SaneIs
<1> QED BY <1>2, SaneIs DEF ExitOk

LEMMA NoPaths == Series(<<NoText>>) /\ Series(<<>>) /\ SamePaths(<<NoText>>, <<>>) /\ ExitOk(Uf!Value(<<NoText>>, NoText)) /\ ExitOk(Uf!NewUser)
<1>1. Uf!ToSet(<<NoText>>) = {NoText} /\ Uf!ToSet(<<>>) = {}
  BY OneSeries, NoSeries DEF Uf!ToSet
<1>2. Series(<<NoText>>) /\ Series(<<>>)
  BY OneSeries, NoSeries
<1>3. Uf!Sanitized(Uf!Value(<<NoText>>, NoText))
  BY SaneIs, NoTextIs
<1>4. ExitOk(Uf!Value(<<NoText>>, NoText))
  BY <1>2, <1>3, SaneIs DEF ExitOk
<1> QED BY <1>1, <1>2, <1>4 DEF SamePaths, Uf!NewUser, NoText

LEMMA NormOk ==
  ASSUME NEW v, ExitOk(v), NEW w, w = Uf!Norm(v)
  PROVE  ExitOk(w) /\ w = Uf!Value(w.paths, v.mode) /\ w.mode = v.mode
<1>1. CASE v.paths = <<>>
  <2>1. w = Uf!Value(<<NoText>>, v.mode)
    BY <1>1 DEF Uf!Norm, NoText
  <2>2. SamePaths(v.paths, <<NoText>>)
    BY <1>1, NoPaths DEF SamePaths
  <2>3. ExitOk(Uf!Value(v.paths, v.mode)) /\ Series(v.paths)
    BY DEF ExitOk
  <2>4. ExitOk(w)
    BY <2>1, <2>2, <2>3, SaneSame, NoPaths
  <2>0. PICK p, m : p = <<NoText>> /\ m = v.mode
    OBVIOUS
  <2>6. w = Uf!Value(p, m)
    BY <2>0, <2>1
  <2>7. w.paths = p /\ w.mode = m
    BY <2>6, SaneIs
  <2>5. w.paths = <<NoText>> /\ w.mode = v.mode
    BY <2>0, <2>7
  <2> QED BY <2>1, <2>4, <2>5
<1>2. CASE v.paths # <<>>
  <2>1. w = v
    BY <1>2 DEF Uf!Norm
  <2> QED BY <2>1 DEF ExitOk
<1> QED BY <1>1, <1>2

\* What rows are told with fits them; where they hold the value, they tell it again.
LEMMA ToldFits == ASSUME NEW u, Series(u.items) PROVE ExitOk(Uf!Value(u.items, Uf!ModeFor(u)))
<1>1. PICK items, m : items = u.items /\ m = IF u.want # "keep" THEN u.want ELSE u.value.mode
  OBVIOUS
<1>2. PICK k : k = Uf!ModeFor(u)
  OBVIOUS
<1>3. PICK n \in Nat : n = Uf!Cardinality(Uf!Targets(items))
  BY <1>1, TargetsNumber
<1>4. k = IF Uf!Filled2(items) = <<>> THEN NoText ELSE IF m = "aggregate" /\ n > 1 THEN "quality" ELSE m
  <2>1. Uf!Filled2(items) = <<>> => ~(m = "aggregate" /\ n > 1)
    BY <1>3, NoTargets
  <2> QED BY <1>1, <1>2, <1>3, <2>1 DEF Uf!ModeFor, NoText
<1>5. k = "aggregate" => n <= 1
  BY <1>3, <1>4, NoTextIs
<1>6. Uf!Filled2(items) = <<>> => k = NoText
  BY <1>4
<1>7. Uf!Sanitized(Uf!Value(items, k))
  BY <1>3, <1>5, <1>6, SaneIs
<1> QED BY <1>1, <1>2, <1>7, SaneIs DEF ExitOk

LEMMA KeptMode ==
  ASSUME NEW u, Series(u.items), u.want = "keep", ExitOk(Uf!Value(u.items, u.value.mode))
  PROVE  Uf!ModeFor(u) = u.value.mode
<1>1. PICK items, m : items = u.items /\ m = u.value.mode
  OBVIOUS
<1>3. PICK n \in Nat : n = Uf!Cardinality(Uf!Targets(items))
  BY <1>1, TargetsNumber
<1>4. Uf!ModeFor(u) = IF Uf!Filled2(items) = <<>> THEN NoText ELSE IF m = "aggregate" /\ n > 1 THEN "quality" ELSE m
  <2>1. Uf!Filled2(items) = <<>> => ~(m = "aggregate" /\ n > 1)
    BY <1>3, NoTargets
  <2>2. u.want = "keep"
    OBVIOUS
  <2> QED BY <1>1, <1>3, <2>1, <2>2 DEF Uf!ModeFor, NoText
<1>5. (Uf!Filled2(items) = <<>> => m = NoText) /\ (m = "aggregate" => n <= 1)
  BY <1>1, <1>3, SaneIs DEF ExitOk
<1>6. ~(m = "aggregate" /\ n > 1)
  BY <1>3, <1>5
<1> QED BY <1>1, <1>4, <1>5, <1>6

\* Nothing that is stored or shown is changed.
SameStored(u, v) == v.users = u.users /\ v.seen = u.seen /\ v.saving = u.saving
SameShown(u, v) ==
  /\ v.value = u.value /\ v.seed = u.seed /\ v.items = u.items /\ v.touched = u.touched /\ v.last = u.last
  /\ v.want = u.want /\ v.sync = u.sync /\ v.newValue = u.newValue /\ v.newItems = u.newItems
LEMMA StoredKept == ASSUME NEW u, NEW v, ExitsStored(u), SameStored(u, v) PROVE ExitsStored(v)
BY DEF ExitsStored, SameStored
LEMMA ShownKept == ASSUME NEW u, NEW v, ExitsShown(u), SameShown(u, v) PROVE ExitsShown(v)
<1>1. InStep(v)
  BY DEF ExitsShown, SameShown, InStep, StandStill, NewToRows, RowsGiven, RowsTyped
<1> QED BY <1>1 DEF ExitsShown, SameShown

\* What the list tells.
LEMMA ToldShows ==
  ASSUME NEW u, Rec(u, UformFields), ExitOk(u.value), ExitOk(u.seed), Series(u.items), u.touched \in BOOLEAN,
         u.touched = FALSE => u.value = u.seed,
         u.newValue = FALSE, u.newItems = FALSE, u.sync = FALSE, u.last = Uf!Norm(u.value),
         u.touched = TRUE \/ (u.items = u.last.paths /\ u.want = "keep")
  PROVE  ExitsShown(Uf!Told(u)) /\ SameStored(u, Uf!Told(u))
<1>1. PICK w : w = Uf!Value(u.items, Uf!ModeFor(u))
  OBVIOUS
<1>2. ExitOk(w) /\ w.paths = u.items
  BY <1>1, ToldFits, SaneIs
<1>3. PICK r : r = Uf!Told(u)
  OBVIOUS
<1>4. CASE w = u.last
  <2>1. r = [u EXCEPT !.want = "keep"]
    BY <1>1, <1>3, <1>4 DEF Uf!Told
  <2>2. /\ r.value = u.value /\ r.seed = u.seed /\ r.items = u.items /\ r.touched = u.touched /\ r.last = u.last /\ r.want = "keep"
        /\ r.sync = FALSE /\ r.newValue = FALSE /\ r.newItems = FALSE /\ SameStored(u, r)
    BY <2>1 DEF Rec, UformFields, SameStored
  <2>3. StandStill(r)
    BY <2>2, <1>2, <1>4 DEF StandStill
  <2>4. ExitsShown(r)
    BY <2>2, <2>3 DEF ExitsShown, InStep
  <2> QED BY <2>2, <2>4, <1>3
<1>5. CASE w # u.last
  <2>1. r = [u EXCEPT !.want = "keep", !.last = w, !.value = w, !.newValue = TRUE]
    BY <1>1, <1>3, <1>5 DEF Uf!Told
  <2>2. /\ r.value = w /\ r.seed = u.seed /\ r.items = u.items /\ r.touched = u.touched /\ r.last = w /\ r.want = "keep"
        /\ r.sync = FALSE /\ r.newValue = TRUE /\ r.newItems = FALSE /\ SameStored(u, r)
    BY <2>1 DEF Rec, UformFields, SameStored
  <2>3. NewToRows(r)
    BY <2>2, <1>2 DEF NewToRows
  <2>4. u.touched = TRUE
    <3> SUFFICES ASSUME u.items = u.last.paths, u.want = "keep" PROVE FALSE
      OBVIOUS
    <3>1. PICK n : n = Uf!Norm(u.value)
      OBVIOUS
    <3>2. ExitOk(n) /\ n = Uf!Value(n.paths, u.value.mode)
      BY <3>1, NormOk
    <3>3. n.paths = u.items
      BY <3>1
    <3>4. Uf!ModeFor(u) = u.value.mode
      BY <3>2, <3>3, KeptMode
    <3>5. w = n
      BY <3>2, <3>3, <3>4, <1>1
    <3> QED BY <3>1, <3>5, <1>5
  <2>5. ExitsShown(r)
    BY <2>2, <2>3, <2>4, <1>2 DEF ExitsShown, InStep
  <2> QED BY <2>2, <2>5, <1>3
<1> QED BY <1>4, <1>5

\* A commit brings the rows and the value one phase on.
LEMMA CommitShows ==
  ASSUME NEW u, Rec(u, UformFields), ExitsShown(u), u.newValue = TRUE \/ u.newItems = TRUE,
         NEW r, r = Uf!Emitted([Uf!Taken2(u) EXCEPT !.newValue = FALSE])
  PROVE  ExitsShown(r) /\ SameStored(u, r)
<1>0. /\ ExitOk(u.value) /\ ExitOk(u.seed) /\ Series(u.items) /\ u.touched \in BOOLEAN /\ (u.touched = FALSE => u.value = u.seed)
  BY DEF ExitsShown
<1>1. PICK n : n = Uf!Norm(u.value)
  OBVIOUS
<1>2. ExitOk(n) /\ Series(n.paths)
  BY <1>0, <1>1, NormOk DEF ExitOk
<1>3. PICK f : f = [Uf!Taken2(u) EXCEPT !.newValue = FALSE]
  OBVIOUS
<1>4. CASE NewToRows(u) /\ n # u.last
  <2>1. PICK paths : paths = n.paths
    OBVIOUS
  <2>2. Uf!Taken2(u) = [u EXCEPT !.last = n, !.items = paths, !.sync = TRUE, !.newItems = TRUE]
    BY <1>1, <1>4, <2>1 DEF Uf!Taken2, NewToRows
  <2>3. /\ f.value = u.value /\ f.seed = u.seed /\ f.items = paths /\ f.touched = u.touched /\ f.last = n /\ f.want = u.want
        /\ f.sync = TRUE /\ f.newValue = FALSE /\ f.newItems = TRUE /\ SameStored(u, f)
    BY <1>3, <2>2 DEF Rec, UformFields, SameStored
  <2>4. Uf!Emitted(f) = f
    BY <2>3 DEF Uf!Emitted
  <2>5. RowsGiven(f)
    BY <1>1, <1>4, <2>1, <2>3 DEF RowsGiven, NewToRows
  <2>6. ExitsShown(f)
    BY <1>0, <1>2, <2>1, <2>3, <2>5 DEF ExitsShown, InStep
  <2> QED BY <1>3, <2>3, <2>4, <2>6
<1>5. ASSUME ~(NewToRows(u) /\ n # u.last), NewToRows(u) \/ RowsGiven(u) \/ RowsTyped(u)
      PROVE  /\ Rec(f, UformFields) /\ SameStored(u, f)
             /\ f.value = u.value /\ f.seed = u.seed /\ f.items = u.items /\ f.touched = u.touched /\ f.last = u.last
             /\ f.want = u.want /\ f.sync = u.sync /\ f.newValue = FALSE /\ f.newItems = FALSE
  <2>1. ~(u.newValue /\ Uf!Norm(u.value) # u.last)
    BY <1>1, <1>5 DEF NewToRows, RowsGiven, RowsTyped
  <2>2. Uf!Taken2(u) = [u EXCEPT !.newItems = FALSE]
    BY <2>1 DEF Uf!Taken2
  <2>3. f = [[u EXCEPT !.newItems = FALSE] EXCEPT !.newValue = FALSE]
    BY <1>3, <2>2
  <2> QED BY <2>3 DEF Rec, UformFields, SameStored
<1>6. CASE NewToRows(u) /\ n = u.last
  <2>1. /\ Rec(f, UformFields) /\ SameStored(u, f)
        /\ f.value = u.value /\ f.seed = u.seed /\ f.items = u.items /\ f.touched = u.touched /\ f.last = u.last
        /\ f.want = u.want /\ f.sync = FALSE /\ f.newValue = FALSE /\ f.newItems = FALSE
    BY <1>5, <1>6 DEF NewToRows
  <2>2. u.items = u.last.paths /\ u.want = "keep" /\ u.last = Uf!Norm(u.value)
    BY <1>1, <1>6 DEF NewToRows
  <2>3. ExitsShown(Uf!Told(f)) /\ SameStored(f, Uf!Told(f))
    BY <1>0, <2>1, <2>2, ToldShows
  <2>4. Uf!Emitted(f) = Uf!Told(f)
    BY <2>1 DEF Uf!Emitted
  <2> QED BY <1>3, <2>1, <2>3, <2>4 DEF SameStored
<1>7. CASE RowsGiven(u)
  <2>1. /\ Rec(f, UformFields) /\ SameStored(u, f)
        /\ f.value = u.value /\ f.seed = u.seed /\ f.items = u.items /\ f.touched = u.touched /\ f.last = u.last
        /\ f.want = u.want /\ f.sync = TRUE /\ f.newValue = FALSE /\ f.newItems = FALSE
    BY <1>5, <1>7 DEF NewToRows, RowsGiven
  <2>2. u.items = u.last.paths /\ u.want = "keep" /\ u.last = Uf!Norm(u.value)
    BY <1>7 DEF RowsGiven
  <2>3. r = [f EXCEPT !.sync = FALSE]
    BY <1>3, <2>1 DEF Uf!Emitted
  <2>4. /\ SameStored(u, r)
        /\ r.value = u.value /\ r.seed = u.seed /\ r.items = u.items /\ r.touched = u.touched /\ r.last = u.last
        /\ r.want = u.want /\ r.sync = FALSE /\ r.newValue = FALSE /\ r.newItems = FALSE
    BY <2>1, <2>3 DEF Rec, UformFields, SameStored
  <2>5. StandStill(r)
    BY <2>2, <2>4 DEF StandStill
  <2>6. ExitsShown(r)
    BY <1>0, <2>4, <2>5 DEF ExitsShown, InStep
  <2> QED BY <2>4, <2>6
<1>8. CASE RowsTyped(u)
  <2>1. /\ Rec(f, UformFields) /\ SameStored(u, f)
        /\ f.value = u.value /\ f.seed = u.seed /\ f.items = u.items /\ f.touched = u.touched /\ f.last = u.last
        /\ f.want = u.want /\ f.sync = FALSE /\ f.newValue = FALSE /\ f.newItems = FALSE
    BY <1>5, <1>8 DEF NewToRows, RowsTyped
  <2>2. u.last = Uf!Norm(u.value) /\ (u.touched = TRUE \/ (u.items = u.last.paths /\ u.want = "keep"))
    BY <1>8 DEF RowsTyped
  <2>3. ExitsShown(Uf!Told(f)) /\ SameStored(f, Uf!Told(f))
    BY <1>0, <2>1, <2>2, ToldShows
  <2>4. Uf!Emitted(f) = Uf!Told(f)
    BY <2>1 DEF Uf!Emitted
  <2> QED BY <1>3, <2>1, <2>3, <2>4 DEF SameStored
<1>9. ~StandStill(u)
  BY DEF StandStill
<1> QED BY <1>4, <1>6, <1>7, <1>8, <1>9 DEF ExitsShown, InStep

\* The dialog is seeded while it stands still.
LEMMA SeededShows ==
  ASSUME NEW u, Rec(u, UformFields), ExitsOk(u), StandStill(u), NEW r, r = Uf!Seeded(u)
  PROVE  ExitsOk(r)
<1>1. PICK key : key = Uf!EditingOf(u)
  OBVIOUS
<1>2. PICK w : w = IF key = "" THEN Uf!NewUser ELSE Uf!FromApi(u.seen[key])
  OBVIOUS
<1>3. ExitOk(w)
  <2>1. key = "" \/ key \in DOMAIN u.seen
    BY <1>1, Zenon DEF Uf!EditingOf
  <2>2. CASE key = ""
    BY <1>2, <2>2, NoPaths, Zenon
  <2>3. CASE key # ""
    <3>1. ExitOk(u.seen[key])
      BY <2>1, <2>3, Zenon DEF ExitsOk, ExitsStored, UsersOk
    <3>2. w = Uf!Norm(u.seen[key])
      BY <1>2, <2>3, Zenon DEF Uf!FromApi
    <3> QED BY <3>1, <3>2, NormOk
  <2> QED BY <2>2, <2>3
<1>4. PICK pw, open, prev : pw = (IF key = "" THEN "" ELSE "own") /\ prev = [open |-> open, key |-> key] /\ open = u.open
  OBVIOUS
<1>5. \/ r = [[u EXCEPT !.of = key, !.seed = w, !.touched = FALSE, !.pw = pw, !.value = w, !.newValue = TRUE] EXCEPT !.prev = prev]
      \/ r = [u EXCEPT !.prev = prev]
  BY <1>1, <1>2, <1>4, Zenon DEF Uf!Seeded, Uf!SeedWith
<1>6. CASE r = [u EXCEPT !.prev = prev]
  <2>1. SameStored(u, r) /\ SameShown(u, r)
    BY <1>6 DEF Rec, UformFields, SameStored, SameShown
  <2> QED BY <2>1, StoredKept, ShownKept DEF ExitsOk
<1>7. CASE r = [[u EXCEPT !.of = key, !.seed = w, !.touched = FALSE, !.pw = pw, !.value = w, !.newValue = TRUE] EXCEPT !.prev = prev]
  <2>1. /\ SameStored(u, r) /\ r.seed = w /\ r.touched = FALSE /\ r.value = w /\ r.newValue = TRUE
        /\ r.items = u.items /\ r.last = u.last /\ r.want = u.want /\ r.sync = u.sync /\ r.newItems = u.newItems
    BY <1>7 DEF Rec, UformFields, SameStored
  <2>2. NewToRows(r)
    BY <2>1 DEF NewToRows, StandStill
  <2>3. ExitsShown(r)
    BY <2>1, <2>2, <1>3 DEF ExitsShown, InStep, ExitsOk
  <2> QED BY <2>1, <2>3, StoredKept DEF ExitsOk
<1> QED BY <1>5, <1>6, <1>7

\* The rows that typing comes to.
LEMMA AllPathsSeries == ASSUME NEW S PROVE Series(Uf!Only(Uf!SetToSeq(PathTexts), S))
<1>1. PICK n \in Nat : n = Cardinality(PathTexts) /\ ExistsBijection(1 .. n, PathTexts)
  BY StoredAssumption, FS_CardinalityType
<1>2. Uf!Cardinality(PathTexts) = n
  BY <1>1 DEF Uf!Cardinality, Cardinality
<1>3. \E f \in [1 .. n -> PathTexts] : Uf!IsInjective(f)
  <2>1. PICK f : f \in Bijection(1 .. n, PathTexts)
    BY <1>1 DEF ExistsBijection
  <2>2. f \in [1 .. n -> PathTexts] /\ \A a, b \in DOMAIN f : f[a] = f[b] => a = b
    BY <2>1 DEF Bijection, Injection, IsInjective
  <2> QED BY <2>2 DEF Uf!IsInjective
<1>4. PICK s : s = Uf!SetToSeq(PathTexts)
  OBVIOUS
<1>5. s \in [1 .. n -> PathTexts]
  BY <1>2, <1>3, <1>4 DEF Uf!SetToSeq
<1>6. s \in Seq(PathTexts)
  BY <1>5, SeqDef
<1>7. Uf!Only(s, S) = Only(s, S)
  BY DEF Uf!Only, Only
<1>8. Only(s, S) \in Seq(PathTexts \cap S)
  BY <1>6, OnlyWhat
<1> QED BY <1>4, <1>7, <1>8, SeriesIs

LEMMA SeriesReverse == ASSUME NEW s, Series(s) PROVE Series(Uf!Reverse(s))
<1>1. PICK X : X = {s[i] : i \in DOMAIN s}
  OBVIOUS
<1>2. s \in Seq(X)
  BY <1>1 DEF Series
<1>3. PICK n \in Nat : n = Len(s) /\ DOMAIN s = 1 .. n
  BY <1>2, LenProperties
<1>4. \A i \in 1 .. n : s[i] \in X
  BY <1>2, <1>3, ElementOfSeq
<1>5. Uf!Reverse(s) = [i \in 1 .. n |-> s[(n - i) + 1]]
  BY <1>3 DEF Uf!Reverse
<1>6. Uf!Reverse(s) \in [1 .. n -> X]
  <2>1. \A i \in 1 .. n : (n - i) + 1 \in 1 .. n
    BY <1>3
  <2> QED BY <2>1, <1>4, <1>5
<1>7. Uf!Reverse(s) \in Seq(X)
  BY <1>6, SeqDef
<1> QED BY <1>7, SeriesIs

\* Typing, while the dialog stands still.
LEMMA TypedShows ==
  ASSUME ExitsOk(at), Rec(at, UformFields), StandStill(at), NEW items, Series(items), NEW want, Uf!Rows5(items, want)
  PROVE  ExitsOk(at')
<1>1. PICK n : n = at.acts - 1
  OBVIOUS
<1>2. at' = [at EXCEPT !.items = items, !.want = want, !.newItems = TRUE, !.touched = TRUE, !.acts = n]
  BY <1>1 DEF Uf!Rows5
<1>3. PICK r : r = at'
  OBVIOUS
<1>4. /\ SameStored(at, r) /\ r.seed = at.seed /\ r.touched = TRUE /\ r.value = at.value /\ r.newValue = at.newValue
      /\ r.items = items /\ r.last = at.last /\ r.sync = at.sync /\ r.newItems = TRUE
  BY <1>2, <1>3 DEF Rec, UformFields, SameStored
<1>5. RowsTyped(r)
  BY <1>4 DEF RowsTyped, StandStill
<1>6. ExitsShown(r)
  BY <1>4, <1>5 DEF ExitsShown, InStep, ExitsOk
<1> QED BY <1>3, <1>4, <1>6, StoredKept DEF ExitsOk

LEMMA UsersStarts == at \in Uf!UformInits => ExitsInv
<1> SUFFICES ASSUME at \in Uf!UformInits PROVE ExitsOk(at)
  BY DEF ExitsInv
<1>1. PICK prev, new, saving, items, none :
        /\ new = Uf!NewUser /\ saving = Uf!Idle2 /\ items = <<"">> /\ none = ""
        /\ at = [users |-> Stored0, seen |-> Stored0, open |-> FALSE, edit |-> none, prev |-> prev, of |-> none,
                 seed |-> new, touched |-> FALSE, pw |-> none, value |-> new, items |-> items, last |-> new, want |-> "keep",
                 sync |-> FALSE, newValue |-> FALSE, newItems |-> FALSE, saving |-> saving, acts |-> UserActs]
  BY Zenon DEF Uf!UformInits
<1>2. /\ at.users = Stored0 /\ at.seen = Stored0 /\ at.saving = saving /\ at.seed = new /\ at.touched = FALSE /\ at.value = new
      /\ at.items = items /\ at.last = new /\ at.want = "keep" /\ at.sync = FALSE /\ at.newValue = FALSE /\ at.newItems = FALSE
  BY <1>1
<1>3. UsersOk(Stored0)
  BY StoredAssumption, SeriesIs DEF UsersOk, ExitOk
<1>4. Series(items) /\ ExitOk(new)
  BY <1>1, NoPaths, Zenon DEF NoText
<1>5. Uf!Norm(new) = new /\ new.paths = items
  <2>1. new = Uf!Value(<<NoText>>, NoText) /\ items = <<NoText>>
    BY <1>1, Zenon DEF Uf!NewUser, NoText
  <2>2. new.paths = items /\ items # <<>>
    BY <2>1, SaneIs
  <2> QED BY <2>2 DEF Uf!Norm
<1>6. StandStill(at)
  BY <1>2, <1>5 DEF StandStill
<1>7. ExitsShown(at) /\ ExitsStored(at)
  BY <1>1, <1>2, <1>3, <1>4, <1>6 DEF ExitsShown, ExitsStored, InStep
<1> QED BY <1>7 DEF ExitsOk

LEMMA SettledStands == ASSUME NEW u, ExitsShown(u), Uf!Settled(u) PROVE StandStill(u)
BY DEF ExitsShown, InStep, NewToRows, RowsGiven, RowsTyped, Uf!Settled

\* A user added, changed or gone; whoever is stored is so with exits as they are stored.
LEMMA UsersChange ==
  ASSUME NEW us, UsersOk(us), NEW id, NEW body, ExitOk(body), NEW D,
         NEW vs, vs = [x \in D |-> IF x = id THEN body ELSE us[x]], D \subseteq DOMAIN us \cup {id}
  PROVE  UsersOk(vs)
BY DEF UsersOk

LEMMA StoredSoon ==
  ASSUME NEW u, NEW v, ExitsOk(u), StandStill(u), Rec(v, UformFields), UsersOk(v.users), UsersOk(v.seen), v.saving \in {u.saving, Uf!Idle2}, SameShown(u, v)
  PROVE  ExitsOk(v) /\ ExitsOk(Uf!Seeded(v))
<1>1. ExitsStored(v)
  BY DEF ExitsOk, ExitsStored
<1>2. ExitsShown(v) /\ StandStill(v)
  BY ShownKept DEF ExitsOk, SameShown, StandStill
<1> QED BY <1>1, <1>2, SeededShows DEF ExitsOk

LEMMA UsersStep == Rec(at, UformFields) /\ ExitsInv /\ [Uf!UformNext]_at => ExitsInv'
<1> SUFFICES ASSUME Rec(at, UformFields), ExitsOk(at), [Uf!UformNext]_at PROVE ExitsOk(at')
  BY DEF ExitsInv
<1>s. /\ UsersOk(at.users) /\ UsersOk(at.seen) /\ ExitsShown(at) /\ ExitsStored(at)
      /\ ExitOk(at.value) /\ ExitOk(at.seed) /\ Series(at.items) /\ at.touched \in BOOLEAN /\ (at.touched = FALSE => at.value = at.seed)
      /\ (at.saving # Uf!Idle2 => ExitOk(at.saving.body))
  BY DEF ExitsOk, ExitsStored, ExitsShown
<1>1. CASE UNCHANGED at
  BY <1>1
<1>2. CASE Uf!OpenUser
  <2> PICK id : Uf!Settled(at) /\ at' = Uf!Seeded([at EXCEPT !.open = TRUE, !.edit = id])
    BY <1>2, Zenon DEF Uf!OpenUser
  <2> PICK v : v = [at EXCEPT !.open = TRUE, !.edit = id]
    OBVIOUS
  <2>1. Rec(v, UformFields) /\ v.users = at.users /\ v.seen = at.seen /\ v.saving = at.saving /\ SameShown(at, v)
    BY DEF Rec, UformFields, SameShown
  <2> QED BY <2>1, <1>s, SettledStands, StoredSoon
<1>3. CASE Uf!CloseUser
  <2> PICK v : v = [at EXCEPT !.open = FALSE]
    OBVIOUS
  <2>1. Rec(v, UformFields) /\ v.users = at.users /\ v.seen = at.seen /\ v.saving = at.saving /\ SameShown(at, v)
    BY DEF Rec, UformFields, SameShown
  <2>2. Uf!Settled(at) /\ at' = Uf!Seeded(v)
    BY <1>3 DEF Uf!CloseUser
  <2> QED BY <2>1, <2>2, <1>s, SettledStands, StoredSoon
<1>4. CASE Uf!PollUsers
  <2> PICK v : v = [at EXCEPT !.seen = at.users]
    OBVIOUS
  <2>1. Rec(v, UformFields) /\ v.users = at.users /\ v.seen = at.users /\ v.saving = at.saving /\ SameShown(at, v)
    BY DEF Rec, UformFields, SameShown
  <2>2. Uf!Settled(at) /\ at' = Uf!Seeded(v)
    BY <1>4 DEF Uf!PollUsers
  <2> QED BY <2>1, <2>2, <1>s, SettledStands, StoredSoon
<1>5. CASE Uf!OtherUsers
  <2>1. ASSUME NEW users, NEW n, at' = [at EXCEPT !.users = users, !.acts = n], UsersOk(users) PROVE ExitsOk(at')
    <3>1. at'.users = users /\ at'.seen = at.seen /\ at'.saving = at.saving /\ SameShown(at, at')
      BY <2>1 DEF Rec, UformFields, SameShown
    <3> QED BY <2>1, <3>1, <1>s, ShownKept DEF ExitsOk, ExitsStored
  <2>2. PICK id \in DOMAIN at.users : \/ at' = [at EXCEPT !.users = [x \in DOMAIN @ \ {id} |-> @[x]], !.acts = @ - 1]
                                      \/ at' = [at EXCEPT !.users[id] = Uf!Value(<<"a">>, ""), !.acts = @ - 1]
    BY <1>5, Zenon DEF Uf!OtherUsers
  <2>3. PICK us, n, body, one : us = at.users /\ n = at.acts - 1 /\ body = Uf!Value(one, NoText) /\ one = <<"a">>
    OBVIOUS
  <2>4. PICK less, more : less = [x \in DOMAIN us \ {id} |-> us[x]] /\ more = [us EXCEPT ![id] = body]
    OBVIOUS
  <2>5. at' = [at EXCEPT !.users = less, !.acts = n] \/ at' = [at EXCEPT !.users = more, !.acts = n]
    <3>1. body = Uf!Value(<<"a">>, "")
      BY <2>3, Zenon DEF NoText
    <3>2. CASE at' = [at EXCEPT !.users = [x \in DOMAIN @ \ {id} |-> @[x]], !.acts = @ - 1]
      BY <2>3, <2>4, <3>2
    <3>3. CASE at' = [at EXCEPT !.users[id] = Uf!Value(<<"a">>, ""), !.acts = @ - 1]
      <4>1. at' = [at EXCEPT !.users[id] = body, !.acts = n]
        BY <2>3, <3>1, <3>3, Zenon
      <4>2. [at EXCEPT !.users[id] = body, !.acts = n] = [at EXCEPT !.users = more, !.acts = n]
        BY <2>3, <2>4 DEF Rec, UformFields
      <4> QED BY <4>1, <4>2
    <3> QED BY <2>2, <3>2, <3>3
  <2>6. UsersOk(less)
    BY <2>3, <2>4, <1>s DEF UsersOk
  <2>7. ExitOk(body)
    <3>1. Series(one) /\ ExitOk(Uf!Value(one, NoText))
      <4>1. Series(one)
        BY <2>3, OneSeries
      <4>2. Uf!Sanitized(Uf!Value(one, NoText))
        BY SaneIs, NoTextIs
      <4> QED BY <4>1, <4>2, SaneIs DEF ExitOk
    <3> QED BY <2>3, <3>1
  <2>8. UsersOk(more)
    BY <2>3, <2>4, <2>7, <1>s DEF UsersOk
  <2> QED BY <2>1, <2>5, <2>6, <2>8
<1>6. CASE Uf!Commit2
  <2>1. at.newValue = TRUE \/ at.newItems = TRUE
    BY <1>6, <1>s DEF Uf!Commit2, Uf!Settled, ExitsShown, InStep, StandStill, NewToRows, RowsGiven, RowsTyped
  <2>2. ExitsShown(at') /\ SameStored(at, at')
    BY <1>6, <2>1, <1>s, CommitShows DEF Uf!Commit2
  <2> QED BY <2>2, <1>s, StoredKept DEF ExitsOk
<1>still. Uf!Ready => StandStill(at)
  BY <1>s, SettledStands DEF Uf!Ready
<1>7. CASE Uf!TypePath
  <2> PICK i, p : i \in DOMAIN at.items /\ Uf!Rows5([at.items EXCEPT ![i] = p], at.want)
    BY <1>7 DEF Uf!TypePath
  <2>1. Series([at.items EXCEPT ![i] = p])
    BY <1>s, SeriesExcept
  <2> QED BY <2>1, <1>7, <1>still, TypedShows DEF Uf!TypePath
<1>8. CASE Uf!AddPath
  <2>1. PICK want, none : none = "" /\ Uf!Rows5(Append(at.items, none), want)
    BY <1>8, Zenon DEF Uf!AddPath
  <2>2. PICK items : items = Append(at.items, none)
    OBVIOUS
  <2>3. Series(items)
    <3>1. LongerBy(Append(at.items, none), at.items, none)
      BY <1>s, SeriesAppend
    <3>2. LongerBy(items, at.items, none)
      BY <2>2, <3>1, Zenon
    <3> QED BY <3>2 DEF LongerBy
  <2>4. Uf!Rows5(items, want)
    BY <2>1, <2>2, Zenon
  <2>5. StandStill(at)
    BY <1>8, <1>still, Zenon DEF Uf!AddPath
  <2> QED BY <2>3, <2>4, <2>5, TypedShows
<1>9. CASE Uf!RemovePath
  <2>1. PICK i, want : i \in DOMAIN at.items /\ Uf!Rows5(Uf!RemoveAt(at.items, i), want)
    BY <1>9, Zenon DEF Uf!RemovePath
  <2>2. Uf!RemoveAt(at.items, i) = Nf!RemoveAt(at.items, i)
    BY DEF Uf!RemoveAt, Nf!RemoveAt
  <2>5. PICK items, t : items = at.items /\ t = Nf!RemoveAt(items, i)
    OBVIOUS
  <2>6. Series(t)
    BY <1>s, <2>1, <2>5, SeriesRemove
  <2>3. Series(Uf!RemoveAt(at.items, i))
    BY <2>2, <2>5, <2>6
  <2>4. StandStill(at)
    BY <1>9, <1>still, Zenon DEF Uf!RemovePath
  <2> QED BY <2>1, <2>3, <2>4, TypedShows
<1>10. CASE Uf!ReorderPaths
  BY <1>10, <1>s, <1>still, SeriesReverse, TypedShows DEF Uf!ReorderPaths
<1>11. CASE Uf!CompletePaths
  <2>1. PICK S, want : Uf!Rows5(Uf!Only(Uf!SetToSeq(PathTexts), S), want)
    BY <1>11, Zenon DEF Uf!CompletePaths
  <2>2. StandStill(at)
    BY <1>11, <1>still, Zenon DEF Uf!CompletePaths
  <2> QED BY <2>1, <2>2, AllPathsSeries, TypedShows
<1>12. CASE Uf!SetMode
  <2>1. PICK m, n : /\ Uf!ModeFree(m, Uf!Filled2(at.items)) /\ m \in {NoText, "quality", "aggregate"}
                    /\ at' = [at EXCEPT !.value = Uf!Value(at.items, m), !.newValue = TRUE, !.touched = TRUE, !.acts = n]
    BY <1>12, Zenon DEF Uf!SetMode, NoText
  <2>2. PICK w : w = Uf!Value(at.items, m)
    OBVIOUS
  <2>3. StandStill(at)
    BY <1>12, <1>still, Zenon DEF Uf!SetMode
  <2>4. at' = [at EXCEPT !.value = w, !.newValue = TRUE, !.touched = TRUE, !.acts = n]
    BY <2>1, <2>2
  <2>5. /\ SameStored(at, at') /\ at'.value = w /\ at'.seed = at.seed /\ at'.touched = TRUE /\ at'.newValue = TRUE
        /\ at'.items = at.items /\ at'.last = at.last /\ at'.want = at.want /\ at'.sync = at.sync /\ at'.newItems = at.newItems
    BY <2>4 DEF Rec, UformFields, SameStored
  <2>6. NewToRows(at')
    BY <2>3, <2>5 DEF NewToRows, StandStill
  <2>7. ExitOk(w)
    <3>1. PICK filled : filled = Uf!Filled2(at.items)
      OBVIOUS
    <3>2. Series(filled) /\ Uf!ToSet(filled) = Uf!ToSet(at.items) \ {NoText}
      BY <1>s, <3>1, FilledWhat
    <3>3. SamePaths(filled, at.items)
      BY <3>2 DEF SamePaths, NoText
    <3>4. Uf!Targets(filled) = Uf!Targets(at.items)
      BY <1>s, <3>2, <3>3, SameTargets
    <3>5. m = NoText \/ (m = "quality" /\ Uf!Keeps(filled)) \/ (m = "aggregate" /\ Uf!Keeps(filled) /\ Uf!Cardinality(Uf!Targets(filled)) <= 1)
      <4>1. CASE m = NoText
        BY <4>1
      <4>2. CASE m = "quality"
        BY <4>2, <2>1, <3>1, Zenon DEF Uf!ModeFree
      <4>3. CASE m = "aggregate"
        BY <4>3, <2>1, <3>1, Zenon DEF Uf!ModeFree
      <4> QED BY <2>1, <4>1, <4>2, <4>3
    <3>6. Uf!Keeps(filled) => filled # <<>>
      <4>1. Len(<<>>) = 0
        OBVIOUS
      <4> QED BY <4>1 DEF Uf!Keeps
    <3>7. (filled = <<>> => m = NoText) /\ (m = "aggregate" => Uf!Cardinality(Uf!Targets(at.items)) <= 1)
      BY <3>4, <3>5, <3>6, NoTextIs
    <3>8. Uf!Sanitized(w)
      BY <2>2, <3>1, <3>7, SaneIs
    <3> QED BY <2>2, <3>8, <1>s, SaneIs DEF ExitOk
  <2>8. ExitsShown(at')
    BY <2>5, <2>6, <2>7, <1>s DEF ExitsShown, InStep
  <2> QED BY <2>5, <2>8, <1>s, StoredKept DEF ExitsOk
<1>13. CASE Uf!TypePassword
  <2> PICK p, n : at' = [at EXCEPT !.pw = p, !.acts = n]
    BY <1>13, Zenon DEF Uf!TypePassword
  <2>1. SameStored(at, at') /\ SameShown(at, at')
    BY DEF Rec, UformFields, SameStored, SameShown
  <2> QED BY <2>1, <1>s, StoredKept, ShownKept DEF ExitsOk
<1>14. CASE Uf!Remount
  <2>1. PICK w, paths : w = Uf!Norm(at.value) /\ paths = w.paths
    OBVIOUS
  <2>2. at' = [at EXCEPT !.items = paths, !.last = w, !.want = "keep", !.sync = FALSE, !.newItems = TRUE]
    BY <1>14, <2>1 DEF Uf!Remount
  <2>3. /\ SameStored(at, at') /\ at'.value = at.value /\ at'.seed = at.seed /\ at'.touched = at.touched /\ at'.newValue = at.newValue
        /\ at'.items = paths /\ at'.last = w /\ at'.want = "keep" /\ at'.sync = FALSE /\ at'.newItems = TRUE
    BY <2>2 DEF Rec, UformFields, SameStored
  <2>4. StandStill(at)
    BY <1>14, <1>still DEF Uf!Remount
  <2>5. Series(paths)
    BY <2>1, <1>s, NormOk DEF ExitOk
  <2>6. RowsTyped(at')
    BY <2>1, <2>3, <2>4 DEF RowsTyped, StandStill
  <2>7. ExitsShown(at')
    BY <2>3, <2>5, <2>6, <1>s DEF ExitsShown, InStep
  <2> QED BY <2>3, <2>7, <1>s, StoredKept DEF ExitsOk
<1>15. CASE Uf!SaveUser
  <2>1. PICK s, n, body, id, of : /\ s = [id |-> id, of |-> of, body |-> body] /\ n = at.acts - 1
                          /\ body = Uf!ToApi(at.value) /\ id = Uf!EditingOf(at) /\ of = at.of
    OBVIOUS
  <2>2. at' = [at EXCEPT !.saving = s, !.acts = n]
    BY <1>15, <2>1, Zenon DEF Uf!SaveUser
  <2>3. at'.users = at.users /\ at'.seen = at.seen /\ at'.saving = s /\ SameShown(at, at')
    BY <2>2 DEF Rec, UformFields, SameShown
  <2>4. ExitOk(body)
    <3>1. PICK filled, m, paths : filled = Uf!Filled2(at.value.paths) /\ m = at.value.mode /\ paths = at.value.paths
      OBVIOUS
    <3>2. body = Uf!Value(filled, m)
      BY <2>1, <3>1 DEF Uf!ToApi
    <3>3. Series(paths) /\ ExitOk(Uf!Value(paths, m))
      BY <1>s, <3>1 DEF ExitOk
    <3>4. Series(filled) /\ Uf!ToSet(filled) = Uf!ToSet(paths) \ {NoText}
      BY <3>1, <3>3, FilledWhat
    <3>5. SamePaths(paths, filled)
      BY <3>4 DEF SamePaths, NoText
    <3> QED BY <3>2, <3>3, <3>4, <3>5, SaneSame
  <2>5. s.body = body
    BY <2>1
  <2> QED BY <2>3, <2>4, <2>5, <1>s, ShownKept DEF ExitsOk, ExitsStored
<1>16. CASE Uf!UserSaved
  <2>1. StandStill(at) /\ at.saving # Uf!Idle2
    BY <1>16, <1>s, SettledStands, Zenon DEF Uf!UserSaved
  <2>2. PICK id :
           \/ at' = Uf!Seeded([at EXCEPT !.saving = Uf!Idle2, !.open = FALSE,
                                         !.users = [x \in DOMAIN @ \cup {id} |-> IF x = id THEN at.saving.body ELSE @[x]]])
           \/ at' = [at EXCEPT !.saving = Uf!Idle2]
    BY <1>16, Zenon DEF Uf!UserSaved
  <2>3. PICK us, body, idle, users : us = at.users /\ body = at.saving.body /\ idle = Uf!Idle2
                        /\ users = [x \in DOMAIN us \cup {id} |-> IF x = id THEN body ELSE us[x]]
    OBVIOUS
  <2>4. PICK v, r : v = [at EXCEPT !.saving = idle, !.open = FALSE, !.users = users] /\ r = [at EXCEPT !.saving = idle]
    OBVIOUS
  <2>5. at' = Uf!Seeded(v) \/ at' = r
    BY <2>2, <2>3, <2>4
  <2>6. /\ Rec(v, UformFields) /\ v.users = users /\ v.seen = at.seen /\ v.saving = idle /\ SameShown(at, v)
        /\ Rec(r, UformFields) /\ r.users = at.users /\ r.seen = at.seen /\ r.saving = idle /\ SameShown(at, r)
    BY <2>4 DEF Rec, UformFields, SameShown
  <2>7. UsersOk(users)
    BY <2>1, <2>3, <1>s DEF UsersOk
  <2>8. ExitsOk(Uf!Seeded(v))
    BY <2>1, <2>3, <2>6, <2>7, <1>s, StoredSoon
  <2>9. ExitsOk(r)
    BY <2>1, <2>3, <2>6, <1>s, StoredSoon
  <2> QED BY <2>5, <2>8, <2>9
<1> QED BY <1>1, <1>2, <1>3, <1>4, <1>5, <1>6, <1>7, <1>8, <1>9, <1>10, <1>11, <1>12, <1>13, <1>14, <1>15, <1>16 DEF Uf!UformNext

LEMMA ExitsHold == ExitsInv => Uf!ExitsKept /\ Uf!OneExit
<1> SUFFICES ASSUME ExitsOk(at) PROVE Uf!ExitsKept /\ Uf!OneExit
  BY DEF ExitsInv
<1>1. Uf!Settled(at) => StandStill(at)
  BY SettledStands DEF ExitsOk
<1>2. Uf!ExitsKept
  BY <1>1 DEF Uf!ExitsKept, StandStill, ExitsOk, ExitsShown
<1>3. Uf!Sanitized(at.value)
  BY DEF ExitsOk, ExitsShown, ExitOk
<1>4. at.value.mode = "aggregate" => Uf!Cardinality(Uf!Targets(at.value.paths)) <= 1
  BY <1>3, Zenon DEF Uf!Sanitized
<1> QED BY <1>2, <1>4 DEF Uf!OneExit

---------------------------------------------------------------------------
\* The form of the node's own settings (NodeForm).

SformFields == {"open", "node", "known", "users", "host", "share", "port", "pw", "seeded", "sent", "link", "left"}

SformInv == Rec(at, SformFields)

Unseeded(n, k, u) ==
  [open |-> FALSE, node |-> n, known |-> k, users |-> u, host |-> "", share |-> "", port |-> "", pw |-> "", seeded |-> "",
   sent |-> "", link |-> Nf!NoSave, left |-> FieldEdits]
SelfNodes == {[host |-> "0.0.0.0", pw |-> "p"], [host |-> "[v6]", pw |-> ""]}
LEMMA SformStarts == at \in Nf!SformInits => SformInv
<1>1. ASSUME NEW n, NEW k, NEW u, at = Unseeded(n, k, u) PROVE SformInv
  BY <1>1 DEF Rec, SformFields, Unseeded, SformInv
<1>2. Nf!SformInits = {Unseeded(n, k, u) : n \in SelfNodes, k, u \in BOOLEAN}
  BY DEF Nf!SformInits, Unseeded, SelfNodes
<1> QED BY <1>1, <1>2

\* What a form is filled with, where it was open for and what was known.
LEMMA SeedIs == ASSUME NEW s, Rec(s, SformFields), NEW q, q = Nf!SeedSelf(s) PROVE Rec(q, SformFields)
<1>1. CASE s.open /\ s.known
  <2> PICK h, p, sh : q = [s EXCEPT !.host = h, !.port = "443", !.pw = p, !.seeded = "yes", !.share = sh]
    BY <1>1 DEF Nf!SeedSelf
  <2> QED BY DEF Rec, SformFields
<1>2. CASE ~(s.open /\ s.known)
  BY <1>2 DEF Nf!SeedSelf
<1> QED BY <1>1, <1>2

LEMMA SformStep == SformInv /\ [Nf!SformNext]_at => SformInv'
<1> SUFFICES ASSUME Rec(at, SformFields), [Nf!SformNext]_at PROVE Rec(at', SformFields)
  BY DEF SformInv
<1>1. CASE UNCHANGED at
  BY <1>1
<1>2. CASE Nf!OpenSelf
  <2> PICK s : s = [at EXCEPT !.open = TRUE, !.seeded = ""]
    OBVIOUS
  <2>1. Rec(s, SformFields)
    BY DEF Rec, SformFields
  <2> QED BY <1>2, <2>1, SeedIs DEF Nf!OpenSelf
<1>3. CASE Nf!NodeComes
  <2> PICK s : s = [at EXCEPT !.known = TRUE]
    OBVIOUS
  <2>1. Rec(s, SformFields)
    BY DEF Rec, SformFields
  <2> QED BY <1>3, <2>1, SeedIs DEF Nf!NodeComes
<1>4. CASE Nf!TypeSelf
  <2>1. PICK s : /\ s \in {[at EXCEPT !.share = h] : h \in {"", Nf!V6, "::", "_relay_api_"}}
                          \cup {[at EXCEPT !.port = p] : p \in {"", "0", "443"}} \cup {[at EXCEPT !.pw = "user's"]}
                 /\ at' = [s EXCEPT !.left = @ - 1]
    BY <1>4 DEF Nf!TypeSelf
  <2>2. Rec(s, SformFields)
    BY <2>1 DEF Rec, SformFields
  <2> PICK n : n = s.left - 1
    OBVIOUS
  <2>3. at' = [s EXCEPT !.left = n]
    BY <2>1
  <2> QED BY <2>2, <2>3 DEF Rec, SformFields
<1>5. ASSUME NEW x, \/ at' = [at EXCEPT !.open = FALSE]
                    \/ at' = [at EXCEPT !.node = x]
                    \/ at' = [at EXCEPT !.users = TRUE]
                    \/ at' = [at EXCEPT !.sent = x]
                    \/ at' = [at EXCEPT !.sent = "", !.open = FALSE]
                    \/ at' = [at EXCEPT !.link = x]
      PROVE  Rec(at', SformFields)
  BY <1>5 DEF Rec, SformFields
<1>6. CASE Nf!CloseSelf \/ Nf!UsersCome \/ Nf!SaveSelf \/ Nf!SelfSaved \/ Nf!ExportSelf
  BY <1>5, <1>6 DEF Nf!CloseSelf, Nf!UsersCome, Nf!SaveSelf, Nf!SelfSaved, Nf!ExportSelf
<1>7. CASE Nf!NodeAgain
  <2> PICK p : at' = [at EXCEPT !.node.pw = p]
    BY <1>7 DEF Nf!NodeAgain
  <2> PICK n : n = [at.node EXCEPT !.pw = p]
    OBVIOUS
  <2>1. at' = [at EXCEPT !.node = n]
    BY DEF Rec, SformFields
  <2> QED BY <2>1, <1>5
<1> QED BY <1>1, <1>2, <1>3, <1>4, <1>6, <1>7 DEF Nf!SformNext

---------------------------------------------------------------------------
\* The link of this node (LinkLeads).

\* The link that was made last leads somewhere.
LinkOk(l) ==
  l # Nf!NoSave => /\ l.addrs # <<>> \/ l.via # <<>>
                   /\ \A i \in DOMAIN l.addrs : Nf!Shareable(l.addrs[i], l.port)
LinkInv == LinkOk(at.link)

LEMMA LinkStarts == at \in Nf!SformInits => LinkInv
<1>1. ASSUME NEW n, NEW k, NEW u, at = Unseeded(n, k, u) PROVE LinkInv
  <2>1. at.link = Nf!NoSave
    BY <1>1 DEF Unseeded
  <2> QED BY <2>1 DEF LinkInv, LinkOk
<1>2. Nf!SformInits = {Unseeded(n, k, u) : n \in SelfNodes, k, u \in BOOLEAN}
  BY DEF Nf!SformInits, Unseeded, SelfNodes
<1> QED BY <1>1, <1>2

\* The addresses of a link can be dialled.
LEMMA LinkAddrsWhat == ASSUME NEW s, NEW t, t = Nf!LinkAddrs(s) PROVE \A i \in DOMAIN t : Nf!Shareable(t[i], s.port)
<1>h. PICK hosts : hosts = IF s.share = "" THEN Nf!PublicHosts ELSE <<s.share>>
  OBVIOUS
<1>s. PICK S : S = {h \in Nf!ToSet(hosts) : Nf!Shareable(h, s.port)}
  OBVIOUS
<1>1. t = Nf!Only(hosts, S)
  BY <1>h, <1>s DEF Nf!LinkAddrs
<1>2. Series(hosts)
  BY <1>h, TwoSeries, OneSeries DEF Nf!PublicHosts
<1>x. PICK X : X = {hosts[i] : i \in DOMAIN hosts}
  OBVIOUS
<1>3. hosts \in Seq(X)
  BY <1>2, <1>x DEF Series
<1>4. t \in Seq(X \cap S)
  BY <1>1, <1>3, NfOnly
<1>5. \A i \in DOMAIN t : t[i] \in X \cap S
  BY <1>4, ValsAre
<1> QED BY <1>5, <1>s

LEMMA LinkStep == Rec(at, SformFields) /\ LinkInv /\ [Nf!SformNext]_at => LinkInv'
<1> SUFFICES ASSUME Rec(at, SformFields), LinkOk(at.link), [Nf!SformNext]_at PROVE LinkOk(at'.link)
  BY DEF LinkInv
<1>s. ASSUME NEW s, Rec(s, SformFields) PROVE Nf!SeedSelf(s).link = s.link
  <2>1. CASE s.open /\ s.known
    <3> PICK h, p, sh : Nf!SeedSelf(s) = [s EXCEPT !.host = h, !.port = "443", !.pw = p, !.seeded = "yes", !.share = sh]
      BY <2>1 DEF Nf!SeedSelf
    <3> QED BY <1>s DEF Rec, SformFields
  <2>2. CASE ~(s.open /\ s.known)
    BY <2>2 DEF Nf!SeedSelf
  <2> QED BY <2>1, <2>2
<1>1. CASE UNCHANGED at
  BY <1>1
<1>2. CASE Nf!OpenSelf
  <2> PICK s : s = [at EXCEPT !.open = TRUE, !.seeded = ""]
    OBVIOUS
  <2>1. Rec(s, SformFields) /\ s.link = at.link
    BY DEF Rec, SformFields
  <2>2. at' = Nf!SeedSelf(s)
    BY <1>2 DEF Nf!OpenSelf
  <2> QED BY <2>1, <2>2, <1>s
<1>3. CASE Nf!NodeComes
  <2> PICK s : s = [at EXCEPT !.known = TRUE]
    OBVIOUS
  <2>1. Rec(s, SformFields) /\ s.link = at.link
    BY DEF Rec, SformFields
  <2>2. at' = Nf!SeedSelf(s)
    BY <1>3 DEF Nf!NodeComes
  <2> QED BY <2>1, <2>2, <1>s
<1>4. CASE Nf!TypeSelf
  <2>1. PICK s : /\ s \in {[at EXCEPT !.share = h] : h \in {"", Nf!V6, "::", "_relay_api_"}}
                          \cup {[at EXCEPT !.port = p] : p \in {"", "0", "443"}} \cup {[at EXCEPT !.pw = "user's"]}
                 /\ at' = [s EXCEPT !.left = @ - 1]
    BY <1>4 DEF Nf!TypeSelf
  <2>2. Rec(s, SformFields) /\ s.link = at.link
    BY <2>1 DEF Rec, SformFields
  <2> PICK n : n = s.left - 1
    OBVIOUS
  <2>3. at' = [s EXCEPT !.left = n]
    BY <2>1
  <2>4. at'.link = s.link
    BY <2>2, <2>3 DEF Rec, SformFields
  <2> QED BY <2>2, <2>4
<1>5. ASSUME NEW x, \/ at' = [at EXCEPT !.open = FALSE]
                    \/ at' = [at EXCEPT !.node = x]
                    \/ at' = [at EXCEPT !.users = TRUE]
                    \/ at' = [at EXCEPT !.sent = x]
                    \/ at' = [at EXCEPT !.sent = "", !.open = FALSE]
      PROVE  at'.link = at.link
  BY <1>5 DEF Rec, SformFields
<1>6. CASE Nf!CloseSelf \/ Nf!UsersCome \/ Nf!SaveSelf \/ Nf!SelfSaved
  BY <1>5, <1>6 DEF Nf!CloseSelf, Nf!UsersCome, Nf!SaveSelf, Nf!SelfSaved
<1>7. CASE Nf!NodeAgain
  <2> PICK p : at' = [at EXCEPT !.node.pw = p]
    BY <1>7 DEF Nf!NodeAgain
  <2> PICK n : n = [at.node EXCEPT !.pw = p]
    OBVIOUS
  <2>1. at' = [at EXCEPT !.node = n]
    BY DEF Rec, SformFields
  <2> QED BY <2>1, <1>5
<1>8. CASE Nf!ExportSelf
  <2>1. PICK addrs, port, via :
          /\ addrs = Nf!LinkAddrs(at) /\ port = at.port
          /\ addrs # <<>> \/ via # <<>>
          /\ at' = [at EXCEPT !.link = [op |-> "link", addrs |-> addrs, port |-> port, via |-> via]]
    BY <1>8 DEF Nf!ExportSelf
  <2> PICK l : l = [op |-> "link", addrs |-> addrs, port |-> port, via |-> via]
    OBVIOUS
  <2>2. at'.link = l
    BY <2>1 DEF Rec, SformFields
  <2>3. l.addrs = addrs /\ l.port = port /\ l.via = via
    OBVIOUS
  <2>4. \A i \in DOMAIN addrs : Nf!Shareable(addrs[i], port)
    BY <2>1, LinkAddrsWhat
  <2> QED BY <2>1, <2>2, <2>3, <2>4 DEF LinkOk
<1> QED BY <1>1, <1>2, <1>3, <1>4, <1>6, <1>7, <1>8 DEF Nf!SformNext

LEMMA LinkHolds == LinkInv => Nf!LinkLeads
BY DEF LinkInv, LinkOk, Nf!LinkLeads
=============================================================================

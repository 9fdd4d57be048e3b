-------------------------- MODULE ConsoleFormsProofs --------------------------
(***************************************************************************)
(* What the forms and drawings may be relied on for, whatever entries,     *)
(* users, interfaces and dots there are and however often they are edited, *)
(* here and in other sessions. Each has an invariant of its own, from      *)
(* which the properties of the console follow.                             *)
(***************************************************************************)
EXTENDS ConsoleEntryProofs

---------------------------------------------------------------------------
\* The interfaces page (Interfaces).

NicFields == {"subs", "exits", "punch", "seen", "all", "sel", "win", "loops", "busy", "acts", "others"}
SetFields == {"mode", "addrs", "dns"}
SubFields == {"parent", "on", "set"}
BodyFields == {"name", "parent", "on", "set"}
Families == {"v4", "v6"}
IsSeq(s) == s \in Seq({s[i] : i \in DOMAIN s}) /\ s # <<>>

\* Settings hold addresses only where they are static.
SetOk(s) == Rec(s, SetFields) /\ (s.mode # "static" => s.addrs = <<>> /\ s.dns = {})
SubOk(s) == Rec(s, SubFields) /\ SetOk(s.set)
BodyOk(b) == Rec(b, BodyFields) /\ SetOk(b.set)
StoredOk(subs) == \A x \in DOMAIN subs : x \notin DOMAIN Nics /\ SubOk(subs[x])
There(subs, x) == x = "" \/ x \in DOMAIN Nics \cup DOMAIN subs
ReferOk(subs, exits, punch) == Rec(exits, Families) /\ (\A f \in Families : There(subs, exits[f])) /\ There(subs, punch)
ShownOk(p) == Rec(p.exits, Families) /\ \A x \in DOMAIN p.subs : x \notin DOMAIN Nics /\ Rec(p.subs[x], SubFields) /\ Rec(p.subs[x].set, SetFields)
SeenOk(seen) == seen # <<>> => ShownOk(seen[1])

\* What is asked of the node is whole, and about interfaces that it keeps.
RequestOk(r) ==
  /\ r.op \in {"create", "update", "delete", "exits", "punch"}
  /\ r.op \in {"create", "update"} => BodyOk(r.arg)
  /\ r.op \in {"update", "delete"} => r.x \notin DOMAIN Nics
  /\ r.op = "exits" => Rec(r.arg, Families)
TodoOk(t) ==
  /\ IsSeq(t) /\ \A i \in DOMAIN t : RequestOk(t[i])
  /\ \A i, j \in DOMAIN t : t[i].op = "delete" => t[j].x # t[i].arg
LoopsOk(loops) == \A l \in loops : Rec(l, {"todo", "win"}) /\ l.win \in {"", "form", "delete"} /\ TodoOk(l.todo)
WinOk(w) ==
  /\ w.kind \in {"none", "detail", "pick", "form", "delete"}
  /\ w.kind = "form" => Rec(w, {"kind", "editing", "body", "saving"}) /\ BodyOk(w.body) /\ (w.editing = "" \/ w.editing \notin DOMAIN Nics)
  /\ w.kind = "delete" => Rec(w, {"kind", "xs", "to", "busy"}) /\ IsSeq(w.xs)
                          /\ \A i \in DOMAIN w.xs : w.xs[i] \notin DOMAIN Nics /\ (w.to = "" \/ w.to # w.xs[i])
NicsOk(n) ==
  /\ Rec(n, NicFields) /\ StoredOk(n.subs) /\ ReferOk(n.subs, n.exits, n.punch) /\ SeenOk(n.seen) /\ IsFiniteSet(n.sel)
  /\ LoopsOk(n.loops) /\ WinOk(n.win)
NicsInv == NicsOk(at)

LEMMA NicsStarts == at \in If!NicsInits => NicsInv
<1> SUFFICES ASSUME at \in If!NicsInits PROVE NicsOk(at)
  BY DEF NicsInv
<1>a. PICK exits : exits = [f \in {"v4", "v6"} |-> IF f = "v4" THEN "eth0" ELSE ""]
  OBVIOUS
<1>1. at = [subs |-> Subs, exits |-> exits, punch |-> "",
            seen |-> <<>>, all |-> FALSE, sel |-> {}, win |-> If!NoWindow, loops |-> {}, busy |-> FALSE,
            acts |-> NicActs, others |-> NicOthers]
  BY <1>a DEF If!NicsInits
<1>2. /\ Rec(at, NicFields) /\ at.subs = Subs /\ at.exits = exits /\ at.punch = "" /\ at.seen = <<>> /\ at.sel = {}
      /\ at.win = If!NoWindow /\ at.loops = {}
  BY <1>1 DEF Rec, NicFields
<1>3. ReferOk(Subs, exits, "")
  <2>1. Rec(exits, Families) /\ exits["v4"] = "eth0" /\ exits["v6"] = ""
    BY <1>a DEF Rec, Families
  <2>2. \A f \in Families : f = "v4" \/ f = "v6"
    BY DEF Families
  <2> QED BY <2>1, <2>2, NicsAssumption DEF ReferOk, There
<1>4. StoredOk(Subs)
  <2> SUFFICES ASSUME NEW x \in DOMAIN Subs PROVE x \notin DOMAIN Nics /\ SubOk(Subs[x])
    BY DEF StoredOk
  <2>a. PICK p, o, s : /\ p = Subs[x].parent /\ o = Subs[x].on /\ s = Subs[x].set
    OBVIOUS
  <2>1. x \notin DOMAIN Nics /\ Subs[x] = If!Sub(p, o, s) /\ (s \in {If!Off, If!Dhcp} \/ s = If!Static(s.addrs, s.dns))
    BY <2>a, NicsAssumption
  <2>2. Rec(Subs[x], SubFields) /\ Subs[x].set = s
    BY <2>1 DEF If!Sub, Rec, SubFields
  <2>3. SetOk(s)
    <3>1. SetOk(If!Off) /\ SetOk(If!Dhcp)
      BY DEF If!Off, If!Dhcp, SetOk, Rec, SetFields
    <3>2. \A a, d : SetOk(If!Static(a, d))
      BY DEF If!Static, SetOk, Rec, SetFields
    <3> QED BY <2>1, <3>1, <3>2
  <2> QED BY <2>1, <2>2, <2>3 DEF SubOk
<1>5. SeenOk(<<>>) /\ LoopsOk({}) /\ WinOk(If!NoWindow) /\ IsFiniteSet({})
  BY FS_EmptySet DEF SeenOk, LoopsOk, WinOk, If!NoWindow
<1> QED BY <1>2, <1>3, <1>4, <1>5 DEF NicsOk

---------------------------------------------------------------------------
\* What several requests are made from.
LEMMA FunIsSeq == ASSUME NEW n \in Nat, n # 0, NEW t, DOMAIN t = 1 .. n, t = [i \in DOMAIN t |-> t[i]] PROVE IsSeq(t) /\ Len(t) = n
<1> PICK S : S = {t[i] : i \in DOMAIN t}
  OBVIOUS
<1>1. t \in [1 .. n -> S]
  OBVIOUS
<1>2. t \in Seq(S) /\ Len(t) = n
  BY <1>1
<1>3. t # <<>>
  BY <1>2
<1> QED BY <1>2, <1>3 DEF IsSeq
LEMMA SeqIsFun == ASSUME NEW t, IsSeq(t) PROVE \E n \in Nat : n # 0 /\ n = Len(t) /\ DOMAIN t = 1 .. n /\ t = [i \in DOMAIN t |-> t[i]]
<1> PICK S : S = {t[i] : i \in DOMAIN t}
  OBVIOUS
<1>1. t \in Seq(S) /\ t # <<>>
  BY DEF IsSeq
<1> QED BY <1>1

LEMMA CardinalIs == \A S : If!Cardinality(S) = Cardinality(S)
BY DEF If!Cardinality, Cardinality
LEMMA AsSequence ==
  ASSUME NEW S, IsFiniteSet(S), S # {}
  PROVE  \E n \in Nat : n # 0 /\ n = If!Cardinality(S) /\ If!SetToSeq(S) \in [1 .. n -> S]
<1> PICK n \in Nat : n = Cardinality(S)
  BY FS_CardinalityType
<1>1. n # 0
  BY FS_EmptySet
<1>2. ExistsBijection(1 .. n, S)
  BY FS_CardinalityType
<1>3. \E f \in [1 .. n -> S] : If!IsInjective(f)
  BY <1>2 DEF ExistsBijection, Bijection, Injection, IsInjective, If!IsInjective
<1>4. If!Cardinality(S) = n
  BY CardinalIs
<1>5. If!SetToSeq(S) \in [1 .. n -> S]
  BY <1>3, <1>4 DEF If!SetToSeq
<1> QED BY <1>1, <1>4, <1>5
LEMMA InOrder2 == ASSUME NEW S, IsFiniteSet(S), S # {} PROVE IsSeq(If!SetToSeq(S)) /\ \A i \in DOMAIN If!SetToSeq(S) : If!SetToSeq(S)[i] \in S
<1> PICK n \in Nat : n # 0 /\ If!SetToSeq(S) \in [1 .. n -> S]
  BY AsSequence
<1> PICK t : t = If!SetToSeq(S)
  OBVIOUS
<1>1. DOMAIN t = 1 .. n /\ t = [i \in DOMAIN t |-> t[i]] /\ \A i \in DOMAIN t : t[i] \in S
  OBVIOUS
<1>2. IsSeq(t)
  BY <1>1, FunIsSeq
<1> QED BY <1>1, <1>2

LEMMA BodyIs ==
  ASSUME NEW x, NEW s, Rec(s, SubFields), Rec(s.set, SetFields), NEW on
  PROVE  BodyOk(If!ChildToBody(x, s)) /\ BodyOk([If!ChildToBody(x, s) EXCEPT !.on = on])
<1> PICK set : set = IF s.set.mode = "static" THEN s.set ELSE [mode |-> s.set.mode, addrs |-> <<>>, dns |-> {}]
  OBVIOUS
<1>1. SetOk(set)
  <2>1. CASE s.set.mode = "static"
    BY <2>1 DEF SetOk
  <2>2. CASE s.set.mode # "static"
    <3>1. set = [mode |-> s.set.mode, addrs |-> <<>>, dns |-> {}]
      BY <2>2
    <3>2. Rec(set, SetFields)
      BY <3>1 DEF Rec, SetFields
    <3>3. set.addrs = <<>> /\ set.dns = {}
      BY <3>1
    <3> QED BY <3>2, <3>3 DEF SetOk
  <2> QED BY <2>1, <2>2
<1> PICK b : b = If!ChildToBody(x, s)
  OBVIOUS
<1>2. b = [name |-> x, parent |-> s.parent, on |-> s.on, set |-> set]
  BY DEF If!ChildToBody
<1>3. Rec(b, BodyFields) /\ b.set = set
  BY <1>2 DEF Rec, BodyFields
<1> PICK c : c = [b EXCEPT !.on = on]
  OBVIOUS
<1>4. Rec(c, BodyFields) /\ c.set = set
  BY <1>3 DEF Rec, BodyFields
<1> QED BY <1>1, <1>3, <1>4 DEF BodyOk

LEMMA RequestIs ==
  ASSUME NEW op, NEW x, NEW arg PROVE If!Request(op, x, arg).op = op /\ If!Request(op, x, arg).x = x /\ If!Request(op, x, arg).arg = arg
BY DEF If!Request

\* One request.
LEMMA OneTodo ==
  ASSUME NEW r, RequestOk(r), r.op # "delete", NEW t, t = <<r>>
  PROVE  TodoOk(t)
<1>1. DOMAIN t = 1 .. 1 /\ t = [i \in DOMAIN t |-> t[i]] /\ \A i \in DOMAIN t : t[i] = r
  OBVIOUS
<1>a. PICK n \in Nat : n = 1
  OBVIOUS
<1>b. n # 0 /\ DOMAIN t = 1 .. n /\ t = [i \in DOMAIN t |-> t[i]]
  BY <1>1, <1>a
<1>2. IsSeq(t)
  BY <1>b, FunIsSeq
<1> QED BY <1>1, <1>2 DEF TodoOk

LEMMA EnablingIs ==
  ASSUME NEW xs, IsFiniteSet(xs), If!Data, SeenOk(at.seen), \A x \in xs : If!IsSub(x), NEW on,
         \E x \in xs : If!Page.subs[x].on # on
  PROVE  TodoOk(If!Enabling(xs, on))
<1>a. PICK turn : turn = {x \in xs : If!Page.subs[x].on # on}
  OBVIOUS
<1>1. IsFiniteSet(turn) /\ turn # {} /\ turn \subseteq xs
  BY <1>a, FS_Subset
<1>b. PICK n \in Nat : n # 0 /\ n = If!Cardinality(turn) /\ If!SetToSeq(turn) \in [1 .. n -> turn]
  BY <1>1, AsSequence
<1>c. PICK s \in [1 .. n -> turn] : s = If!SetToSeq(turn)
  BY <1>b
<1>d. PICK t : t = If!Enabling(xs, on)
  OBVIOUS
<1>2. t = [i \in 1 .. n |-> If!Request("update", s[i], [If!ChildToBody(s[i], If!Page.subs[s[i]]) EXCEPT !.on = on])]
  BY <1>a, <1>b, <1>c, <1>d DEF If!Enabling
<1>3. DOMAIN t = 1 .. n /\ t = [i \in DOMAIN t |-> t[i]]
  BY <1>2
<1>4. ASSUME NEW i \in 1 .. n PROVE RequestOk(t[i]) /\ t[i].op = "update"
  <2>a. PICK y \in turn : y = s[i]
    OBVIOUS
  <2>b. PICK b : b = [If!ChildToBody(y, If!Page.subs[y]) EXCEPT !.on = on]
    OBVIOUS
  <2>1. t[i] = If!Request("update", y, b)
    BY <1>2, <2>a, <2>b
  <2>2. y \in DOMAIN If!Page.subs
    BY <1>1 DEF If!IsSub
  <2>3. y \notin DOMAIN Nics /\ Rec(If!Page.subs[y], SubFields) /\ Rec(If!Page.subs[y].set, SetFields)
    BY <2>2 DEF SeenOk, ShownOk, If!Data, If!Page
  <2>4. BodyOk(b)
    BY <2>3, <2>b, BodyIs
  <2>c. PICK r : r = t[i]
    OBVIOUS
  <2>5. r = If!Request("update", y, b)
    BY <2>1, <2>c
  <2>6. r.op = "update" /\ r.x = y /\ r.arg = b
    BY <2>5, RequestIs
  <2> QED BY <2>3, <2>4, <2>6, <2>c DEF RequestOk
<1>5. IsSeq(t)
  BY <1>3, <1>b, FunIsSeq
<1> QED BY <1>3, <1>4, <1>5, <1>d DEF TodoOk

---------------------------------------------------------------------------
\* The node.
LEMMA StoredIs == ASSUME NEW b, BodyOk(b) PROVE SubOk(If!Stored3(b))
<1>a. PICK set : set = IF b.set.mode = "static" THEN b.set ELSE [b.set EXCEPT !.addrs = <<>>]
  OBVIOUS
<1>1. SetOk(set)
  <2>0. SetOk(b.set)
    BY DEF BodyOk
  <2>1. CASE b.set.mode = "static"
    BY <2>0, <2>1, <1>a
  <2>2. CASE b.set.mode # "static"
    <3>1. set = [b.set EXCEPT !.addrs = <<>>]
      BY <2>2, <1>a
    <3>2. Rec(set, SetFields)
      BY <3>1, <2>0 DEF SetOk, Rec, SetFields
    <3>3. set.addrs = <<>> /\ set.dns = {}
      BY <3>1, <2>0, <2>2 DEF SetOk, Rec, SetFields
    <3> QED BY <3>2, <3>3 DEF SetOk
  <2> QED BY <2>1, <2>2
<1>b. PICK s : s = If!Stored3(b)
  OBVIOUS
<1>2. s = [parent |-> b.parent, on |-> b.on, set |-> set]
  BY <1>a, <1>b DEF If!Stored3, If!Sub
<1>3. Rec(s, SubFields) /\ s.set = set
  BY <1>2 DEF Rec, SubFields
<1> QED BY <1>1, <1>3, <1>b DEF SubOk

LEMMA WithoutIs == ASSUME NEW subs, StoredOk(subs), NEW x PROVE StoredOk(If!Without3(subs, x)) /\ DOMAIN If!Without3(subs, x) = DOMAIN subs \ {x}
BY DEF StoredOk, If!Without3
LEMMA NamedIs ==
  ASSUME NEW subs, StoredOk(subs), NEW name, name \notin DOMAIN Nics, NEW s, SubOk(s)
  PROVE  StoredOk(If!Named3(subs, name, s)) /\ DOMAIN If!Named3(subs, name, s) = DOMAIN subs \cup {name}
<1>a. PICK t : t = If!Named3(subs, name, s)
  OBVIOUS
<1>1. DOMAIN t = DOMAIN subs \cup {name} /\ \A y \in DOMAIN t : t[y] = IF y = name THEN s ELSE subs[y]
  BY <1>a DEF If!Named3
<1>2. \A y \in DOMAIN t : y \notin DOMAIN Nics /\ SubOk(t[y])
  BY <1>1 DEF StoredOk
<1> QED BY <1>1, <1>2, <1>a DEF StoredOk

\* What refers to a sub-interface that goes, or takes another name, follows it.
LEMMA ReferMoves ==
  ASSUME NEW subs, NEW gone, NEW to, NEW new, NEW exits, NEW punch, ReferOk(subs, exits, punch),
         DOMAIN subs \ {gone} \subseteq DOMAIN new, to \in DOMAIN Nics \cup DOMAIN new,
         NEW e, e = [f \in DOMAIN exits |-> If!Moved(exits[f], gone, to)], NEW p, p = If!Moved(punch, gone, to)
  PROVE  ReferOk(new, e, p)
<1>1. \A x : There(subs, x) => There(new, If!Moved(x, gone, to))
  BY DEF There, If!Moved
<1>2. DOMAIN exits = Families
  BY DEF ReferOk, Rec
<1>3. Rec(e, Families) /\ \A f \in Families : e[f] = If!Moved(exits[f], gone, to)
  BY <1>2 DEF Rec
<1> QED BY <1>1, <1>3 DEF ReferOk
LEMMA ReferGrows ==
  ASSUME NEW subs, NEW new, NEW exits, NEW punch, ReferOk(subs, exits, punch), DOMAIN subs \subseteq DOMAIN new
  PROVE  ReferOk(new, exits, punch)
BY DEF ReferOk, There

\* A request that is accepted keeps what is stored whole, and what refers to it.
Beside5(q, n) == q.seen = n.seen /\ q.sel = n.sel /\ q.loops = n.loops /\ q.win = n.win
Whole(q) == Rec(q, NicFields) /\ StoredOk(q.subs) /\ ReferOk(q.subs, q.exits, q.punch)
LEMMA EffectKeeps ==
  ASSUME NicsOk(at), NEW r, RequestOk(r), If!Accepts(r), NEW q, q = If!Effect(at, r)
  PROVE  Whole(q) /\ Beside5(q, at)
<1>0. Rec(at, NicFields) /\ StoredOk(at.subs) /\ ReferOk(at.subs, at.exits, at.punch)
  BY DEF NicsOk
<1>op. r.op \in {"create", "update", "delete", "exits", "punch"}
  BY DEF RequestOk
<1>r. ASSUME NEW subs, NEW exits, NEW punch, StoredOk(subs), ReferOk(subs, exits, punch),
             \/ q = [at EXCEPT !.subs = subs] /\ exits = at.exits /\ punch = at.punch
             \/ q = [at EXCEPT !.subs = subs, !.exits = exits, !.punch = punch]
             \/ q = [at EXCEPT !.exits = exits] /\ subs = at.subs /\ punch = at.punch
             \/ q = [at EXCEPT !.punch = punch] /\ exits = at.exits /\ subs = at.subs
      PROVE  Whole(q) /\ Beside5(q, at)
  <2>1. Rec(q, NicFields) /\ q.subs = subs /\ q.exits = exits /\ q.punch = punch /\ Beside5(q, at)
    BY <1>0, <1>r DEF Rec, NicFields, Beside5
  <2> QED BY <2>1, <1>r DEF Whole
<1>1. CASE r.op = "create"
  <2>a. PICK subs : subs = If!Named3(at.subs, r.arg.name, If!Stored3(r.arg))
    OBVIOUS
  <2>1. q = [at EXCEPT !.subs = subs]
    BY <1>1, <2>a DEF If!Effect
  <2>2. r.arg.name \notin DOMAIN Nics /\ SubOk(If!Stored3(r.arg))
    BY <1>1, StoredIs DEF If!Accepts, If!Exists, RequestOk
  <2>3. StoredOk(subs) /\ DOMAIN subs = DOMAIN at.subs \cup {r.arg.name}
    BY <2>a, <2>2, <1>0, NamedIs
  <2>4. ReferOk(subs, at.exits, at.punch)
    BY <2>3, <1>0, ReferGrows
  <2> QED BY <2>1, <2>3, <2>4, <1>r
<1>2. CASE r.op = "update"
  <2>a. PICK less, subs : less = If!Without3(at.subs, r.x) /\ subs = If!Named3(less, r.arg.name, If!Stored3(r.arg))
    OBVIOUS
  <2>b. PICK exits, punch : /\ exits = [f \in DOMAIN at.exits |-> If!Moved(at.exits[f], r.x, r.arg.name)]
                            /\ punch = If!Moved(at.punch, r.x, r.arg.name)
    OBVIOUS
  <2>1. q = [at EXCEPT !.subs = subs, !.exits = exits, !.punch = punch]
    BY <1>2, <2>a, <2>b DEF If!Effect
  <2>2. r.arg.name \notin DOMAIN Nics /\ SubOk(If!Stored3(r.arg))
    BY <1>2, StoredIs DEF If!Accepts, If!Exists, RequestOk
  <2>3. StoredOk(less) /\ DOMAIN less = DOMAIN at.subs \ {r.x}
    BY <2>a, <1>0, WithoutIs
  <2>4. StoredOk(subs) /\ DOMAIN subs = DOMAIN less \cup {r.arg.name}
    BY <2>a, <2>2, <2>3, NamedIs
  <2>5. ReferOk(subs, exits, punch)
    BY <2>b, <2>3, <2>4, <1>0, ReferMoves
  <2> QED BY <2>1, <2>4, <2>5, <1>r
<1>3. CASE r.op = "delete"
  <2>t. PICK to : to = r.arg
    OBVIOUS
  <2>a. PICK subs : subs = If!Without3(at.subs, r.x)
    OBVIOUS
  <2>b. PICK exits, punch : /\ exits = [f \in DOMAIN at.exits |-> If!Moved(at.exits[f], r.x, to)]
                            /\ punch = If!Moved(at.punch, r.x, to)
    OBVIOUS
  <2>1. q = [at EXCEPT !.subs = subs, !.exits = exits, !.punch = punch]
    BY <1>3, <2>t, <2>a, <2>b DEF If!Effect
  <2>2. to # r.x /\ to \in DOMAIN Nics \cup DOMAIN at.subs
    BY <1>3, <2>t DEF If!Accepts, If!Exists
  <2>3. StoredOk(subs) /\ DOMAIN subs = DOMAIN at.subs \ {r.x}
    BY <2>a, <1>0, WithoutIs
  <2>4. to \in DOMAIN Nics \cup DOMAIN subs
    BY <2>2, <2>3
  <2>5. ReferOk(subs, exits, punch)
    <3>1. ReferOk(at.subs, at.exits, at.punch) /\ DOMAIN at.subs \ {r.x} \subseteq DOMAIN subs
      BY <1>0, <2>3
    <3>a. PICK old, gone, e, p : old = at.subs /\ gone = r.x /\ e = at.exits /\ p = at.punch
      OBVIOUS
    <3>2. ReferOk(old, e, p) /\ DOMAIN old \ {gone} \subseteq DOMAIN subs
      BY <3>1, <3>a
    <3>3. exits = [f \in DOMAIN e |-> If!Moved(e[f], gone, to)] /\ punch = If!Moved(p, gone, to)
      BY <2>b, <3>a
    <3> QED BY <3>2, <3>3, <2>4, ReferMoves
  <2> QED BY <2>1, <2>3, <2>5, <1>r
<1>4. CASE r.op = "exits"
  <2>1. q = [at EXCEPT !.exits = r.arg]
    BY <1>4 DEF If!Effect
  <2>2. Rec(r.arg, Families)
    BY <1>4 DEF RequestOk
  <2>3. \A f \in Families : There(at.subs, r.arg[f])
    BY <1>4, <2>2 DEF If!Accepts, If!Exists, There, Rec
  <2>4. ReferOk(at.subs, r.arg, at.punch)
    BY <2>2, <2>3, <1>0 DEF ReferOk
  <2> QED BY <2>1, <2>4, <1>0, <1>r
<1>5. CASE r.op = "punch"
  <2>1. q = [at EXCEPT !.punch = r.arg]
    BY <1>5 DEF If!Effect
  <2>2. There(at.subs, r.arg)
    BY <1>5 DEF If!Accepts, If!Exists, There
  <2>3. ReferOk(at.subs, at.exits, r.arg)
    BY <2>2, <1>0 DEF ReferOk
  <2> QED BY <2>1, <2>3, <1>0, <1>r
<1> QED BY <1>op, <1>1, <1>2, <1>3, <1>4, <1>5

\* A dialog whose requests ended is closed, or its form is free again.
LEMMA EndedKeeps ==
  ASSUME NEW n, NicsOk(n), NEW l \in n.loops, NEW ok, NEW q, q = If!Ended(n, l, ok)
  PROVE  NicsOk(q)
<1>a. PICK loops, busy, win :
        /\ loops = n.loops \ {l}
        /\ busy = (n.busy /\ l.todo # <<>> /\ l.todo[1].op \notin {"exits", "punch"})
        /\ win = IF n.win.kind # l.win THEN n.win ELSE IF ok THEN If!NoWindow
                 ELSE IF l.win = "form" THEN [n.win EXCEPT !.saving = FALSE] ELSE [n.win EXCEPT !.busy = FALSE]
  OBVIOUS
<1>1. q = [n EXCEPT !.loops = loops, !.busy = busy, !.win = win]
  BY <1>a DEF If!Ended
<1>2. /\ Rec(q, NicFields) /\ q.subs = n.subs /\ q.exits = n.exits /\ q.punch = n.punch /\ q.seen = n.seen /\ q.sel = n.sel
      /\ q.loops = loops /\ q.win = win
  BY <1>1 DEF NicsOk, Rec, NicFields
<1>3. LoopsOk(loops)
  BY <1>a DEF NicsOk, LoopsOk
<1>4. WinOk(win)
  <2>0. WinOk(n.win) /\ l.win \in {"", "form", "delete"}
    BY DEF NicsOk, LoopsOk
  <2>1. CASE win = n.win
    BY <2>0, <2>1
  <2>2. CASE win = If!NoWindow
    BY <2>2 DEF WinOk, If!NoWindow
  <2>3. CASE n.win.kind = "form" /\ win = [n.win EXCEPT !.saving = FALSE]
    <3>1. Rec(n.win, {"kind", "editing", "body", "saving"}) /\ BodyOk(n.win.body) /\ (n.win.editing = "" \/ n.win.editing \notin DOMAIN Nics)
      BY <2>0, <2>3 DEF WinOk
    <3>2. Rec(win, {"kind", "editing", "body", "saving"}) /\ win.kind = "form" /\ win.body = n.win.body /\ win.editing = n.win.editing
      BY <2>3, <3>1 DEF Rec
    <3> QED BY <3>1, <3>2 DEF WinOk
  <2>4. CASE n.win.kind = "delete" /\ win = [n.win EXCEPT !.busy = FALSE]
    <3>1. Rec(n.win, {"kind", "xs", "to", "busy"}) /\ IsSeq(n.win.xs)
          /\ \A i \in DOMAIN n.win.xs : n.win.xs[i] \notin DOMAIN Nics /\ (n.win.to = "" \/ n.win.to # n.win.xs[i])
      BY <2>0, <2>4 DEF WinOk
    <3>2. Rec(win, {"kind", "xs", "to", "busy"}) /\ win.kind = "delete" /\ win.xs = n.win.xs /\ win.to = n.win.to
      BY <2>4, <3>1 DEF Rec
    <3> QED BY <3>1, <3>2 DEF WinOk
  <2>5. n.win.kind # ""
    BY <2>0 DEF WinOk
  <2>6. \/ win = n.win
        \/ win = If!NoWindow
        \/ n.win.kind = l.win /\ l.win = "form" /\ win = [n.win EXCEPT !.saving = FALSE]
        \/ n.win.kind = l.win /\ l.win # "form" /\ win = [n.win EXCEPT !.busy = FALSE]
    BY <1>a
  <2> QED BY <2>0, <2>1, <2>2, <2>3, <2>4, <2>5, <2>6
<1> QED BY <1>2, <1>3, <1>4 DEF NicsOk

\* The rest of what was asked is as well formed.
LEMMA RestOk == ASSUME NEW t, TodoOk(t), Len(t) # 1 PROVE TodoOk(Tail(t))
<1>a. PICK n \in Nat : n # 0 /\ n = Len(t) /\ DOMAIN t = 1 .. n
  BY SeqIsFun DEF TodoOk
<1>b. PICK u : u = Tail(t)
  OBVIOUS
<1>c. PICK m \in Nat : m = n - 1 /\ m # 0
  BY <1>a
<1>d. PICK S : S = {t[i] : i \in DOMAIN t}
  OBVIOUS
<1>1. t \in Seq(S) /\ t # <<>>
  BY <1>d DEF TodoOk, IsSeq
<1>e. u \in Seq(S) /\ Len(u) = Len(t) - 1 /\ \A i \in 1 .. Len(u) : u[i] = t[i + 1]
  BY <1>1, <1>b, HeadTailProperties
<1>2. DOMAIN u = 1 .. m /\ u = [i \in DOMAIN u |-> u[i]] /\ \A i \in 1 .. m : u[i] = t[i + 1] /\ i + 1 \in DOMAIN t
  <2>1. Len(u) = m
    BY <1>a, <1>c, <1>e
  <2>2. DOMAIN u = 1 .. m /\ u = [i \in DOMAIN u |-> u[i]]
    BY <2>1, <1>e
  <2>3. \A i \in 1 .. m : i + 1 \in 1 .. n
    BY <1>c
  <2> QED BY <2>1, <2>2, <2>3, <1>a, <1>e
<1>3. IsSeq(u)
  BY <1>2, <1>c, FunIsSeq
<1> QED BY <1>2, <1>3, <1>b DEF TodoOk

\* What is shown of a sub-interface writes back what is stored of it.
LEMMA BackIs ==
  ASSUME NEW s, SubOk(s), NEW x, NEW v, v = If!Sub(s.parent, s.on, If!ViewSet(s))
  PROVE  If!Stored3(If!ChildToBody(x, v)) = s
<1>a. PICK p, on, set : p = s.parent /\ on = s.on /\ set = s.set
  OBVIOUS
<1>0. SetOk(set) /\ s = [parent |-> p, on |-> on, set |-> set]
  BY <1>a DEF SubOk, Rec, SubFields
<1>b. PICK w : w = If!ViewSet(s)
  OBVIOUS
<1>1. v = [parent |-> p, on |-> on, set |-> w] /\ w.mode = set.mode /\ (set.mode = "static" => w = set)
  <2>1. w = (IF set.mode = "dhcp" /\ on THEN [mode |-> "dhcp", addrs |-> <<"leased">>, dns |-> {"leased"}] ELSE set)
    BY <1>b, <1>a DEF If!ViewSet
  <2>2. v = [parent |-> p, on |-> on, set |-> w]
    BY <1>a, <1>b DEF If!Sub
  <2>3. CASE set.mode = "dhcp" /\ on
    <3>1. w = [mode |-> "dhcp", addrs |-> <<"leased">>, dns |-> {"leased"}]
      BY <2>1, <2>3
    <3>2. w.mode = "dhcp"
      BY <3>1
    <3> QED BY <2>2, <2>3, <3>2
  <2>4. CASE ~(set.mode = "dhcp" /\ on)
    <3>1. w = set
      BY <2>1, <2>4
    <3> QED BY <2>2, <3>1
  <2> QED BY <2>3, <2>4
<1>c. PICK back : back = IF w.mode = "static" THEN w ELSE [mode |-> w.mode, addrs |-> <<>>, dns |-> {}]
  OBVIOUS
<1>2. back = set
  <2>1. CASE set.mode = "static"
    BY <2>1, <1>1, <1>c
  <2>2. CASE set.mode # "static"
    <3>1. back = [mode |-> set.mode, addrs |-> <<>>, dns |-> {}]
      BY <2>2, <1>1, <1>c
    <3>2. Rec(set, SetFields) /\ set.addrs = <<>> /\ set.dns = {}
      BY <2>2, <1>0 DEF SetOk
    <3> QED BY <3>1, <3>2 DEF Rec, SetFields
  <2> QED BY <2>1, <2>2
<1>d. PICK b : b = If!ChildToBody(x, v)
  OBVIOUS
<1>3. b = [name |-> x, parent |-> p, on |-> on, set |-> set]
  <2>1. v.parent = p /\ v.on = on /\ v.set = w
    BY <1>1
  <2>2. b = [name |-> x, parent |-> v.parent, on |-> v.on, set |-> IF v.set.mode = "static" THEN v.set ELSE [mode |-> v.set.mode, addrs |-> <<>>, dns |-> {}]]
    BY <1>d DEF If!ChildToBody
  <2>3. b = [name |-> x, parent |-> p, on |-> on, set |-> back]
    BY <2>1, <2>2, <1>c
  <2> QED BY <2>3, <1>2
<1>4. (IF b.set.mode = "static" THEN b.set ELSE [b.set EXCEPT !.addrs = <<>>]) = set
  <2>1. b.set = set
    BY <1>3
  <2>2. CASE set.mode = "static"
    BY <2>1, <2>2
  <2>3. CASE set.mode # "static"
    <3>1. Rec(set, SetFields) /\ set.addrs = <<>>
      BY <2>3, <1>0 DEF SetOk
    <3>2. [set EXCEPT !.addrs = <<>>] = set
      BY <3>1 DEF Rec, SetFields
    <3> QED BY <2>1, <2>3, <3>2
  <2> QED BY <2>2, <2>3
<1>5. If!Stored3(b) = If!Sub(b.parent, b.on, set)
  BY <1>4 DEF If!Stored3
<1>6. If!Sub(b.parent, b.on, set) = [parent |-> p, on |-> on, set |-> set]
  BY <1>3 DEF If!Sub
<1> QED BY <1>0, <1>5, <1>6, <1>d

LEMMA NicsKept == NicsInv => If!WritesBack /\ If!MovesToWhatStays /\ If!RefersToWhatIs
<1> SUFFICES ASSUME NicsOk(at) PROVE If!WritesBack /\ If!MovesToWhatStays /\ If!RefersToWhatIs
  BY DEF NicsInv
<1>1. If!WritesBack
  <2> SUFFICES ASSUME NEW x \in DOMAIN If!Page.subs \cap DOMAIN at.subs, If!Page.subs[x] = If!Report3.subs[x]
               PROVE  If!Stored3(If!ChildToBody(x, If!Page.subs[x])) = at.subs[x]
    BY DEF If!WritesBack
  <2>1. If!Report3.subs[x] = If!Sub(at.subs[x].parent, at.subs[x].on, If!ViewSet(at.subs[x]))
    BY DEF If!Report3
  <2>2. SubOk(at.subs[x])
    BY DEF NicsOk, StoredOk
  <2> QED BY <2>1, <2>2, BackIs
<1>2. If!MovesToWhatStays
  BY DEF If!MovesToWhatStays, NicsOk, LoopsOk, TodoOk, RequestOk
<1>3. If!RefersToWhatIs
  <2>1. There(at.subs, at.exits.v4) /\ There(at.subs, at.exits.v6) /\ There(at.subs, at.punch)
    BY DEF NicsOk, ReferOk, Families
  <2>2. \A x : There(at.subs, x) => x = "" \/ If!Exists(x)
    BY DEF There, If!Exists
  <2>3. \A x \in {at.exits.v4, at.exits.v6, at.punch} : There(at.subs, x)
    BY <2>1
  <2>4. \A x \in {at.exits.v4, at.exits.v6, at.punch} \ {""} : If!Exists(x)
    BY <2>2, <2>3
  <2> QED BY <2>4 DEF If!RefersToWhatIs
<1> QED BY <1>1, <1>2, <1>3

\* The row of an interface: its own, or one below that of the NIC it is made on.
LEMMA LastOf == ASSUME NEW x, NEW y PROVE If!Last(<<x>>) = x /\ If!Last(<<x, y>>) = y
BY DEF If!Last

LEMMA RowsAre ==
  ASSUME NEW r
  PROVE  r \in If!Rows <=> \/ \E x \in If!Tops : r = <<x>>
                           \/ \E x \in If!Tops : ~If!IsSub(x) /\ \E c \in If!KidsOf(x) : r = <<x, c>>
<1>1. \A x : r \in {<<x, c>> : c \in If!KidsOf(x)} <=> \E c \in If!KidsOf(x) : r = <<x, c>>
  OBVIOUS
<1>2. r \in UNION {{<<x, c>> : c \in If!KidsOf(x)} : x \in {y \in If!Tops : ~If!IsSub(y)}}
      <=> \E x \in If!Tops : ~If!IsSub(x) /\ r \in {<<x, c>> : c \in If!KidsOf(x)}
  BY Zenon
<1> QED BY <1>1, <1>2 DEF If!Rows

LEMMA OneRowIs == ASSUME NEW x \in If!Listed PROVE \E row : \A r : (r \in If!Rows /\ If!Last(r) = x) <=> r = row
<1>1. \A y : y \in If!Tops /\ ~If!IsSub(y) <=> y \in If!Known
  BY DEF If!Tops, If!Known
<1>2. \A y, c : c \in If!KidsOf(y) <=> c \in If!Listed /\ If!IsSub(c) /\ If!Page.subs[c].parent = y
  BY DEF If!KidsOf
<1>3. PICK p : p = If!Page.subs[x].parent
  OBVIOUS
<1>4. CASE ~If!IsSub(x)
  <2>1. x \in If!Tops
    BY <1>1, <1>4 DEF If!Known
  <2>2. ASSUME NEW r, r \in If!Rows, If!Last(r) = x PROVE r = <<x>>
    <3>1. CASE \E y \in If!Tops : r = <<y>>
      BY <3>1, <2>2, LastOf
    <3>2. ASSUME NEW y \in If!Tops, ~If!IsSub(y), NEW c \in If!KidsOf(y), r = <<y, c>> PROVE FALSE
      <4>1. c = x
        BY <3>2, <2>2, LastOf
      <4> QED BY <4>1, <1>2, <1>4
    <3> QED BY <2>2, <3>1, <3>2, RowsAre
  <2>3. <<x>> \in If!Rows /\ If!Last(<<x>>) = x
    BY <2>1, RowsAre, LastOf
  <2> QED BY <2>2, <2>3
<1>5. CASE If!IsSub(x) /\ p \notin If!Known
  <2>1. x \in If!Tops
    BY <1>3, <1>5 DEF If!Tops
  <2>2. ASSUME NEW r, r \in If!Rows, If!Last(r) = x PROVE r = <<x>>
    <3>1. CASE \E y \in If!Tops : r = <<y>>
      BY <3>1, <2>2, LastOf
    <3>2. ASSUME NEW y \in If!Tops, ~If!IsSub(y), NEW c \in If!KidsOf(y), r = <<y, c>> PROVE FALSE
      <4>1. c = x
        BY <3>2, <2>2, LastOf
      <4>2. y = p
        BY <4>1, <1>2, <1>3
      <4> QED BY <4>2, <3>2, <1>1, <1>5
    <3> QED BY <2>2, <3>1, <3>2, RowsAre
  <2>3. <<x>> \in If!Rows /\ If!Last(<<x>>) = x
    BY <2>1, RowsAre, LastOf
  <2> QED BY <2>2, <2>3
<1>6. CASE If!IsSub(x) /\ p \in If!Known
  <2>1. x \notin If!Tops
    BY <1>3, <1>6 DEF If!Tops, If!Known
  <2>2. ASSUME NEW r, r \in If!Rows, If!Last(r) = x PROVE r = <<p, x>>
    <3>1. ASSUME NEW y \in If!Tops, r = <<y>> PROVE FALSE
      BY <3>1, <2>1, <2>2, LastOf
    <3>2. ASSUME NEW y \in If!Tops, ~If!IsSub(y), NEW c \in If!KidsOf(y), r = <<y, c>> PROVE r = <<p, x>>
      <4>1. c = x
        BY <3>2, <2>2, LastOf
      <4>2. y = p
        BY <4>1, <1>2, <1>3
      <4> QED BY <4>1, <4>2, <3>2
    <3> QED BY <2>2, <3>1, <3>2, RowsAre
  <2>3. p \in If!Tops /\ ~If!IsSub(p) /\ x \in If!KidsOf(p)
    BY <1>1, <1>2, <1>3, <1>6
  <2>4. <<p, x>> \in If!Rows /\ If!Last(<<p, x>>) = x
    BY <2>3, RowsAre, LastOf
  <2> QED BY <2>2, <2>4
<1> QED BY <1>4, <1>5, <1>6

LEMMA OneRowHolds == If!OneRowEach
<1> SUFFICES ASSUME NEW x \in If!Listed PROVE If!Cardinality({r \in If!Rows : If!Last(r) = x}) = 1
  BY Zenon DEF If!OneRowEach
<1>1. PICK row : \A r : (r \in If!Rows /\ If!Last(r) = x) <=> r = row
  BY OneRowIs
<1>2. {r \in If!Rows : If!Last(r) = x} = {row}
  BY <1>1
<1>3. Cardinality({row}) = 1
  BY FS_Singleton
<1> QED BY <1>2, <1>3, CardinalIs

---------------------------------------------------------------------------
\* What a step sets, where the rest stays.
LEMMA NicsMade ==
  ASSUME NEW n, NicsOk(n), NEW q, Rec(q, NicFields), q.subs = n.subs, q.exits = n.exits, q.punch = n.punch,
         q.seen = n.seen \/ SeenOk(q.seen), q.sel = n.sel \/ IsFiniteSet(q.sel),
         q.loops = n.loops \/ LoopsOk(q.loops), q.win = n.win \/ WinOk(q.win)
  PROVE  NicsOk(q)
BY DEF NicsOk
LEMMA WithWin ==
  ASSUME NEW n, NicsOk(n), NEW w, WinOk(w), NEW x, NEW q, q = [n EXCEPT !.win = w] \/ q = [n EXCEPT !.win = w, !.acts = x]
  PROVE  NicsOk(q)
<1>1. Rec(q, NicFields) /\ q.subs = n.subs /\ q.exits = n.exits /\ q.punch = n.punch /\ q.seen = n.seen /\ q.sel = n.sel
      /\ q.loops = n.loops /\ q.win = w
  BY DEF NicsOk, Rec, NicFields
<1> QED BY <1>1, NicsMade
LEMMA WithStart ==
  ASSUME NEW n, NicsOk(n), NEW t, TodoOk(t), NEW win \in {"", "form", "delete"}, NEW q, q = If!Start(n, t, win)
  PROVE  NicsOk(q)
<1>a. PICK l, loops, acts : l = [todo |-> t, win |-> win] /\ loops = n.loops \cup {l} /\ acts = n.acts - 1
  OBVIOUS
<1>1. q = [n EXCEPT !.loops = loops, !.acts = acts]
  BY <1>a DEF If!Start
<1>2. Rec(q, NicFields) /\ q.subs = n.subs /\ q.exits = n.exits /\ q.punch = n.punch /\ q.seen = n.seen /\ q.sel = n.sel
      /\ q.loops = loops /\ q.win = n.win
  BY <1>1 DEF NicsOk, Rec, NicFields
<1>3. Rec(l, {"todo", "win"}) /\ l.todo = t /\ l.win = win
  BY <1>a DEF Rec
<1>4. LoopsOk(loops)
  BY <1>3, <1>a DEF NicsOk, LoopsOk
<1> QED BY <1>2, <1>4, NicsMade
LEMMA WithBusy == ASSUME NEW n, NicsOk(n), NEW b, NEW q, q = [n EXCEPT !.busy = b] PROVE NicsOk(q)
<1>1. Rec(q, NicFields) /\ q.subs = n.subs /\ q.exits = n.exits /\ q.punch = n.punch /\ q.seen = n.seen /\ q.sel = n.sel
      /\ q.loops = n.loops /\ q.win = n.win
  BY DEF NicsOk, Rec, NicFields
<1> QED BY <1>1, NicsMade

\* The dialogs there are.
LEMMA WinPlain == ASSUME NEW w, w.kind \in {"none", "detail", "pick"} PROVE WinOk(w)
BY DEF WinOk
LEMMA FormIs == ASSUME NEW e, e = "" \/ e \notin DOMAIN Nics, NEW b, BodyOk(b) PROVE WinOk(If!Form(e, b))
<1>a. PICK w : w = If!Form(e, b)
  OBVIOUS
<1>1. w = [kind |-> "form", editing |-> e, body |-> b, saving |-> FALSE]
  BY <1>a DEF If!Form
<1>2. w.kind = "form"
  BY <1>1
<1>3. Rec(w, {"kind", "editing", "body", "saving"}) /\ w.body = b /\ w.editing = e
  BY <1>1 DEF Rec
<1> QED BY <1>2, <1>3, <1>a DEF WinOk
LEMMA NewBody == \A p : BodyOk([name |-> "", parent |-> p, on |-> TRUE, set |-> If!Dhcp])
<1>1. SetOk(If!Dhcp)
  BY DEF If!Dhcp, SetOk, Rec, SetFields
<1>2. ASSUME NEW p, NEW b, b = [name |-> "", parent |-> p, on |-> TRUE, set |-> If!Dhcp] PROVE BodyOk(b)
  <2>1. Rec(b, BodyFields) /\ b.set = If!Dhcp
    BY <1>2 DEF Rec, BodyFields
  <2> QED BY <1>1, <2>1 DEF BodyOk
<1> QED BY <1>2

LEMMA PollKeeps == NicsOk(at) /\ If!Poll => NicsOk(at')
<1> SUFFICES ASSUME NicsOk(at), If!Poll PROVE NicsOk(at')
  OBVIOUS
<1>a. PICK seen, sel, win :
        /\ seen = <<If!Report3>>
        /\ sel = at.sel \cap {x \in DOMAIN Nics \cup DOMAIN at.subs : at.all \/ ~If!Hidden(x)}
        /\ win = IF at.win.kind = "detail" /\ at.win.of \notin DOMAIN Nics \cup DOMAIN at.subs THEN If!NoWindow ELSE at.win
  OBVIOUS
<1>1. at' = [at EXCEPT !.seen = seen, !.sel = sel, !.win = win]
  BY <1>a DEF If!Poll
<1>2. Rec(at', NicFields) /\ at'.subs = at.subs /\ at'.exits = at.exits /\ at'.punch = at.punch /\ at'.seen = seen /\ at'.sel = sel
      /\ at'.loops = at.loops /\ at'.win = win
  BY <1>1 DEF NicsOk, Rec, NicFields
<1>3. IsFiniteSet(sel)
  BY <1>a, FS_Intersection DEF NicsOk
<1>4. win = at.win \/ WinOk(win)
  <2>1. WinOk(If!NoWindow)
    BY WinPlain DEF If!NoWindow
  <2> QED BY <2>1, <1>a
<1>5. SeenOk(seen)
  <2>a. PICK p, subs : p = If!Report3 /\ subs = [x \in DOMAIN at.subs |-> If!Sub(at.subs[x].parent, at.subs[x].on, If!ViewSet(at.subs[x]))]
    OBVIOUS
  <2>1. p = [subs |-> subs, exits |-> at.exits, punch |-> at.punch]
    BY <2>a DEF If!Report3
  <2>2. p.subs = subs /\ p.exits = at.exits
    BY <2>1
  <2>3. ASSUME NEW x \in DOMAIN subs PROVE x \notin DOMAIN Nics /\ Rec(subs[x], SubFields) /\ Rec(subs[x].set, SetFields)
    <3>a. PICK s, v : s = at.subs[x] /\ v = If!ViewSet(s)
      OBVIOUS
    <3>1. x \notin DOMAIN Nics /\ SubOk(s) /\ subs[x] = If!Sub(s.parent, s.on, v)
      BY <2>a, <3>a DEF NicsOk, StoredOk
    <3>2. Rec(v, SetFields)
      <4>1. Rec([mode |-> "dhcp", addrs |-> <<"leased">>, dns |-> {"leased"}], SetFields)
        BY DEF Rec, SetFields
      <4>2. Rec(s.set, SetFields)
        BY <3>1 DEF SubOk, SetOk
      <4>3. v = [mode |-> "dhcp", addrs |-> <<"leased">>, dns |-> {"leased"}] \/ v = s.set
        BY <3>a DEF If!ViewSet
      <4> QED BY <4>1, <4>2, <4>3
    <3>b. PICK t : t = subs[x]
      OBVIOUS
    <3>3. t = [parent |-> s.parent, on |-> s.on, set |-> v]
      BY <3>1, <3>b DEF If!Sub
    <3>4. Rec(t, SubFields) /\ t.set = v
      BY <3>3 DEF Rec, SubFields
    <3> QED BY <3>1, <3>2, <3>4, <3>b
  <2>4. ShownOk(p)
    BY <2>2, <2>3 DEF ShownOk, NicsOk, ReferOk
  <2>5. seen[1] = p
    BY <1>a, <2>a
  <2> QED BY <2>4, <2>5 DEF SeenOk
<1> QED BY <1>2, <1>3, <1>4, <1>5, NicsMade

LEMMA ServeKeeps == NicsOk(at) /\ If!Serve3 => NicsOk(at')
<1> SUFFICES ASSUME NicsOk(at), If!Serve3 PROVE NicsOk(at')
  OBVIOUS
<1>1. PICK l \in at.loops :
        IF ~If!Accepts(l.todo[1]) THEN at' = If!Ended(at, l, FALSE)
        ELSE IF Len(l.todo) = 1 THEN at' = If!Ended(If!Effect(at, l.todo[1]), l, TRUE)
        ELSE at' = [If!Effect(at, l.todo[1]) EXCEPT !.loops = (@ \ {l}) \cup {[l EXCEPT !.todo = Tail(@)]}]
  BY DEF If!Serve3
<1>2. TodoOk(l.todo) /\ Rec(l, {"todo", "win"}) /\ l.win \in {"", "form", "delete"}
  BY DEF NicsOk, LoopsOk
<1>a. PICK r, t : r = l.todo[1] /\ t = l.todo
  OBVIOUS
<1>3. RequestOk(r)
  <2>1. \E n \in Nat : n # 0 /\ DOMAIN t = 1 .. n
    BY <1>2, <1>a, SeqIsFun DEF TodoOk
  <2>2. 1 \in DOMAIN t
    BY <2>1
  <2> QED BY <2>2, <1>2, <1>a DEF TodoOk
<1>4. CASE ~If!Accepts(r)
  <2>1. at' = If!Ended(at, l, FALSE)
    BY <1>1, <1>4, <1>a
  <2> QED BY <2>1, EndedKeeps
<1>5. CASE If!Accepts(r)
  <2>a. PICK q : q = If!Effect(at, r)
    OBVIOUS
  <2>1. Whole(q) /\ Beside5(q, at)
    BY <2>a, <1>3, <1>5, EffectKeeps
  <2>2. NicsOk(q) /\ l \in q.loops
    BY <2>1 DEF Whole, Beside5, NicsOk
  <2>3. CASE Len(t) = 1
    <3>1. at' = If!Ended(q, l, TRUE)
      BY <1>1, <1>5, <1>a, <2>a, <2>3
    <3> QED BY <3>1, <2>2, EndedKeeps
  <2>4. CASE Len(t) # 1
    <3>a. PICK m, loops : m = [l EXCEPT !.todo = Tail(t)] /\ loops = (q.loops \ {l}) \cup {m}
      OBVIOUS
    <3>1. at' = [q EXCEPT !.loops = loops]
      BY <1>1, <1>5, <1>a, <2>a, <2>4, <3>a
    <3>2. TodoOk(Tail(t))
      BY <1>2, <1>a, <2>4, RestOk
    <3>3. Rec(m, {"todo", "win"}) /\ m.todo = Tail(t) /\ m.win = l.win
      BY <1>2, <3>a DEF Rec
    <3>4. LoopsOk(loops)
      BY <1>2, <2>2, <3>2, <3>3, <3>a DEF NicsOk, LoopsOk
    <3>5. Rec(at', NicFields) /\ at'.subs = q.subs /\ at'.exits = q.exits /\ at'.punch = q.punch /\ at'.seen = q.seen /\ at'.sel = q.sel
          /\ at'.loops = loops /\ at'.win = q.win
      BY <2>2, <3>1 DEF NicsOk, Rec, NicFields
    <3> QED BY <2>2, <3>4, <3>5, NicsMade
  <2> QED BY <2>3, <2>4
<1> QED BY <1>4, <1>5

LEMMA OtherKeeps == NicsOk(at) /\ If!OtherNics => NicsOk(at')
<1> SUFFICES ASSUME NicsOk(at), If!OtherNics PROVE NicsOk(at')
  OBVIOUS
<1>1. PICK x \in DOMAIN at.subs : \E r \in {If!Request("delete", x, "eth0"), If!Request("exits", x, [v4 |-> x, v6 |-> ""]), If!Request("punch", x, x)} :
        If!Accepts(r) /\ at' = [If!Effect(at, r) EXCEPT !.others = @ - 1]
  BY DEF If!OtherNics
<1>2. PICK r : /\ r \in {If!Request("delete", x, "eth0"), If!Request("exits", x, [v4 |-> x, v6 |-> ""]), If!Request("punch", x, x)}
               /\ If!Accepts(r) /\ at' = [If!Effect(at, r) EXCEPT !.others = @ - 1]
  BY <1>1
<1>3. RequestOk(r)
  <2>1. x \notin DOMAIN Nics
    BY DEF NicsOk, StoredOk
  <2>2. CASE r = If!Request("delete", x, "eth0")
    <3>1. r.op = "delete" /\ r.x = x
      BY <2>2, RequestIs
    <3> QED BY <3>1, <2>1 DEF RequestOk
  <2>3. CASE r = If!Request("exits", x, [v4 |-> x, v6 |-> ""])
    <3>a. PICK e : e = [v4 |-> x, v6 |-> ""]
      OBVIOUS
    <3>0. Rec(e, Families)
      BY <3>a DEF Rec, Families
    <3>1. r = If!Request("exits", x, e)
      BY <2>3, <3>a
    <3>2. r.op = "exits" /\ r.arg = e
      BY <3>1, RequestIs
    <3> QED BY <3>0, <3>2 DEF RequestOk
  <2>4. CASE r = If!Request("punch", x, x)
    <3>1. r.op = "punch"
      BY <2>4, RequestIs
    <3> QED BY <3>1 DEF RequestOk
  <2> QED BY <1>2, <2>2, <2>3, <2>4
<1>a. PICK q, o : q = If!Effect(at, r) /\ o = q.others - 1
  OBVIOUS
<1>4. Whole(q) /\ Beside5(q, at)
  BY <1>2, <1>3, <1>a, EffectKeeps
<1>5. NicsOk(q)
  BY <1>4 DEF Whole, Beside5, NicsOk
<1>6. at' = [q EXCEPT !.others = o]
  BY <1>2, <1>a
<1>7. Rec(at', NicFields) /\ at'.subs = q.subs /\ at'.exits = q.exits /\ at'.punch = q.punch /\ at'.seen = q.seen /\ at'.sel = q.sel
      /\ at'.loops = q.loops /\ at'.win = q.win
  BY <1>5, <1>6 DEF NicsOk, Rec, NicFields
<1> QED BY <1>5, <1>7, NicsMade

LEMMA LooksKeep ==
  NicsOk(at) /\ (If!ShowAll \/ If!PickNic \/ If!OpenNic \/ If!CloseNic \/ If!BulkEnable \/ If!ToggleNic \/ If!SetExit \/ If!SetPunch) => NicsOk(at')
<1> SUFFICES ASSUME NicsOk(at),
                    If!ShowAll \/ If!PickNic \/ If!OpenNic \/ If!CloseNic \/ If!BulkEnable \/ If!ToggleNic \/ If!SetExit \/ If!SetPunch
             PROVE  NicsOk(at')
  OBVIOUS
<1>0. Rec(at, NicFields) /\ SeenOk(at.seen) /\ IsFiniteSet(at.sel)
  BY DEF NicsOk
<1>w. WinOk(If!NoWindow)
  BY WinPlain DEF If!NoWindow
<1>1. CASE If!ShowAll
  <2>a. PICK all, sel, win, acts :
          /\ sel = IF at.all THEN {x \in at.sel : ~If!Hidden(x)} ELSE at.sel
          /\ win = IF at.all /\ at.win.kind = "detail" /\ If!Hidden(at.win.of) THEN If!NoWindow ELSE at.win
          /\ all = ~at.all /\ acts = at.acts - 1
    OBVIOUS
  <2>1. at' = [at EXCEPT !.acts = acts, !.all = all, !.sel = sel, !.win = win]
    BY <1>1, <2>a DEF If!ShowAll
  <2>2. Rec(at', NicFields) /\ at'.subs = at.subs /\ at'.exits = at.exits /\ at'.punch = at.punch /\ at'.seen = at.seen /\ at'.sel = sel
        /\ at'.loops = at.loops /\ at'.win = win
    BY <1>0, <2>1 DEF Rec, NicFields
  <2>3. IsFiniteSet(sel)
    BY <2>a, <1>0, FS_Subset
  <2>4. win = at.win \/ WinOk(win)
    BY <2>a, <1>w
  <2> QED BY <2>2, <2>3, <2>4, NicsMade
<1>2. CASE If!PickNic
  <2>1. PICK x \in If!Listed : \E sel \in {{x}, IF x \in at.sel THEN at.sel \ {x} ELSE at.sel \cup {x}} : at' = [at EXCEPT !.sel = sel]
    BY <1>2 DEF If!PickNic
  <2>2. PICK sel : sel \in {{x}, IF x \in at.sel THEN at.sel \ {x} ELSE at.sel \cup {x}} /\ at' = [at EXCEPT !.sel = sel]
    BY <2>1
  <2>3. IsFiniteSet(sel)
    <3>1. IsFiniteSet({x}) /\ IsFiniteSet(at.sel \ {x}) /\ IsFiniteSet(at.sel \cup {x})
      BY <1>0, FS_Singleton, FS_RemoveElement, FS_AddElement
    <3> QED BY <2>2, <3>1
  <2>4. Rec(at', NicFields) /\ at'.subs = at.subs /\ at'.exits = at.exits /\ at'.punch = at.punch /\ at'.seen = at.seen /\ at'.sel = sel
        /\ at'.loops = at.loops /\ at'.win = at.win
    BY <1>0, <2>2 DEF Rec, NicFields
  <2> QED BY <2>3, <2>4, NicsMade
<1>3. CASE If!OpenNic
  <2>1. PICK x : at' = [at EXCEPT !.win = [kind |-> "detail", of |-> x]]
    BY <1>3 DEF If!OpenNic
  <2>a. PICK w : w = [kind |-> "detail", of |-> x]
    OBVIOUS
  <2>2. w.kind = "detail" /\ at' = [at EXCEPT !.win = w]
    BY <2>1, <2>a
  <2>3. WinOk(w)
    BY <2>2, WinPlain
  <2> QED BY <2>2, <2>3, WithWin
<1>4. CASE If!CloseNic
  BY <1>4, <1>w, WithWin DEF If!CloseNic
<1>5. CASE If!BulkEnable
  <2>1. PICK on \in BOOLEAN : (\E x \in If!Selected : If!Page.subs[x].on # on) /\ at' = If!Start(at, If!Enabling(If!Selected, on), "")
    BY <1>5 DEF If!BulkEnable
  <2>2. IsFiniteSet(If!Selected)
    BY <1>0, FS_Intersection DEF If!Selected
  <2>3. If!Data /\ \A x \in If!Selected : If!IsSub(x)
    BY <1>5 DEF If!BulkEnable, If!Act3
  <2>a. PICK xs, v : xs = If!Selected /\ v = on
    OBVIOUS
  <2>4. TodoOk(If!Enabling(xs, v))
    BY <2>1, <2>2, <2>3, <2>a, <1>0, EnablingIs
  <2>b. PICK t : t = If!Enabling(xs, v)
    OBVIOUS
  <2>5. TodoOk(t) /\ at' = If!Start(at, t, "")
    BY <2>1, <2>4, <2>a, <2>b
  <2> QED BY <2>5, WithStart
<1>6. CASE If!ToggleNic
  <2>a. PICK x, v : x = at.win.of /\ v = ~If!Page.subs[at.win.of].on
    OBVIOUS
  <2>1. If!Data /\ If!IsSub(x) /\ at' = If!Start(at, If!Enabling({x}, v), "")
    BY <1>6, <2>a DEF If!ToggleNic, If!Act3
  <2>2. IsFiniteSet({x}) /\ \A y \in {x} : If!IsSub(y)
    BY <2>1, FS_Singleton
  <2>3. \E y \in {x} : If!Page.subs[y].on # v
    <3>1. If!Page.subs[x].on # v
      BY <2>a
    <3> QED BY <3>1
  <2>4. TodoOk(If!Enabling({x}, v))
    BY <2>1, <2>2, <2>3, <1>0, EnablingIs
  <2> QED BY <2>1, <2>4, WithStart
<1>e. ASSUME NEW r, RequestOk(r), r.op # "delete", at' = [If!Start(at, <<r>>, "") EXCEPT !.busy = TRUE] PROVE NicsOk(at')
  <2>1. TodoOk(<<r>>)
    BY <1>e, OneTodo
  <2>2. NicsOk(If!Start(at, <<r>>, ""))
    BY <2>1, WithStart
  <2> QED BY <1>e, <2>2, WithBusy
<1>7. CASE If!SetExit
  <2>1. PICK x \in If!Selected, f \in {"v4", "v6"} :
          at' = [If!Start(at, <<If!Request("exits", x, [If!Page.exits EXCEPT ![f] = IF @ = x THEN "" ELSE x])>>, "") EXCEPT !.busy = TRUE]
    BY <1>7 DEF If!SetExit
  <2>a. PICK e : e = [If!Page.exits EXCEPT ![f] = IF @ = x THEN "" ELSE x]
    OBVIOUS
  <2>b. PICK r : r = If!Request("exits", x, e)
    OBVIOUS
  <2>2. Rec(If!Page.exits, Families)
    BY <1>0, <1>7 DEF If!SetExit, If!Act3, If!Data, If!Page, SeenOk, ShownOk
  <2>3. Rec(e, Families)
    BY <2>a, <2>2 DEF Rec, Families
  <2>4. r.op = "exits" /\ r.arg = e
    BY <2>b, RequestIs
  <2>5. RequestOk(r)
    BY <2>3, <2>4 DEF RequestOk
  <2> QED BY <2>1, <2>a, <2>b, <2>4, <2>5, <1>e
<1>8. CASE If!SetPunch
  <2>1. PICK x, y : at' = [If!Start(at, <<If!Request("punch", x, y)>>, "") EXCEPT !.busy = TRUE]
    BY <1>8 DEF If!SetPunch
  <2>a. PICK r : r = If!Request("punch", x, y)
    OBVIOUS
  <2>2. r.op = "punch"
    BY <2>a, RequestIs
  <2>3. RequestOk(r)
    BY <2>2 DEF RequestOk
  <2> QED BY <2>1, <2>a, <2>2, <2>3, <1>e
<1> QED BY <1>1, <1>2, <1>3, <1>4, <1>5, <1>6, <1>7, <1>8

LEMMA FormsKeep ==
  NicsOk(at) /\ (If!AddSub \/ If!EditSub \/ If!TypeSub \/ If!SaveSub) => NicsOk(at')
<1> SUFFICES ASSUME NicsOk(at), If!AddSub \/ If!EditSub \/ If!TypeSub \/ If!SaveSub PROVE NicsOk(at')
  OBVIOUS
<1>0. Rec(at, NicFields) /\ SeenOk(at.seen) /\ WinOk(at.win)
  BY DEF NicsOk
<1>f. ASSUME NEW p, at' = [at EXCEPT !.win = If!Form("", [name |-> "", parent |-> p, on |-> TRUE, set |-> If!Dhcp])] PROVE NicsOk(at')
  <2>a. PICK b : b = [name |-> "", parent |-> p, on |-> TRUE, set |-> If!Dhcp]
    OBVIOUS
  <2>1. BodyOk(b)
    BY <2>a, NewBody
  <2>2. WinOk(If!Form("", b))
    BY <2>1, FormIs
  <2> QED BY <1>f, <2>a, <2>2, WithWin
<1>1. CASE If!AddSub
  <2>1. \/ \E p : at' = [at EXCEPT !.win = If!Form("", [name |-> "", parent |-> p, on |-> TRUE, set |-> If!Dhcp])]
        \/ at' = [at EXCEPT !.win = [kind |-> "pick"]]
    <3>1. CASE at.win = If!NoWindow /\ at' = [at EXCEPT !.win = IF If!Cardinality(If!Selected) = 1 /\ If!Selected \subseteq If!Parents
                                        THEN If!Form("", [name |-> "", parent |-> CHOOSE p \in If!Selected : TRUE, on |-> TRUE, set |-> If!Dhcp])
                                        ELSE [kind |-> "pick"]]
      <4>a. PICK q : q = CHOOSE p \in If!Selected : TRUE
        OBVIOUS
      <4>1. at' = [at EXCEPT !.win = If!Form("", [name |-> "", parent |-> q, on |-> TRUE, set |-> If!Dhcp])] \/ at' = [at EXCEPT !.win = [kind |-> "pick"]]
        BY <3>1, <4>a
      <4> QED BY <4>1
    <3>2. CASE \E p \in If!Parents : at' = [at EXCEPT !.win = If!Form("", [name |-> "", parent |-> p, on |-> TRUE, set |-> If!Dhcp])]
      BY <3>2
    <3>3. CASE at' = [at EXCEPT !.win = If!Form("", [name |-> "", parent |-> at.win.of, on |-> TRUE, set |-> If!Dhcp])]
      BY <3>3
    <3> QED BY <1>1, <3>1, <3>2, <3>3 DEF If!AddSub
  <2>2. CASE at' = [at EXCEPT !.win = [kind |-> "pick"]]
    <3>a. PICK w : w = [kind |-> "pick"]
      OBVIOUS
    <3>1. w.kind = "pick" /\ at' = [at EXCEPT !.win = w]
      BY <2>2, <3>a
    <3>2. WinOk(w)
      BY <3>1, WinPlain
    <3> QED BY <3>1, <3>2, WithWin
  <2> QED BY <2>1, <2>2, <1>f
<1>2. CASE If!EditSub
  <2>1. PICK x : If!Data /\ If!IsSub(x) /\ at' = [at EXCEPT !.win = If!Form(x, If!ChildToBody(x, If!Page.subs[x]))]
    BY <1>2 DEF If!EditSub, If!Act3
  <2>2. x \notin DOMAIN Nics /\ Rec(If!Page.subs[x], SubFields) /\ Rec(If!Page.subs[x].set, SetFields)
    BY <2>1, <1>0 DEF SeenOk, ShownOk, If!Data, If!Page, If!IsSub
  <2>a. PICK s, b : s = If!Page.subs[x] /\ b = If!ChildToBody(x, s)
    OBVIOUS
  <2>3. BodyOk(b)
    BY <2>2, <2>a, BodyIs
  <2>4. WinOk(If!Form(x, b))
    BY <2>2, <2>3, FormIs
  <2> QED BY <2>1, <2>4, <2>a, WithWin
<1>3. CASE If!TypeSub
  <2>0. at.win.kind = "form"
    BY <1>3 DEF If!TypeSub
  <2>a. PICK w, b : w = at.win /\ b = w.body
    OBVIOUS
  <2>1. Rec(w, {"kind", "editing", "body", "saving"}) /\ BodyOk(b) /\ (w.editing = "" \/ w.editing \notin DOMAIN Nics) /\ w.kind = "form"
    BY <1>0, <2>0, <2>a DEF WinOk
  <2>b. PICK acts : acts = at.acts - 1
    OBVIOUS
  <2>2. ASSUME NEW c, BodyOk(c), at' = [at EXCEPT !.win.body = c, !.acts = acts] PROVE NicsOk(at')
    <3>a. PICK v : v = [w EXCEPT !.body = c]
      OBVIOUS
    <3>1. at' = [at EXCEPT !.win = v, !.acts = acts]
      BY <2>2, <2>a, <3>a, <1>0 DEF Rec, NicFields
    <3>2. v.kind = "form"
      BY <2>1, <3>a DEF Rec
    <3>3. Rec(v, {"kind", "editing", "body", "saving"}) /\ v.body = c /\ v.editing = w.editing
      BY <2>1, <3>a DEF Rec
    <3>4. WinOk(v)
      BY <3>2, <3>3, <2>1, <2>2 DEF WinOk
    <3> QED BY <3>1, <3>4, WithWin
  <2>3. ASSUME NEW n, at' = [at EXCEPT !.win.body.name = n, !.acts = @ - 1] PROVE NicsOk(at')
    <3>a. PICK c : c = [b EXCEPT !.name = n]
      OBVIOUS
    <3>1. Rec(c, BodyFields) /\ c.set = b.set
      BY <2>1, <3>a DEF BodyOk, Rec, BodyFields
    <3>2. BodyOk(c)
      BY <3>1, <2>1 DEF BodyOk
    <3>3. at' = [at EXCEPT !.win.body = c, !.acts = acts]
      BY <2>3, <2>a, <2>b, <3>a, <1>0, <2>1 DEF Rec, NicFields
    <3> QED BY <3>2, <3>3, <2>2
  <2>4. ASSUME NEW p, at' = [at EXCEPT !.win.body.parent = p, !.acts = @ - 1] PROVE NicsOk(at')
    <3>a. PICK c : c = [b EXCEPT !.parent = p]
      OBVIOUS
    <3>1. Rec(c, BodyFields) /\ c.set = b.set
      BY <2>1, <3>a DEF BodyOk, Rec, BodyFields
    <3>2. BodyOk(c)
      BY <3>1, <2>1 DEF BodyOk
    <3>3. at' = [at EXCEPT !.win.body = c, !.acts = acts]
      BY <2>4, <2>a, <2>b, <3>a, <1>0, <2>1 DEF Rec, NicFields
    <3> QED BY <3>2, <3>3, <2>2
  <2>5. ASSUME NEW s, SetOk(s), at' = [at EXCEPT !.win.body.set = s, !.acts = @ - 1] PROVE NicsOk(at')
    <3>a. PICK c : c = [b EXCEPT !.set = s]
      OBVIOUS
    <3>1. Rec(c, BodyFields) /\ c.set = s
      BY <2>1, <3>a DEF BodyOk, Rec, BodyFields
    <3>2. BodyOk(c)
      BY <3>1, <2>5 DEF BodyOk
    <3>3. at' = [at EXCEPT !.win.body = c, !.acts = acts]
      BY <2>5, <2>a, <2>b, <3>a, <1>0, <2>1 DEF Rec, NicFields
    <3> QED BY <3>2, <3>3, <2>2
  <2>6. \A s \in {If!Off, If!Dhcp, If!Static(<<"a">>, {"d"}), If!Static(<<>>, {})} : SetOk(s)
    <3>1. SetOk(If!Off) /\ SetOk(If!Dhcp)
      BY DEF If!Off, If!Dhcp, SetOk, Rec, SetFields
    <3>2. \A a, d : SetOk(If!Static(a, d))
      BY DEF If!Static, SetOk, Rec, SetFields
    <3> QED BY <3>1, <3>2
  <2> QED BY <1>3, <2>3, <2>4, <2>5, <2>6 DEF If!TypeSub
<1>4. CASE If!SaveSub
  <2>0. at.win.kind = "form"
    BY <1>4 DEF If!SaveSub
  <2>a. PICK w, v : w = at.win /\ v = [w EXCEPT !.saving = TRUE]
    OBVIOUS
  <2>1. Rec(w, {"kind", "editing", "body", "saving"}) /\ BodyOk(w.body) /\ (w.editing = "" \/ w.editing \notin DOMAIN Nics) /\ w.kind = "form"
    BY <1>0, <2>0, <2>a DEF WinOk
  <2>2. v.kind = "form"
    BY <2>1, <2>a DEF Rec
  <2>3. Rec(v, {"kind", "editing", "body", "saving"}) /\ v.body = w.body /\ v.editing = w.editing
    BY <2>1, <2>a DEF Rec
  <2>4. WinOk(v)
    BY <2>1, <2>2, <2>3 DEF WinOk
  <2>b. PICK n : n = [at EXCEPT !.win = v]
    OBVIOUS
  <2>5. NicsOk(n)
    BY <2>4, <2>b, WithWin
  <2>c. PICK op \in {"create", "update"} : op = IF w.editing = "" THEN "create" ELSE "update"
    OBVIOUS
  <2>d. PICK x, b, r : x = w.editing /\ b = w.body /\ r = If!Request(op, x, b)
    OBVIOUS
  <2>6. at' = If!Start(n, <<r>>, "form")
    <3>1. [at EXCEPT !.win.saving = TRUE] = n
      BY <2>a, <2>b, <1>0 DEF Rec, NicFields
    <3> QED BY <1>4, <3>1, <2>a, <2>c, <2>d DEF If!SaveSub
  <2>7. r.op = op /\ r.x = x /\ r.arg = b
    BY <2>d, RequestIs
  <2>8. RequestOk(r) /\ r.op # "delete"
    BY <2>7, <2>1, <2>c, <2>d DEF RequestOk
  <2>9. TodoOk(<<r>>)
    BY <2>8, OneTodo
  <2> QED BY <2>5, <2>6, <2>9, WithStart
<1> QED BY <1>1, <1>2, <1>3, <1>4

LEMMA DeletesKeep ==
  NicsOk(at) /\ (If!AskDelete \/ If!ChooseTo \/ If!Delete3) => NicsOk(at')
<1> SUFFICES ASSUME NicsOk(at), If!AskDelete \/ If!ChooseTo \/ If!Delete3 PROVE NicsOk(at')
  OBVIOUS
<1>0. Rec(at, NicFields) /\ SeenOk(at.seen) /\ WinOk(at.win) /\ IsFiniteSet(at.sel)
  BY DEF NicsOk
<1>1. CASE If!AskDelete
  <2>1. PICK xs : /\ xs \in {IF at.win.kind = "detail" THEN {at.win.of} ELSE IF at.win = If!NoWindow THEN If!Selected ELSE {}}
                  /\ xs # {} /\ \A x \in xs : If!IsSub(x)
                  /\ at' = [at EXCEPT !.win = [kind |-> "delete", xs |-> If!SetToSeq(xs), to |-> "", busy |-> FALSE]]
    BY <1>1 DEF If!AskDelete
  <2>2. IsFiniteSet(xs)
    <3>1. IsFiniteSet({at.win.of}) /\ IsFiniteSet({}) /\ IsFiniteSet(If!Selected)
      BY <1>0, FS_Singleton, FS_EmptySet, FS_Intersection DEF If!Selected
    <3> QED BY <2>1, <3>1
  <2>3. \A x \in xs : x \notin DOMAIN Nics
    BY <2>1, <1>0, <1>1 DEF If!IsSub, If!AskDelete, If!Act3, If!Data, If!Page, SeenOk, ShownOk
  <2>a. PICK s, w : s = If!SetToSeq(xs) /\ w = [kind |-> "delete", xs |-> s, to |-> "", busy |-> FALSE]
    OBVIOUS
  <2>4. IsSeq(s) /\ \A i \in DOMAIN s : s[i] \in xs
    BY <2>1, <2>2, <2>a, InOrder2
  <2>5. w.kind = "delete" /\ w.to = ""
    BY <2>a
  <2>6. Rec(w, {"kind", "xs", "to", "busy"}) /\ w.xs = s
    BY <2>a DEF Rec
  <2>7. WinOk(w)
    BY <2>3, <2>4, <2>5, <2>6 DEF WinOk
  <2> QED BY <2>1, <2>7, <2>a, WithWin
<1>2. ASSUME at.win.kind = "delete"
      PROVE  /\ Rec(at.win, {"kind", "xs", "to", "busy"}) /\ IsSeq(at.win.xs)
             /\ \A i \in DOMAIN at.win.xs : at.win.xs[i] \notin DOMAIN Nics /\ (at.win.to = "" \/ at.win.to # at.win.xs[i])
  BY <1>0, <1>2 DEF WinOk
<1>3. CASE If!ChooseTo
  <2>1. PICK to \in If!Candidates(at.win.xs) : at' = [at EXCEPT !.win.to = to]
    BY <1>3 DEF If!ChooseTo
  <2>2. at.win.kind = "delete"
    BY <1>3 DEF If!ChooseTo
  <2>a. PICK w, v : w = at.win /\ v = [w EXCEPT !.to = to]
    OBVIOUS
  <2>3. at' = [at EXCEPT !.win = v]
    BY <2>1, <2>a, <1>0 DEF Rec, NicFields
  <2>4. v.kind = "delete"
    BY <2>2, <2>a, <1>2 DEF Rec
  <2>5. Rec(v, {"kind", "xs", "to", "busy"}) /\ v.xs = w.xs /\ v.to = to
    BY <2>2, <2>a, <1>2 DEF Rec
  <2>6. \A i \in DOMAIN w.xs : to # w.xs[i]
    BY <2>1, <2>a DEF If!Candidates, If!Range
  <2>7. WinOk(v)
    BY <2>2, <2>4, <2>5, <2>6, <2>a, <1>2 DEF WinOk
  <2> QED BY <2>3, <2>7, WithWin
<1>4. CASE If!Delete3
  <2>1. at.win.kind = "delete" /\ at.win.to # ""
    BY <1>4 DEF If!Delete3
  <2>a. PICK w, v, t : /\ w = at.win /\ v = [w EXCEPT !.busy = TRUE]
                       /\ t = [i \in DOMAIN w.xs |-> If!Request("delete", w.xs[i], w.to)]
    OBVIOUS
  <2>b. PICK n : n = [at EXCEPT !.win = v]
    OBVIOUS
  <2>2. at' = If!Start(n, t, "delete")
    <3>1. [at EXCEPT !.win.busy = TRUE] = n
      BY <2>a, <2>b, <1>0 DEF Rec, NicFields
    <3> QED BY <1>4, <3>1, <2>a DEF If!Delete3
  <2>3. Rec(w, {"kind", "xs", "to", "busy"}) /\ IsSeq(w.xs) /\ \A i \in DOMAIN w.xs : w.xs[i] \notin DOMAIN Nics /\ w.to # w.xs[i]
    BY <2>1, <2>a, <1>2
  <2>4. v.kind = "delete"
    BY <2>1, <2>a, <2>3 DEF Rec
  <2>5. Rec(v, {"kind", "xs", "to", "busy"}) /\ v.xs = w.xs /\ v.to = w.to
    BY <2>3, <2>a DEF Rec
  <2>6. WinOk(v)
    BY <2>3, <2>4, <2>5 DEF WinOk
  <2>7. NicsOk(n)
    BY <2>6, <2>b, WithWin
  <2>8. TodoOk(t)
    <3>a. PICK k \in Nat : k # 0 /\ DOMAIN w.xs = 1 .. k
      BY <2>3, SeqIsFun
    <3>1. DOMAIN t = 1 .. k /\ t = [i \in DOMAIN t |-> t[i]]
      BY <2>a, <3>a
    <3>2. ASSUME NEW i \in 1 .. k PROVE t[i].op = "delete" /\ t[i].x = w.xs[i] /\ t[i].arg = w.to
      <4>a. PICK r, x, to : r = t[i] /\ x = w.xs[i] /\ to = w.to
        OBVIOUS
      <4>1. r = If!Request("delete", x, to)
        BY <2>a, <3>a, <4>a
      <4>2. r.op = "delete" /\ r.x = x /\ r.arg = to
        BY <4>1, RequestIs
      <4> QED BY <4>2, <4>a
    <3>3. \A i \in DOMAIN t : RequestOk(t[i])
      BY <3>1, <3>2, <3>a, <2>3 DEF RequestOk
    <3>4. \A i, j \in DOMAIN t : t[j].x # t[i].arg
      BY <3>1, <3>2, <3>a, <2>3
    <3>5. IsSeq(t)
      BY <3>1, <3>a, FunIsSeq
    <3> QED BY <3>3, <3>4, <3>5 DEF TodoOk
  <2> QED BY <2>2, <2>7, <2>8, WithStart
<1> QED BY <1>1, <1>3, <1>4

LEMMA NicsStep == NicsInv /\ [If!NicsNext]_at => NicsInv'
<1> SUFFICES ASSUME NicsOk(at), [If!NicsNext]_at PROVE NicsOk(at')
  BY DEF NicsInv
<1> QED BY PollKeeps, LooksKeep, FormsKeep, DeletesKeep, ServeKeeps, OtherKeeps DEF If!NicsNext

---------------------------------------------------------------------------
\* The graph of the nodes page (Canvas).

CanvasFields ==
  {"srv", "feed", "known", "slow", "list", "pick", "geo", "loading", "loaded", "pos", "line", "busy", "busyLine", "pend", "pendLine", "anim",
   "drag", "moved", "start", "slide", "puts", "failed", "dots", "linked", "own", "other", "fails"}

\* The last frame on its way is what is stored; without one, a save or a
\* failure, what is listed is. What is in hand is being dragged or slides.
FeedOk(feed, srv) == feed \in Seq({feed[i] : i \in DOMAIN feed}) /\ (feed # <<>> => feed[Len(feed)] = srv)
MapOk(srv) == Cv!GEO \in DOMAIN srv => srv[Cv!GEO].n = Cv!NoDots
PutsOk(puts) == \A p \in puts : p.id = Cv!GEO => p.d.n = Cv!NoDots
HandOk(busy, busyLine, drag, slide, dots) ==
  /\ dots \subseteq DotKeys /\ busy \subseteq DotKeys
  /\ \A k \in busy : k = drag \/ \E s \in slide : s.k = k
  /\ busyLine => drag = "line"
Listed3(c) == c.known /\ c.feed = <<>> /\ c.puts = {} /\ ~c.failed => c.list = c.srv
StoreOk(c) ==
  Rec(c, CanvasFields) /\ FeedOk(c.feed, c.srv) /\ MapOk(c.srv) /\ PutsOk(c.puts) /\ Listed3(c) /\ c.own \in Int
CanvasOk(c) == StoreOk(c) /\ HandOk(c.busy, c.busyLine, c.drag, c.slide, c.dots)
CanvasInv == CanvasOk(at)

\* Two moments with the same but for what is drawn.
AlikeBut(q, c) ==
  /\ Rec(q, CanvasFields) /\ q.srv = c.srv /\ q.feed = c.feed /\ q.known = c.known /\ q.list = c.list /\ q.busy = c.busy
  /\ q.busyLine = c.busyLine /\ q.drag = c.drag /\ q.slide = c.slide /\ q.puts = c.puts /\ q.failed = c.failed /\ q.dots = c.dots
  /\ q.own = c.own /\ q.pick = c.pick /\ q.geo = c.geo /\ q.slow = c.slow /\ q.linked = c.linked
SameHand(q, c) == q.busy = c.busy /\ q.busyLine = c.busyLine /\ q.drag = c.drag /\ q.slide = c.slide /\ q.dots = c.dots
SameStore(q, c) ==
  q.srv = c.srv /\ q.feed = c.feed /\ q.known = c.known /\ q.list = c.list /\ q.puts = c.puts /\ q.failed = c.failed
SameDrawn(q, c) == q.pos = c.pos /\ q.anim = c.anim /\ q.line = c.line /\ q.loaded = c.loaded
LEMMA AlikeOk == ASSUME NEW c, StoreOk(c), NEW q, AlikeBut(q, c)
                 PROVE  StoreOk(q) /\ SameHand(q, c) /\ SameStore(q, c) /\ q.own = c.own
BY DEF AlikeBut, StoreOk, Listed3, SameHand, SameStore
LEMMA StoreSame == ASSUME NEW c, StoreOk(c), NEW q, SameStore(q, c), Rec(q, CanvasFields), q.own \in Int PROVE StoreOk(q)
BY DEF SameStore, StoreOk, Listed3
LEMMA HandSame == ASSUME NEW c, HandOk(c.busy, c.busyLine, c.drag, c.slide, c.dots), NEW q, SameHand(q, c)
                  PROVE  HandOk(q.busy, q.busyLine, q.drag, q.slide, q.dots)
BY DEF SameHand

LEMMA Redrawn == ASSUME NEW c, Rec(c, CanvasFields), NEW q, NEW b, NEW g, NEW d, NEW e, NEW f,
  q = [c EXCEPT !.pos = b, !.anim = g, !.line = d, !.pend = e, !.pendLine = f] PROVE AlikeBut(q, c)
BY DEF AlikeBut, Rec, CanvasFields
LEMMA Taken2 == ASSUME NEW c, Rec(c, CanvasFields), NEW q, NEW a, NEW b, NEW d, NEW e, NEW f, NEW g,
  q = [c EXCEPT !.loaded = a, !.pos = b, !.line = d, !.pend = e, !.pendLine = f, !.anim = g] PROVE AlikeBut(q, c)
BY DEF AlikeBut, Rec, CanvasFields
LEMMA Left2 == ASSUME NEW c, Rec(c, CanvasFields), NEW q, NEW a, q = [c EXCEPT !.loaded = a] PROVE AlikeBut(q, c)
BY DEF AlikeBut, Rec, CanvasFields

LEMMA TakeIs == ASSUME NEW c, Rec(c, CanvasFields), NEW id PROVE AlikeBut(Cv!Take(c, id), c)
<1>q. PICK q : q = Cv!Take(c, id)
  OBVIOUS
<1>r. PICK r : r = Cv!Shown(c, id)
  OBVIOUS
<1>a. PICK a : a = Cv!Slots(c, r.n)
  OBVIOUS
<1>b. PICK b : b = r.e
  OBVIOUS
<1>n. PICK n : n = Cv!NoDots
  OBVIOUS
<1>1. q = [c EXCEPT !.loaded = id, !.pos = a, !.line = b, !.pend = n, !.pendLine = {}, !.anim = n]
  BY <1>q, <1>r, <1>a, <1>b, <1>n DEF Cv!Take
<1>2. AlikeBut(q, c)
  BY <1>1, Taken2, ZenonT(60)
<1> QED BY <1>q, <1>2

LEMMA ReconcileIs == ASSUME NEW c, Rec(c, CanvasFields), NEW q, q = Cv!Reconcile(c) PROVE AlikeBut(q, c)
<1>a. PICK id : id = Cv!EditId(c)
  OBVIOUS
<1>r. PICK r : r = Cv!Shown(c, id)
  OBVIOUS
<1>4. CASE id = Cv!None2
  <2>1. q = [c EXCEPT !.loaded = Cv!None2]
    BY <1>4, <1>a DEF Cv!Reconcile
  <2> QED BY <2>1, Left2
<1>5. CASE id # Cv!None2 /\ c.loaded # id
  <2>1. q = Cv!Take(c, id)
    BY <1>5, <1>a DEF Cv!Reconcile
  <2> QED BY <2>1, TakeIs
<1>6. CASE id # Cv!None2 /\ c.loaded = id
  <2>a. PICK b : b = Cv!At(c, Cv!Merged(c, r.n))
    OBVIOUS
  <2>g. PICK g : g = Cv!Moves(c, Cv!Merged(c, r.n))
    OBVIOUS
  <2>b. PICK d : d = (IF Cv!LineWaits(c, r.e) THEN c.line ELSE r.e)
    OBVIOUS
  <2>c. PICK e : e = Cv!Restrict(c.pend, Cv!StillWaits(c, r.n))
    OBVIOUS
  <2>d. PICK f : f = IF c.pendLine = {r.e} /\ r.e # 0 /\ ~c.busyLine THEN {} ELSE c.pendLine
    OBVIOUS
  <2>1. q = [c EXCEPT !.pos = b, !.anim = g, !.line = d, !.pend = e, !.pendLine = f]
    BY <1>6, <1>a, <1>r, <2>a, <2>b, <2>c, <2>d, <2>g DEF Cv!Reconcile
  <2> QED BY <2>1, Redrawn
<1> QED BY <1>4, <1>5, <1>6

---------------------------------------------------------------------------
LEMMA FeedGrows == ASSUME NEW feed, NEW srv, FeedOk(feed, srv), NEW new PROVE FeedOk(Append(feed, new), new) /\ Append(feed, new) # <<>>
<1>a. PICK S : S = {feed[i] : i \in DOMAIN feed} \cup {new}
  OBVIOUS
<1>1. feed \in Seq(S)
  BY <1>a DEF FeedOk
<1>2. new \in S
  BY <1>a
<1>3. /\ Append(feed, new) \in Seq(S) /\ Len(Append(feed, new)) = Len(feed) + 1
      /\ Append(feed, new)[Len(feed) + 1] = new
  BY <1>1, <1>2, AppendProperties
<1>b. PICK g : g = Append(feed, new)
  OBVIOUS
<1>4. g \in Seq(S) /\ g # <<>> /\ g[Len(g)] = new
  BY <1>b, <1>3, <1>1, LenProperties, EmptySeq
<1>5. g \in Seq({g[i] : i \in DOMAIN g})
  BY <1>4
<1> QED BY <1>4, <1>5, <1>b DEF FeedOk
LEMMA FeedTail == ASSUME NEW feed, NEW srv, FeedOk(feed, srv), feed # <<>>
  PROVE  FeedOk(Tail(feed), srv) /\ (Tail(feed) = <<>> => Head(feed) = srv)
<1>a. PICK S : S = {feed[i] : i \in DOMAIN feed}
  OBVIOUS
<1>1. feed \in Seq(S) /\ feed[Len(feed)] = srv
  BY <1>a DEF FeedOk
<1>b. PICK g : g = Tail(feed)
  OBVIOUS
<1>2. g \in Seq(S) /\ Len(g) = Len(feed) - 1 /\ \A i \in 1 .. Len(g) : g[i] = feed[i + 1]
  BY <1>1, <1>b, HeadTailProperties
<1>3. Len(feed) \in Nat \ {0} /\ Len(g) \in Nat
  BY <1>1, <1>2, LenProperties, EmptySeq
<1>4. ASSUME g # <<>> PROVE g[Len(g)] = srv
  <2>1. Len(g) # 0
    BY <1>4, <1>2, EmptySeq
  <2> QED BY <2>1, <1>1, <1>2, <1>3
<1>5. ASSUME g = <<>> PROVE Head(feed) = srv
  <2>1. Len(feed) = 1
    BY <1>5, <1>2, <1>3
  <2> QED BY <2>1, <1>1
<1>6. g \in Seq({g[i] : i \in DOMAIN g})
  BY <1>2
<1> QED BY <1>b, <1>4, <1>5, <1>6 DEF FeedOk
LEMMA FeedEmpty == ASSUME NEW srv PROVE FeedOk(<<>>, srv)
BY DEF FeedOk
LEMMA FeedFirst == ASSUME NEW srv PROVE FeedOk(<<srv>>, srv) /\ <<srv>> # <<>>
BY DEF FeedOk

LEMMA CanvasStarts == at \in Cv!CanvasInits => CanvasInv
<1> SUFFICES ASSUME at \in Cv!CanvasInits PROVE CanvasInv
  OBVIOUS
<1>1. at \in Cv!CanvasInits
  OBVIOUS
<1>2. Rec(at, CanvasFields)
  BY <1>1 DEF Cv!CanvasInits, Rec, CanvasFields
<1>3. /\ at.feed = <<>> /\ at.known = FALSE /\ at.busy = {} /\ at.busyLine = FALSE /\ at.dots = DotKeys /\ at.puts = {}
      /\ at.srv = [id \in {"default"} |-> Cv!Drawing([k \in {"a"} |-> 1], 0)]
  BY <1>1 DEF Cv!CanvasInits
<1>4. at.own = OwnActs
  BY <1>1 DEF Cv!CanvasInits
<1>5. FeedOk(at.feed, at.srv) /\ Listed3(at) /\ HandOk(at.busy, at.busyLine, at.drag, at.slide, at.dots) /\ PutsOk(at.puts)
  BY <1>3, FeedEmpty DEF Listed3, HandOk, PutsOk
<1>6. MapOk(at.srv)
  BY <1>3 DEF MapOk, Cv!GEO
<1>7. at.own \in Int
  BY <1>4, CanvasAssumption
<1> QED BY <1>2, <1>5, <1>6, <1>7 DEF CanvasInv, CanvasOk, StoreOk

\* What is stored changes: everyone who is connected is told.
Told(q, c, srv) ==
  /\ Rec(q, CanvasFields) /\ FeedOk(q.feed, q.srv) /\ q.srv = srv /\ ~(q.known /\ q.feed = <<>>)
  /\ q.puts = c.puts /\ q.own = c.own /\ q.list = c.list /\ SameHand(q, c) /\ SameDrawn(q, c)
LEMMA Changes == ASSUME NEW c, Rec(c, CanvasFields), FeedOk(c.feed, c.srv),
  NEW srv, NEW q, q = Cv!Change(c, srv)
  PROVE  Told(q, c, srv)
<1>a. PICK f : f = IF c.known \/ c.feed # <<>> THEN Append(c.feed, srv) ELSE c.feed
  OBVIOUS
<1>1. q = [c EXCEPT !.srv = srv, !.feed = f]
  BY <1>a DEF Cv!Change
<1>2. Rec(q, CanvasFields) /\ q.srv = srv /\ q.feed = f /\ q.known = c.known /\ q.puts = c.puts /\ q.own = c.own /\ q.list = c.list
  BY <1>1 DEF Rec, CanvasFields
<1>3. FeedOk(f, srv) /\ ~(c.known /\ f = <<>>)
  <2>1. CASE c.known \/ c.feed # <<>>
    BY <2>1, <1>a, FeedGrows
  <2>2. CASE ~(c.known \/ c.feed # <<>>)
    BY <2>2, <1>a, FeedEmpty
  <2> QED BY <2>1, <2>2
<1>4. SameHand(q, c) /\ SameDrawn(q, c)
  BY <1>1 DEF Rec, CanvasFields, SameHand, SameDrawn
<1> QED BY <1>4, <1>2, <1>3 DEF Told

---------------------------------------------------------------------------
\* What is in hand, and was not sliding, keeps its place and its shape.
Keeps(q, c) ==
  /\ \A k \in (c.busy \cap DOMAIN c.pos) \ DOMAIN c.anim : k \in DOMAIN q.pos /\ q.pos[k] = c.pos[k] /\ k \notin DOMAIN q.anim
  /\ c.busyLine /\ q.busyLine => q.line = c.line
LEMMA DrawnKeeps == ASSUME NEW q, NEW c, SameDrawn(q, c) PROVE Keeps(q, c)
BY DEF SameDrawn, Keeps
\* A pass that began where the same was drawn and in hand.
Untouched(m, c) == SameDrawn(m, c) /\ m.busy = c.busy /\ m.busyLine = c.busyLine
LEMMA UntouchedKeeps == ASSUME NEW c, NEW m, Untouched(m, c), NEW q, q.loaded = m.loaded => Keeps(q, m)
                        PROVE  q.loaded = c.loaded => Keeps(q, c)
BY DEF Untouched, SameDrawn, Keeps
LEMMA HandUntouched == ASSUME NEW c, NEW m, SameHand(m, c), SameDrawn(m, c) PROVE Untouched(m, c)
BY DEF SameHand, Untouched
LEMMA ReconcileKeeps == ASSUME NEW c, Rec(c, CanvasFields), NEW q, q = Cv!Reconcile(c), q.loaded = c.loaded PROVE Keeps(q, c)
<1>a. PICK id : id = Cv!EditId(c)
  OBVIOUS
<1>4. CASE id = Cv!None2
  <2>1. q = [c EXCEPT !.loaded = Cv!None2]
    BY <1>4, <1>a DEF Cv!Reconcile
  <2>2. q.pos = c.pos /\ q.anim = c.anim /\ q.line = c.line
    BY <2>1 DEF Rec, CanvasFields
  <2> QED BY <2>2 DEF Keeps
<1>5. CASE id # Cv!None2 /\ c.loaded # id
  <2>1. q = Cv!Take(c, id)
    BY <1>5, <1>a DEF Cv!Reconcile
  <2>2. q.loaded = id
    BY <2>1 DEF Cv!Take, Rec, CanvasFields
  <2> QED BY <2>2, <1>5
<1>6. CASE id # Cv!None2 /\ c.loaded = id
  <2>r. PICK r : r = Cv!Shown(c, id)
    OBVIOUS
  <2>t. PICK to : to = Cv!Merged(c, r.n)
    OBVIOUS
  <2>b. PICK b : b = Cv!At(c, to)
    OBVIOUS
  <2>g. PICK g : g = Cv!Moves(c, to)
    OBVIOUS
  <2>l. PICK l : l = IF Cv!LineWaits(c, r.e) THEN c.line ELSE r.e
    OBVIOUS
  <2>1. q.pos = b /\ q.anim = g /\ q.line = l
    BY <1>6, <1>a, <2>r, <2>t, <2>b, <2>g, <2>l DEF Cv!Reconcile, Rec, CanvasFields
  <2>2. ASSUME NEW k \in (c.busy \cap DOMAIN c.pos) \ DOMAIN c.anim PROVE k \in DOMAIN b /\ b[k] = c.pos[k] /\ k \notin DOMAIN g
    <3>1. k \in DOMAIN to
      BY <2>t DEF Cv!Merged
    <3>2. k \in DOMAIN b /\ b[k] = c.pos[k]
      BY <3>1, <2>b DEF Cv!At
    <3>3. DOMAIN g = Cv!Slides(c, to) \cup (DOMAIN c.anim \cap DOMAIN to)
      BY <2>g DEF Cv!Moves
    <3>4. k \notin Cv!Slides(c, to)
      BY DEF Cv!Slides
    <3> QED BY <3>2, <3>3, <3>4
  <2>3. c.busyLine => l = c.line
    BY <2>l DEF Cv!LineWaits
  <2> QED BY <2>1, <2>2, <2>3 DEF Keeps
<1> QED BY <1>4, <1>5, <1>6

LEMMA SavedIs == ASSUME NEW c, StoreOk(c), NEW n, NEW e, NEW q, q = Cv!Saved(c, n, e)
                 PROVE  StoreOk(q) /\ SameHand(q, c) /\ q.own = c.own /\ (q.loaded = c.loaded => Keeps(q, c))
<1>a. PICK id : id = Cv!EditId(c)
  OBVIOUS
<1>b. PICK e2 : e2 = IF c.linked THEN e ELSE 0
  OBVIOUS
<1>d. PICK d : d = Cv!Drawing(IF id = Cv!GEO THEN Cv!NoDots ELSE n, e2)
  OBVIOUS
<1>p. PICK p : p = Cv!Put(id, d)
  OBVIOUS
<1>1. CASE id = Cv!None2
  <2>1. q = c
    BY <1>1, <1>a DEF Cv!Saved
  <2> QED BY <2>1, DrawnKeeps DEF SameHand, SameDrawn
<1>2. CASE id # Cv!None2
  <2>a. PICK x : x = [k \in DOMAIN n \cup DOMAIN c.pend |-> IF k \in DOMAIN n THEN n[k] ELSE c.pend[k]]
    OBVIOUS
  <2>b. PICK y : y = IF Cv!Shown(c, id).e # 0 \/ e2 # 0 THEN {e2} ELSE c.pendLine
    OBVIOUS
  <2>c. PICK l : l = Cv!With(c.list, id, d)
    OBVIOUS
  <2>d. PICK ps : ps = c.puts \cup {p}
    OBVIOUS
  <2>m. PICK m : m = [c EXCEPT !.pend = x, !.pendLine = y, !.list = l, !.puts = ps]
    OBVIOUS
  <2>1. q = Cv!Reconcile(m)
    BY <1>2, <1>a, <1>b, <1>d, <1>p, <2>a, <2>b, <2>c, <2>d, <2>m DEF Cv!Saved
  <2>2. Rec(m, CanvasFields) /\ m.srv = c.srv /\ m.feed = c.feed /\ m.puts = ps /\ m.own = c.own /\ m.loaded = c.loaded
    BY <2>m DEF StoreOk, Rec, CanvasFields
  <2>3. SameHand(m, c) /\ SameDrawn(m, c)
    BY <2>m DEF StoreOk, Rec, CanvasFields, SameHand, SameDrawn
  <2>4. PutsOk(ps)
    <3>1. p.id = Cv!GEO => p.d.n = Cv!NoDots
      BY <1>p, <1>d DEF Cv!Put, Cv!Drawing
    <3> QED BY <3>1, <2>d DEF StoreOk, PutsOk
  <2>5. StoreOk(m)
    BY <2>2, <2>4, <2>d DEF StoreOk, Listed3
  <2>6. AlikeBut(q, m)
    BY <2>1, <2>2, ReconcileIs
  <2>7. StoreOk(q) /\ SameHand(q, m) /\ q.own = m.own
    BY <2>5, <2>6, AlikeOk
  <2>8. q.loaded = m.loaded => Keeps(q, m)
    BY <2>1, <2>2, ReconcileKeeps
  <2>9. SameHand(q, c)
    BY <2>7, <2>3 DEF SameHand
  <2>10. q.loaded = c.loaded => Keeps(q, c)
    BY <2>8, <2>3, HandUntouched, UntouchedKeeps
  <2> QED BY <2>7, <2>9, <2>10, <2>2
<1> QED BY <1>1, <1>2

---------------------------------------------------------------------------
\* A step keeps the invariant, and what is in hand but for the gesture's own.
StepOk(q, c) == CanvasOk(q) /\ (Cv!OwnMove \/ (q.loaded = c.loaded => Keeps(q, c)))

LEMMA PassIs == ASSUME NEW m, CanvasOk(m), NEW q, q = Cv!Reconcile(m)
                PROVE  CanvasOk(q) /\ q.own = m.own /\ (q.loaded = m.loaded => Keeps(q, m))
<1>1. Rec(m, CanvasFields)
  BY DEF CanvasOk, StoreOk
<1>2. AlikeBut(q, m)
  BY <1>1, ReconcileIs
<1>3. StoreOk(q) /\ SameHand(q, m) /\ q.own = m.own
  BY <1>2, AlikeOk DEF CanvasOk
<1>4. CanvasOk(q)
  BY <1>3, HandSame DEF CanvasOk
<1>5. q.loaded = m.loaded => Keeps(q, m)
  BY <1>1, ReconcileKeeps
<1> QED BY <1>3, <1>4, <1>5
\* A change of what is not drawn, and its pass.
LEMMA OwnPass == ASSUME CanvasInv, NEW m, CanvasOk(m), Untouched(m, at), at' = Cv!Reconcile(m) PROVE StepOk(at', at)
<1>1. CanvasOk(at') /\ (at'.loaded = m.loaded => Keeps(at', m))
  BY PassIs
<1> QED BY <1>1, UntouchedKeeps DEF StepOk
LEMMA NoPass == ASSUME CanvasInv, Rec(at', CanvasFields), SameStore(at', at), at'.own \in Int,
  HandOk(at'.busy, at'.busyLine, at'.drag, at'.slide, at'.dots), Cv!OwnMove \/ Keeps(at', at) PROVE StepOk(at', at)
<1>1. StoreOk(at')
  BY StoreSame DEF CanvasInv, CanvasOk
<1> QED BY <1>1 DEF StepOk, CanvasOk
\* One act fewer.
LEMMA Spent == ASSUME NEW d, CanvasOk(d), NEW q, q = [d EXCEPT !.own = @ - 1] PROVE CanvasOk(q) /\ SameDrawn(q, d) /\ SameHand(q, d)
<1>1. Rec(q, CanvasFields) /\ q.own = d.own - 1 /\ d.own \in Int
  BY DEF CanvasOk, StoreOk, Rec, CanvasFields
<1>2. SameStore(q, d) /\ SameHand(q, d) /\ SameDrawn(q, d)
  BY DEF CanvasOk, StoreOk, Rec, CanvasFields, SameStore, SameHand, SameDrawn
<1>3. StoreOk(q)
  <2>1. StoreOk(d) /\ q.own \in Int
    BY <1>1 DEF CanvasOk
  <2> QED BY <2>1, <1>1, <1>2, StoreSame
<1>4. CanvasOk(q)
  BY <1>2, <1>3, HandSame DEF CanvasOk
<1> QED BY <1>2, <1>4

LEMMA FrameStep == CanvasInv /\ Cv!Frame => StepOk(at', at)
<1> SUFFICES ASSUME CanvasInv, Cv!Frame PROVE StepOk(at', at)
  OBVIOUS
<1>a. PICK l : l = Head(at.feed)
  OBVIOUS
<1>b. PICK f : f = Tail(at.feed)
  OBVIOUS
<1>m. PICK m : m = [at EXCEPT !.list = l, !.known = TRUE, !.feed = f, !.failed = FALSE]
  OBVIOUS
<1>1. at' = Cv!Reconcile(m) /\ at.feed # <<>>
  BY <1>a, <1>b, <1>m DEF Cv!Frame
<1>2. Rec(m, CanvasFields) /\ m.srv = at.srv /\ m.list = l /\ m.feed = f /\ m.puts = at.puts /\ m.own = at.own
  BY <1>m DEF CanvasInv, CanvasOk, StoreOk, Rec, CanvasFields
<1>3. SameHand(m, at) /\ SameDrawn(m, at)
  BY <1>m DEF CanvasInv, CanvasOk, StoreOk, Rec, CanvasFields, SameHand, SameDrawn
<1>4. FeedOk(f, at.srv) /\ (f = <<>> => l = at.srv)
  BY <1>1, <1>a, <1>b, FeedTail DEF CanvasInv, CanvasOk, StoreOk
<1>5. StoreOk(m)
  BY <1>2, <1>4 DEF CanvasInv, CanvasOk, StoreOk, Listed3
<1>6. CanvasOk(m)
  BY <1>3, <1>5, HandSame DEF CanvasInv, CanvasOk
<1> QED BY <1>1, <1>3, <1>6, HandUntouched, OwnPass

LEMMA FirstListStep == CanvasInv /\ Cv!FirstList => StepOk(at', at)
<1> SUFFICES ASSUME CanvasInv, Cv!FirstList PROVE StepOk(at', at)
  OBVIOUS
<1>a. PICK f : f = <<at.srv>>
  OBVIOUS
<1>1. at' = [at EXCEPT !.feed = f]
  BY <1>a DEF Cv!FirstList
<1>2. Rec(at', CanvasFields) /\ at'.srv = at.srv /\ at'.feed = f /\ at'.list = at.list /\ at'.own = at.own /\ at'.puts = at.puts
  BY <1>1 DEF CanvasInv, CanvasOk, StoreOk, Rec, CanvasFields
<1>3. SameHand(at', at) /\ SameDrawn(at', at)
  BY <1>1 DEF CanvasInv, CanvasOk, StoreOk, Rec, CanvasFields, SameHand, SameDrawn
<1>4. FeedOk(f, at.srv) /\ f # <<>>
  BY <1>a, FeedFirst
<1>5. StoreOk(at')
  BY <1>2, <1>4 DEF CanvasInv, CanvasOk, StoreOk, Listed3
<1>6. CanvasOk(at')
  BY <1>3, <1>5, HandSame DEF CanvasInv, CanvasOk
<1> QED BY <1>3, <1>6, DrawnKeeps DEF StepOk

LEMMA SlowListStep == CanvasInv /\ Cv!SlowList => StepOk(at', at)
<1> SUFFICES ASSUME CanvasInv, Cv!SlowList PROVE StepOk(at', at)
  OBVIOUS
<1>m. PICK m : m = [at EXCEPT !.slow = TRUE]
  OBVIOUS
<1>1. at' = Cv!Reconcile(m)
  BY <1>m DEF Cv!SlowList
<1>2. Rec(m, CanvasFields) /\ m.own = at.own /\ m.list = at.list
  BY <1>m DEF CanvasInv, CanvasOk, StoreOk, Rec, CanvasFields
<1>3. SameHand(m, at) /\ SameStore(m, at) /\ SameDrawn(m, at)
  BY <1>m DEF CanvasInv, CanvasOk, StoreOk, Rec, CanvasFields, SameHand, SameStore, SameDrawn
<1>4. CanvasOk(m)
  <2>1. StoreOk(at) /\ at.own \in Int
    BY DEF CanvasInv, CanvasOk, StoreOk
  <2>2. StoreOk(m)
    BY <2>1, <1>2, <1>3, StoreSame
  <2> QED BY <2>2, <1>3, HandSame DEF CanvasInv, CanvasOk
<1> QED BY <1>1, <1>3, <1>4, HandUntouched, OwnPass

LEMMA MeshStep == CanvasInv /\ Cv!MeshChanges => StepOk(at', at)
<1> SUFFICES ASSUME CanvasInv, Cv!MeshChanges PROVE StepOk(at', at)
  OBVIOUS
<1>d. PICK dots \in {DotKeys, {"a"}} : \E linked \in {dots = DotKeys} :
        dots # at.dots /\ at' = Cv!Reconcile([at EXCEPT !.dots = dots, !.linked = linked, !.own = @ - 1])
  BY DEF Cv!MeshChanges
<1>l. PICK linked : at' = Cv!Reconcile([at EXCEPT !.dots = dots, !.linked = linked, !.own = @ - 1])
  BY <1>d
<1>m. PICK m : m = [at EXCEPT !.dots = dots, !.linked = linked, !.own = @ - 1]
  OBVIOUS
<1>1. at' = Cv!Reconcile(m)
  BY <1>m, <1>l
<1>2. Rec(m, CanvasFields) /\ m.own = at.own - 1 /\ m.busy = at.busy /\ m.busyLine = at.busyLine /\ m.drag = at.drag
      /\ m.slide = at.slide /\ m.dots = dots
  BY <1>m DEF CanvasInv, CanvasOk, StoreOk, Rec, CanvasFields
<1>3. SameStore(m, at) /\ Untouched(m, at)
  BY <1>m DEF CanvasInv, CanvasOk, StoreOk, Rec, CanvasFields, SameStore, SameDrawn, Untouched
<1>4. at.own \in Int /\ StoreOk(at)
  BY DEF CanvasInv, CanvasOk, StoreOk
<1>5. StoreOk(m)
  BY <1>2, <1>3, <1>4, StoreSame
<1>6. dots \subseteq DotKeys
  BY CanvasAssumption
<1>7. HandOk(m.busy, m.busyLine, m.drag, m.slide, m.dots)
  BY <1>2, <1>6 DEF CanvasInv, CanvasOk, HandOk
<1>8. CanvasOk(m)
  BY <1>5, <1>7 DEF CanvasOk
<1> QED BY <1>1, <1>3, <1>8, OwnPass

LEMMA ExpireStep == CanvasInv /\ Cv!Expire1 => StepOk(at', at)
<1> SUFFICES ASSUME CanvasInv, Cv!Expire1 PROVE StepOk(at', at)
  OBVIOUS
<1>o. PICK old, oldLine : at' = Cv!Reconcile([at EXCEPT !.pend = Cv!Restrict(@, DOMAIN @ \ old), !.pendLine = @ \ oldLine])
  BY DEF Cv!Expire1
<1>a. PICK x : x = Cv!Restrict(at.pend, DOMAIN at.pend \ old)
  OBVIOUS
<1>b. PICK y : y = at.pendLine \ oldLine
  OBVIOUS
<1>m. PICK m : m = [at EXCEPT !.pend = x, !.pendLine = y]
  OBVIOUS
<1>1. at' = Cv!Reconcile(m)
  BY <1>m, <1>a, <1>b, <1>o
<1>2. Rec(m, CanvasFields) /\ m.own = at.own /\ m.list = at.list
  BY <1>m DEF CanvasInv, CanvasOk, StoreOk, Rec, CanvasFields
<1>3. SameHand(m, at) /\ SameStore(m, at) /\ SameDrawn(m, at)
  BY <1>m DEF CanvasInv, CanvasOk, StoreOk, Rec, CanvasFields, SameHand, SameStore, SameDrawn
<1>4. CanvasOk(m)
  <2>1. StoreOk(at) /\ at.own \in Int
    BY DEF CanvasInv, CanvasOk, StoreOk
  <2>2. StoreOk(m)
    BY <2>1, <1>2, <1>3, StoreSame
  <2> QED BY <2>2, <1>3, HandSame DEF CanvasInv, CanvasOk
<1> QED BY <1>1, <1>3, <1>4, HandUntouched, OwnPass

---------------------------------------------------------------------------
LEMMA StoreFailsStep == CanvasInv /\ Cv!StoreFails => StepOk(at', at)
<1> SUFFICES ASSUME CanvasInv, Cv!StoreFails PROVE StepOk(at', at)
  OBVIOUS
<1>p. PICK p : p \in at.puts /\ at' = [at EXCEPT !.puts = @ \ {p}, !.fails = @ - 1, !.failed = TRUE]
  BY DEF Cv!StoreFails
<1>a. PICK ps : ps = at.puts \ {p}
  OBVIOUS
<1>f. PICK fl : fl = at.fails - 1
  OBVIOUS
<1>1. at' = [at EXCEPT !.puts = ps, !.fails = fl, !.failed = TRUE]
  BY <1>p, <1>a, <1>f
<1>2. Rec(at', CanvasFields) /\ at'.srv = at.srv /\ at'.feed = at.feed /\ at'.list = at.list /\ at'.own = at.own /\ at'.puts = ps
      /\ at'.failed = TRUE
  BY <1>1 DEF CanvasInv, CanvasOk, StoreOk, Rec, CanvasFields
<1>3. SameHand(at', at) /\ SameDrawn(at', at)
  BY <1>1 DEF CanvasInv, CanvasOk, StoreOk, Rec, CanvasFields, SameHand, SameDrawn
<1>4. PutsOk(ps)
  BY <1>a DEF CanvasInv, CanvasOk, StoreOk, PutsOk
<1>5. StoreOk(at')
  BY <1>2, <1>4 DEF CanvasInv, CanvasOk, StoreOk, Listed3
<1>6. CanvasOk(at')
  BY <1>3, <1>5, HandSame DEF CanvasInv, CanvasOk
<1> QED BY <1>3, <1>6, DrawnKeeps DEF StepOk

\* What the node stores keeps the map without dots.
LEMMA WithMap == ASSUME NEW srv, MapOk(srv), NEW id, NEW d, id = Cv!GEO => d.n = Cv!NoDots PROVE MapOk(Cv!With(srv, id, d))
BY DEF MapOk, Cv!With
LEMMA RestrictMap == ASSUME NEW srv, MapOk(srv), NEW S, S \subseteq DOMAIN srv PROVE MapOk(Cv!Restrict(srv, S))
BY DEF MapOk, Cv!Restrict

\* The node stores srv; what is listed, and in hand, is left as it was.
LEMMA ToldAll == ASSUME NEW m, StoreOk(m), NEW srv, MapOk(srv), NEW q, q = Cv!Change(m, srv)
                  PROVE  StoreOk(q) /\ SameHand(q, m) /\ SameDrawn(q, m) /\ q.own = m.own
<1>1. Told(q, m, srv)
  BY Changes DEF StoreOk
<1>2. StoreOk(q)
  BY <1>1 DEF StoreOk, Listed3, Told
<1> QED BY <1>1, <1>2 DEF Told
LEMMA StoreStep == CanvasInv /\ Cv!Store => StepOk(at', at)
<1> SUFFICES ASSUME CanvasInv, Cv!Store PROVE StepOk(at', at)
  OBVIOUS
<1>p. PICK p : p \in at.puts /\ at' = Cv!Change([at EXCEPT !.puts = @ \ {p}], Cv!With(at.srv, p.id, p.d))
  BY DEF Cv!Store
<1>a. PICK ps : ps = at.puts \ {p}
  OBVIOUS
<1>s. PICK srv : srv = Cv!With(at.srv, p.id, p.d)
  OBVIOUS
<1>m. PICK m : m = [at EXCEPT !.puts = ps]
  OBVIOUS
<1>1. at' = Cv!Change(m, srv)
  BY <1>p, <1>a, <1>s, <1>m
<1>2. MapOk(srv)
  <2>i. PICK id : id = p.id
    OBVIOUS
  <2>d. PICK d : d = p.d
    OBVIOUS
  <2>1. id = Cv!GEO => d.n = Cv!NoDots
    BY <1>p, <2>i, <2>d DEF CanvasInv, CanvasOk, StoreOk, PutsOk
  <2>2. MapOk(at.srv)
    BY DEF CanvasInv, CanvasOk, StoreOk
  <2>t. PICK t : t = at.srv
    OBVIOUS
  <2>3. MapOk(Cv!With(t, id, d))
    BY <2>1, <2>2, <2>t, WithMap
  <2> QED BY <2>3, <1>s, <2>i, <2>d, <2>t
<1>3. Rec(m, CanvasFields) /\ m.srv = at.srv /\ m.feed = at.feed /\ m.own = at.own /\ m.list = at.list /\ m.puts = ps
  BY <1>m DEF CanvasInv, CanvasOk, StoreOk, Rec, CanvasFields
<1>4. SameHand(m, at) /\ SameDrawn(m, at)
  BY <1>m DEF CanvasInv, CanvasOk, StoreOk, Rec, CanvasFields, SameHand, SameDrawn
<1>5. FeedOk(m.feed, m.srv)
  BY <1>3 DEF CanvasInv, CanvasOk, StoreOk
<1>6. Told(at', m, srv)
  BY <1>1, <1>3, <1>5, Changes
<1>10. PutsOk(ps)
  BY <1>a DEF CanvasInv, CanvasOk, StoreOk, PutsOk
<1>11. at.own \in Int
  BY DEF CanvasInv, CanvasOk, StoreOk
<1>12. StoreOk(at')
  BY <1>6, <1>3, <1>10, <1>2, <1>11 DEF StoreOk, Listed3, Told
<1>13. SameHand(at', at) /\ SameDrawn(at', at)
  BY <1>6, <1>4 DEF SameHand, SameDrawn, Told
<1>14. CanvasOk(at')
  BY <1>13, <1>12, HandSame DEF CanvasInv, CanvasOk
<1> QED BY <1>13, <1>14, DrawnKeeps DEF StepOk

LEMMA OtherStep == CanvasInv /\ Cv!OtherSession => StepOk(at', at)
<1> SUFFICES ASSUME CanvasInv, Cv!OtherSession PROVE StepOk(at', at)
  OBVIOUS
<1>o. PICK o : o = at.other - 1
  OBVIOUS
<1>m. PICK m : m = [at EXCEPT !.other = o]
  OBVIOUS
<1>1. Rec(m, CanvasFields) /\ m.own = at.own
  BY <1>m DEF CanvasInv, CanvasOk, StoreOk, Rec, CanvasFields
<1>2. SameHand(m, at) /\ SameStore(m, at) /\ SameDrawn(m, at)
  BY <1>m DEF CanvasInv, CanvasOk, StoreOk, Rec, CanvasFields, SameHand, SameStore, SameDrawn
<1>3. StoreOk(at) /\ at.own \in Int
  BY DEF CanvasInv, CanvasOk, StoreOk
<1>4. StoreOk(m)
  BY <1>1, <1>2, <1>3, StoreSame
<1>5. \E srv : MapOk(srv) /\ at' = Cv!Change(m, srv)
  <2>t. PICK t : t = at.srv
    OBVIOUS
  <2>1. MapOk(t)
    BY <2>t DEF CanvasInv, CanvasOk, StoreOk
  <2>c. PICK id \in DOMAIN at.srv :
          \/ \E d \in {Cv!Drawing(IF id = Cv!GEO THEN Cv!NoDots ELSE [k \in {"a"} |-> 2], 1)} :
               at' = Cv!Change([at EXCEPT !.other = @ - 1], Cv!With(at.srv, id, d))
          \/ id # Cv!GEO /\ at' = Cv!Change([at EXCEPT !.other = @ - 1], Cv!Restrict(at.srv, DOMAIN at.srv \ {id}))
    BY DEF Cv!OtherSession
  <2>2. CASE \E d \in {Cv!Drawing(IF id = Cv!GEO THEN Cv!NoDots ELSE [k \in {"a"} |-> 2], 1)} :
               at' = Cv!Change([at EXCEPT !.other = @ - 1], Cv!With(at.srv, id, d))
    <3>d. PICK d : /\ d = Cv!Drawing(IF id = Cv!GEO THEN Cv!NoDots ELSE [k \in {"a"} |-> 2], 1)
                   /\ at' = Cv!Change([at EXCEPT !.other = @ - 1], Cv!With(at.srv, id, d))
      BY <2>2
    <3>1. id = Cv!GEO => d.n = Cv!NoDots
      BY <3>d DEF Cv!Drawing
    <3>2. MapOk(Cv!With(t, id, d))
      BY <2>1, <3>1, WithMap
    <3> QED BY <3>d, <3>2, <1>m, <1>o, <2>t
  <2>3. CASE at' = Cv!Change([at EXCEPT !.other = @ - 1], Cv!Restrict(at.srv, DOMAIN at.srv \ {id}))
    <3>s. PICK S : S = DOMAIN at.srv \ {id}
      OBVIOUS
    <3>1. MapOk(Cv!Restrict(t, S))
      BY <2>1, <2>t, <3>s, RestrictMap
    <3> QED BY <2>3, <3>s, <3>1, <1>m, <1>o, <2>t
  <2> QED BY <2>c, <2>2, <2>3
<1>s. PICK srv : MapOk(srv) /\ at' = Cv!Change(m, srv)
  BY <1>5
<1>6. StoreOk(at') /\ SameHand(at', m) /\ SameDrawn(at', m)
  BY <1>s, <1>4, ToldAll
<1>7. SameHand(at', at) /\ SameDrawn(at', at)
  BY <1>6, <1>2 DEF SameHand, SameDrawn
<1>8. CanvasOk(at')
  BY <1>6, <1>7, HandSame DEF CanvasInv, CanvasOk
<1> QED BY <1>7, <1>8, DrawnKeeps DEF StepOk

---------------------------------------------------------------------------
\* Dragging: what is in hand is dragged, or slides to its place.
LEMMA Distinct == "line" \notin DotKeys /\ Cv!None2 \notin DotKeys /\ "line" # Cv!None2
BY CanvasAssumption DEF Cv!None2
LEMMA HandIs == ASSUME CanvasInv PROVE HandOk(at.busy, at.busyLine, at.drag, at.slide, at.dots) /\ at.own \in Int /\ Rec(at, CanvasFields) /\ StoreOk(at)
BY DEF CanvasInv, CanvasOk, StoreOk
LEMMA GrabDotStep == CanvasInv /\ Cv!GrabDot => StepOk(at', at)
<1> SUFFICES ASSUME CanvasInv, Cv!GrabDot PROVE StepOk(at', at)
  OBVIOUS
<1>k. PICK k \in at.dots : at' = [at EXCEPT !.drag = k, !.moved = FALSE, !.start = at.pos[k], !.busy = @ \cup {k}, !.own = @ - 1]
  BY DEF Cv!GrabDot
<1>s. PICK s : s = at.pos[k]
  OBVIOUS
<1>b. PICK b : b = at.busy \cup {k}
  OBVIOUS
<1>o. PICK o : o = at.own - 1
  OBVIOUS
<1>1. at' = [at EXCEPT !.drag = k, !.moved = FALSE, !.start = s, !.busy = b, !.own = o]
  BY <1>k, <1>s, <1>b, <1>o
<1>2. Rec(at', CanvasFields) /\ at'.drag = k /\ at'.busy = b /\ at'.busyLine = at.busyLine /\ at'.slide = at.slide
      /\ at'.dots = at.dots /\ at'.own = o
  BY <1>1, HandIs DEF Rec, CanvasFields
<1>3. SameStore(at', at) /\ SameDrawn(at', at)
  BY <1>1, HandIs DEF Rec, CanvasFields, SameStore, SameDrawn
<1>4. at.drag = Cv!None2
  BY DEF Cv!GrabDot, Cv!CanDrag
<1>5. HandOk(b, at.busyLine, k, at.slide, at.dots)
  BY <1>k, <1>b, <1>4, HandIs, Distinct DEF HandOk
<1>6. at'.own \in Int
  BY <1>2, <1>o, HandIs
<1> QED BY <1>2, <1>3, <1>5, <1>6, DrawnKeeps, NoPass
LEMMA MoveDotStep == CanvasInv /\ Cv!MoveDot => StepOk(at', at)
<1> SUFFICES ASSUME CanvasInv, Cv!MoveDot PROVE StepOk(at', at)
  OBVIOUS
<1>k. PICK k \in at.dots \cap {at.drag} : at' = [at EXCEPT !.pos = [x \in DOMAIN @ \cup {k} |-> IF x = k THEN 2 ELSE @[x]], !.moved = TRUE]
  BY DEF Cv!MoveDot
<1>p. PICK p : p = [x \in DOMAIN at.pos \cup {k} |-> IF x = k THEN 2 ELSE at.pos[x]]
  OBVIOUS
<1>1. at' = [at EXCEPT !.pos = p, !.moved = TRUE]
  BY <1>k, <1>p
<1>2. Rec(at', CanvasFields) /\ at'.own = at.own
  BY <1>1, HandIs DEF Rec, CanvasFields
<1>3. SameStore(at', at) /\ SameHand(at', at)
  BY <1>1, HandIs DEF Rec, CanvasFields, SameStore, SameHand
<1>6. at'.own \in Int /\ HandOk(at'.busy, at'.busyLine, at'.drag, at'.slide, at'.dots)
  BY <1>2, <1>3, HandIs, HandSame
<1> QED BY <1>2, <1>3, <1>6, NoPass DEF Cv!OwnMove
LEMMA DropDotStep == CanvasInv /\ Cv!DropDot => StepOk(at', at)
<1> SUFFICES ASSUME CanvasInv, Cv!DropDot PROVE StepOk(at', at)
  OBVIOUS
<1>k. PICK k \in DotKeys \cap {at.drag} :
        IF ~at.moved THEN at' = [at EXCEPT !.drag = Cv!None2, !.busy = @ \ {k}]
        ELSE at' = [at EXCEPT !.drag = Cv!None2, !.moved = FALSE,
                              !.slide = @ \cup {[k |-> k, to |-> IF k \in DOMAIN at.pos THEN at.pos[k] ELSE at.start]}]
  BY DEF Cv!DropDot
<1>n. PICK n : n = Cv!None2
  OBVIOUS
<1>7. ~at.busyLine
  BY <1>k, HandIs, Distinct DEF HandOk
<1>1. CASE ~at.moved
  <2>b. PICK b : b = at.busy \ {k}
    OBVIOUS
  <2>1. at' = [at EXCEPT !.drag = n, !.busy = b]
    BY <1>1, <1>k, <1>n, <2>b
  <2>2. Rec(at', CanvasFields) /\ at'.drag = n /\ at'.busy = b /\ at'.busyLine = at.busyLine /\ at'.slide = at.slide
        /\ at'.dots = at.dots /\ at'.own = at.own
    BY <2>1, HandIs DEF Rec, CanvasFields
  <2>3. SameStore(at', at) /\ SameDrawn(at', at)
    BY <2>1, HandIs DEF Rec, CanvasFields, SameStore, SameDrawn
  <2>4. HandOk(b, at.busyLine, n, at.slide, at.dots)
    BY <1>k, <1>7, <2>b, HandIs DEF HandOk
  <2>5. at'.own \in Int
    BY <2>2, HandIs
  <2> QED BY <2>2, <2>3, <2>4, <2>5, DrawnKeeps, NoPass
<1>2. CASE at.moved
  <2>s. PICK s : s = [k |-> k, to |-> IF k \in DOMAIN at.pos THEN at.pos[k] ELSE at.start]
    OBVIOUS
  <2>b. PICK b : b = at.slide \cup {s}
    OBVIOUS
  <2>1. at' = [at EXCEPT !.drag = n, !.moved = FALSE, !.slide = b]
    BY <1>2, <1>k, <1>n, <2>b, <2>s
  <2>2. Rec(at', CanvasFields) /\ at'.drag = n /\ at'.busy = at.busy /\ at'.busyLine = at.busyLine /\ at'.slide = b
        /\ at'.dots = at.dots /\ at'.own = at.own
    BY <2>1, HandIs DEF Rec, CanvasFields
  <2>3. SameStore(at', at) /\ SameDrawn(at', at)
    BY <2>1, HandIs DEF Rec, CanvasFields, SameStore, SameDrawn
  <2>6. s.k = k
    BY <2>s
  <2>4. HandOk(at.busy, at.busyLine, n, b, at.dots)
    BY <1>k, <1>7, <2>b, <2>6, HandIs DEF HandOk
  <2>5. at'.own \in Int
    BY <2>2, HandIs
  <2> QED BY <2>2, <2>3, <2>4, <2>5, DrawnKeeps, NoPass
<1> QED BY <1>1, <1>2
LEMMA SlidStep == CanvasInv /\ Cv!Slid => StepOk(at', at)
<1> SUFFICES ASSUME CanvasInv, Cv!Slid PROVE StepOk(at', at)
  OBVIOUS
<1>s. PICK s \in at.slide :
        \E pos \in {[k \in DOMAIN at.pos \cup {s.k} |-> IF k = s.k THEN s.to ELSE at.pos[k]]} :
          \E c \in {[at EXCEPT !.slide = @ \ {s}, !.pos = pos, !.busy = @ \ {s.k}]} : at' = Cv!Saved(c, pos, c.line)
  BY DEF Cv!Slid
<1>p. PICK pos, c : c = [at EXCEPT !.slide = @ \ {s}, !.pos = pos, !.busy = @ \ {s.k}] /\ at' = Cv!Saved(c, pos, c.line)
  BY <1>s
<1>l. PICK sl : sl = at.slide \ {s}
  OBVIOUS
<1>b. PICK b : b = at.busy \ {s.k}
  OBVIOUS
<1>1. c = [at EXCEPT !.slide = sl, !.pos = pos, !.busy = b]
  BY <1>p, <1>l, <1>b
<1>2. Rec(c, CanvasFields) /\ c.busy = b /\ c.busyLine = at.busyLine /\ c.drag = at.drag /\ c.slide = sl
      /\ c.dots = at.dots /\ c.own = at.own
  BY <1>1, HandIs DEF Rec, CanvasFields
<1>3. SameStore(c, at)
  BY <1>1, HandIs DEF Rec, CanvasFields, SameStore
<1>4. StoreOk(c)
  <2>1. c.own \in Int /\ StoreOk(at)
    BY <1>2, HandIs
  <2> QED BY <2>1, <1>2, <1>3, StoreSame
<1>e. PICK e : e = c.line
  OBVIOUS
<1>5. StoreOk(at') /\ SameHand(at', c)
  BY <1>p, <1>e, <1>4, SavedIs
<1>6. HandOk(b, at.busyLine, at.drag, sl, at.dots)
  BY <1>b, <1>l, HandIs DEF HandOk
<1>7. CanvasOk(at')
  BY <1>2, <1>5, <1>6 DEF CanvasOk, SameHand
<1> QED BY <1>7 DEF StepOk, Cv!OwnMove
\* A slide of another session's moves, in hand or not.
LEMMA AnimateStep == CanvasInv /\ Cv!Animate => StepOk(at', at)
<1> SUFFICES ASSUME CanvasInv, Cv!Animate PROVE StepOk(at', at)
  OBVIOUS
<1>k. PICK k \in DOMAIN at.anim : \E x \in {Cv!ON_THE_WAY, at.anim[k]} :
        at' = [at EXCEPT !.pos = [y \in DOMAIN @ \cup {k} |-> IF y = k THEN x ELSE @[y]],
                         !.anim = IF x = Cv!ON_THE_WAY THEN @ ELSE Cv!Restrict(@, DOMAIN @ \ {k})]
  BY DEF Cv!Animate
<1>x. PICK x : at' = [at EXCEPT !.pos = [y \in DOMAIN @ \cup {k} |-> IF y = k THEN x ELSE @[y]],
                                !.anim = IF x = Cv!ON_THE_WAY THEN @ ELSE Cv!Restrict(@, DOMAIN @ \ {k})]
  BY <1>k
<1>p. PICK p : p = [y \in DOMAIN at.pos \cup {k} |-> IF y = k THEN x ELSE at.pos[y]]
  OBVIOUS
<1>a. PICK a : a = IF x = Cv!ON_THE_WAY THEN at.anim ELSE Cv!Restrict(at.anim, DOMAIN at.anim \ {k})
  OBVIOUS
<1>1. at' = [at EXCEPT !.pos = p, !.anim = a]
  BY <1>x, <1>p, <1>a
<1>2. Rec(at', CanvasFields) /\ at'.own = at.own /\ at'.pos = p /\ at'.anim = a /\ at'.line = at.line
  BY <1>1, HandIs DEF Rec, CanvasFields
<1>3. SameStore(at', at) /\ SameHand(at', at)
  BY <1>1, HandIs DEF Rec, CanvasFields, SameStore, SameHand
<1>4. DOMAIN a \subseteq DOMAIN at.anim
  BY <1>a DEF Cv!Restrict
<1>5. Keeps(at', at)
  <2>1. ASSUME NEW y \in (at.busy \cap DOMAIN at.pos) \ DOMAIN at.anim PROVE y \in DOMAIN p /\ p[y] = at.pos[y] /\ y \notin DOMAIN a
    BY <1>4, <1>p
  <2> QED BY <2>1, <1>2 DEF Keeps
<1>6. at'.own \in Int /\ HandOk(at'.busy, at'.busyLine, at'.drag, at'.slide, at'.dots)
  BY <1>2, <1>3, HandIs, HandSame
<1> QED BY <1>2, <1>3, <1>5, <1>6, NoPass
LEMMA CancelStep == CanvasInv /\ Cv!CancelDrag => StepOk(at', at)
<1> SUFFICES ASSUME CanvasInv, Cv!CancelDrag PROVE StepOk(at', at)
  OBVIOUS
<1>k. PICK k \in {at.drag} :
        at' = [at EXCEPT !.drag = Cv!None2, !.moved = FALSE, !.busy = @ \ {k}, !.busyLine = FALSE,
                         !.pos = IF k = "line" THEN @ ELSE [x \in DOMAIN @ \cup {k} |-> IF x = k THEN at.start ELSE @[x]]]
  BY DEF Cv!CancelDrag
<1>n. PICK n : n = Cv!None2
  OBVIOUS
<1>b. PICK b : b = at.busy \ {k}
  OBVIOUS
<1>p. PICK p : p = IF k = "line" THEN at.pos ELSE [x \in DOMAIN at.pos \cup {k} |-> IF x = k THEN at.start ELSE at.pos[x]]
  OBVIOUS
<1>1. at' = [at EXCEPT !.drag = n, !.moved = FALSE, !.busy = b, !.busyLine = FALSE, !.pos = p]
  BY <1>k, <1>n, <1>b, <1>p
<1>2. Rec(at', CanvasFields) /\ at'.drag = n /\ at'.busy = b /\ at'.busyLine = FALSE /\ at'.slide = at.slide
      /\ at'.dots = at.dots /\ at'.own = at.own
  BY <1>1, HandIs DEF Rec, CanvasFields
<1>3. SameStore(at', at)
  BY <1>1, HandIs DEF Rec, CanvasFields, SameStore
<1>5. HandOk(b, FALSE, n, at.slide, at.dots)
  BY <1>k, <1>b, HandIs DEF HandOk
<1>6. at'.own \in Int
  BY <1>2, HandIs
<1> QED BY <1>2, <1>3, <1>5, <1>6, NoPass DEF Cv!OwnMove
LEMMA GrabLineStep == CanvasInv /\ Cv!GrabLine => StepOk(at', at)
<1> SUFFICES ASSUME CanvasInv, Cv!GrabLine PROVE StepOk(at', at)
  OBVIOUS
<1>o. PICK o : o = at.own - 1
  OBVIOUS
<1>1. at' = [at EXCEPT !.drag = "line", !.moved = FALSE, !.busyLine = TRUE, !.own = o]
  BY <1>o DEF Cv!GrabLine
<1>2. Rec(at', CanvasFields) /\ at'.drag = "line" /\ at'.busy = at.busy /\ at'.busyLine = TRUE /\ at'.slide = at.slide
      /\ at'.dots = at.dots /\ at'.own = o
  BY <1>1, HandIs DEF Rec, CanvasFields
<1>3. SameStore(at', at) /\ SameDrawn(at', at)
  BY <1>1, HandIs DEF Rec, CanvasFields, SameStore, SameDrawn
<1>4. at.drag = Cv!None2
  BY DEF Cv!GrabLine, Cv!CanDrag
<1>5. HandOk(at.busy, TRUE, "line", at.slide, at.dots)
  BY <1>4, HandIs, Distinct DEF HandOk
<1>6. at'.own \in Int
  BY <1>2, <1>o, HandIs
<1> QED BY <1>2, <1>3, <1>5, <1>6, DrawnKeeps, NoPass
LEMMA MoveLineStep == CanvasInv /\ Cv!MoveLine => StepOk(at', at)
<1> SUFFICES ASSUME CanvasInv, Cv!MoveLine PROVE StepOk(at', at)
  OBVIOUS
<1>1. at' = [at EXCEPT !.line = 2, !.moved = TRUE]
  BY DEF Cv!MoveLine
<1>2. Rec(at', CanvasFields) /\ at'.own = at.own
  BY <1>1, HandIs DEF Rec, CanvasFields
<1>3. SameStore(at', at) /\ SameHand(at', at)
  BY <1>1, HandIs DEF Rec, CanvasFields, SameStore, SameHand
<1>6. at'.own \in Int /\ HandOk(at'.busy, at'.busyLine, at'.drag, at'.slide, at'.dots)
  BY <1>2, <1>3, HandIs, HandSame
<1> QED BY <1>2, <1>3, <1>6, NoPass DEF Cv!OwnMove
LEMMA DropLineStep == CanvasInv /\ Cv!DropLine => StepOk(at', at)
<1> SUFFICES ASSUME CanvasInv, Cv!DropLine PROVE StepOk(at', at)
  OBVIOUS
<1>n. PICK n : n = Cv!None2
  OBVIOUS
<1>m. PICK m : m = [at EXCEPT !.drag = n, !.moved = FALSE, !.busyLine = FALSE]
  OBVIOUS
<1>1. at' = IF at.moved THEN Cv!Saved(m, m.pos, m.line) ELSE m
  BY <1>n, <1>m DEF Cv!DropLine
<1>2. Rec(m, CanvasFields) /\ m.busy = at.busy /\ m.busyLine = FALSE /\ m.drag = n /\ m.slide = at.slide
      /\ m.dots = at.dots /\ m.own = at.own
  BY <1>m, HandIs DEF Rec, CanvasFields
<1>3. SameStore(m, at) /\ SameDrawn(m, at)
  BY <1>m, HandIs DEF Rec, CanvasFields, SameStore, SameDrawn
<1>4. StoreOk(m)
  <2>1. m.own \in Int /\ StoreOk(at)
    BY <1>2, HandIs
  <2> QED BY <2>1, <1>2, <1>3, StoreSame
<1>5. HandOk(m.busy, m.busyLine, m.drag, m.slide, m.dots)
  <2>1. at.drag = "line"
    BY DEF Cv!DropLine
  <2> QED BY <2>1, <1>2, HandIs, Distinct DEF HandOk
<1>6. CASE at.moved
  <2>p. PICK p : p = m.pos
    OBVIOUS
  <2>e. PICK e : e = m.line
    OBVIOUS
  <2>1. at' = Cv!Saved(m, p, e)
    BY <1>6, <1>1, <2>p, <2>e
  <2>2. StoreOk(at') /\ SameHand(at', m) /\ (at'.loaded = m.loaded => Keeps(at', m))
    BY <2>1, <1>4, SavedIs
  <2>3. CanvasOk(at')
    BY <2>2, <1>5, HandSame DEF CanvasOk
  <2>4. ~at'.busyLine
    BY <2>2, <1>2 DEF SameHand
  <2>5. at'.loaded = at.loaded => Keeps(at', at)
    BY <2>2, <2>4, <1>2, <1>3 DEF Keeps, SameDrawn
  <2> QED BY <2>3, <2>5 DEF StepOk
<1>7. CASE ~at.moved
  <2>1. at' = m
    BY <1>7, <1>1
  <2>2. CanvasOk(at')
    BY <2>1, <1>4, <1>5 DEF CanvasOk
  <2> QED BY <2>1, <2>2, <1>3, DrawnKeeps DEF StepOk
<1> QED BY <1>6, <1>7
LEMMA ResetLineStep == CanvasInv /\ Cv!ResetLine => StepOk(at', at)
<1> SUFFICES ASSUME CanvasInv, Cv!ResetLine PROVE StepOk(at', at)
  OBVIOUS
<1>o. PICK o : o = at.own - 1
  OBVIOUS
<1>m. PICK m : m = [at EXCEPT !.line = 0, !.own = o]
  OBVIOUS
<1>p. PICK p : p = m.pos
  OBVIOUS
<1>1. at' = Cv!Saved(m, p, 0)
  BY <1>o, <1>m, <1>p DEF Cv!ResetLine
<1>2. Rec(m, CanvasFields) /\ m.own = o
  BY <1>m, HandIs DEF Rec, CanvasFields
<1>3. SameStore(m, at) /\ SameHand(m, at)
  BY <1>m, HandIs DEF Rec, CanvasFields, SameStore, SameHand
<1>4. StoreOk(m)
  <2>1. m.own \in Int /\ StoreOk(at)
    BY <1>2, <1>o, HandIs
  <2> QED BY <2>1, <1>2, <1>3, StoreSame
<1>5. HandOk(m.busy, m.busyLine, m.drag, m.slide, m.dots)
  BY <1>3, HandIs, HandSame
<1>6. StoreOk(at') /\ SameHand(at', m) /\ (at'.loaded = m.loaded => Keeps(at', m))
  BY <1>1, <1>4, SavedIs
<1>7. CanvasOk(at')
  BY <1>5, <1>6, HandSame DEF CanvasOk
<1>8. ~at.busyLine
  BY HandIs, Distinct DEF Cv!ResetLine, Cv!CanDrag, HandOk
<1>9. m.busy = at.busy /\ m.pos = at.pos /\ m.anim = at.anim /\ m.loaded = at.loaded
  BY <1>m, HandIs DEF Rec, CanvasFields
<1>10. at'.loaded = at.loaded => Keeps(at', at)
  BY <1>6, <1>8, <1>9 DEF Keeps
<1> QED BY <1>7, <1>10 DEF StepOk

---------------------------------------------------------------------------
\* The menu: each act is one fewer.
LEMMA ActStep == ASSUME CanvasInv, NEW d, CanvasOk(d), at' = [d EXCEPT !.own = @ - 1], Cv!OwnMove \/ (d.loaded = at.loaded => Keeps(d, at))
                 PROVE  StepOk(at', at)
<1>1. CanvasOk(at') /\ SameDrawn(at', d) /\ SameHand(at', d)
  BY Spent
<1>2. (d.loaded = at.loaded => Keeps(d, at)) => (at'.loaded = at.loaded => Keeps(at', at))
  BY <1>1 DEF SameDrawn, SameHand, Keeps
<1> QED BY <1>1, <1>2 DEF StepOk
\* A pass, counted as an act.
LEMMA ActPass == ASSUME CanvasInv, NEW m, CanvasOk(m), Untouched(m, at), NEW d, d = Cv!Reconcile(m), at' = [d EXCEPT !.own = @ - 1]
                 PROVE  StepOk(at', at)
<1>1. CanvasOk(d) /\ (d.loaded = m.loaded => Keeps(d, m))
  BY PassIs
<1>2. d.loaded = at.loaded => Keeps(d, at)
  BY <1>1, UntouchedKeeps
<1> QED BY <1>1, <1>2, ActStep
\* What the list is changed to here, with what the node stores of it.
LEMMA ChangedPass == ASSUME CanvasInv, NEW m, Rec(m, CanvasFields), SameHand(m, at), SameDrawn(m, at), m.srv = at.srv, m.feed = at.feed,
  m.puts = at.puts, m.own = at.own, NEW srv, MapOk(srv), NEW d, d = Cv!Reconcile(Cv!Change(m, srv)), at' = [d EXCEPT !.own = @ - 1]
  PROVE  StepOk(at', at)
<1>x. PICK x : x = Cv!Change(m, srv)
  OBVIOUS
<1>1. FeedOk(m.feed, m.srv)
  BY HandIs DEF StoreOk
<1>2. Told(x, m, srv)
  BY <1>1, <1>x, Changes
<1>3. StoreOk(x)
  <2>1. PutsOk(at.puts) /\ at.own \in Int
    BY HandIs DEF StoreOk
  <2> QED BY <1>2, <2>1 DEF StoreOk, Listed3, Told
<1>4. SameHand(x, at) /\ SameDrawn(x, at)
  BY <1>2 DEF SameHand, SameDrawn, Told
<1>5. CanvasOk(x)
  BY <1>3, <1>4, HandIs, HandSame DEF CanvasOk
<1> QED BY <1>4, <1>5, <1>x, HandUntouched, ActPass
LEMMA PickStep == CanvasInv /\ Cv!Pick => StepOk(at', at)
<1> SUFFICES ASSUME CanvasInv, Cv!Pick PROVE StepOk(at', at)
  OBVIOUS
<1>p. PICK p : Cv!Act(Cv!Reconcile([at EXCEPT !.pick = p]))
  BY DEF Cv!Pick
<1>m. PICK m : m = [at EXCEPT !.pick = p]
  OBVIOUS
<1>d. PICK d : d = Cv!Reconcile(m)
  OBVIOUS
<1>1. at' = [d EXCEPT !.own = @ - 1]
  BY <1>p, <1>m, <1>d DEF Cv!Act
<1>2. Rec(m, CanvasFields) /\ m.own = at.own
  BY <1>m, HandIs DEF Rec, CanvasFields
<1>3. SameStore(m, at) /\ SameHand(m, at) /\ SameDrawn(m, at)
  BY <1>m, HandIs DEF Rec, CanvasFields, SameStore, SameHand, SameDrawn
<1>4. CanvasOk(m)
  <2>1. StoreOk(at) /\ at.own \in Int
    BY HandIs
  <2>2. StoreOk(m)
    BY <2>1, <1>2, <1>3, StoreSame
  <2> QED BY <2>2, <1>3, HandIs, HandSame DEF CanvasOk
<1> QED BY <1>1, <1>3, <1>4, <1>d, HandUntouched, ActPass
LEMMA CopyStep == CanvasInv /\ Cv!Copy => StepOk(at', at)
<1> SUFFICES ASSUME CanvasInv, Cv!Copy PROVE StepOk(at', at)
  OBVIOUS
<1>d. PICK d : Cv!Act(Cv!Reconcile(Cv!Change([at EXCEPT !.list = Cv!With(@, "copy", d), !.pick = "copy"], Cv!With(at.srv, "copy", d))))
  BY DEF Cv!Copy
<1>l. PICK l : l = Cv!With(at.list, "copy", d)
  OBVIOUS
<1>t. PICK t : t = at.srv
  OBVIOUS
<1>s. PICK srv : srv = Cv!With(t, "copy", d)
  OBVIOUS
<1>m. PICK m : m = [at EXCEPT !.list = l, !.pick = "copy"]
  OBVIOUS
<1>r. PICK r : r = Cv!Reconcile(Cv!Change(m, srv))
  OBVIOUS
<1>1. at' = [r EXCEPT !.own = @ - 1]
  BY <1>d, <1>l, <1>t, <1>s, <1>m, <1>r DEF Cv!Act
<1>2. Rec(m, CanvasFields) /\ m.own = at.own /\ m.srv = at.srv /\ m.feed = at.feed /\ m.puts = at.puts
  BY <1>m, HandIs DEF Rec, CanvasFields
<1>3. SameHand(m, at) /\ SameDrawn(m, at)
  BY <1>m, HandIs DEF Rec, CanvasFields, SameHand, SameDrawn
<1>4. MapOk(srv)
  <2>1. MapOk(t)
    BY <1>t, HandIs DEF StoreOk
  <2> QED BY <2>1, <1>s DEF MapOk, Cv!With, Cv!GEO
<1> QED BY <1>1, <1>2, <1>3, <1>4, <1>r, ChangedPass
LEMMA RenameStep == CanvasInv /\ Cv!Rename => StepOk(at', at)
<1> SUFFICES ASSUME CanvasInv, Cv!Rename PROVE StepOk(at', at)
  OBVIOUS
<1>i. PICK id : id = Cv!ActiveId(at)
  OBVIOUS
<1>p. PICK p : p = Cv!Put(id, Cv!Shown(at, id))
  OBVIOUS
<1>b. PICK ps : ps = at.puts \cup {p}
  OBVIOUS
<1>m. PICK m : m = [at EXCEPT !.puts = ps]
  OBVIOUS
<1>1. at' = [m EXCEPT !.own = @ - 1]
  BY <1>i, <1>p, <1>b, <1>m DEF Cv!Rename, Cv!Act
<1>2. Rec(m, CanvasFields) /\ m.own = at.own /\ m.srv = at.srv /\ m.feed = at.feed /\ m.puts = ps
  BY <1>m, HandIs DEF Rec, CanvasFields
<1>3. SameHand(m, at) /\ SameDrawn(m, at)
  BY <1>m, HandIs DEF Rec, CanvasFields, SameHand, SameDrawn
<1>4. p.id # Cv!GEO
  <2>1. id # Cv!GEO
    BY <1>i DEF Cv!ActiveId, Cv!GEO, Cv!None2
  <2> QED BY <2>1, <1>p DEF Cv!Put
<1>5. PutsOk(ps)
  BY <1>4, <1>b, HandIs DEF StoreOk, PutsOk
<1>6. StoreOk(m)
  BY <1>2, <1>5, <1>b, HandIs DEF StoreOk, Listed3
<1>7. CanvasOk(m)
  BY <1>3, <1>6, HandIs, HandSame DEF CanvasOk
<1> QED BY <1>1, <1>3, <1>7, DrawnKeeps, ActStep
LEMMA ResetStep == CanvasInv /\ Cv!Reset2 => StepOk(at', at)
<1> SUFFICES ASSUME CanvasInv, Cv!Reset2 PROVE StepOk(at', at)
  OBVIOUS
<1>p. PICK p : p = [k \in at.dots |-> 0]
  OBVIOUS
<1>n. PICK n : n = Cv!NoDots
  OBVIOUS
<1>m. PICK m : m = [at EXCEPT !.pos = p, !.line = 0, !.anim = n]
  OBVIOUS
<1>d. PICK d : d = Cv!Saved(m, n, 0)
  OBVIOUS
<1>1. at' = [d EXCEPT !.own = @ - 1]
  BY <1>p, <1>m, <1>n, <1>d DEF Cv!Reset2, Cv!Act
<1>2. Rec(m, CanvasFields) /\ m.own = at.own
  BY <1>m, HandIs DEF Rec, CanvasFields
<1>3. SameStore(m, at) /\ SameHand(m, at)
  BY <1>m, HandIs DEF Rec, CanvasFields, SameStore, SameHand
<1>4. CanvasOk(m)
  <2>1. StoreOk(at) /\ at.own \in Int
    BY HandIs
  <2>2. StoreOk(m)
    BY <2>1, <1>2, <1>3, StoreSame
  <2> QED BY <2>2, <1>3, HandIs, HandSame DEF CanvasOk
<1>5. StoreOk(d) /\ SameHand(d, m)
  BY <1>4, <1>d, SavedIs DEF CanvasOk
<1>6. CanvasOk(d)
  BY <1>4, <1>5, HandSame DEF CanvasOk
<1> QED BY <1>1, <1>6, ActStep DEF Cv!OwnMove
LEMMA DeleteStep == CanvasInv /\ Cv!Delete2 => StepOk(at', at)
<1> SUFFICES ASSUME CanvasInv, Cv!Delete2 PROVE StepOk(at', at)
  OBVIOUS
<1>k. PICK keep : keep = DOMAIN at.srv \ {Cv!ActiveId(at)}
  OBVIOUS
<1>l. PICK l : l = Cv!Restrict(at.list, DOMAIN at.list \ {Cv!ActiveId(at)})
  OBVIOUS
<1>t. PICK t : t = at.srv
  OBVIOUS
<1>s. PICK srv : srv = Cv!Restrict(t, keep)
  OBVIOUS
<1>m. PICK m : m = [at EXCEPT !.list = l, !.pick = "preset"]
  OBVIOUS
<1>r. PICK r : r = Cv!Reconcile(Cv!Change(m, srv))
  OBVIOUS
<1>1. at' = [r EXCEPT !.own = @ - 1]
  BY <1>k, <1>l, <1>t, <1>s, <1>m, <1>r DEF Cv!Delete2, Cv!Act
<1>2. Rec(m, CanvasFields) /\ m.own = at.own /\ m.srv = at.srv /\ m.feed = at.feed /\ m.puts = at.puts
  BY <1>m, HandIs DEF Rec, CanvasFields
<1>3. SameHand(m, at) /\ SameDrawn(m, at)
  BY <1>m, HandIs DEF Rec, CanvasFields, SameHand, SameDrawn
<1>4. MapOk(srv)
  <2>1. MapOk(t)
    BY <1>t, HandIs DEF StoreOk
  <2>2. keep \subseteq DOMAIN t
    BY <1>k, <1>t
  <2> QED BY <2>1, <2>2, <1>s, RestrictMap
<1> QED BY <1>1, <1>2, <1>3, <1>4, <1>r, ChangedPass
LEMMA AskMapStep == CanvasInv /\ Cv!AskMap => StepOk(at', at)
<1> SUFFICES ASSUME CanvasInv, Cv!AskMap PROVE StepOk(at', at)
  OBVIOUS
<1>m. PICK m : m = [at EXCEPT !.loading = TRUE]
  OBVIOUS
<1>1. at' = [m EXCEPT !.own = @ - 1]
  BY <1>m DEF Cv!AskMap, Cv!Act
<1>2. Rec(m, CanvasFields) /\ m.own = at.own
  BY <1>m, HandIs DEF Rec, CanvasFields
<1>3. SameStore(m, at) /\ SameHand(m, at) /\ SameDrawn(m, at)
  BY <1>m, HandIs DEF Rec, CanvasFields, SameStore, SameHand, SameDrawn
<1>4. CanvasOk(m)
  <2>1. StoreOk(at) /\ at.own \in Int
    BY HandIs
  <2>2. StoreOk(m)
    BY <2>1, <1>2, <1>3, StoreSame
  <2> QED BY <2>2, <1>3, HandIs, HandSame DEF CanvasOk
<1> QED BY <1>1, <1>3, <1>4, DrawnKeeps, ActStep
LEMMA MapComesStep == CanvasInv /\ Cv!MapComes => StepOk(at', at)
<1> SUFFICES ASSUME CanvasInv, Cv!MapComes PROVE StepOk(at', at)
  OBVIOUS
<1>1. CASE at' = [at EXCEPT !.loading = FALSE]
  <2>2. Rec(at', CanvasFields) /\ at'.own = at.own
    BY <1>1, HandIs DEF Rec, CanvasFields
  <2>3. SameStore(at', at) /\ SameHand(at', at) /\ SameDrawn(at', at)
    BY <1>1, HandIs DEF Rec, CanvasFields, SameStore, SameHand, SameDrawn
  <2>6. at'.own \in Int /\ HandOk(at'.busy, at'.busyLine, at'.drag, at'.slide, at'.dots)
    BY <2>2, <2>3, HandIs, HandSame
  <2> QED BY <2>2, <2>3, <2>6, DrawnKeeps, NoPass
<1>6. CASE at' = Cv!Reconcile([at EXCEPT !.loading = FALSE, !.geo = TRUE])
  <2>m. PICK m : m = [at EXCEPT !.loading = FALSE, !.geo = TRUE]
    OBVIOUS
  <2>2. Rec(m, CanvasFields) /\ m.own = at.own /\ m.list = at.list
    BY <2>m, HandIs DEF Rec, CanvasFields
  <2>3. SameStore(m, at) /\ SameHand(m, at) /\ SameDrawn(m, at)
    BY <2>m, HandIs DEF Rec, CanvasFields, SameStore, SameHand, SameDrawn
  <2>4. StoreOk(at) /\ at.own \in Int
    BY HandIs
  <2>5. StoreOk(m)
    BY <2>4, <2>2, <2>3, StoreSame
  <2>6. CanvasOk(m)
    BY <2>5, <2>3, HandIs, HandSame DEF CanvasOk
  <2> QED BY <1>6, <2>m, <2>3, <2>6, HandUntouched, OwnPass
<1> QED BY <1>1, <1>6 DEF Cv!MapComes
LEMMA LeaveMapStep == CanvasInv /\ Cv!LeaveMap => StepOk(at', at)
<1> SUFFICES ASSUME CanvasInv, Cv!LeaveMap PROVE StepOk(at', at)
  OBVIOUS
<1>m. PICK m : m = [at EXCEPT !.geo = FALSE]
  OBVIOUS
<1>1. at' = Cv!Reconcile(m)
  BY <1>m DEF Cv!LeaveMap
<1>2. Rec(m, CanvasFields) /\ m.own = at.own /\ m.list = at.list
  BY <1>m, HandIs DEF Rec, CanvasFields
<1>3. SameStore(m, at) /\ SameHand(m, at) /\ SameDrawn(m, at)
  BY <1>m, HandIs DEF Rec, CanvasFields, SameStore, SameHand, SameDrawn
<1>4. CanvasOk(m)
  <2>1. StoreOk(at) /\ at.own \in Int
    BY HandIs
  <2>2. StoreOk(m)
    BY <2>1, <1>2, <1>3, StoreSame
  <2> QED BY <2>2, <1>3, HandIs, HandSame DEF CanvasOk
<1> QED BY <1>1, <1>3, <1>4, HandUntouched, OwnPass

\* Every step keeps the invariant, and what is in hand where it is.
LEMMA CanvasStep == CanvasInv /\ [Cv!CanvasNext]_at => CanvasInv' /\ [Cv!InHandStays]_at
<1> SUFFICES ASSUME CanvasInv, [Cv!CanvasNext]_at PROVE CanvasInv' /\ [Cv!InHandStays]_at
  OBVIOUS
<1>1. CASE UNCHANGED at
  BY <1>1 DEF CanvasInv
<1>2. CASE Cv!CanvasNext
  <2>2. StepOk(at', at)
    BY <1>2, FrameStep, FirstListStep, SlowListStep, MeshStep, ExpireStep, AnimateStep, StoreStep, StoreFailsStep, OtherStep, GrabDotStep, MoveDotStep, DropDotStep, SlidStep, CancelStep, GrabLineStep, MoveLineStep, DropLineStep, ResetLineStep, PickStep, CopyStep, RenameStep, ResetStep, DeleteStep, AskMapStep, MapComesStep, LeaveMapStep
       DEF Cv!CanvasNext
  <2>3. CanvasInv'
    BY <2>2 DEF StepOk, CanvasInv
  <2>4. Cv!InHandStays
    BY <2>2 DEF StepOk, Keeps, Cv!InHandStays
  <2> QED BY <2>3, <2>4
<1> QED BY <1>1, <1>2

\* In a moment of the invariant at which nothing is under way, the next poll shows what is stored.
LEMMA CanvasShown == CanvasInv => Cv!MapHasNoDots /\ Cv!Converged
<1> SUFFICES ASSUME CanvasInv PROVE Cv!MapHasNoDots /\ Cv!Converged
  OBVIOUS
<1>1. Cv!MapHasNoDots
  BY HandIs DEF StoreOk, MapOk, Cv!MapHasNoDots
<1>2. ASSUME Cv!Still(at), NEW c, c = Cv!Reconcile([at EXCEPT !.pend = Cv!NoDots, !.pendLine = {}])
      PROVE  /\ c.list = c.srv
             /\ Cv!EditId(c) \notin {Cv!None2, Cv!GEO} => Cv!EditId(c) \in DOMAIN c.srv
             /\ Cv!EditId(c) # Cv!None2 =>
                  /\ c.line = Cv!Shown(c, Cv!EditId(c)).e
                  /\ \A k \in DOMAIN Cv!Shown(c, Cv!EditId(c)).n : Cv!Goes(c, k) = Cv!Shown(c, Cv!EditId(c)).n[k]
  <2>x. PICK x : x = Cv!NoDots
    OBVIOUS
  <2>y. PICK y : y = {}
    OBVIOUS
  <2>m. PICK m : m = [at EXCEPT !.pend = x, !.pendLine = y]
    OBVIOUS
  <2>1. c = Cv!Reconcile(m)
    BY <1>2, <2>x, <2>y, <2>m
  <2>2. Rec(m, CanvasFields) /\ m.list = at.list /\ m.srv = at.srv /\ m.pend = x /\ m.pendLine = y /\ m.busy = at.busy
        /\ m.busyLine = at.busyLine /\ m.anim = at.anim
    BY <2>m, HandIs DEF Rec, CanvasFields
  <2>3. AlikeBut(c, m)
    BY <2>1, <2>2, ReconcileIs
  <2>4. c.list = at.list /\ c.srv = at.srv
    BY <2>2, <2>3 DEF AlikeBut
  <2>5. at.list = at.srv
    BY <1>2, HandIs DEF StoreOk, Listed3, Cv!Still
  <2>i. PICK id : id = Cv!EditId(m)
    OBVIOUS
  <2>6. Cv!EditId(c) = id
    BY <2>3, <2>i DEF AlikeBut, Cv!EditId, Cv!ActiveId
  <2>7. id \notin {Cv!None2, Cv!GEO} => id \in DOMAIN m.list
    BY <2>i DEF Cv!EditId, Cv!ActiveId
  <2>r. PICK r : r = Cv!Shown(m, id)
    OBVIOUS
  <2>8. Cv!Shown(c, id) = r
    BY <2>r, <2>3 DEF AlikeBut, Cv!Shown
  <2>9. at.busy = {} /\ ~at.busyLine
    BY <1>2, HandIs, Distinct DEF HandOk, Cv!Still
  <2>10. ASSUME id # Cv!None2 PROVE c.line = r.e /\ \A k \in DOMAIN r.n : Cv!Goes(c, k) = r.n[k]
    <3>b. PICK b : b = Cv!Slots(m, r.n)
      OBVIOUS
    <3>e. PICK e : e = r.e
      OBVIOUS
    <3>1. CASE m.loaded # id
      <4>1. c = Cv!Take(m, id)
        BY <3>1, <2>10, <2>1, <2>i DEF Cv!Reconcile
      <4>2. c.line = e /\ c.pos = b /\ c.anim = x
        BY <4>1, <3>b, <3>e, <2>r, <2>x, <2>2 DEF Cv!Take, Rec, CanvasFields
      <4>3. \A k \in DOMAIN r.n : b[k] = r.n[k]
        BY <3>b DEF Cv!Slots
      <4>4. DOMAIN x = {}
        BY <2>x DEF Cv!NoDots
      <4> QED BY <4>2, <4>3, <4>4, <3>e DEF Cv!Goes
    <3>2. CASE m.loaded = id
      <4>b. PICK g : g = Cv!Merged(m, r.n)
        OBVIOUS
      <4>p. PICK p : p = Cv!At(m, g)
        OBVIOUS
      <4>a. PICK a : a = Cv!Moves(m, g)
        OBVIOUS
      <4>w. PICK w : w = IF Cv!LineWaits(m, e) THEN m.line ELSE e
        OBVIOUS
      <4>1. c.pos = p /\ c.anim = a /\ c.line = w
        BY <3>2, <2>10, <2>1, <2>2, <2>i, <2>r, <3>e, <4>b, <4>p, <4>a, <4>w DEF Cv!Reconcile, Rec, CanvasFields
      <4>2. ~Cv!LineWaits(m, e)
        BY <2>2, <2>9, <2>y DEF Cv!LineWaits
      <4>3. DOMAIN m.pend = {}
        BY <2>2, <2>x DEF Cv!NoDots
      <4>4. \A k \in DOMAIN r.n : ~Cv!Waits(m, r.n, k)
        BY <2>2, <2>9, <4>3 DEF Cv!Waits
      <4>5. \A k \in DOMAIN r.n : k \in DOMAIN g /\ g[k] = r.n[k]
        BY <4>b, <4>4 DEF Cv!Merged
      <4>6. DOMAIN m.anim = {} /\ m.busy = {}
        BY <1>2, <2>2, <2>9 DEF Cv!Still, Cv!NoDots
      <4>7. DOMAIN a = Cv!Slides(m, g) /\ \A k \in DOMAIN a : a[k] = g[k]
        BY <4>6, <4>a DEF Cv!Moves
      <4>8. \A k \in DOMAIN g : k \in Cv!Slides(m, g) \/ p[k] = g[k]
        BY <4>6, <4>p DEF Cv!Slides, Cv!At
      <4>9. \A k \in DOMAIN r.n : Cv!Goes(c, k) = r.n[k]
        BY <4>1, <4>5, <4>7, <4>8 DEF Cv!Goes
      <4> QED BY <4>1, <4>2, <4>9, <4>w, <3>e
    <3> QED BY <3>1, <3>2
  <2>11. id \notin {Cv!None2, Cv!GEO} => id \in DOMAIN c.srv
    BY <2>7, <2>2, <2>4, <2>5
  <2>12. c.list = c.srv
    BY <2>4, <2>5
  <2> QED BY <2>6, <2>8, <2>10, <2>11, <2>12
<1>3. Cv!Converged
  BY <1>2 DEF Cv!Converged
<1> QED BY <1>1, <1>3

---------------------------------------------------------------------------
\* Each form or drawing keeps its invariant while it is in use.
FormsInv ==
  /\ scene = "nform" => NformInv /\ SentInv
  /\ scene = "uform" => UformInv /\ ExitsInv
  /\ scene = "sform" => SformInv /\ LinkInv
  /\ scene = "nics" => NicsInv
  /\ scene = "canvas" => CanvasInv

LEMMA FormsStarts == FormsInit => FormsInv
BY NformStarts, SentStarts, UformStarts, UsersStarts, SformStarts, LinkStarts, NicsStarts, CanvasStarts DEF FormsInit, FormStart, FormsInv

\* A step keeps them, and what is in hand.
LEMMA FormKeeps == FormsInv /\ [FormsNext]_vars => FormsInv' /\ [scene = "canvas" => Cv!InHandStays]_at
<1> SUFFICES ASSUME FormsInv, [FormsNext]_vars PROVE FormsInv' /\ [scene = "canvas" => Cv!InHandStays]_at
  OBVIOUS
<1>0. scene' = scene
  BY DEF FormsNext, vars
<1>1. ASSUME scene = "nform" PROVE NformInv' /\ SentInv'
  <2>1. NformInv /\ SentInv /\ [Nf!NformNext]_at
    BY <1>1 DEF FormsNext, vars, FormStep, FormsInv
  <2>2. OwnLoads(at)
    BY <2>1 DEF NformInv
  <2> QED BY <2>1, <2>2, NformStep, SentStep
<1>2. ASSUME scene = "uform" PROVE UformInv' /\ ExitsInv'
  <2>1. UformInv /\ ExitsInv /\ [Uf!UformNext]_at
    BY <1>2 DEF FormsNext, vars, FormStep, FormsInv
  <2>2. Rec(at, UformFields)
    BY <2>1 DEF UformInv, OwnUser
  <2> QED BY <2>1, <2>2, UformStep, UsersStep
<1>3. ASSUME scene = "sform" PROVE SformInv' /\ LinkInv'
  <2>1. SformInv /\ LinkInv /\ [Nf!SformNext]_at
    BY <1>3 DEF FormsNext, vars, FormStep, FormsInv
  <2>2. Rec(at, SformFields)
    BY <2>1 DEF SformInv
  <2> QED BY <2>1, <2>2, SformStep, LinkStep
<1>4. ASSUME scene = "nics" PROVE NicsInv'
  <2>1. NicsInv /\ [If!NicsNext]_at
    BY <1>4 DEF FormsNext, vars, FormStep, FormsInv
  <2> QED BY <2>1, NicsStep
<1>5. ASSUME scene = "canvas" PROVE CanvasInv' /\ [Cv!InHandStays]_at
  <2>1. CanvasInv /\ [Cv!CanvasNext]_at
    BY <1>5 DEF FormsNext, vars, FormStep, FormsInv
  <2> QED BY <2>1, CanvasStep
<1>6. FormsInv'
  BY <1>0, <1>1, <1>2, <1>3, <1>4, <1>5 DEF FormsInv
<1> QED BY <1>5, <1>6

\* The invariants hold throughout, whatever form or drawing is in use.
THEOREM FormsHold == FormsSpec => []FormsInv
<1>1. FormsInv /\ [FormsNext]_vars => FormsInv'
  BY FormKeeps
<1> QED BY <1>1, FormsStarts, PTL DEF FormsSpec

\* What a dialog has loaded, was seeded with or saves belongs to the entry or
\* the user it is open for (NodeDialog.tsx, UserDialog.tsx).
THEOREM LoadedIsOwn == FormsSpec => []OwnsItsEntry
<1>1. FormsInv => OwnsItsEntry
  BY NformOwn, UformOwn DEF FormsInv, OwnsItsEntry
<1> QED BY <1>1, FormsHold, PTL

\* What a form sends is sound by its own rules and is what it shows: an entry
\* (NodeModal.tsx), the exits of a user (UserModal.tsx, ExitPathList.tsx), the link
\* of this node (EditSelfModal.tsx).
THEOREM SentAsShown == FormsSpec => []SendsWhatItShows
<1>1. FormsInv => SendsWhatItShows
  BY SentHolds, ExitsHold, LinkHolds DEF FormsInv, SendsWhatItShows
<1> QED BY <1>1, FormsHold, PTL

\* The interface page keeps what it does not change (InterfacesPage.tsx).
THEOREM RestIsKept == FormsSpec => []InterfacesKept
<1>1. FormsInv => InterfacesKept
  BY NicsKept, OneRowHolds DEF FormsInv, InterfacesKept
<1> QED BY <1>1, FormsHold, PTL

\* Where nothing is under way, the next poll shows the drawing that is stored,
\* and the map's has no dots (NodesGraphView.tsx).
THEOREM DrawingsComeTogether == FormsSpec => []DrawingsConverge
<1>1. FormsInv => DrawingsConverge
  BY CanvasShown DEF FormsInv, DrawingsConverge
<1> QED BY <1>1, FormsHold, PTL

\* As long as one drawing is shown, nothing but the gesture itself moves the dot
\* or the line in hand, or takes it away: no frame, no poll, no expiry, no answer,
\* no other save (NodesGraphView.tsx, the pass over the list).
THEOREM NothingMovesInHand == FormsSpec => InHandIsKept
<1>1. FormsInv /\ [FormsNext]_vars => [scene = "canvas" => Cv!InHandStays]_at
  BY FormKeeps
<1> QED BY <1>1, FormsHold, PTL DEF FormsSpec, InHandIsKept
=============================================================================

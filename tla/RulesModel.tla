----------------------------- MODULE RulesModel -----------------------------
(***************************************************************************)
(* The rule graph of the web console: policy and condition sets drawn as   *)
(* decision chains, and read back as sets                                  *)
(* (components/policy/graph/model.ts, layout.ts).                          *)
(*                                                                         *)
(* A node id is a triple <<kind, owner, key>>, an edge a record; both      *)
(* lists keep the order of the source, which decides which of two links    *)
(* of one port counts and in which order sets are written.                 *)
(***************************************************************************)
EXTENDS Integers, Sequences, FiniteSets, SequencesExt

None == [type |-> "none", arg |-> ""]
End(t, a) == [type |-> t, arg |-> a]
Flow(rules, def) == [type |-> "flow", rules |-> rules, default |-> def]

BuiltinDefault(kind) == IF kind = "policy" THEN End("default", "") ELSE End("result", "false")

\* A condition: always, a field match, a reference, or a group of conditions.
Always == [type |-> "always"]
Match(f) == [type |-> "match", field |-> f]
Ref(id) == [type |-> "ref", ref |-> id]
Not(c) == [type |-> "not", item |-> c]
Group(t, items) == [type |-> t, items |-> items]

SetNode(id) == <<"set", id, "">>
RuleNode(id, copy) == <<"rule", id, copy>>
SrcNode(src, key) == <<"src", src, key>>
DirectNode == SrcNode("direct", "")
EndKey(e) == e.type \o ":" \o e.arg
EndNode(e, setId) == <<"end", IF e.type = "result" THEN setId ELSE "", EndKey(e)>>

Edge(s, h, t, th) == [source |-> s, handle |-> h, target |-> t, into |-> th]
NewSet == {"new:1", "new:2", "new:3"}        \* ids of sets the node has not created yet

---------------------------------------------------------------------------
\* Looking things up in a graph. The last edge of a port counts.

NoNode == [id |-> <<"", "", "">>, kind |-> "nothing"]
Node(g, id) == LET at == {i \in DOMAIN g.nodes : g.nodes[i].id = id}
               IN  IF at = {} THEN NoNode ELSE g.nodes[CHOOSE i \in at : \A j \in at : j <= i]
HasNode(g, id) == \E i \in DOMAIN g.nodes : g.nodes[i].id = id
NoId == NoNode.id
Out(g, id, h) ==
  LET at == {i \in DOMAIN g.edges : g.edges[i].source = id /\ g.edges[i].handle = h}
  IN  IF at = {} THEN NoId ELSE g.edges[CHOOSE i \in at : \A j \in at : j <= i].target
Into(g, id) == SelectSeq(g.edges, LAMBDA e : e.target = id)

---------------------------------------------------------------------------
\* Conditions: the sets they refer to, and references added and taken out.

RECURSIVE CondRefs(_)
CondRefs(c) ==
  CASE c.type = "ref" -> {c.ref}
    [] c.type = "not" -> CondRefs(c.item)
    [] c.type \in {"all", "any"} -> UNION {CondRefs(c.items[i]) : i \in DOMAIN c.items}
    [] OTHER -> {}

RECURSIVE DropRef(_, _)
DropRef(c, ref) ==
  CASE c.type = "ref" -> IF c.ref = ref THEN Always ELSE c
    [] c.type = "not" -> LET i == DropRef(c.item, ref) IN IF i = Always THEN Always ELSE Not(i)
    [] c.type \in {"all", "any"} ->
         LET kept == SelectSeq([i \in DOMAIN c.items |-> DropRef(c.items[i], ref)], LAMBDA x : x # Always)
         IN  CASE kept = <<>> -> Always
               [] Len(kept) = 1 /\ c.type = "all" -> kept[1]
               [] OTHER -> Group(c.type, kept)
    [] OTHER -> c

AddRef(c, ref) ==
  IF c = Always THEN Ref(ref)
  ELSE IF ref \in CondRefs(c) THEN c
  ELSE IF c.type = "all" THEN Group("all", Append(c.items, Ref(ref))) ELSE Group("all", <<c, Ref(ref)>>)

RECURSIVE SwapRef(_, _, _)
SwapRef(c, from, to) ==
  CASE c.type = "ref" -> IF c.ref = from THEN Ref(to) ELSE c
    [] c.type = "not" -> Not(SwapRef(c.item, from, to))
    [] c.type \in {"all", "any"} -> Group(c.type, [i \in DOMAIN c.items |-> SwapRef(c.items[i], from, to)])
    [] OTHER -> c

---------------------------------------------------------------------------
\* Sets to graph (fromConfig).

AddNode(g, n) == IF HasNode(g, n.id) THEN g ELSE [g EXCEPT !.nodes = Append(@, n)]
AddEdge(g, e) == [g EXCEPT !.edges = Append(@, e)]
DirectSource == [id |-> DirectNode, kind |-> "source", src |-> "direct", members |-> {}]
AddEnd(g, e, setId) == AddNode(g, [id |-> EndNode(e, setId), kind |-> "end", end |-> e])

\* The id a rule is drawn under: another when a second set uses the same one.
FreshRule(g, id) ==
  LET copies == <<"", "~1", "~2", "~3">>
  IN  RuleNode(id, copies[CHOOSE i \in DOMAIN copies :
                            /\ ~HasNode(g, RuleNode(id, copies[i]))
                            /\ \A j \in 1..(i - 1) : HasNode(g, RuleNode(id, copies[j]))])

Follow(g, prev, id) == IF prev = NoId THEN g ELSE AddEdge(g, Edge(prev, "else", id, "in"))
Otherwise(g, d, setId, prev) ==
  IF d = None THEN [g |-> g, first |-> NoId]
  ELSE [g |-> Follow(AddEnd(g, d, setId), prev, EndNode(d, setId)), first |-> EndNode(d, setId)]
DrawRule(g, r, id, prev) ==
  Follow(AddNode(g, [id |-> id, kind |-> "rule", rule |-> r.id, enabled |-> r.enabled, when |-> r.when]), prev, id)
\* Mutant: a nested flow is drawn and not linked.
DrawNestedM(sub, id) == sub.g
DrawNested(sub, id) == IF sub.first = NoId THEN sub.g ELSE AddEdge(sub.g, Edge(id, "match", sub.first, "in"))
DrawMatch(g, then, id, setId, sub) ==
  CASE then.type = "flow" -> DrawNested(sub, id)
    [] then.type = "call" -> AddEdge(g, Edge(id, "match", SetNode(then.arg), "in"))
    [] OTHER -> AddEdge(AddEnd(g, then, setId), Edge(id, "match", EndNode(then, setId), "in"))

\* A flow: its rules chained by else, ending in its otherwise; a set always has
\* one. Returns the graph and the first node (NoId when there is none).
RECURSIVE Chain(_, _, _, _, _)
RECURSIVE ChainFrom(_, _, _, _, _)
Chain(g, rules, def, setId, prev) ==
  IF rules = <<>> THEN Otherwise(g, def, setId, prev)
  ELSE [g |-> ChainFrom(DrawRule(g, rules[1], FreshRule(g, rules[1].id), prev), rules, def, setId, FreshRule(g, rules[1].id)),
        first |-> FreshRule(g, rules[1].id)]
\* g: the graph with the first of the rules drawn as id.
ChainFrom(g, rules, def, setId, id) ==
  Chain(DrawMatch(g, rules[1].then, id, setId,
                  IF rules[1].then.type = "flow" THEN Chain(g, rules[1].then.rules, rules[1].then.default, setId, NoId) ELSE g),
        Tail(rules), def, setId, id).g

LinkSet(c, s) == AddEdge(c.g, Edge(SetNode(s.id), "out", c.first, "in"))
AddSet(g, s, kind) ==
  LinkSet(Chain(AddNode(g, [id |-> SetNode(s.id), kind |-> "set", setKind |-> kind, set |-> s.id, name |-> s.name]),
                s.rules, IF s.default = None THEN BuiltinDefault(kind) ELSE s.default, s.id, NoId), s)

SrcKinds == <<"user", "proxy", "wireguard", "vpn">>

\* One group of sources per kind and policy set; refs: the set's users by kind.
AddGroup(g, p, k, members) ==
  IF members = {} THEN g
  ELSE AddEdge(AddNode(g, [id |-> SrcNode(k, p.id), kind |-> "source", src |-> k, members |-> members]),
               Edge(SrcNode(k, p.id), "out", SetNode(p.id), "in"))
AddSources(g, p) ==
  FoldLeft(LAMBDA a, k : AddGroup(a, p, k, {p.refs[i].id : i \in {j \in DOMAIN p.refs : p.refs[j].kind = k}}), g, SrcKinds)
AddDirect(g, cfg) ==
  IF \E i \in DOMAIN cfg.policies : cfg.policies[i].id = cfg.direct
  THEN AddEdge(AddNode(g, DirectSource), Edge(DirectNode, "out", SetNode(cfg.direct), "in"))
  ELSE AddNode(g, DirectSource)
DropDangling(g) == [g EXCEPT !.edges = SelectSeq(@, LAMBDA e : HasNode(g, e.target))]

\* A hand-over to a set that does not exist is dropped.
FromConfig(cfg) ==
  DropDangling(AddDirect(
    FoldLeft(AddSources,
      FoldLeft(LAMBDA g, s : AddSet(g, s, "policy"),
        FoldLeft(LAMBDA g, s : AddSet(g, s, "condition"), [nodes |-> <<>>, edges |-> <<>>], cfg.conditions),
        cfg.policies),
      cfg.policies), cfg))

---------------------------------------------------------------------------
\* Graph to sets (compile).

FlowDepth == 8       \* nested flows deeper than this are refused

KindOk(e, kind) == (e.type = "result") = (kind = "condition")

Fail(a, id, code, then) == [a |-> [a EXCEPT !.errors = @ \cup {<<id, code>>}], then |-> then]
\* What a rule's match port leads to; sub: the walk of the flow that starts there.
MatchOf(t, cur, kind, depth, a, sub) ==
  CASE t.kind = "end" -> IF KindOk(t.end, kind) THEN [a |-> a, then |-> t.end] ELSE Fail(a, t.id, "kind", t.end)
    [] t.kind = "set" -> IF kind = "policy" /\ t.setKind = "policy" THEN [a |-> a, then |-> End("call", t.set)]
                         ELSE Fail(a, cur, "callCond", End("call", t.set))
    [] t.kind = "nothing" -> Fail(a, cur, "noMatch", BuiltinDefault(kind))
    [] t.kind = "rule" /\ depth >= FlowDepth -> Fail(a, cur, "flowDepth", End("default", ""))
    [] OTHER -> [a |-> [a EXCEPT !.reached = sub.reached, !.errors = sub.errors], then |-> Flow(sub.rules, sub.def)]
AddRule(rules, n, m) ==
  [m.a EXCEPT !.rules = Append(rules, [id |-> n.rule, enabled |-> n.enabled, when |-> n.when, then |-> m.then])]

RECURSIVE Walk(_, _, _, _, _)
Walk(g, cur, kind, depth, acc) ==
  LET n == Node(g, cur) IN
  CASE n.kind = "end" -> IF KindOk(n.end, kind) THEN [acc EXCEPT !.def = n.end]
                         ELSE [acc EXCEPT !.def = n.end, !.errors = @ \cup {<<n.id, "kind">>}]
    [] n.kind = "rule" /\ cur \in acc.reached -> [acc EXCEPT !.errors = @ \cup {<<cur, "loop">>}]
    [] n.kind = "rule" /\ cur \notin acc.reached ->
         Walk(g, Out(g, cur, "else"), kind, depth,
              AddRule(acc.rules, n,
                      MatchOf(Node(g, Out(g, cur, "match")), cur, kind, depth, [acc EXCEPT !.reached = @ \cup {cur}],
                              Walk(g, Out(g, cur, "match"), kind, depth + 1,
                                   [acc EXCEPT !.reached = @ \cup {cur}, !.rules = <<>>, !.def = None]))))
    [] OTHER -> acc

SourcesOf(g) == SelectSeq(g.nodes, LAMBDA n : n.kind = "source")
SourceSet(g, n) == LET t == Node(g, Out(g, n.id, "out"))
                   IN  IF t.kind = "set" /\ t.setKind = "policy" THEN t.set ELSE ""

\* The set of each member drawn; of two groups, the first that is linked counts.
MembersOf(g, src) ==
  FoldLeft(LAMBDA f, n :
             IF n.src # src THEN f
             ELSE [m \in DOMAIN f \cup n.members |->
                     IF m \in n.members /\ (m \notin DOMAIN f \/ f[m] = "") THEN SourceSet(g, n) ELSE f[m]],
           [m \in {} |-> ""], SourcesOf(g))

AddCompiled(c, n, w) ==
  LET s == [id |-> n.set, name |-> n.name, rules |-> w.rules, default |-> w.def, refs |-> <<>>]
      field == IF n.setKind = "policy" THEN "policies" ELSE "conditions"
  IN  [c EXCEPT ![field] = Append(@, s), !.reached = w.reached,
                !.errors = IF n.name = "" THEN w.errors \cup {<<n.id, "name">>} ELSE w.errors]
CompileSets(g) ==
  FoldLeft(LAMBDA c, n :
             IF n.kind # "set" THEN c
             ELSE AddCompiled(c, n, Walk(g, Out(g, n.id, "out"), n.setKind, 0,
                                         [rules |-> <<>>, def |-> None, errors |-> c.errors, reached |-> c.reached])),
           [conditions |-> <<>>, policies |-> <<>>, errors |-> {}, reached |-> {}], g.nodes)
Compiled(g, c) ==
  [conditions |-> c.conditions, policies |-> c.policies, errors |-> c.errors,
   direct |-> FoldLeft(LAMBDA d, n : IF n.src = "direct" THEN SourceSet(g, n) ELSE d, "", SourcesOf(g)),
   users |-> MembersOf(g, "user"), proxies |-> MembersOf(g, "proxy"),
   orphans |-> {g.nodes[i].id : i \in {j \in DOMAIN g.nodes : g.nodes[j].kind = "rule"}} \ c.reached]
Compile(g) == Compiled(g, CompileSets(g))

\* A set as compared: the built-in default spelled out, the users left out.
NormSet(s, kind) == [id |-> s.id, name |-> s.name, rules |-> s.rules,
                     default |-> IF s.default = None THEN BuiltinDefault(kind) ELSE s.default]
NormAll(conditions, policies) ==
  {NormSet(conditions[i], "condition") : i \in DOMAIN conditions} \cup {NormSet(policies[i], "policy") : i \in DOMAIN policies}

---------------------------------------------------------------------------
\* A set gets the id the node assigned, wherever it is named (renameSet).
RenameSet(g, from, to) ==
  LET swap(id) == CASE id = SetNode(from) -> SetNode(to)
                    [] id[1] = "end" /\ id[2] = from -> <<"end", to, id[3]>>
                    [] OTHER -> id
      node(n) ==
        CASE n.kind = "set" /\ n.id = SetNode(from) -> [n EXCEPT !.id = SetNode(to), !.set = to]
          [] n.kind = "rule" -> [n EXCEPT !.when = SwapRef(@, from, to)]
          [] n.kind = "end" /\ n.end.type = "result" /\ n.id[2] = from ->
               \* the node is named after its value, its links after their old target
               [n EXCEPT !.id = <<"end", to, EndKey(n.end)>>]
          [] OTHER -> n
  IN  [nodes |-> [i \in DOMAIN g.nodes |-> node(g.nodes[i])],
       edges |-> [i \in DOMAIN g.edges |-> [g.edges[i] EXCEPT !.source = swap(@), !.target = swap(@)]]]

---------------------------------------------------------------------------
\* Which set's chain reaches a node, which sets are handed over to, and how a
\* rule without an else goes on (analyze).

Own(a, id, set) ==
  IF id \in DOMAIN a.owner THEN a
  ELSE [a EXCEPT !.owner = [x \in DOMAIN a.owner \cup {id} |-> IF x = id THEN set ELSE a.owner[x]]]
Ghost(a, cur, e, next) == IF e = NoId /\ next # NoId THEN [a EXCEPT !.ghosts = @ \cup {<<cur, next>>}] ELSE a
RECURSIVE Claim(_, _, _, _, _)
Claim(g, cur, set, next, a) ==
  LET n == Node(g, cur)
      e == Out(g, cur, "else")
      t == Node(g, Out(g, cur, "match"))
  IN  CASE n.kind = "nothing" \/ cur \in DOMAIN a.owner -> a
        [] n.kind = "rule" /\ cur \notin DOMAIN a.owner ->
             Claim(g, e, set, next,
                   Ghost(CASE t.kind = "rule" -> Claim(g, t.id, set, IF e = NoId THEN next ELSE e, Own(a, cur, set))
                           [] t.kind = "end" -> Own(Own(a, cur, set), t.id, set)
                           [] t.kind = "set" -> [Own(a, cur, set) EXCEPT !.called = @ \cup {t.id}]
                           [] OTHER -> Own(a, cur, set),
                         cur, e, next))
        [] OTHER -> Own(a, cur, set)

Analyze(g) ==
  FoldLeft(LAMBDA a, n : IF n.kind = "set" THEN Claim(g, Out(g, n.id, "out"), n.id, NoId, a) ELSE a,
           [owner |-> [x \in {} |-> NoId], called |-> {}, ghosts |-> {}], g.nodes)

OwnerOf(a, id) == IF id \in DOMAIN a.owner THEN a.owner[id] ELSE NoId
KindAt(g, a, id) == LET s == Node(g, OwnerOf(a, id)) IN IF s.kind = "set" THEN s.setKind ELSE "none"

\* Nodes upstream of id, along links into rules, ends and sets.
RECURSIVE Upstream(_, _)
Upstream(g, seen) ==
  LET more == {g.edges[i].source : i \in {j \in DOMAIN g.edges : g.edges[j].into = "in" /\ g.edges[j].target \in seen}}
  IN  IF more \subseteq seen THEN seen ELSE Upstream(g, seen \cup more)
Ancestors(g, id) ==
  LET from == {g.edges[i].source : i \in {j \in DOMAIN g.edges : g.edges[j].into = "in" /\ g.edges[j].target = id}}
  IN  Upstream(g, from)
=============================================================================

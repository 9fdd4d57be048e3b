----------------------------- MODULE RulesGraph -----------------------------
(***************************************************************************)
(* Editing the rules as a graph, and writing the graph back                *)
(* (components/policy/graph/RulesGraph.tsx, draft.ts, save.ts) against a   *)
(* node that answers one request at a time and may refuse or lose one.     *)
(*                                                                         *)
(* draft is the store outside the view: it outlives the view, and a save   *)
(* that was started by a view which is gone still ends in it.              *)
(***************************************************************************)
EXTENDS RulesNode

CONSTANTS
  Conds,          \* conditions the inspector may set
  Names,          \* names the inspector may set
  Users, Proxies, \* ids of the node's users and of its proxies
  History,        \* length of the undo list (HISTORY, 100 in the code)
  Starts          \* what the node holds at first, and the bounds: records
                  \* [node, left], left = [edits, saves, fails, others, next, kinds]
ASSUME MembersAssumption == Users \cap Proxies = {}

VARIABLES
  node,     \* what the node holds: sets, direct entry, each member's set, last id assigned
  cfg,      \* the page's cached copy of the sets
  draft,    \* graph, base, dirty, past, future, lastKey; undone: an undo since base was loaded
  view,     \* [mounted, saving]: the editor on screen
  saves,    \* the saves started: a program each
  left      \* what is left of the budget, the number of the next new id, the add menu's entries

rvars == <<node, cfg, draft, view, saves, left>>

---------------------------------------------------------------------------
\* Links.

EndFits(n, kind) == n.kind = "end" /\ (kind = "none" \/ KindOk(n.end, kind))

ValidLink(g, a, s, h, t, th) ==
  /\ s.kind # "nothing" /\ t.kind # "nothing" /\ s.id # t.id
  /\ IF h = "ref"
     THEN /\ s.kind = "set" /\ t.kind = "rule" /\ th = "cond"
          /\ s.set \notin CondRefs(t.when) /\ OwnerOf(a, t.id) # s.id
     ELSE
     /\ th # "cond"
     /\ CASE s.kind = "source" -> t.kind = "set" /\ t.setKind = "policy"
       [] s.kind = "set" -> \/ t.kind = "rule" /\ t.id \notin Ancestors(g, s.id)
                            \/ EndFits(t, s.setKind)
       [] s.kind = "rule" -> LET k == KindAt(g, a, s.id) IN
            \/ EndFits(t, k)
            \/ t.kind = "set" /\ h = "match" /\ t.setKind = "policy" /\ k # "condition" /\ OwnerOf(a, s.id) # t.id
            \/ t.kind = "rule" /\ t.id \notin Ancestors(g, s.id)
       [] OTHER -> FALSE

\* Mutant: a rule keeps the way in it had.
LinkM(g, s, h, t, th) ==
  IF h = "ref" THEN g
  ELSE [g EXCEPT !.edges = Append(SelectSeq(@, LAMBDA e : ~(e.source = s /\ e.handle = h)), Edge(s, h, t, th))]

\* An output feeds one input; a rule has one way in.
Link(g, s, h, t, th) ==
  IF h = "ref"
  THEN [g EXCEPT !.nodes = [i \in DOMAIN @ |->
          IF @[i].id = t /\ @[i].kind = "rule" THEN [@[i] EXCEPT !.when = AddRef(@, Node(g, s).set)] ELSE @[i]]]
  ELSE [g EXCEPT !.edges = Append(
          SelectSeq(@, LAMBDA e : /\ ~(e.source = s /\ e.handle = h)
                                  /\ ~(Node(g, t).kind = "rule" /\ e.target = t /\ e.into = "in")),
          Edge(s, h, t, th))]

\* Rules in a chain from id: its match flows and else rungs.
RECURSIVE ChainRules(_, _, _)
ChainRules(g, id, acc) ==
  IF Node(g, id).kind # "rule" \/ id \in acc THEN acc
  ELSE ChainRules(g, Out(g, id, "else"), ChainRules(g, Out(g, id, "match"), acc \cup {id}))

\* One node taken out; a rule taken out of a chain closes the gap.
RemoveNode(r, id) ==
  LET g == [nodes |-> r.nodes, edges |-> r.edges]
      n == Node(g, id)
      ins == SelectSeq(r.edges, LAMBDA e : e.target = id /\ e.into = "in")
      next == Out(g, id, "else")
      dead == CASE n.kind = "rule" -> ChainRules(g, Out(g, id, "match"), {})
                [] n.kind = "set" -> ChainRules(g, Out(g, id, "out"), {})
                                       \cup {r.nodes[i].id : i \in {j \in DOMAIN r.nodes : r.nodes[j].id[1] = "end" /\ r.nodes[j].id[2] = n.set}}
                [] OTHER -> {}
      gone == r.gone \cup dead \cup {id}
      edges == IF n.kind = "rule" /\ ins # <<>> /\ next # NoId
               THEN Append(r.edges, Edge(ins[1].source, ins[1].handle, next, "in")) ELSE r.edges
      nodes == IF n.kind = "set" /\ n.setKind = "condition"
               THEN [i \in DOMAIN r.nodes |-> IF r.nodes[i].kind = "rule" THEN [r.nodes[i] EXCEPT !.when = DropRef(@, n.set)] ELSE r.nodes[i]]
               ELSE r.nodes
  IN  IF n.kind = "nothing" \/ id \in r.gone \/ (n.kind = "source" /\ n.src \notin {"user", "proxy"}) THEN r
      ELSE [nodes |-> nodes, gone |-> gone,
            edges |-> SelectSeq(edges, LAMBDA e : e.source \notin gone /\ e.target \notin gone)]

\* Nodes and links deleted together. refs: condition references, as <<set, rule>>.
TakeOut(g, nodeIds, links, refs) ==
  LET drop(n) == IF n.kind # "rule" THEN n
                 ELSE [n EXCEPT !.when = FoldSet(LAMBDA x, c : DropRef(c, x), @, {y[1] : y \in {z \in refs : z[2] = n.id}})]
      start == [nodes |-> [i \in DOMAIN g.nodes |-> drop(g.nodes[i])],
                edges |-> SelectSeq(g.edges, LAMBDA e : e \notin links), gone |-> {}]
      r == FoldLeft(RemoveNode, start, nodeIds)
  IN  [nodes |-> SelectSeq(r.nodes, LAMBDA n : n.id \notin r.gone),
       edges |-> SelectSeq(r.edges, LAMBDA e : e.source \notin r.gone /\ e.target \notin r.gone)]

---------------------------------------------------------------------------
\* The draft store.

Remember(past, g) == LET p == Append(past, g) IN SubSeq(p, IF Len(p) > History THEN Len(p) - History + 1 ELSE 1, Len(p))

\* An edit. Edits with the same key in a row undo as one.
Commit(d, g, key) ==
  [d EXCEPT !.graph = g, !.dirty = TRUE, !.future = <<>>, !.lastKey = key,
            !.past = IF key # <<>> /\ key = d.lastKey THEN @ ELSE Remember(@, d.graph)]
MarkDraft(d) == [d EXCEPT !.past = Remember(@, d.graph), !.future = <<>>, !.lastKey = <<>>]
Reset(c) == [graph |-> FromConfig(c), base |-> c, dirty |-> FALSE, past |-> <<>>, future |-> <<>>, lastKey |-> <<>>, undone |-> FALSE]

Undo ==
  /\ view.mounted /\ draft.past # <<>> /\ left.edits > 0
  /\ draft' = [draft EXCEPT !.graph = Last(draft.past), !.past = Front(@), !.future = <<draft.graph>> \o @,
                            !.dirty = TRUE, !.lastKey = <<>>, !.undone = TRUE]
  /\ left' = [left EXCEPT !.edits = @ - 1]
  /\ UNCHANGED <<node, cfg, view, saves>>
Redo ==
  /\ view.mounted /\ draft.future # <<>> /\ left.edits > 0
  /\ draft' = [draft EXCEPT !.graph = Head(draft.future), !.future = Tail(@), !.past = Append(@, draft.graph),
                            !.dirty = TRUE, !.lastKey = <<>>, !.undone = TRUE]
  /\ left' = [left EXCEPT !.edits = @ - 1]
  /\ UNCHANGED <<node, cfg, view, saves>>

---------------------------------------------------------------------------
\* Editing.

Editable == view.mounted /\ left.edits > 0
Edit(g, key) ==
  /\ draft' = Commit(draft, g, key)
  /\ left' = [left EXCEPT !.edits = @ - 1]
  /\ UNCHANGED <<node, cfg, view, saves>>

Handles(n) == CASE n.kind = "rule" -> {"match", "else"}
                [] n.kind = "set" -> IF n.setKind = "condition" THEN {"out", "ref"} ELSE {"out"}
                [] n.kind = "source" -> {"out"}
                [] OTHER -> {}
NodesOf(g) == {g.nodes[i] : i \in DOMAIN g.nodes}
Ports(g) == UNION {{<<n.id, h>> : h \in Handles(n)} : n \in NodesOf(g)}

Connect ==
  \E p \in Ports(draft.graph), t \in NodesOf(draft.graph), th \in {"in", "cond"} :
    /\ ValidLink(draft.graph, Analyze(draft.graph), Node(draft.graph, p[1]), p[2], t, th)
    /\ Edit(Link(draft.graph, p[1], p[2], t.id, th), <<>>)

EndOf(k) == CASE k = "exit" -> End("exit", "")
              [] k = "deny" -> End("deny", "reject")
              [] k \in {"true", "false"} -> End("result", k)
              [] OTHER -> End("default", "")

\* What the menu offers, opened on the canvas (from = <<>>) or by dropping a
\* link from a port.
MenuItems(g, a, from) ==
  IF from = <<>> THEN left.kinds
  ELSE LET n == Node(g, from[1])
           k == IF n.kind = "set" THEN n.setKind ELSE KindAt(g, a, n.id)
           policyEnds == {"exit", "deny", "default"}
       IN  left.kinds \cap
           (CASE n.kind = "source" -> {"policy"}
              [] from[2] = "ref" -> {"rule"}
              [] OTHER -> {"rule"} \cup (IF k = "condition" THEN {"true", "false"} ELSE policyEnds)
                            \cup (IF k = "none" THEN {"true", "false"} ELSE {})
                            \cup (IF from[2] = "match" /\ k # "condition" THEN {"policy"} ELSE {}))

\* The node an entry adds: fixed ends are shared, so the entry may name one that is there.
NewNode(g, a, k, from, n) ==
  LET tag == ToString(n)
      owner == IF from = <<>> THEN NoId
               ELSE IF Node(g, from[1]).kind = "set" THEN from[1] ELSE OwnerOf(a, from[1])
      own == Node(g, owner)
      e == EndOf(k)
      id == EndNode(e, IF own.kind = "set" THEN own.set ELSE "new" \o tag)
  IN  CASE k \in {"policy", "condition"} ->
             [id |-> SetNode("new:" \o tag), kind |-> "set", setKind |-> k, set |-> "new:" \o tag, name |-> "new"]
        [] k = "rule" -> [id |-> RuleNode("n" \o tag, ""), kind |-> "rule", rule |-> "n" \o tag, enabled |-> TRUE, when |-> Always]
        [] k \in {"user", "proxy"} -> [id |-> SrcNode(k, tag), kind |-> "source", src |-> k, members |-> {}]
        [] OTHER ->
             IF e.type \in {"deny", "default", "result"} /\ (from # <<>> \/ ~HasNode(g, id))
             THEN [id |-> id, kind |-> "end", end |-> e]
             ELSE [id |-> <<"end", "", EndKey(e) \o "~" \o tag>>, kind |-> "end", end |-> e]

Add ==
  \E from \in {<<>>} \cup Ports(draft.graph) :
    LET g == draft.graph
        a == Analyze(g)
    IN  \E k \in MenuItems(g, a, from) :
          LET n == NewNode(g, a, k, from, left.next)
              g1 == AddNode(g, n)
          IN  /\ draft' = Commit(draft, IF from = <<>> THEN g1
                                        ELSE Link(g1, from[1], from[2], n.id, IF from[2] = "ref" THEN "cond" ELSE "in"), <<>>)
              /\ left' = [left EXCEPT !.edits = @ - 1, !.next = @ + 1]
              /\ UNCHANGED <<node, cfg, view, saves>>

Delete ==
  LET g == draft.graph IN
  \/ \E x, y \in DOMAIN g.nodes :
       /\ x <= y
       /\ Edit(TakeOut(g, IF x = y THEN <<g.nodes[x].id>> ELSE <<g.nodes[x].id, g.nodes[y].id>>, {}, {}), <<>>)
  \/ \E i \in DOMAIN g.edges : Edit(TakeOut(g, <<>>, {g.edges[i]}, {}), <<>>)
  \/ \E n \in NodesOf(g) : /\ n.kind = "rule"
                           /\ \E r \in CondRefs(n.when) : Edit(TakeOut(g, <<>>, {}, {<<r, n.id>>}), <<>>)

\* The inspector: a node's own settings.
Patch(id, key, F(_)) ==
  Edit([draft.graph EXCEPT !.nodes = [i \in DOMAIN @ |-> IF @[i].id = id THEN F(@[i]) ELSE @[i]]], key)
EndPatches(e) == IF e.type = "result" THEN {End("result", "true"), End("result", "false")}
                 ELSE {End("exit", "a"), End("deny", "reject"), End("default", "")}
Inspect ==
  \E n \in NodesOf(draft.graph) :
    \/ n.kind = "set" /\ \E x \in Names : Patch(n.id, <<"name", n.id>>, LAMBDA m : [m EXCEPT !.name = x])
    \/ n.kind = "rule" /\ Patch(n.id, <<>>, LAMBDA m : [m EXCEPT !.enabled = ~@])
    \/ n.kind = "rule" /\ \E c \in Conds : Patch(n.id, <<"when", n.id>>, LAMBDA m : [m EXCEPT !.when = c])
    \/ n.kind = "end" /\ \E e \in EndPatches(n.end) : Patch(n.id, <<"end", n.id>>, LAMBDA m : [m EXCEPT !.end = e])

MemberKinds == {"user", "proxy"}
Members(k) == IF k = "user" THEN Users ELSE Proxies

\* A member belongs to one group: taking it here drops it elsewhere.
SetMembers ==
  \E n \in {m \in NodesOf(draft.graph) : m.kind = "source" /\ m.src \in MemberKinds} :
  \E pick \in SUBSET Members(n.src) :
       Edit([draft.graph EXCEPT !.nodes = [i \in DOMAIN @ |->
               IF @[i].kind # "source" \/ @[i].src # n.src THEN @[i]
               ELSE [@[i] EXCEPT !.members = IF n.id = draft.graph.nodes[i].id THEN pick ELSE @ \ pick]]], <<>>)

\* Dragging nodes and arranging them: remembered for undo, not a change.
Arrange ==
  /\ view.mounted /\ left.edits > 0
  /\ draft' = MarkDraft(draft)
  /\ left' = [left EXCEPT !.edits = @ - 1]
  /\ UNCHANGED <<node, cfg, view, saves>>

---------------------------------------------------------------------------
\* The node.

\* The answer to a request: what the node becomes, and whether it took it.
Serve(n, q) ==
  LET no == [node |-> n, ok |-> FALSE]
      yes(m) == [node |-> m, ok |-> TRUE]
  IN
  CASE q.op = "update" ->
         LET field == IF q.kind = "policy" THEN n.policies ELSE n.conditions
             m == IF q.kind = "policy" THEN [n EXCEPT !.policies = PutIn(@, q.set)] ELSE [n EXCEPT !.conditions = PutIn(@, q.set)]
         IN  IF q.set.id \in SetIds(field) /\ SetTaken(m, q.set, q.kind) THEN yes(m) ELSE no
    [] q.op = "member" -> IF q.set \in SetIds(n.policies) \cup {""} THEN yes([n EXCEPT !.sources[q.member] = q.set]) ELSE no
    [] q.op = "direct" -> IF q.set \in SetIds(n.policies) \cup {""} THEN yes([n EXCEPT !.direct = q.set]) ELSE no
    [] q.op = "delete" ->
         IF UsedBy(n, q.set) \/ q.set \notin SetIds(n.policies) \cup SetIds(n.conditions) THEN no
         ELSE yes([n EXCEPT !.policies = Without(@, q.set), !.conditions = Without(@, q.set)])

\* The sets as the node reports them: each policy set with the members it has.
MemberSeq == SetToSeq(Users) \o SetToSeq(Proxies)
KindOf(m) == IF m \in Users THEN "user" ELSE "proxy"
Report(n) ==
  [conditions |-> n.conditions, direct |-> n.direct,
   policies |-> [i \in DOMAIN n.policies |->
     [n.policies[i] EXCEPT !.refs =
        LET ms == SelectSeq(MemberSeq, LAMBDA m : n.sources[m] = n.policies[i].id)
        IN  [j \in DOMAIN ms |-> [kind |-> KindOf(ms[j]), id |-> ms[j]]]]]]

---------------------------------------------------------------------------
\* Saving.

BaseMembers(base) ==
  LET has(m) == {i \in DOMAIN base.policies : \E j \in DOMAIN base.policies[i].refs : base.policies[i].refs[j] = [kind |-> KindOf(m), id |-> m]}
  IN  [m \in {v \in Users \cup Proxies : has(v) # {}} |-> base.policies[CHOOSE i \in has(m) : \A j \in has(m) : j <= i].id]
NormOf(list, kind, id) == {NormSet(list[i], kind) : i \in {j \in DOMAIN list : list[j].id = id}}

\* Mutant: every set drawn is written.
ChangedSetsM(list, was, kind) == [i \in DOMAIN list |-> [op |-> "update", kind |-> kind, set |-> list[i]]]

ChangedSets(list, was, kind) ==
  LET changed == SelectSeq(list, LAMBDA s : NormOf(was, kind, s.id) # {NormSet(s, kind)})
  IN  [i \in DOMAIN changed |-> [op |-> "update", kind |-> kind, set |-> changed[i]]]
SetOf(f, u) == IF u \in DOMAIN f THEN f[u] ELSE ""
\* Users first, then proxies; one that is drawn nowhere any more gets none.
MovedMembers(was, now) ==
  LET moved == SelectSeq(MemberSeq, LAMBDA m : SetOf(was, m) # SetOf(now, m))
  IN  [i \in DOMAIN moved |-> [op |-> "member", member |-> moved[i], set |-> SetOf(now, moved[i])]]
Drawn(c) == c.users @@ c.proxies
GoneSets(list, ids) ==
  LET d == SelectSeq(list, LAMBDA s : s.id \notin ids) IN [i \in DOMAIN d |-> [op |-> "delete", set |-> d[i].id]]

\* The requests that turn base into the compiled graph c, new sets already created.
RequestsOf(c, base) ==
  ChangedSets(c.conditions, base.conditions, "condition")
  \o ChangedSets(c.policies, base.policies, "policy")
  \o MovedMembers(BaseMembers(base), Drawn(c))
  \o (IF c.direct # base.direct THEN <<[op |-> "direct", set |-> c.direct]>> ELSE <<>>)
  \o GoneSets(base.policies, SetIds(c.conditions \o c.policies))
  \o GoneSets(base.conditions, SetIds(c.conditions \o c.policies))

IsNew(id) == id \in NewSet
NewIn(sets) == SelectSeq(sets, LAMBDA s : IsNew(s.id))
\* What a save of c goes on with: a set to create, or the requests to send.
PlanOf(c, base) == IF NewIn(c.conditions \o c.policies) # <<>> THEN [pc |-> "creating", todo |-> <<>>]
                   ELSE [pc |-> "writing", todo |-> RequestsOf(c, base)]

\* No other writer since base was loaded: the node is at base, or at what the
\* saves of this base that failed have made of it (kept for the properties).
Alone == \/ draft.base = Report(node)
         \/ saves # <<>> /\ Last(saves).alone /\ Last(saves).pc \in {"failed", "unread"} /\ Last(saves).base = draft.base
Busy(s) == s.pc \in {"creating", "writing"}

SaveStart ==
  /\ view.mounted /\ ~view.saving /\ draft.dirty /\ left.saves > 0
  /\ \E c \in {Compile(draft.graph)}, p \in {PlanOf(Compile(draft.graph), draft.base)} :
       /\ c.errors = {}
       /\ saves' = Append([i \in DOMAIN saves |-> IF Busy(saves[i]) THEN [saves[i] EXCEPT !.alone = FALSE] ELSE saves[i]],
                          [pc |-> p.pc, todo |-> p.todo, g |-> draft.graph, base |-> draft.base,
                           drawn |-> draft.graph, alone |-> Alone /\ \A i \in DOMAIN saves : ~Busy(saves[i]),
                           undone |-> draft.undone, named |-> [x \in {} |-> ""], made |-> {}])
  /\ view' = [view EXCEPT !.saving = TRUE]
  /\ left' = [left EXCEPT !.saves = @ - 1]
  /\ UNCHANGED <<node, cfg, draft>>

\* The view that shows the spinner is the one that started the last save.
Spinner(i) == IF i = Len(saves) THEN [view EXCEPT !.saving = FALSE] ELSE view

\* Mutant: the draft keeps the graph the save began with.
FailSaveM(i, made) ==
  /\ saves' = [saves EXCEPT ![i].pc = "failed", ![i].todo = <<>>, ![i].made = made]
  /\ view' = Spinner(i)
  /\ UNCHANGED draft

\* A request failed: the graph as far as it got comes back.
FailSave(i, made) ==
  /\ saves' = [saves EXCEPT ![i].pc = "failed", ![i].todo = <<>>, ![i].made = made]
  /\ draft' = [draft EXCEPT !.graph = saves[i].g]
  /\ view' = Spinner(i)

\* The set the next request creates, and the node with it.
ToCreate(i) == LET c == Compile(saves[i].g) IN Head(NewIn(c.conditions \o c.policies))
NextId == "s" \o ToString(node.last + 1)
WithSet(i) ==
  LET c == Compile(saves[i].g)
      empty == [id |-> NextId, name |-> ToCreate(i).name, rules |-> <<>>, default |-> None, refs |-> <<>>]
      field == IF ToCreate(i).id \in SetIds(c.conditions) THEN "conditions" ELSE "policies"
  IN  [node EXCEPT !.last = @ + 1, ![field] = Append(@, empty)]

CreateNext(i) ==
  /\ saves[i].pc = "creating"
  /\ node' = WithSet(i)
  /\ \E from \in {ToCreate(i).id}, g \in {RenameSet(saves[i].g, ToCreate(i).id, NextId)} :
     \E p \in {PlanOf(Compile(g), saves[i].base)} :
       saves' = [saves EXCEPT ![i].g = g, ![i].pc = p.pc, ![i].todo = p.todo, ![i].made = @ \cup {NextId},
                              ![i].named = @ @@ (from :> NextId)]
  /\ UNCHANGED <<cfg, draft, view, left>>

SendNext(i) ==
  /\ saves[i].pc = "writing" /\ saves[i].todo # <<>>
  /\ LET r == Serve(node, Head(saves[i].todo)) IN
     \/ /\ r.ok
        /\ node' = r.node
        /\ saves' = [saves EXCEPT ![i].todo = Tail(@)]
        /\ UNCHANGED <<draft, view>>
     \/ /\ ~r.ok
        /\ UNCHANGED node
        /\ FailSave(i, saves[i].made)
  /\ UNCHANGED <<cfg, left>>

\* A request is lost on its way, or its answer is: then the node has done it.
LoseRequest(i) ==
  /\ left.fails > 0
  /\ saves[i].pc = "creating" \/ (saves[i].pc = "writing" /\ saves[i].todo # <<>>)
  /\ FailSave(i, saves[i].made)
  /\ left' = [left EXCEPT !.fails = @ - 1]
  /\ UNCHANGED <<node, cfg>>
LoseAnswer(i) ==
  /\ left.fails > 0
  /\ \/ /\ saves[i].pc = "creating"
        /\ node' = WithSet(i)
        /\ FailSave(i, saves[i].made \cup {NextId})
     \/ /\ saves[i].pc = "writing" /\ saves[i].todo # <<>>
        /\ node' = Serve(node, Head(saves[i].todo)).node
        /\ FailSave(i, saves[i].made)
  /\ left' = [left EXCEPT !.fails = @ - 1]
  /\ UNCHANGED cfg

\* Everything is written: the sets are fetched and replace the draft.
FinishSave(i) ==
  /\ saves[i].pc = "writing" /\ saves[i].todo = <<>>
  /\ saves' = [saves EXCEPT ![i].pc = "done"]
  /\ cfg' = Report(node)
  /\ draft' = Reset(Report(node))
  /\ view' = Spinner(i)
  /\ UNCHANGED <<node, left>>

\* Everything is written and the sets cannot be fetched: the draft stays as it
\* was when the save began, with the ids of new sets and the base it had.
UnreadSave(i) ==
  /\ saves[i].pc = "writing" /\ saves[i].todo = <<>> /\ left.fails > 0
  /\ saves' = [saves EXCEPT ![i].pc = "unread"]
  /\ view' = Spinner(i)
  /\ left' = [left EXCEPT !.fails = @ - 1]
  /\ UNCHANGED <<node, cfg, draft>>

---------------------------------------------------------------------------
\* The page around the editor.

\* The node's sets, unless there is unsaved work.
Refresh(d, c) == IF ~d.dirty /\ c # d.base THEN Reset(c) ELSE d

Fetch ==
  /\ cfg # Report(node)
  /\ cfg' = Report(node)
  /\ draft' = IF view.mounted THEN Refresh(draft, Report(node)) ELSE draft
  /\ UNCHANGED <<node, view, saves, left>>

ToList ==
  /\ view.mounted /\ left.saves > 0
  /\ view' = [mounted |-> FALSE, saving |-> FALSE]
  /\ UNCHANGED <<node, cfg, draft, saves, left>>
ToGraph ==
  /\ ~view.mounted
  /\ view' = [view EXCEPT !.mounted = TRUE]
  /\ draft' = Refresh(draft, cfg)
  /\ UNCHANGED <<node, cfg, saves, left>>

Discard ==
  /\ view.mounted /\ draft.dirty /\ left.edits > 0
  /\ draft' = Reset(cfg)
  /\ left' = [left EXCEPT !.edits = @ - 1]
  /\ UNCHANGED <<node, cfg, view, saves>>

\* Another operator, or the list's own dialog, writes a set.
Elsewhere ==
  /\ left.others > 0
  /\ \E i \in DOMAIN node.policies :
       node' = [node EXCEPT !.policies[i].rules = <<>>, !.policies[i].default = End("deny", "reject")]
  /\ left' = [left EXCEPT !.others = @ - 1]
  /\ saves' = [i \in DOMAIN saves |-> [saves[i] EXCEPT !.alone = FALSE]]
  /\ UNCHANGED <<cfg, draft, view>>

RInit ==
  /\ \E s \in Starts : node = s.node /\ left = s.left
  /\ cfg = Report(node)
  /\ draft = Reset(cfg)
  /\ view = [mounted |-> TRUE, saving |-> FALSE]
  /\ saves = <<>>

SaveStep == \E i \in DOMAIN saves : CreateNext(i) \/ SendNext(i) \/ LoseRequest(i) \/ LoseAnswer(i) \/ FinishSave(i) \/ UnreadSave(i)
RNext ==
  \/ Undo \/ Redo \/ Arrange
  \/ Editable /\ (Connect \/ Add \/ Delete \/ Inspect \/ SetMembers)
  \/ SaveStart \/ SaveStep
  \/ Fetch \/ ToList \/ ToGraph \/ Discard \/ Elsewhere

---------------------------------------------------------------------------
\* Properties.

\* However links are drawn, dropped, deleted, undone and redone, a port has one
\* link and a rule one way in, and following them never comes back: the editor's
\* graph is a tree per set (link, remove and isValidConnection).
TreePerSet ==
  LET g == draft.graph
      same(i, j) == g.edges[i].source = g.edges[j].source /\ g.edges[i].handle = g.edges[j].handle
      rules == {n.id : n \in {m \in NodesOf(g) : m.kind = "rule"}}
      below(ids) == {g.edges[i].target : i \in {j \in DOMAIN g.edges : g.edges[j].source \in ids}} \cap rules
      RECURSIVE under(_, _)
      under(ids, n) == IF n = 0 THEN ids ELSE under(below(ids), n - 1)
  IN  /\ \A i, j \in DOMAIN g.edges : same(i, j) => i = j
      /\ \A i, j \in DOMAIN g.edges :
           (g.edges[i].target = g.edges[j].target /\ Node(g, g.edges[i].target).kind = "rule") => i = j
      /\ under(rules, Cardinality(rules)) = {}

\* What the editor would save, drawn again from the sets it saves, saves as the
\* same sets: opening the graph after a save never changes a rule.
RedrawnAlike ==
  LET c == Compile(draft.graph)
      again == Compile(FromConfig([conditions |-> c.conditions, policies |-> c.policies, direct |-> c.direct]))
  IN  c.errors = {} => /\ again.errors = {}
                       /\ NormAll(again.conditions, again.policies) = NormAll(c.conditions, c.policies)
                       /\ again.direct = c.direct

\* A save leaves alone every set that is drawn as it was loaded: what somebody
\* else wrote to such a set meanwhile survives (the comparison with base).
UntouchedStays ==
  [][\A i \in DOMAIN saves :
       SendNext(i) =>
         \A s \in {node.policies[k] : k \in DOMAIN node.policies} :
           LET drawn == Compile(saves[i].g).policies
           IN  (NormOf(drawn, "policy", s.id) # {} /\ NormOf(drawn, "policy", s.id) = NormOf(saves[i].base.policies, "policy", s.id))
                 => NormOf(node'.policies, "policy", s.id) = {NormSet(s, "policy")}]_rvars

\* The compiled graph of save i as it was drawn, its new sets under the ids the
\* node has given them.
RECURSIVE RulesUnder(_, _)
RulesUnder(rules, named) ==
  LET id(x) == IF x \in DOMAIN named THEN named[x] ELSE x
      when(c) == FoldSet(LAMBDA x, d : SwapRef(d, x, named[x]), c, DOMAIN named)
      then(t) == CASE t.type = "call" -> End("call", id(t.arg))
                   [] t.type = "flow" -> Flow(RulesUnder(t.rules, named), t.default)
                   [] OTHER -> t
  IN  [i \in DOMAIN rules |-> [rules[i] EXCEPT !.when = when(@), !.then = then(@)]]
AsDrawn(i) ==
  LET c == Compile(saves[i].drawn)
      id(x) == IF x \in DOMAIN saves[i].named THEN saves[i].named[x] ELSE x
  IN  [sets |-> {[x EXCEPT !.id = id(@), !.rules = RulesUnder(@, saves[i].named)] : x \in NormAll(c.conditions, c.policies)},
       direct |-> id(c.direct), sources |-> [m \in Users \cup Proxies |-> id(SetOf(Drawn(c), m))]]
\* The same of what a save started from, and of what the node holds.
AtBase(i) == [sets |-> NormAll(saves[i].base.conditions, saves[i].base.policies), direct |-> saves[i].base.direct,
              sources |-> [m \in Users \cup Proxies |-> SetOf(BaseMembers(saves[i].base), m)]]
OnNode == [sets |-> NormAll(node.conditions, node.policies), direct |-> node.direct, sources |-> node.sources]
IdsIn(sets) == {s.id : s \in sets}

\* A save that has come through, and nobody else wrote since its base was loaded.
CameThrough(i) == saves[i].pc = "writing" /\ saves[i].todo = <<>> /\ saves[i].alone

\* An end of a set that is to be created still has the value it was drawn with.
EndsByValue(g) ==
  \A n \in NodesOf(g) : (n.kind = "end" /\ n.id[2] \in NewSet) => n.id[3] = EndKey(n.end)
\* What a save is asked to write as its base has it, although a save of that base
\* that failed before it was to write it otherwise: it is not sent again.
PutBack(i, part(_), base) ==
  /\ part(AsDrawn(i)) = base
  /\ \E j \in 1..(i - 1) : saves[j].base = saves[i].base /\ part(AsDrawn(j)) # base
SetIn(sets, id) == {s \in sets : s.id = id}

\* When a save reports success, a first one or a retry after requests, answers or
\* the last fetch were lost, the node holds what was drawn when it was pressed, new
\* sets under their new ids, if nobody else wrote meanwhile (saveGraph). Left out is
\* what the code gets wrong: ends of a new set whose value was changed, which lose
\* their links when the set gets its id (EndsByValue), and what was put back as the
\* base has it after a save that failed, which is not sent (PutBack). A set on the
\* node that is not drawn was created by an earlier save that failed; none is
\* created a second time after a request failed, unless the draft was taken back by
\* undo.
SavedAsDrawn ==
  \A i \in DOMAIN saves : (CameThrough(i) /\ EndsByValue(saves[i].drawn)) =>
    LET was == AtBase(i)
        now == AsDrawn(i)
    IN  /\ \A id \in IdsIn(now.sets) \cup IdsIn(was.sets) :
             \/ SetIn(OnNode.sets, id) = SetIn(now.sets, id)
             \/ PutBack(i, LAMBDA d : SetIn(d.sets, id), SetIn(was.sets, id))
        /\ OnNode.direct = now.direct \/ PutBack(i, LAMBDA d : d.direct, was.direct)
        /\ \A m \in Users \cup Proxies :
             OnNode.sources[m] = now.sources[m] \/ PutBack(i, LAMBDA d : d.sources[m], was.sources[m])
        /\ IdsIn(OnNode.sets) \ (IdsIn(now.sets) \cup IdsIn(was.sets)) \subseteq UNION {saves[j].made : j \in 1..(i - 1)}
        /\ \A j \in 1..(i - 1) : (saves[j].pc = "failed" /\ saves[j].base = saves[i].base /\ ~saves[i].undone)
                                 => DOMAIN saves[j].named \cap DOMAIN saves[i].named = {}
=============================================================================

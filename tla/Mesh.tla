-------------------------------- MODULE Mesh --------------------------------
(***************************************************************************)
(* The nodes page. One report of the mesh, a tree of nodes below this node *)
(* and below the peers it dials, is walked by six pieces of the console:   *)
(* the list (pages/NodesPage.tsx), the details dialog                      *)
(* (components/NodeDetailModal.tsx), the graph and its routes              *)
(* (components/topo/graphModel.ts), the exit paths and the reachable names *)
(* (store/node.ts, hooks/useExitPaths.ts) and the nodes that can be        *)
(* managed (utils/remoteAuth.ts). A key is its sequence of names.          *)
(***************************************************************************)
EXTENDS Integers, Sequences, SequencesExt, FiniteSets

CONSTANTS Meshes,       \* the reports the node may give: sequences of nodes
          Me, MyName,   \* the id and the display name of this node
          MeshLooks     \* bound on what the user does

VARIABLE mesh

\* A node of a report.
N(name, dir, conn, dis, nest, native, lat, kids) ==
  [name |-> name, dir |-> dir, conn |-> conn, dis |-> dis, nest |-> nest, native |-> native, lat |-> lat, kids |-> kids]
IsSelf(n) == n.dir = "local"
SelfNames == {Me, MyName}
SelfKey == <<"__self__">>
SelfOf(topo) == topo[SelectInSeq(topo, IsSelf)]
Peers(topo) == SelectSeq(topo, LAMBDA n : ~IsSelf(n))

---------------------------------------------------------------------------
\* The list.

Safe(kids, above) == {c \in Range(kids) : c.name \notin above}
RECURSIVE ChildRows(_, _)
ChildRows(c, parent) ==
  {[key |-> Append(parent, c.name), of |-> c]} \cup
  (IF c.dis THEN {}
   ELSE UNION {ChildRows(k, Append(parent, c.name)) : k \in Safe(c.kids, Range(parent) \cup SelfNames \cup {c.name})})
ListRows(topo) ==
  UNION {{[key |-> IF IsSelf(n) THEN SelfKey ELSE <<n.name>>, of |-> n]} \cup
         UNION {ChildRows(c, <<IF IsSelf(n) THEN Me ELSE n.name>>) : c \in Safe(n.kids, SelfNames \cup {n.name})} :
           n \in Range(topo)}
Keys(topo) == {r.key : r \in ListRows(topo)}
FindData(topo, key) == {r.of : r \in {x \in ListRows(topo) : x.key = key}}

\* A key without this node's own name in front.
Stripped(key) == IF Len(key) > 1 /\ Head(key) = Me THEN Tail(key) ELSE key

---------------------------------------------------------------------------
\* The details dialog: the node a key points at.

Named(list, name) == SelectInSeq(list, LAMBDA n : n.name = name)
RECURSIVE Down(_, _)
Down(list, rest) ==
  LET i == Named(list, Head(rest)) IN
  IF i = 0 THEN {} ELSE IF Len(rest) = 1 THEN {list[i]} ELSE Down(list[i].kids, Tail(rest))
\* (a plausible mistake: the peers that dialled this node are looked for among
\* those it dials)
FindNodeM(topo, key) == IF key = SelfKey THEN {SelfOf(topo)} ELSE Down(Peers(topo), Stripped(key))
FindNode(topo, key) ==
  CASE key = SelfKey -> {SelfOf(topo)}
    [] Len(key) > 1 /\ Head(key) = Me -> Down(SelfOf(topo).kids, Tail(key))
    [] OTHER -> Down(Peers(topo), key)

---------------------------------------------------------------------------
\* The graph: one dot per name, one edge per dialler and dialled.

SegLat(n, cum) ==
  IF ~n.conn THEN -1 ELSE IF n.lat > cum /\ cum >= 0 THEN n.lat - cum ELSE IF n.lat > 0 \/ n.lat = -1 THEN n.lat ELSE 0
RECURSIVE Seen(_, _, _, _)
Seen(list, parent, cum, q) ==
  FoldLeft(LAMBDA out, n :
    IF n.name \in SelfNames \cup Range(q) THEN out
    ELSE Append(out, [of |-> n, q |-> Append(q, n.name), parent |-> parent, seg |-> SegLat(n, cum)])
         \o Seen(n.kids, n.name, n.lat, Append(q, n.name)), <<>>, list)
Observed(topo) ==
  FoldLeft(LAMBDA out, n :
    out \o (IF IsSelf(n) THEN Seen(n.kids, Me, 0, <<Me>>) ELSE Seen(<<n>>, Me, 0, <<Me>>)), <<>>, topo)

Edited(o) == Len(o.q) = 2 /\ o.of.dir = "outbound"
NewDot(o) ==
  [disabled |-> o.of.dis, offline |-> o.of.dis \/ ~o.of.conn, nested |-> o.of.nest, depth |-> Len(o.q) - 1, degree |-> 0,
   q |-> o.q, any |-> o.of.conn, un |-> ~o.of.conn, editable |-> Edited(o)]
\* Offline only where every route is; the route kept is a shortest one.
MergeFlags(d, o) ==
  LET dis == d.disabled \/ o.of.dis
      any == d.any \/ o.of.conn
      un == d.un \/ ~o.of.conn IN
  [d EXCEPT !.disabled = dis, !.nested = @ \/ o.of.nest, !.any = any, !.un = un, !.offline = dis \/ (un /\ ~any)]
Closer(d, o) ==
  IF Len(o.q) - 1 < d.depth THEN [d EXCEPT !.depth = Len(o.q) - 1, !.q = o.q, !.editable = @ \/ Edited(o)] ELSE d
Dots(topo) ==
  FoldLeft(LAMBDA dots, o :
    [x \in DOMAIN dots \cup {o.of.name} |->
      IF x # o.of.name THEN dots[x] ELSE IF x \in DOMAIN dots THEN Closer(MergeFlags(dots[x], o), o) ELSE NewDot(o)],
    [x \in {} |-> {}], Observed(topo))

\* Where the direction is not known, the edge is under the pair.
EdgeKey(o) ==
  CASE o.of.dir = "outbound" -> <<o.parent, o.of.name>>
    [] o.of.dir = "inbound" -> <<o.of.name, o.parent>>
    [] OTHER -> <<{o.parent, o.of.name}>>
CumOf(o) == IF ~o.of.conn \/ o.of.lat <= 0 THEN 999 ELSE o.of.lat
NewEdge(o) == [disabled |-> o.of.dis, seg |-> o.seg, best |-> CumOf(o)]
MergeEdge(e, o) ==
  LET shorter == o.seg > 0 /\ CumOf(o) < e.best IN
  [disabled |-> e.disabled \/ o.of.dis, seg |-> IF shorter \/ (e.seg <= 0 /\ o.seg > 0) THEN o.seg ELSE e.seg,
   best |-> IF shorter THEN CumOf(o) ELSE e.best]
Edges(topo) ==
  FoldLeft(LAMBDA edges, o :
    [x \in DOMAIN edges \cup {EdgeKey(o)} |->
      IF x # EdgeKey(o) THEN edges[x] ELSE IF x \in DOMAIN edges THEN MergeEdge(edges[x], o) ELSE NewEdge(o)],
    [x \in {} |-> {}], Observed(topo))

\* Every route to a node, the reachable and quickest first.
RECURSIVE Routes(_, _, _, _, _)
Routes(list, segs, hops, cum, broken) ==
  FoldLeft(LAMBDA out, n :
    IF segs # <<>> /\ n.name \in SelfNames \cup Range(segs) THEN out
    ELSE LET bad == ~IsSelf(n) /\ (~n.conn \/ n.dis \/ n.lat = -1)
             c == IF IsSelf(n) THEN cum ELSE IF n.lat > 0 THEN n.lat ELSE 0
             hop == IF bad THEN -1 ELSE IF c > cum /\ cum >= 0 THEN c - cum ELSE c
             name == IF IsSelf(n) THEN Me ELSE n.name
             here == [segs |-> Append(segs, name), hops |-> IF IsSelf(n) THEN hops ELSE Append(hops, hop),
                      total |-> IF broken \/ bad THEN -1 ELSE IF IsSelf(n) THEN 0 ELSE c, offline |-> broken \/ bad] IN
         Append(out, here) \o Routes(n.kids, here.segs, here.hops, c, here.offline), <<>>, list)
Rank(p) == IF p.offline THEN 2 ELSE IF p.total > 0 THEN 0 ELSE 1
Before(p, q) ==
  \/ Rank(p) < Rank(q)
  \/ Rank(p) = Rank(q) /\ Rank(p) = 0 /\ p.total < q.total
  \/ Rank(p) = Rank(q) /\ (Rank(p) = 0 => p.total = q.total) /\ Len(p.hops) < Len(q.hops)
FindPaths(topo, target) ==
  LET all == SelectSeq(Routes(topo, <<>>, <<>>, 0, FALSE), LAMBDA p : Last(p.segs) = target)
      order == SetToSortSeq(DOMAIN all, LAMBDA i, j : Before(all[i], all[j]) \/ (~Before(all[j], all[i]) /\ i < j)) IN
  [i \in DOMAIN all |-> all[order[i]]]

---------------------------------------------------------------------------
\* What can be chosen as an exit, and what of it is reachable by name.

RECURSIVE ExitsBelow(_, _)
ExitsBelow(kids, prefix) ==
  UNION {{Append(prefix, c.name)} \cup ExitsBelow(c.kids, Append(prefix, c.name)) : c \in Safe(kids, Range(prefix))}
ExitPaths(topo) ==
  ExitsBelow(SelfOf(topo).kids, <<Me>>)
  \cup UNION {{<<n.name>>} \cup ExitsBelow(n.kids, <<n.name>>) : n \in Range(Peers(topo))}

RECURSIVE Everyone(_, _)
Everyone(list, parent) ==
  UNION {{[path |-> Append(parent, n.name), of |-> n]} \cup Everyone(n.kids, Append(parent, n.name)) : n \in Range(list)}
AllNodes(topo) == Everyone(SelfOf(topo).kids, <<>>) \cup Everyone(Peers(topo), <<>>)
ConnectedPeers(topo) == {Me} \cup {x.of.name : x \in {y \in AllNodes(topo) : y.of.conn}}
DisabledPeers(topo) == {x.of.name : x \in {y \in AllNodes(topo) : y.of.dis /\ Len(y.path) = 1}}
DisabledPaths(topo) == {x.path : x \in {y \in AllNodes(topo) : y.of.dis /\ Len(y.path) > 1}}
IsReachableAt(topo, path) ==
  /\ Last(path) \notin DisabledPeers(topo)
  /\ \A i \in 1..Len(path) : SubSeq(path, 1, i) \notin DisabledPaths(topo)
  /\ Last(path) \in ConnectedPeers(topo)

\* The nodes that can be managed from here, each by a shortest chain.
Manageable(n) == n.conn /\ ~n.dis /\ ~n.native
RECURSIVE Chains(_, _)
Chains(level, out) ==
  IF level = <<>> THEN out
  ELSE LET good == SelectSeq(level, LAMBDA x : Manageable(x.of) /\ x.of.name # SelfOf(mesh.topo).name)
           below(x) == IF x.of.nest THEN SelectSeq(x.of.kids, LAMBDA c : c.name \notin Range(x.chain)) ELSE <<>>
           next == FoldLeft(LAMBDA acc, x :
                     acc \o [i \in DOMAIN below(x) |-> [of |-> below(x)[i], chain |-> Append(x.chain, below(x)[i].name)]],
                     <<>>, good)
           first(name) == good[SelectInSeq(good, LAMBDA x : x.of.name = name)].chain IN
       Chains(next, [name \in DOMAIN out \cup {x.of.name : x \in Range(good)} |->
                       IF name \in DOMAIN out THEN out[name] ELSE first(name)])
RemoteChains(topo) ==
  LET tops == SelfOf(topo).kids \o Peers(topo) IN
  Chains([i \in DOMAIN tops |-> [of |-> tops[i], chain |-> <<tops[i].name>>]], [x \in {} |-> <<>>])

---------------------------------------------------------------------------
\* The page: the report is fetched every two seconds; rows are selected in
\* the list, or one by its dot in the graph; the bar acts on them.

Nothing == [kind |-> "none"]
MeshInits == {[topo |-> t, sel |-> {}, open |-> Nothing, sent |-> {}, looks |-> MeshLooks] : t \in Meshes}

\* Rows that are gone are no longer selected.
Report ==
  /\ mesh.looks > 0
  /\ \E t \in Meshes : mesh' = [mesh EXCEPT !.topo = t, !.sel = @ \cap Keys(t), !.looks = @ - 1, !.sent = {}]
Look(sel) == mesh' = [mesh EXCEPT !.sel = sel, !.looks = @ - 1, !.open = Nothing, !.sent = {}]
PickRow == mesh.looks > 0 /\ \E k \in Keys(mesh.topo) : Look(IF k \in mesh.sel THEN mesh.sel \ {k} ELSE mesh.sel \cup {k})
PickDot ==
  /\ mesh.looks > 0
  /\ \E x \in DOMAIN Dots(mesh.topo) :
       \E key \in {FindPaths(mesh.topo, x)[1].segs} : Look({key} \cap Keys(mesh.topo))

\* What the bar offers for one selected row.
Direct(topo, name) == \E n \in Range(Peers(topo)) \cup Range(SelfOf(topo).kids) : n.name = name
BarOpens(topo, key) ==
  IF key = SelfKey THEN [kind |-> "self"]
  ELSE IF Len(Stripped(key)) > 1
  THEN IF Direct(topo, Last(key)) \/ Last(key) = MyName \/ \E n \in FindData(topo, key) : n.native THEN Nothing
       ELSE [kind |-> "punch", name |-> Last(key), signal |-> Stripped(key)]
  ELSE IF \E n \in FindData(topo, key) : n.dir # "inbound" THEN [kind |-> "edit", name |-> Last(Stripped(key))]
  ELSE Nothing
OpenFromBar ==
  /\ Cardinality(mesh.sel) = 1
  /\ \E k \in mesh.sel : mesh' = [mesh EXCEPT !.open = BarOpens(mesh.topo, k), !.sent = {}]
\* A row's name opens the form of what is configured here; the row itself
\* its details, and from there the node, through the mesh.
OpenByName ==
  \E n \in Range(mesh.topo) :
    mesh' = [mesh EXCEPT !.open = IF IsSelf(n) THEN [kind |-> "self"] ELSE [kind |-> "edit", name |-> n.name], !.sent = {}]
OpenDetail == \E k \in Keys(mesh.topo) : mesh' = [mesh EXCEPT !.open = [kind |-> "detail", key |-> k], !.sent = {}]
OpenRemote ==
  /\ mesh.open.kind = "detail" /\ mesh.open.key # SelfKey
  /\ \E n \in FindNode(mesh.topo, mesh.open.key) :
       Manageable(n) /\ mesh' = [mesh EXCEPT !.open = [kind |-> "remote", chain |-> Stripped(mesh.open.key)], !.sent = {}]

\* The buttons on what is selected; a request per row. Taking a node out is
\* offered with a row of the top level, and sends only those.
Datas == UNION {FindData(mesh.topo, k) : k \in mesh.sel}
Others == {n \in Datas : ~IsSelf(n)}
Ask(op, keys) == mesh' = [mesh EXCEPT !.sent = {[op |-> op, key |-> k] : k \in keys}, !.open = Nothing]
BulkToggle(on) ==
  /\ \E n \in Datas : n.dis = on
  /\ mesh' = [mesh EXCEPT !.sent = {[op |-> IF Len(k) > 1 THEN "peer" ELSE "client", key |-> k] : k \in mesh.sel},
                          !.open = Nothing]
BulkNested(on) == (\E n \in Others : n.nest # on) /\ Ask("nested", mesh.sel)
BulkDelete == (\E k \in mesh.sel \ {SelfKey} : Len(k) = 1) /\ Ask("delete", {k \in mesh.sel : Len(k) = 1})
\* The arrow of one row.
NestRow == \E k \in Keys(mesh.topo) \ {SelfKey} : Ask("nested", {k})

MeshNext ==
  \/ Report \/ PickRow \/ PickDot \/ OpenFromBar \/ OpenByName \/ OpenDetail \/ OpenRemote \/ BulkDelete \/ NestRow
  \/ \E on \in BOOLEAN : BulkToggle(on) \/ BulkNested(on)

---------------------------------------------------------------------------
\* Each row of the list is one node, no node is below itself or below this
\* one, and the details of a row are the details of its node; each exit that
\* can be chosen can be found.
RowsResolve ==
  /\ \A r \in ListRows(mesh.topo) :
       FindNode(mesh.topo, r.key) = {r.of} /\ IsInjective(r.key) /\ FindData(mesh.topo, r.key) = {r.of}
  /\ \A p \in ExitPaths(mesh.topo) : FindNode(mesh.topo, p) # {}

\* A dot of the graph stands for all the rows of its name: off only where all
\* its routes are, as far as its shortest one, with an edge to each neighbour.
RoutesTo(x) == {o \in Range(Observed(mesh.topo)) : o.of.name = x}
DotsMerge ==
  \A x \in DOMAIN Dots(mesh.topo) : \E d \in {Dots(mesh.topo)[x]} :
    /\ d.offline <=> (\E o \in RoutesTo(x) : o.of.dis) \/ \A o \in RoutesTo(x) : ~o.of.conn
    /\ \A o \in RoutesTo(x) : d.depth <= Len(o.q) - 1
    /\ \E o \in RoutesTo(x) : o.q = d.q /\ Len(d.q) - 1 = d.depth
    /\ d.editable => Direct(mesh.topo, x)

\* The first route offered to a node is usable whenever one is.
BestFirst ==
  \A x \in DOMAIN Dots(mesh.topo) : \E ps \in {FindPaths(mesh.topo, x)} :
    \A i \in DOMAIN ps : (ps[1].offline => ps[i].offline) /\ (ps[1].total > 0 /\ ps[i].total > 0 => ps[1].total <= ps[i].total)

\* A node can be managed only over a way on which each node is connected and
\* shows what is behind it, and no shorter one exists.
Openly(chain) ==
  \E start \in {<<>>, <<Me>>} :
    \A i \in 1..Len(chain) :
      \E n \in FindNode(mesh.topo, start \o SubSeq(chain, 1, i)) : Manageable(n) /\ (i < Len(chain) => n.nest)
ChainsAreOpen ==
  \E chains \in {RemoteChains(mesh.topo)} :
    \A p \in {Stripped(q) : q \in ExitPaths(mesh.topo)} : \E x \in {Last(p)} :
      /\ Openly(p) => x \in DOMAIN chains /\ Len(chains[x]) <= Len(p)
      /\ x \in DOMAIN chains => Openly(chains[x]) /\ Last(chains[x]) = x

\* The form of an entry opens only for a peer this node dials; a punched one
\* is made only for a node that is no direct peer, over a way that ends there.
OpensWhatIs ==
  mesh'.open # mesh.open /\ mesh'.open.kind \in {"edit", "punch"} =>
    IF mesh'.open.kind = "edit" THEN \E n \in Range(Peers(mesh.topo)) : n.name = mesh'.open.name
    ELSE /\ ~Direct(mesh.topo, mesh'.open.name) /\ Last(mesh'.open.signal) = mesh'.open.name
         /\ \E k \in mesh.sel : \A n \in FindNode(mesh.topo, k) : ~n.native

\* A way to an exit through the peers this node dials is shown as usable only
\* when no node on it is switched off.
ReachIsTrue ==
  \A p \in {q \in ExitPaths(mesh.topo) : Head(q) # Me} :
    IsReachableAt(mesh.topo, p) => \A i \in 1..Len(p) : \A n \in FindNode(mesh.topo, SubSeq(p, 1, i)) : ~n.dis

\* graphModel.ts:5-10: "so the graph never shows more than the list": a node with
\* a dot has a row.
GraphWithinList == \A x \in DOMAIN Dots(mesh.topo) : \E k \in Keys(mesh.topo) : Last(k) = x
=============================================================================

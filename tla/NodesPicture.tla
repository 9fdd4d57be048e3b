----------------------------- MODULE NodesPicture ----------------------------
(***************************************************************************)
(* The graph of the nodes page (components/NodesGraphView.tsx): the route  *)
(* to the selected node that is lit, the automatic drawings that stay put  *)
(* while links come and go, and how such a drawing is made                 *)
(* (components/topo/layouts.ts). Lengths are whole pixels. How crowded a   *)
(* drawing is, is not modelled: any of the spreads tried may be chosen.    *)
(***************************************************************************)
EXTENDS Mesh, FiniteSetsExt

CONSTANTS Plans,        \* what is drawn, and with which spread
          Coming,       \* the nodes that come and go
          PictureLooks  \* bound on polls and clicks

VARIABLES route, picture

---------------------------------------------------------------------------
\* The selected node and the lit route to it. The page keeps the rows that are
\* selected (sel), the graph the route (cur).

RowKey(q) == IF q = <<Me>> THEN SelfKey ELSE q
LocalQ(k) == IF k = SelfKey THEN <<Me>> ELSE k
Told(sel) == IF Cardinality(sel) = 1 THEN LocalQ(CHOOSE k \in sel : TRUE) ELSE <<>>
RouteKeys(p) == IF Head(p.segs) = Me THEN p.segs ELSE <<Me>> \o p.segs
SelectedPaths(r) == IF r.cur = <<>> THEN <<>> ELSE FindPaths(r.topo, Last(r.cur))
PathIdx(ps, cur) == Max({1, SelectInSeq(ps, LAMBDA p : p.segs = cur)})

\* Between two peers that dial each other, the first hop is the connection the
\* route is about.
Cands(a, b, inbound) == (IF inbound THEN <<<<b, a>>, <<a, b>>>> ELSE <<<<a, b>>, <<b, a>>>>) \o <<<<{a, b}>>>>
FirstOf(cands, edges) == SelectSeq(cands, LAMBDA c : c \in edges)
EdgesFor(edges, p, keys) ==
  [i \in 1..(Len(keys) - 1) |-> FirstOf(Cands(keys[i], keys[i + 1], i = 1 /\ Head(p.segs) = Me), edges)]
Lit(topo, p) == EdgesFor(DOMAIN Edges(topo), p, RouteKeys(p))

RouteInits == {[topo |-> t, sel |-> {}, cur |-> <<>>, looks |-> PictureLooks] : t \in Meshes}
\* Rows that are not in the list are unselected; the graph follows the page.
Settled(r, topo, sel, cur) ==
  [topo |-> topo, sel |-> sel, cur |-> IF Told(sel) # Told(r.sel) THEN Told(sel) ELSE cur, looks |-> r.looks - 1]
SelectPath(q) ==
  IF RowKey(q) \in Keys(route.topo)
  THEN route' = Settled(route, route.topo, {RowKey(q)}, q)
  ELSE route' = [route EXCEPT !.sel = {}, !.cur = <<>>, !.looks = @ - 1]

\* A click goes on to the next route of the same node, or along the route shown.
Extends(p, cur) == Len(p.segs) > Len(cur) /\ SubSeq(p.segs, 1, Len(cur)) = cur
Further(ps, cur) == IF cur = <<>> THEN <<>> ELSE SelectSeq(ps, LAMBDA p : Extends(p, cur))
ClickDot ==
  \E x \in DOMAIN Dots(route.topo) \cup {Me} : \E ps \in {FindPaths(route.topo, x)} :
    /\ ps # <<>>
    /\ IF route.cur # <<>> /\ Last(route.cur) = x
       THEN SelectPath(ps[(PathIdx(ps, route.cur) % Len(ps)) + 1].segs)
       ELSE SelectPath(Head(Further(ps, route.cur) \o ps).segs)
\* The panel's arrows and list.
ChooseRoute == \E p \in ToSet(SelectedPaths(route)) : SelectPath(p.segs)
ClickBlank == route.cur # <<>> /\ route' = [route EXCEPT !.sel = {}, !.cur = <<>>, !.looks = @ - 1]
\* Rows checked in the list; the graph mounted anew shows what is selected.
CheckRows == \E a, b \in Keys(route.topo) : route' = [route EXCEPT !.sel = {a, b}, !.cur = Told({a, b}), !.looks = @ - 1]
RoutePolled == \E t \in Meshes : route' = Settled(route, t, route.sel \cap Keys(t), route.cur)
RouteNext == route.looks > 0 /\ (ClickDot \/ ChooseRoute \/ ClickBlank \/ CheckRows \/ RoutePolled)

---------------------------------------------------------------------------
\* An automatic drawing stays put: it is made again only for a node it never
\* placed. A spot is where the drawing of a graph puts a node, or beside another.

Presets == {"layered", "ring"}
Spot(nodes, links, k, beside) == [nodes |-> nodes, links |-> links, key |-> k, beside |-> beside]
LaidOut(nodes, links) == [k \in nodes |-> Spot(nodes, links, k, FALSE)]
Undrawn == [pos |-> [k \in {} |-> 0], known |-> {}, keys |-> {}, out |-> [k \in {} |-> 0]]
Redo(f, nodes) == nodes \ f.known # {}
Remade(f, nodes, links) ==
  IF Redo(f, nodes) THEN [pos |-> LaidOut(nodes, links), known |-> f.known \cup nodes, keys |-> {}, out |-> f.out] ELSE f
Neighbours(links, k) == {m \in UNION links : m # k /\ {k, m} \in links}
\* Nodes whose place the last drawing has lost come beside a neighbour.
Near(pos, k, links) ==
  IF Neighbours(links, k) \cap DOMAIN pos = {} THEN Spot({}, {}, k, TRUE)
  ELSE Spot({}, {}, CHOOSE m \in Neighbours(links, k) \cap DOMAIN pos : TRUE, TRUE)
Filled(f, nodes, links) ==
  FoldSet(LAMBDA k, pos : IF k \in DOMAIN pos THEN pos ELSE (k :> Near(pos, k, links)) @@ pos, f.pos, nodes)
Frozen(f, nodes, pos) == [f EXCEPT !.pos = pos, !.keys = nodes, !.out = [k \in nodes |-> pos[k]]]
Placed2(f, nodes, links) == IF f.keys = nodes THEN f ELSE Frozen(f, nodes, Filled(f, nodes, links))
LayoutFor(f, nodes, links) == Placed2(Remade(f, nodes, links), nodes, links)

\* Where each node of a drawing last was, since the drawing was made. The layers are
\* made along with any other drawing: a node without a place takes its place there.
Seen2(was, f, nodes, shown) ==
  [k \in (IF nodes \subseteq f.known THEN DOMAIN was ELSE {}) \cup nodes |-> IF k \in nodes THEN shown[k] ELSE was[k]]
Drawn(p, fs, id, nodes, links) ==
  [p EXCEPT !.nodes = nodes, !.links = links, !.preset = id, !.frozen = fs @@ @, !.looks = @ - 1,
            !.was = [i \in DOMAIN fs |-> Seen2(@[i], p.frozen[i], nodes, fs[i].out)] @@ @]
Drawing2(p, id, nodes, links) ==
  picture' = Drawn(p, [i \in {id, "layered"} |-> LayoutFor(p.frozen[i], nodes, links)], id, nodes, links)
Start == [nodes |-> {0}, links |-> {}, preset |-> "layered", looks |-> PictureLooks + 2,
          frozen |-> [id \in Presets |-> Undrawn], was |-> [id \in Presets |-> [k \in {} |-> 0]]]
PictureInits == {Start}
AllLinks(nodes) == {l \in SUBSET nodes : Cardinality(l) = 2}
PicturePolled ==
  \E some \in SUBSET Coming : \E links \in SUBSET AllLinks(some \cup {0}) :
    /\ \A k \in some : \E l \in links : k \in l
    /\ Drawing2(picture, picture.preset, some \cup {0}, links)
PickPreset == \E id \in Presets : id # picture.preset /\ Drawing2(picture, id, picture.nodes, picture.links)
PictureNext == picture.looks > 0 /\ (PicturePolled \/ PickPreset)

---------------------------------------------------------------------------
\* Drawing in layers: a node is on the layer of its distance; within a layer the
\* order with the fewest crossings of twelve sweeps. A graph is [depth, width,
\* links]: hops from this node, width of the name, links as <<from, to>>.

Nodes(g) == DOMAIN g.depth
AdjOf(g, k) == {m \in Nodes(g) \ {k} : <<k, m>> \in g.links \/ <<m, k>> \in g.links}
Inserted(out, a, Prec(_, _)) == SelectSeq(out, LAMBDA b : ~Prec(a, b)) \o <<a>> \o SelectSeq(out, LAMBDA b : Prec(a, b))
ByKey(S) == FoldSet(LAMBDA a, out : Inserted(out, a, LAMBDA x, y : x < y), <<>>, S)
LayersOf(g) ==
  SelectSeq([d \in 1..(Max(Range(g.depth)) + 1) |-> ByKey({k \in Nodes(g) : g.depth[k] = d - 1})], LAMBDA l : l # <<>>)
Pairs(g) == {<<a, b>> \in Nodes(g) \X Nodes(g) : a < b /\ (<<a, b>> \in g.links \/ <<b, a>> \in g.links)}

\* Two segments cross, other than at their ends; positions are <<x, y>>.
Inside(n, d) == IF d > 0 THEN 100 * n > d /\ 100 * n < 99 * d ELSE 100 * n < d /\ 100 * n > 99 * d
Det(p1, p2, p3, p4) == (p2[1] - p1[1]) * (p4[2] - p3[2]) - (p2[2] - p1[2]) * (p4[1] - p3[1])
SegCross(p1, p2, p3, p4) ==
  /\ Det(p1, p2, p3, p4) # 0
  /\ Inside(Det(p1, p3, p3, p4), Det(p1, p2, p3, p4)) /\ Inside(Det(p1, p3, p1, p2), Det(p1, p2, p3, p4))
Crossings(ps, pos) ==
  Cardinality({{p, q} : <<p, q>> \in {x \in ps \X ps : {x[1][1], x[1][2]} \cap {x[2][1], x[2][2]} = {}
                                        /\ SegCross(pos[x[1][1]], pos[x[1][2]], pos[x[2][1]], pos[x[2][2]])}})

\* Slots count in halves from the middle of a layer.
SlotIn(l, k) == 2 * SelectInSeq(l, LAMBDA x : x = k) - (Len(l) + 1)
LayerOf(ls, k) == SelectInSeq(ls, LAMBDA l : k \in ToSet(l))
Slots2(ls) == [k \in UNION {ToSet(ls[i]) : i \in DOMAIN ls} |-> SlotIn(ls[LayerOf(ls, k)], k)]
EvalPos(g, s) == [k \in Nodes(g) |-> <<s[k], 2 * g.depth[k]>>]
Refs(g, k, down) == {m \in AdjOf(g, k) : IF down THEN g.depth[m] < g.depth[k] ELSE g.depth[m] > g.depth[k]}
Score(s, k, ns) == IF ns = {} THEN <<s[k], 1>> ELSE <<MapThenSumSet(LAMBDA m : s[m], ns), Cardinality(ns)>>
Less(a, b) == a[1] * b[2] < b[1] * a[2]
ByScore(l, sc) == FoldLeft(LAMBDA out, a : Inserted(out, a, LAMBDA x, y : Less(sc[x], sc[y])), <<>>, l)
Swept(g, ls, li, down, s) == [ls EXCEPT ![li] = ByScore(@, [k \in ToSet(@) |-> Score(s, k, Refs(g, k, down))])]
SweepOrder(n, down) == [i \in 1..(n - 1) |-> IF down THEN i + 1 ELSE n - i]
Sweep(g, ls, down) == FoldLeft(LAMBDA cur, li : Swept(g, cur, li, down, Slots2(cur)), ls, SweepOrder(Len(ls), down))
Count(g, ls) == Crossings(Pairs(g), EvalPos(g, Slots2(ls)))
Kept(out, cur, c) == [cur |-> cur, best |-> IF c < out.least THEN cur ELSE out.best, least |-> IF c < out.least THEN c ELSE out.least]
Counted(g, out, cur) == Kept(out, cur, Count(g, cur))
OrderLayers(g, ls) ==
  FoldLeft(LAMBDA out, it : Counted(g, out, Sweep(g, out.cur, it % 2 = 1)),
           [cur |-> ls, best |-> ls, least |-> Count(g, ls)], [it \in 1..12 |-> it]).best

\* Places in order, at least a gap apart, as near to what is wanted as that lets
\* them: neighbours out of order are pooled at their weighted mean.
Joined(a, b) == [v |-> (a.v * a.w + b.v * b.w) \div (a.w + b.w), w |-> a.w + b.w, n |-> a.n + b.n]
RECURSIVE Pool(_)
Pool(bs) ==
  IF Len(bs) < 2 \/ bs[Len(bs) - 1].v <= bs[Len(bs)].v THEN bs
  ELSE Pool(Append(SubSeq(bs, 1, Len(bs) - 2), Joined(bs[Len(bs) - 1], bs[Len(bs)])))
Unpooled(bs, gap) == FoldLeft(LAMBDA out, b : out \o [j \in 1..b.n |-> b.v + (Len(out) + j - 1) * gap], <<>>, bs)
PackAlong(want, wt, gap) ==
  Unpooled(FoldLeft(LAMBDA bs, i : Pool(Append(bs, [v |-> want[i] - (i - 1) * gap, w |-> wt[i], n |-> 1])), <<>>,
                    [i \in DOMAIN want |-> i]), gap)

\* From the top down, or left to right.
TD == [level |-> 130, sib |-> 92, stagger |-> 48, perRow |-> 12, lr |-> FALSE]
LR == [level |-> 200, sib |-> 56, stagger |-> 84, perRow |-> 14, lr |-> TRUE]
Hub == 15
LabelW == 62
LabelH == 27
CeilDiv(a, b) == (a + b - 1) \div b
RowsOf(S, l) == CeilDiv(Len(l), S.perRow)
Widest(g, l) == Max({0} \cup {g.width[l[i]] : i \in DOMAIN l})
SibOf(S, w, fa) ==
  IF S.lr THEN Max({(S.sib * fa) \div 100, 2 * Hub + 18}) ELSE Max({(Max({S.sib, w + 16}) * fa) \div 100, w + 14})
StaggerOf(S, w) == IF S.lr THEN Max({S.stagger, w + 18}) ELSE S.stagger
Sibs(g, S, ls, fa) == [i \in DOMAIN ls |-> SibOf(S, Widest(g, ls[i]), fa)]
BandLoad(g, ls) ==
  [i \in 1..(Len(ls) - 1) |-> Cardinality({l \in g.links : LayerOf(ls, l[1]) # LayerOf(ls, l[2]) /\ Min({LayerOf(ls, l[1]), LayerOf(ls, l[2])}) = i})]
SpanOf(S, l, sib) == ((Len(l) - 1) * sib) \div RowsOf(S, l)
LabelRows(S, load, room) == CeilDiv(load, Max({1, room \div (IF S.lr THEN LabelH + 9 ELSE LabelW + 10)}))
Need(S, rows) == IF S.lr THEN 2 * Hub + (rows * (LabelW + 12) * 10) \div 7 ELSE 2 * Hub + 30 + (rows * (LabelH + 9) * 10) \div 7
GapOf(S, need, fb) == IF fb < 100 THEN Max({S.level, (need * fb) \div 100}) ELSE (Max({S.level, need}) * fb) \div 100
Gaps(S, ls, sibs, band, fb) ==
  [i \in DOMAIN band |->
     GapOf(S, Need(S, LabelRows(S, band[i], (SpanOf(S, ls[i], sibs[i]) + SpanOf(S, ls[i + 1], sibs[i + 1])) \div 2
                                            + IF S.lr THEN LabelH ELSE LabelW)), fb)]
Steps(S, ls, sibs) == [i \in DOMAIN ls |-> sibs[i] \div RowsOf(S, ls[i])]
Along0(g, ls, step) == [k \in Nodes(g) |-> (SlotIn(ls[LayerOf(ls, k)], k) * step[LayerOf(ls, k)]) \div 2]
MeanAt(along, ns, k) == IF ns = {} THEN along[k] ELSE MapThenSumSet(LAMBDA m : along[m], ns) \div Cardinality(ns)
Moved(along, l, at) == [k \in ToSet(l) |-> at[SelectInSeq(l, LAMBDA x : x = k)]] @@ along
PackLayer(along, l, nss, step) ==
  Moved(along, l, PackAlong([j \in DOMAIN l |-> MeanAt(along, nss[j], l[j])], [j \in DOMAIN l |-> IF nss[j] = {} THEN 1 ELSE 1000], step))
AlongPass(g, ls, step, along, down) ==
  FoldLeft(LAMBDA at, li : PackLayer(at, ls[li], [j \in DOMAIN ls[li] |-> AdjOf(g, ls[li][j]) \cap ToSet(ls[IF down THEN li - 1 ELSE li + 1])], step[li]),
           along, SweepOrder(Len(ls), down))
Along3(g, ls, step) == FoldLeft(LAMBDA at, down : AlongPass(g, ls, step, at, down), Along0(g, ls, step), <<TRUE, FALSE, TRUE>>)
AccOf(S, g, ls, gaps, i) ==
  MapThenSumSet(LAMBDA j : (RowsOf(S, ls[j]) - 1) * StaggerOf(S, Widest(g, ls[j])) + gaps[j], 1..(i - 1))
AcrossOf(S, g, ls, accs, k) ==
  accs[LayerOf(ls, k)] + ((SelectInSeq(ls[LayerOf(ls, k)], LAMBDA x : x = k) - 1) % RowsOf(S, ls[LayerOf(ls, k)])) * StaggerOf(S, Widest(g, ls[LayerOf(ls, k)]))
Put2(S, along, across) == IF S.lr THEN <<across, along>> ELSE <<along, across>>
Positions(g, S, ls, along, accs) == [k \in Nodes(g) |-> Put2(S, along[k], AcrossOf(S, g, ls, accs, k))]
PlaceIn(g, S, ls, sibs, gaps) == Positions(g, S, ls, Along3(g, ls, Steps(S, ls, sibs)), [i \in DOMAIN ls |-> AccOf(S, g, ls, gaps, i)])
PlaceWith(g, S, ls, sibs, fb) == PlaceIn(g, S, ls, sibs, Gaps(S, ls, sibs, BandLoad(g, ls), fb))
Layered(g, S, ls, fa, fb) == PlaceWith(g, S, ls, Sibs(g, S, ls, fa), fb)

---------------------------------------------------------------------------
\* Drawing in rings: a node hangs under a neighbour nearer to this node, the
\* furthest of those; around one circle, every subtree is an arc. Angles are in
\* parts of the circle.

ParentOf(g, k, root) ==
  IF Refs(g, k, TRUE) = {} THEN root
  ELSE Head(SetToSortSeq(Refs(g, k, TRUE), LAMBDA a, b : g.depth[a] > g.depth[b] \/ (g.depth[a] = g.depth[b] /\ a < b)))
SpanningTree(g, root) == [k \in Nodes(g) \ {root} |-> ParentOf(g, k, root)]
KidsIn(tree, k) == ByKey({c \in DOMAIN tree : tree[c] = k})
RECURSIVE Walk(_, _)
Walk(tree, k) == FoldLeft(LAMBDA out, c : out \o <<c>> \o Walk(tree, c), <<>>, KidsIn(tree, k))

Pushed(out, a, gap) == Append(out, IF out # <<>> /\ a - Last(out) < gap THEN Last(out) + gap ELSE a)
Evenly(angs, circle) == [i \in DOMAIN angs |-> angs[1] + (circle * (i - 1)) \div Len(angs)]
Recentred(angs, at, n) == [i \in DOMAIN at |-> at[i] + MapThenSumSet(LAMBDA j : angs[j] - at[j], DOMAIN at) \div n]
Kept2(angs, at, gap, circle) ==
  IF Last(at) - at[1] > circle - gap THEN Evenly(angs, circle) ELSE Recentred(angs, at, Len(at))
RingGaps(angs, gap, circle) == Kept2(angs, FoldLeft(LAMBDA out, a : Pushed(out, a, gap), <<>>, angs), gap, circle)

---------------------------------------------------------------------------
\* A line that would run over dots is bent, to either side and further and
\* further, until it runs over fewer. hits is what each bend would run over.

Offsets == <<26, 40, 56, 76, 100, 130, 170>>
MaxOff(len) == Max({40, (len * 2) \div 5})
Sides(pair) == IF pair THEN <<1>> ELSE <<1, -1>>
Bends(pair, len) ==
  FoldLeft(LAMBDA out, off : IF off > MaxOff(len) THEN out ELSE out \o [i \in DOMAIN Sides(pair) |-> <<off, Sides(pair)[i]>>], <<>>, Offsets)
BetterBend(h, best) == h < best
RouteEdge(straight, bends, hits) ==
  FoldLeft(LAMBDA best, b : IF best.h > 0 /\ BetterBend(hits[b], best.h) THEN [bend |-> b, h |-> hits[b]] ELSE best,
           [bend |-> <<0, 0>>, h |-> straight], bends)

\* On a map that repeats every w, a line takes the shorter way round.
WrapDx(p, q, w, sgn) ==
  LET d == (q - p) * sgn
      s == ((2 * d + w) \div (2 * w)) * w IN
  -sgn * (IF 2 * (d - s) = -w THEN s - w ELSE s)

---------------------------------------------------------------------------
\* What is lit is the route of the one row selected on the page, from this node
\* to it and over a link each hop; between peers that dial each other, the link
\* that row is about.
RouteShown ==
  /\ route.cur = Told(route.sel)
  /\ route.cur # <<>> =>
       \E ps \in {SelectedPaths(route)} :
         /\ ps # <<>> /\ ps[PathIdx(ps, route.cur)].segs = route.cur
         /\ \E p \in {ps[PathIdx(ps, route.cur)]} : \E lit \in {Lit(route.topo, p)} :
              /\ \A i \in DOMAIN lit : lit[i] # <<>>
              /\ \A i, j \in DOMAIN lit : i # j => lit[i][1] # lit[j][1]
              /\ \A o \in Range(Observed(route.topo)) :
                   Len(lit) = 1 /\ o.parent = Me /\ o.of.name = Last(route.cur) /\ (o.of.dir = "inbound") = (Head(p.segs) = Me)
                     /\ o.of.dir \in {"inbound", "outbound"} => lit[1][1] = EdgeKey(o)

\* NodesGraphView.tsx:276-280: links coming and going never move a dot, and a
\* node that comes back takes the place it had, until a new node appears.
DotsStay ==
  \A id \in Presets :
    picture'.nodes \subseteq picture.frozen[id].known =>
      \A k \in DOMAIN picture.was[id] : picture'.was[id][k] = picture.was[id][k]

\* The order drawn has the nodes of every layer, and no more crossings than the
\* alphabet's; no dot, and no name beside one of its row, lies on another.
Best(g) == OrderLayers(g, LayersOf(g))
Far(a, b) == a[1] - b[1] >= 2 * Hub \/ b[1] - a[1] >= 2 * Hub \/ a[2] - b[2] >= 2 * Hub \/ b[2] - a[2] >= 2 * Hub
Clear(g, pos) ==
  \A a, b \in Nodes(g) : a < b =>
    Far(pos[a], pos[b]) /\ (pos[a][2] = pos[b][2] => 2 * (pos[b][1] - pos[a][1]) >= g.width[a] + g.width[b]
                                                     \/ 2 * (pos[a][1] - pos[b][1]) >= g.width[a] + g.width[b])
LayersDrawn(x) ==
  \E ls \in {Best(x.g)} :
    /\ [i \in DOMAIN ls |-> ToSet(ls[i])] = [i \in DOMAIN LayersOf(x.g) |-> ToSet(LayersOf(x.g)[i])]
    /\ Count(x.g, ls) <= Count(x.g, LayersOf(x.g))
    /\ Clear(x.g, Layered(x.g, TD, ls, x.fa, x.fb))
    /\ \E pos \in {Layered(x.g, LR, ls, x.fa, x.fb)} : \A a, b \in Nodes(x.g) : a < b => Far(pos[a], pos[b])

\* Nearest to what is wanted: the greatest least mean, a reference definition.
MeanFrom(d, j, k) == MapThenSumSet(LAMBDA i : d[i], j..k) \div (k - j + 1)
Nearest(d, i) == Max({Min({MeanFrom(d, j, k) : k \in i..Len(d)}) : j \in 1..i})
Packed(x) ==
  \E out \in {PackAlong(x.want, [i \in DOMAIN x.want |-> 1], x.gap)}, d \in {[i \in DOMAIN x.want |-> x.want[i] - (i - 1) * x.gap]} :
    \A i \in DOMAIN out : out[i] = Nearest(d, i) + (i - 1) * x.gap

\* Every node is once on the circle, a subtree in one arc; on a ring with room
\* for its dots none is nearer to the next than they need.
RECURSIVE UnderIn(_, _, _)
UnderIn(tree, k, c) == c = k \/ (c \in DOMAIN tree /\ UnderIn(tree, k, tree[c]))
Around(x) ==
  \E tree \in {SpanningTree(x.g, 0)} : \E seq \in {Walk(tree, 0)} :
    /\ Len(seq) = Cardinality(Nodes(x.g)) - 1 /\ ToSet(seq) = Nodes(x.g) \ {0}
    /\ \A k \in ToSet(seq) : \A i, j \in DOMAIN seq : UnderIn(tree, k, seq[i]) /\ UnderIn(tree, k, seq[j]) =>
         \A m \in i..j : UnderIn(tree, k, seq[m])
Spaced(x) ==
  \E at \in {RingGaps(x.angs, x.gap, x.circle)} :
    /\ \A i \in 1..(Len(at) - 1) : at[i + 1] - at[i] >= x.gap
    /\ at[1] + x.circle - Last(at) >= x.gap

\* A bent line runs over fewer dots than the straight one, and over none if a
\* bend it may take does; the two ways round a map agree, and are the shorter.
Bent(x) ==
  \E r \in {RouteEdge(x.straight, Bends(x.pair, x.len), x.hits)} :
    /\ r.bend = <<0, 0>> => r.h = x.straight
    /\ r.bend # <<0, 0>> => r.h < x.straight /\ r.h = x.hits[r.bend]
    /\ \A b \in DOMAIN x.hits : r.h <= x.hits[b]
Around2(x) ==
  /\ WrapDx(x.p, x.q, x.w, 1) = -WrapDx(x.q, x.p, x.w, -1)
  /\ \A sgn \in {1, -1} : \E far \in {x.q + WrapDx(x.p, x.q, x.w, sgn) - x.p} : 2 * far <= x.w /\ -2 * far <= x.w
DrawnWell ==
  CASE picture.kind = "graph" -> LayersDrawn(picture) /\ Around(picture)
    [] picture.kind = "pack" -> Packed(picture)
    [] picture.kind = "ring" -> Spaced(picture)
    [] picture.kind = "bend" -> Bent(picture)
    [] picture.kind = "wrap" -> Around2(picture)
=============================================================================

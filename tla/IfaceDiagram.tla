----------------------------- MODULE IfaceDiagram ----------------------------
(***************************************************************************)
(* The diagram of the interfaces page (components/topo/ifaceLayouts.ts):   *)
(* a card per interface in blocks, columns, rows or below its uplink, the  *)
(* gateways beside them, and the lanes their edges take. Lengths are whole *)
(* pixels; an interface is [name, kind, parent, fam, faint], and fam gives *)
(* per family whether it has an address, its gateway and its public one.   *)
(***************************************************************************)
EXTENDS Integers, Sequences, SequencesExt, FiniteSets, FiniteSetsExt

CONSTANTS IfaceLists,   \* the interfaces there may be
          Views         \* the sizes of the page, and <<0, 0>>: not measured

VARIABLE diag           \* what the diagram is drawn for

Fams == <<"ipv4", "ipv6">>
G == [inetW |-> 190, gwW |-> 160, gwH |-> 38, cardW |-> 220, indent |-> 20, margin |-> 20, pad |-> 12, head |-> 26,
      top |-> 10, child |-> 6, row |-> 18, stride |-> 302, gap |-> 14, in |-> 8, trunk |-> 30, upGap |-> 36, hang |-> 22]
Box(x, y, w, h) == [x |-> x, y |-> y, w |-> w, h |-> h]
Right(b) == b.x + b.w
Bottom(b) == b.y + b.h
Mean(s) == IF s = <<>> THEN 0 ELSE FoldLeft(LAMBDA a, v : a + v, 0, s) \div Len(s)
Sorted(s, Lt(_, _)) ==
  LET o == SetToSortSeq(DOMAIN s, LAMBDA i, j : Lt(s[i], s[j]) \/ (~Lt(s[j], s[i]) /\ i < j)) IN [i \in DOMAIN s |-> s[o[i]]]

---------------------------------------------------------------------------
\* Cards and blocks.

Line(type, fam) == [type |-> type, fam |-> fam]
LinesOf(x, f, compact) ==
  (IF x.fam[f].addr THEN <<Line("addr", f)>> ELSE <<>>) \o (IF ~compact /\ x.fam[f].pub # "none" THEN <<Line("pub", f)>> ELSE <<>>)
CardLines(x, compact) ==
  LET addrFirst(lines) == IF \E i \in DOMAIN lines : lines[i].type = "addr" THEN lines ELSE <<Line("addr", "ipv4")>> \o lines IN
  addrFirst(LinesOf(x, "ipv4", compact) \o LinesOf(x, "ipv6", compact))
CardHeight(n) == 30 + 16 * n
LineCenter(box, i) == box.y + 33 + 16 * (i - 1)
LineOf(lines, type, f) == SelectInSeq(lines, LAMBDA l : l = Line(type, f))
AddrLine(lines, f) == Max({1, LineOf(lines, "addr", f)})

\* NICs first, then links with an address, those without, loopback, container
\* networks; a sub-interface is below its parent, or last where it has none.
Rank5(x) ==
  CASE x.kind = "physical" -> 0 [] x.kind = "container" -> 4 [] x.kind = "loopback" -> 3
    [] OTHER -> IF \E f \in DOMAIN x.fam : x.fam[f].addr THEN 1 ELSE 2
ByName(a, b) == a.name < b.name
HeightOf(x, compact) == CardHeight(Len(CardLines(x, compact)))
Block(p, kids, compact) ==
  [head |-> p, kids |-> kids, h |-> FoldLeft(LAMBDA a, k : a + G.child + HeightOf(k, compact), HeightOf(p, compact), kids)]
Below(list, Of(_)) == Sorted(SelectSeq(list, LAMBDA c : c.kind = "child" /\ Of(c.parent)), ByName)
BuildBlocks(list, compact) ==
  LET before(a, b) == Rank5(a) < Rank5(b) \/ (Rank5(a) = Rank5(b) /\ ByName(a, b))
      alone(orphans) == [i \in DOMAIN orphans |-> Block(orphans[i], <<>>, compact)]
      blocks(main) == [i \in DOMAIN main |-> Block(main[i], Below(list, LAMBDA n : n = main[i].name), compact)]
                      \o alone(Below(list, LAMBDA n : \A i \in DOMAIN main : main[i].name # n)) IN
  blocks(Sorted(SelectSeq(list, LAMBDA x : x.kind # "child"), before))

Card(x, box, compact, col) == [x |-> x, box |-> box, lines |-> CardLines(x, compact), col |-> col]
PlaceBlock(b, cx, y, col, compact) ==
  LET put(out, x, box) == [cards |-> Append(out.cards, Card(x, box, compact, col)), y |-> Bottom(box)] IN
  FoldLeft(LAMBDA out, k : put(out, k, Box(cx + G.indent, out.y + G.child, G.cardW - G.indent, HeightOf(k, compact))),
           put([cards |-> <<>>], b.head, Box(cx, y, G.cardW, HeightOf(b.head, compact))), b.kids)

---------------------------------------------------------------------------
\* Uplinks: a box per family and gateway; a link-local router is one per link.

GwKey(x, f) == <<f, x.fam[f].gw, IF x.fam[f].gw = "fe80" THEN x.name ELSE 0>>
Lines2(cards, Want(_, _)) ==
  FoldLeft(LAMBDA out, c : out \o SelectSeq([i \in 1..2 |-> [c |-> c, f |-> Fams[i]]], LAMBDA m : Want(c, m.f)), <<>>, cards)
Join(out, i, key, m) == IF i = 0 THEN Append(out, [key |-> key, members |-> <<m>>]) ELSE [out EXCEPT ![i].members = Append(@, m)]
Grouped(ms, Key(_)) == FoldLeft(LAMBDA out, m : Join(out, SelectInSeq(out, LAMBDA g : g.key = Key(m)), Key(m), m), <<>>, ms)
MapSeq(s, Op(_)) == [i \in DOMAIN s |-> Op(s[i])]
CollectUplinks(cards, Port(_, _, _)) ==
  LET port(m) == Port(m.c, m.f, LineCenter(m.c.box, AddrLine(m.c.lines, m.f)))
      out(m) == Port(m.c, m.f, LineCenter(m.c.box, Max({AddrLine(m.c.lines, m.f), LineOf(m.c.lines, "pub", m.f)}))) IN
  [gws |-> MapSeq(Grouped(Lines2(cards, LAMBDA c, f : c.x.fam[f].gw # ""), LAMBDA m : GwKey(m.c.x, m.f)),
                  LAMBDA g : [key |-> g.key, members |-> MapSeq(g.members, port)]),
   direct |-> MapSeq(Lines2(cards, LAMBDA c, f : c.x.fam[f].gw = "" /\ c.x.fam[f].pub = "ok"), out)]

\* Along one axis near their targets, in the order of those, none on another.
Centred(wants, order, at) ==
  LET by == Mean([i \in DOMAIN order |-> wants[order[i]] - at[i]]) IN [i \in DOMAIN order |-> at[SelectInSeq(order, LAMBDA j : j = i)] + by]
InOrder(wants, order, room) ==
  Centred(wants, order, FoldLeft(LAMBDA out, i : Append(out, IF out = <<>> THEN wants[i] ELSE Max({wants[i], Last(out) + room})), <<>>, order))
Spread(targets, size, gap) ==
  InOrder(MapSeq(targets, LAMBDA t : t - size \div 2),
          SetToSortSeq(DOMAIN targets, LAMBDA i, j : targets[i] < targets[j] \/ (targets[i] = targets[j] /\ i < j)), size + gap)

\* What is drawn, moved so that it starts at the margin: how large it is.
Extent(boxes, points) ==
  LET xs == {b.x : b \in boxes} \cup {p.x : p \in points}  ys == {b.y : b \in boxes} \cup {p.y : p \in points} IN
  [w |-> Max({Right(b) : b \in boxes}) - Min(xs) + 2 * G.margin, h |-> Max({Bottom(b) : b \in boxes}) - Min(ys) + 2 * G.margin]
Drawn(cols, inet, frame, cards, gws, direct) ==
  LET ports == UNION ({ToSet(gws[i].members) : i \in DOMAIN gws} \cup {ToSet(direct)})
      boxes == inet \cup frame \cup {c.box : c \in ToSet(cards)} \cup {g.box : g \in ToSet(gws)}
      size == Extent(boxes, {[x |-> IF p.lane = {} THEN p.px ELSE Max(p.lane), y |-> p.ey] : p \in ports}) IN
  [cols |-> cols, inet |-> inet, frame |-> frame, cards |-> cards, gws |-> gws, direct |-> direct, w |-> size.w, h |-> size.h]
InetHeight(egress) == 36 + 18 * Max({1, Cardinality({f \in DOMAIN egress : egress[f] # 0})})

---------------------------------------------------------------------------
\* Left to right: the blocks in columns, in order, the tallest as short as may be.

Pack(hs, limit) ==
  LET add(out, h) ==
        IF out.acc < 0 THEN [out EXCEPT !.acc = h, !.cols = Append(@, out.col)]
        ELSE IF out.acc + G.top + h > limit THEN [acc |-> h, col |-> out.col + 1, cols |-> Append(out.cols, out.col + 1)]
        ELSE [out EXCEPT !.acc = @ + G.top + h, !.cols = Append(@, out.col)] IN
  FoldLeft(add, [acc |-> -1, col |-> 0, cols |-> <<>>], hs).cols
\* (a plausible mistake: the least height tried is that of the tallest block)
SearchM(hs, ncol, lo, hi) == Pack(hs, lo + 1)
RECURSIVE Halve(_, _, _, _)
Halve(hs, ncol, lo, hi) ==
  IF hi - lo <= 1 THEN hi
  ELSE LET mid == (lo + hi) \div 2 IN
       IF Last(Pack(hs, mid)) + 1 <= ncol THEN Halve(hs, ncol, lo, mid) ELSE Halve(hs, ncol, mid, hi)
Search(hs, ncol, lo, hi) == Pack(hs, Halve(hs, ncol, lo, hi))
Sum2(hs) == FoldLeft(LAMBDA a, h : a + h, 0, hs)
Partition(hs, ncol) ==
  IF ncol <= 1 \/ Len(hs) <= 1 THEN [i \in DOMAIN hs |-> 0]
  ELSE IF ncol >= Len(hs) THEN [i \in DOMAIN hs |-> i - 1]
  ELSE Search(hs, ncol, Max(ToSet(hs)) - 1, Sum2(hs) + G.top * (Len(hs) - 1))

Heights(blocks) == [i \in DOMAIN blocks |-> blocks[i].h]
LrX == G.inetW + 70 + G.gwW + 90
LaneTop == -10
ColX(c) == LrX + G.pad + c * G.stride
LrCards(blocks, assign) ==
  FoldLeft(LAMBDA out, i :
    LET p == PlaceBlock(blocks[i], ColX(assign[i]), (IF i = 1 \/ assign[i] # assign[i - 1] THEN G.head - G.top ELSE out.y) + G.top, assign[i], FALSE) IN
    [cards |-> out.cards \o p.cards, y |-> p.y, low |-> Max({out.low, p.y})],
    [cards |-> <<>>, y |-> 0, low |-> G.head], [i \in DOMAIN blocks |-> i])
\* Cards away from the frame's edge reach it by a lane in the gutter on their left.
LrPort(c, f, py) ==
  LET lane == IF c.col > 0 THEN {ColX(c.col) - G.in} ELSE {} IN
  [name |-> c.x.name, fam |-> f, px |-> c.box.x, py |-> py, lane |-> lane, ex |-> LrX, ey |-> IF lane = {} THEN py ELSE LaneTop]
MidOf(b) == b.y + b.h \div 2
Boxed(gws, at, Where(_)) == [i \in DOMAIN gws |-> [key |-> gws[i].key, members |-> gws[i].members, box |-> Where(at[i])]]
MeanOf(g, Coord(_)) == Mean(MapSeq(g.members, Coord))
LrDrawn(cols, placed, up, h) ==
  LET gws == Boxed(up.gws, Spread(MapSeq(up.gws, LAMBDA g : MeanOf(g, LAMBDA p : p.ey) + G.gwH \div 2), G.gwH, 10),
                   LAMBDA y : Box(G.inetW + 70, y, G.gwW, G.gwH))
      cy == CASE up.gws # <<>> \/ up.direct # <<>> -> Mean(MapSeq(gws, LAMBDA g : MidOf(g.box)) \o MapSeq(up.direct, LAMBDA p : p.ey))
              [] up.gws = <<>> /\ up.direct = <<>> /\ placed.cards # <<>> -> MidOf(placed.cards[1].box)
              [] OTHER -> G.head + h \div 2 IN
  Drawn(cols, {Box(0, cy - h \div 2, G.inetW, h)}, {Box(LrX, 0, 2 * G.pad + cols * G.stride - G.gap, placed.low + G.pad)},
        placed.cards, gws, up.direct)
LrAssigned(egress, assign, placed) ==
  LrDrawn(IF assign = <<>> THEN 1 ELSE Last(assign) + 1, placed, CollectUplinks(placed.cards, LrPort), InetHeight(egress))
LrPlaced(blocks, egress, assign) == LrAssigned(egress, assign, LrCards(blocks, assign))
LayoutLR(blocks, egress, ncol) == LrPlaced(blocks, egress, Partition(Heights(blocks), ncol))

---------------------------------------------------------------------------
\* Rows of equal slots: without uplinks (compact), or below them (tb).

GridX(c) == G.pad + c * G.stride
RECURSIVE GridRows(_, _, _, _, _)
GridRows(blocks, ncol, y, compact, cards) ==
  LET row == [c \in 1..Min({ncol, Len(blocks)}) |-> PlaceBlock(blocks[c], GridX(c - 1), y, c - 1, compact)] IN
  IF blocks = <<>> THEN [cards |-> cards, y |-> y]
  ELSE GridRows(SubSeq(blocks, Len(row) + 1, Len(blocks)), ncol, Max({row[c].y : c \in DOMAIN row}) + G.row, compact,
                cards \o FlattenSeq(MapSeq(row, LAMBDA p : p.cards)))
GridPort(c, f, py) ==
  LET lane == GridX(c.col) - G.in IN [name |-> c.x.name, fam |-> f, px |-> c.box.x, py |-> py, lane |-> {lane}, ex |-> lane, ey |-> 0]
InetAbove(egress, cx, low) == Box(cx - G.inetW \div 2, low - InetHeight(egress), G.inetW, InetHeight(egress))
GridDrawn(egress, cols, frame, cards, up) ==
  LET gws == Boxed(up.gws, Spread(MapSeq(up.gws, LAMBDA g : MeanOf(g, LAMBDA p : p.ex)), G.gwW, 20),
                   LAMBDA x : Box(x, -60 - G.gwH, G.gwW, G.gwH))
      cx == IF up.gws # <<>> \/ up.direct # <<>> THEN Mean(MapSeq(gws, LAMBDA g : g.box.x + G.gwW \div 2) \o MapSeq(up.direct, LAMBDA p : p.ex))
            ELSE frame.w \div 2 IN
  Drawn(cols, {InetAbove(egress, cx, IF up.gws # <<>> THEN -60 - G.gwH - 46 ELSE -60)}, {frame}, cards, gws, up.direct)
GridLaid(egress, cols, grid, compact) ==
  LET frame == Box(0, 0, 2 * G.pad + cols * G.stride - G.gap, Max({G.head, grid.y - G.row}) + G.pad) IN
  IF compact THEN Drawn(cols, {}, {frame}, grid.cards, <<>>, <<>>)
  ELSE GridDrawn(egress, cols, frame, grid.cards, CollectUplinks(grid.cards, GridPort))
LayoutGrid(blocks, egress, ncol, compact) ==
  GridLaid(egress, Max({1, Min({ncol, Len(blocks)})}), GridRows(blocks, ncol, G.head, compact, <<>>), compact)

---------------------------------------------------------------------------
\* By uplink: a column per pair of gateways, its cards below it on a trunk per
\* family; the ones without an uplink last, in columns of their own.

UpLine(x, f) ==
  IF x.fam[f].gw # "" THEN <<GwKey(x, f)>> ELSE IF x.fam[f].pub = "ok" THEN <<<<f, "", 0>>>> ELSE <<>>
UpKey(x) == UpLine(x, "ipv4") \o UpLine(x, "ipv6")
RankUp(g, egress) ==
  CASE g.key = <<>> -> 9
    [] OTHER -> IF \E x \in ToSet(g.members) : x.name = egress.ipv4 THEN 0
                ELSE IF \E x \in ToSet(g.members) : x.name = egress.ipv6 THEN 1
                ELSE IF \A i \in DOMAIN g.key : g.key[i][2] = "" THEN 3 ELSE 2
UpGroups(list, egress) ==
  LET all == FlattenSeq(MapSeq(BuildBlocks(list, FALSE), LAMBDA b : <<b.head>> \o b.kids)) IN
  Sorted(Grouped(all, UpKey), LAMBDA a, b : \/ RankUp(a, egress) < RankUp(b, egress)
                                            \/ RankUp(a, egress) = RankUp(b, egress) /\ Len(a.members) > Len(b.members))

\* A column of cards "per" high, then the next one right of it.
UpCards(ms, x, per, subW, in, top, col) ==
  FoldLeft(LAMBDA out, i :
             Append(out, Card(ms[i], Box(x + ((i - 1) \div per) * (subW + G.upGap) + in,
                                         IF (i - 1) % per = 0 THEN top + G.hang ELSE Bottom(Last(out).box) + G.top,
                                         G.cardW, HeightOf(ms[i], FALSE)), FALSE, col)), <<>>, [i \in DOMAIN ms |-> i])
UpPort(c, k, trunk, low) ==
  LET line == IF k[2] = "" THEN Max({AddrLine(c.lines, k[1]), LineOf(c.lines, "pub", k[1])}) ELSE AddrLine(c.lines, k[1]) IN
  [name |-> c.x.name, fam |-> k[1], px |-> c.box.x, py |-> LineCenter(c.box, line), lane |-> {trunk}, ex |-> trunk, ey |-> low]
UpColumn(g, x, col, localPer) ==
  LET in == IF g.key = <<>> THEN 0 ELSE G.trunk
      per == IF g.key = <<>> THEN Max({1, localPer}) ELSE Len(g.members)
      w == ((Len(g.members) + per - 1) \div per) * (in + G.cardW + G.upGap) - G.upGap
      ports(box, c) == [i \in DOMAIN g.key |-> UpPort(c, g.key[i], x + 9 + 9 * (i - 1), Bottom(box))]
      column(box, cards) == [gw |-> [key |-> g.key, box |-> box, members |-> FlattenSeq(MapSeq(cards, LAMBDA c : ports(box, c)))],
                             cards |-> cards, next |-> x + w + G.upGap]
      below(box) == column(box, UpCards(g.members, x, per, in + G.cardW, in, Bottom(box), col)) IN
  below(Box(x, 0, IF in = 0 THEN w ELSE Min({w, G.trunk + G.cardW}), IF in = 0 THEN G.gwH ELSE 8 + 30 * Len(g.key)))
LayoutUplink(list, egress, localPer) ==
  LET add(out, u) == [gws |-> Append(out.gws, u.gw), cards |-> out.cards \o u.cards, x |-> u.next]
      columns(groups) == FoldLeft(LAMBDA out, i : add(out, UpColumn(groups[i], out.x, i - 1, localPer)),
                                  [gws |-> <<>>, cards |-> <<>>, x |-> 0], [i \in DOMAIN groups |-> i])
      drawn(all) ==
        LET centres == {g.box.x + g.box.w \div 2 : g \in {h \in ToSet(all.gws) : h.key # <<>>}}
            middle == IF centres # {} THEN Min(centres) + Max(centres) ELSE IF all.gws = <<>> THEN G.inetW ELSE all.gws[1].box.w IN
        Drawn(Len(all.gws), {InetAbove(egress, middle \div 2, -56)}, {}, all.cards, all.gws, <<>>) IN
  drawn(columns(UpGroups(list, egress)))

---------------------------------------------------------------------------
\* Which of them fits the page best, in thousandths of the zoom.

Fit(l, view) == Min({(view[1] * 1000) \div l.w, (view[2] * 1000) \div l.h})
Better(a, b, view, by) == IF Fit(a, view) > Fit(b, view) + by THEN a ELSE b
RECURSIVE LrFrom(_, _, _, _, _)
RECURSIVE LrTry(_, _, _, _, _, _)
LrTry(l, best, n, blocks, egress, view) == IF l.cols < n THEN best ELSE LrFrom(Better(l, best, view, 0), n + 1, blocks, egress, view)
LrFrom(best, n, blocks, egress, view) ==
  IF Fit(best, view) >= 900 \/ n > Min({8, Len(blocks)}) THEN best
  ELSE LrTry(LayoutLR(blocks, egress, n), best, n, blocks, egress, view)
RECURSIVE GridFrom(_, _, _, _, _, _)
GridFrom(best, n, blocks, egress, view, compact) ==
  IF n > Max({1, Min({10, Len(blocks)})}) THEN best
  ELSE GridFrom(Better(LayoutGrid(blocks, egress, n, compact), best, view, 1), n + 1, blocks, egress, view, compact)
RECURSIVE UpFrom(_, _, _, _, _, _)
UpFrom(best, per, local, list, egress, view) ==
  IF per >= local THEN best
  ELSE UpFrom(Better(LayoutUplink(list, egress, per), best, view, 1), Max({per + 1, (per * 115 + 99) \div 100}), local, list, egress, view)
ChooseUp(list, egress, view, local) ==
  LET best(first) ==
        IF view = <<0, 0>> \/ local <= 4 THEN first
        ELSE UpFrom(first, Max({4} \cup {Len(g.members) \div Len(g.key) : g \in {h \in ToSet(first.gws) : h.key # <<>>}}), local, list, egress, view) IN
  best(LayoutUplink(list, egress, Max({1, local})))
ChooseGrid(blocks, egress, view, compact) ==
  IF view = <<0, 0>> THEN LayoutGrid(blocks, egress, Min({3, Max({1, Min({10, Len(blocks)})})}), compact)
  ELSE GridFrom(LayoutGrid(blocks, egress, 1, compact), 2, blocks, egress, view, compact)
ChooseLR(blocks, egress, view) ==
  IF view = <<0, 0>> THEN LayoutLR(blocks, egress, 1) ELSE LrFrom(LayoutLR(blocks, egress, 1), 2, blocks, egress, view)
ChooseLayout(style, list, egress, view) ==
  CASE style = "uplink" -> ChooseUp(list, egress, view, Len(SelectSeq(list, LAMBDA x : UpKey(x) = <<>>)))
    [] style = "lr" -> ChooseLR(BuildBlocks(list, FALSE), egress, view)
    [] OTHER -> ChooseGrid(BuildBlocks(list, style = "compact"), egress, view, style = "compact")

---------------------------------------------------------------------------
\* It is drawn again when the page is resized, the style or the list changes.

Exits0 == [ipv4 |-> 0, ipv6 |-> 0]
DiagInits == {[list |-> l, style |-> "lr", view |-> <<0, 0>>, egress |-> Exits0] : l \in IfaceLists}
Resized == \E v \in Views : v # diag.view /\ diag' = [diag EXCEPT !.view = v]
Restyled == \E s \in {"lr", "tb", "uplink", "compact"} : s # diag.style /\ diag' = [diag EXCEPT !.style = s]
Rerouted == \E i \in DOMAIN diag.list : diag' = [diag EXCEPT !.egress = [ipv4 |-> diag.list[i].name, ipv6 |-> 0]]
DiagNext == Resized \/ Restyled \/ Rerouted

---------------------------------------------------------------------------
\* In every style and size, each interface has one card, and no card, gateway
\* or the Internet is drawn over another; the frame holds all the cards.
Apart2(a, b) == Right(a) <= b.x \/ Right(b) <= a.x \/ Bottom(a) <= b.y \/ Bottom(b) <= a.y
Solid(l) == {c.box : c \in ToSet(l.cards)} \cup {g.box : g \in ToSet(l.gws)} \cup l.inet
Within(b, f) == f.x <= b.x /\ Right(b) <= Right(f) /\ f.y <= b.y /\ Bottom(b) <= Bottom(f)
OneCard(l, list) ==
  /\ Len(l.cards) = Len(list) /\ {c.x : c \in ToSet(l.cards)} = ToSet(list)
  /\ Cardinality(Solid(l)) = Len(list) + Len(l.gws) + Cardinality(l.inet)
DrawnApart ==
  \E l \in {ChooseLayout(diag.style, diag.list, diag.egress, diag.view)} :
    /\ OneCard(l, diag.list)
    /\ \A a, b \in Solid(l) : a = b \/ Apart2(a, b)
    /\ \A f \in l.frame, c \in ToSet(l.cards) : Within(c.box, f)

\* "Edges never cross a card": not on the way to their lane, nor along it.
Along(l, p) ==
  UNION {{Box(lane, p.py, p.px - lane, 0), Box(lane, IF p.ey < p.py THEN p.ey ELSE p.py, 0, IF p.ey < p.py THEN p.py - p.ey ELSE p.ey - p.py)} : lane \in p.lane}
LanesClear ==
  \E l \in {ChooseLayout(diag.style, diag.list, diag.egress, diag.view)} :
    \A p \in UNION ({ToSet(g.members) : g \in ToSet(l.gws)} \cup {ToSet(l.direct)}) :
      \A way \in Along(l, p), c \in ToSet(l.cards) : Apart2(way, c.box)

\* No other way to put the blocks in as many columns, in order, is shorter.
Tallest(hs, cols) ==
  Max({0} \cup {Sum2([i \in 1..Len(s) |-> s[i] + G.top]) - G.top : s \in {SelectSeq([i \in DOMAIN hs |-> IF cols[i] = c THEN hs[i] ELSE 0], LAMBDA h : h > 0) : c \in ToSet(cols)}})
Contiguous(n, ncol) == {[i \in 1..n |-> Cardinality({j \in cuts : j <= i})] : cuts \in {c \in SUBSET (2..n) : Cardinality(c) < ncol}}
BestColumns ==
  diag.style = "lr" =>
    \E hs \in {Heights(BuildBlocks(diag.list, FALSE))} : \A ncol \in 1..Len(hs) :
      \E cols \in {Partition(hs, ncol)} :
        /\ cols \in Contiguous(Len(hs), ncol)
        /\ \A other \in Contiguous(Len(hs), ncol) : Tallest(hs, cols) <= Tallest(hs, other)
=============================================================================

----------------------------- MODULE RulesLayout ----------------------------
(***************************************************************************)
(* Where the rule graph's nodes are drawn when nothing is remembered of    *)
(* them (components/policy/graph/layout.ts). Lengths are the code's pixels *)
(* except that averages are rounded down.                                  *)
(***************************************************************************)
EXTENDS RulesModel

CONSTANTS LayoutConfigs   \* sets as the node reports them
VARIABLE layout           \* the sets drawn

Width(n) == CASE n.kind \in {"set", "end"} -> 220 [] n.kind = "rule" -> 250 [] OTHER -> 190
SrcHeight(n) == 34 + Max({1, Min({Cardinality(n.members), 4})}) * 17
Height(n) == CASE n.kind = "set" -> 52 [] n.kind = "rule" -> 62 [] n.kind = "end" -> 38 [] OTHER -> SrcHeight(n)
GX == 70
GY == 22
SetGap == 56
EndGap == 12
ColGap == 140
Far == 1000000000

At2(x, y) == [x |-> x, y |-> y]
Place(pos, id, p) == [k \in DOMAIN pos \cup {id} |-> IF k = id THEN p ELSE pos[k]]
SetsOf(g) == SelectSeq(g.nodes, LAMBDA n : n.kind = "set")

---------------------------------------------------------------------------
\* Columns: a set is drawn right of the sets that hand over to it.

\* The sets a chain hands over to, in the order its rules are claimed.
RECURSIVE CallsFrom(_, _)
CallsFrom(g, cur) ==
  IF Node(g, cur).kind # "rule" THEN <<>>
  ELSE LET t == Node(g, Out(g, cur, "match"))
       IN  (CASE t.kind = "rule" -> CallsFrom(g, t.id) [] t.kind = "set" -> <<t.id>> [] OTHER -> <<>>)
           \o CallsFrom(g, Out(g, cur, "else"))

Push(col, from, to, n) == IF to \in DOMAIN col /\ col[from] + 1 > col[to] /\ col[from] + 1 <= n
                          THEN [col EXCEPT ![to] = col[from] + 1] ELSE col
ColumnPass(g, col) ==
  FoldLeft(LAMBDA c, s : FoldLeft(LAMBDA d, t : Push(d, s.id, t, Len(SetsOf(g))), c, CallsFrom(g, Out(g, s.id, "out"))), col, SetsOf(g))
RECURSIVE ColumnsAfter(_, _, _)
ColumnsAfter(g, col, passes) == IF passes = 0 THEN col ELSE ColumnsAfter(g, ColumnPass(g, col), passes - 1)
Columns(g) == ColumnsAfter(g, [id \in {SetsOf(g)[i].id : i \in DOMAIN SetsOf(g)} |-> 0], Len(SetsOf(g)))

---------------------------------------------------------------------------
\* One chain down its else, a nested flow right of its rule.

RECURSIVE Ladder(_, _, _, _, _)
Rung(r, sub, cur, g, x, y) ==    \* r: before the rung; sub: after its nested flow
  LET next == Max({y + 62 + GY} \cup (IF sub.any THEN {sub.bottom + GY} ELSE {}))
  IN  [pos |-> sub.pos, bottom |-> next - GY, right |-> Max({r.right, x + 250, sub.right}), any |-> TRUE]
Ladder(g, cur, x, y, r) ==
  IF Node(g, cur).kind # "rule" \/ cur \in DOMAIN r.pos THEN r
  ELSE LET t == Node(g, Out(g, cur, "match"))
           here == [pos |-> Place(r.pos, cur, At2(x, y)), bottom |-> 0, right |-> 0, any |-> FALSE]
           after == Rung(r, IF t.kind = "rule" /\ t.id \notin DOMAIN here.pos
                            THEN Ladder(g, t.id, x + 250 + GX, y + 31 + GY, [here EXCEPT !.bottom = y + 31 + GY, !.right = x + 250 + GX])
                            ELSE here, cur, g, x, y)
       IN  Ladder(g, Out(g, cur, "else"), x, after.bottom + GY, after)

---------------------------------------------------------------------------
\* The columns, left to right; condition sets first, later columns near their callers.

Mean(ys) == IF ys = <<>> THEN 0 ELSE FoldLeft(+, 0, ys) \div Len(ys)
CallerYs(g, pos, id) ==
  LET es == SelectSeq(Into(g, id), LAMBDA e : e.handle = "match" /\ e.source \in DOMAIN pos)
  IN  [i \in DOMAIN es |-> pos[es[i].source].y]
SrcsOf(g, id) == LET es == SelectSeq(Into(g, id), LAMBDA e : Node(g, e.source).kind = "source")
                 IN  [i \in DOMAIN es |-> Node(g, es[i].source)]
Stack(srcs, gap) == FoldLeft(LAMBDA h, n : h + SrcHeight(n) + gap, 0, srcs)

\* The sets of a column, in the order they are placed.
InColumn(g, pos, col, c) ==
  LET of(kind) == SelectSeq(SetsOf(g), LAMBDA s : col[s.id] = c /\ s.setKind = kind)
      list == of("condition") \o of("policy")
      key(s) == IF CallerYs(g, pos, s.id) = <<>> THEN Far ELSE Mean(CallerYs(g, pos, s.id))
  IN  IF c = 0 THEN list ELSE SortSeq(list, LAMBDA a, b : key(a) < key(b))

\* Sources above the set, the set, and its chain.
PlaceAbove(pos, srcs, x, top) ==
  FoldLeft(LAMBDA a, n : [pos |-> Place(a.pos, n.id, At2(x, a.y)), y |-> a.y + SrcHeight(n) + 16], [pos |-> pos, y |-> top], srcs).pos
PlaceSet(g, s, a, c, want, above) ==
  LET pos == Place(PlaceAbove(a.pos, above, a.x, want - Stack(above, 16)), s.id, At2(a.x, want))
      r == Ladder(g, Out(g, s.id, "out"), a.x + 24, want + 52 + GY,
                  [pos |-> pos, bottom |-> want + 52 + GY, right |-> a.x + 24, any |-> FALSE])
  IN  [pos |-> r.pos, x |-> a.x, right |-> Max({a.right, a.x + 220, r.right}), y |-> Max({want + 52, r.bottom}) + SetGap,
       ends |-> IF s.setKind = "condition" THEN Append(a.ends, <<s, r.right>>) ELSE a.ends]
AddToColumn(g, s, a, c) ==
  LET above == IF c > 0 THEN SrcsOf(g, s.id) ELSE <<>>
      ys == CallerYs(g, a.pos, s.id)
      want == IF c = 0 THEN a.y ELSE Max({a.y + Stack(above, 16), (IF ys = <<>> THEN -Far ELSE Mean(ys)) - 26})
  IN  PlaceSet(g, s, a, c, want, above)
PlaceColumn(g, a, col, c) ==
  LET b == FoldLeft(LAMBDA d, s : AddToColumn(g, s, d, c), [pos |-> a.pos, x |-> a.x, right |-> a.x, y |-> 0, ends |-> a.ends],
                    InColumn(g, a.pos, col, c))
  IN  [pos |-> b.pos, x |-> b.right + ColGap, maxRight |-> Max({a.maxRight, b.right}), ends |-> b.ends]

\* Sources of first-column sets: a lane on the left.
SourceLane(g, pos, col) ==
  LET sets == SortSeq(SelectSeq(SetsOf(g), LAMBDA s : col[s.id] = 0), LAMBDA a, b : pos[a.id].y < pos[b.id].y)
      one(a, n, s) == LET y == Max({a.sy, pos[s.id].y})
                      IN  [pos |-> Place(a.pos, n.id, At2(-300, y)), sy |-> y + SrcHeight(n) + 14]
  IN  FoldLeft(LAMBDA a, s : FoldLeft(LAMBDA b, n : one(b, n, s), a, SrcsOf(g, s.id)), [pos |-> pos, sy |-> -Far], sets).pos

\* Ends packed in a column, each as near to what leads to it as it fits.
IncomingY(g, pos, id) ==
  LET es == SelectSeq(Into(g, id), LAMBDA e : e.source \in DOMAIN pos)
  IN  Mean([i \in DOMAIN es |-> pos[es[i].source].y + (IF es[i].handle = "else" THEN 62 ELSE 31)])
Pack(g, pos, ids, x) ==
  LET sorted == SortSeq(ids, LAMBDA a, b : IncomingY(g, pos, a) < IncomingY(g, pos, b))
      one(a, id) == LET y == Max({a.ey, IncomingY(g, pos, id) - 19})
                    IN  [pos |-> Place(a.pos, id, At2(x, y)), ey |-> y + 38 + EndGap]
  IN  FoldLeft(one, [pos |-> pos, ey |-> -Far], sorted).pos
EndIds(g, Test(_)) == LET es == SelectSeq(g.nodes, LAMBDA n : n.kind = "end" /\ Test(n)) IN [i \in DOMAIN es |-> es[i].id]
PackEnds(g, pos, a) ==
  LET own(p, se) == Pack(g, p, EndIds(g, LAMBDA n : n.id[2] = se[1].set), Max({se[2], p[se[1].id].x + 220}) + GX)
      p1 == FoldLeft(own, pos, a.ends)
  IN  Pack(g, p1, EndIds(g, LAMBDA n : n.id \notin DOMAIN p1), a.maxRight + ColGap)

\* What is left, below everything.
PlaceRest(g, pos) ==
  FoldLeft(LAMBDA a, n : IF n.id \in DOMAIN a.pos THEN a ELSE [pos |-> Place(a.pos, n.id, At2(0, a.y)), y |-> a.y + 90],
           [pos |-> pos, y |-> Max({0} \cup {pos[k].y : k \in DOMAIN pos}) + 120], g.nodes).pos

Laid(g, a, col) == PlaceRest(g, PackEnds(g, SourceLane(g, a.pos, col), a))
AutoLayout(g) ==
  LET col == Columns(g)
      cols == Max({0} \cup {col[k] : k \in DOMAIN col})
  IN  Laid(g, FoldLeft(LAMBDA a, c : PlaceColumn(g, a, col, c - 1),
                       [pos |-> [x \in {} |-> At2(0, 0)], x |-> 0, maxRight |-> 0, ends |-> <<>>],
                       [i \in 1..(cols + 1) |-> i]), col)

---------------------------------------------------------------------------
Apart(p, m, q, n) == \/ p.x + Width(m) <= q.x \/ q.x + Width(n) <= p.x
                     \/ p.y + Height(m) <= q.y \/ q.y + Height(n) <= p.y

\* The one clash there is: the sources above a set that is handed over to, where
\* they reach up beside a condition set's true and false.
AboveBeside(g, col, m, n) ==
  \E a, b \in {m, n} : /\ a.kind = "source" /\ b.kind = "end" /\ b.end.type = "result"
                       /\ Out(g, a.id, "out") \in {k \in DOMAIN col : col[k] > 0}

\* Every node of a freshly loaded graph is placed, and no two of them overlap,
\* however the sets hand over to each other, nest and share ends, and whatever
\* sources they have (autoLayout); but for the sources above a set that is handed
\* over to, which may lie on the true and false of a condition set.
NothingOverlaps ==
  \A g \in {FromConfig(layout)} : \A pos \in {AutoLayout(g)}, col \in {Columns(g)} :
    \A i, j \in DOMAIN g.nodes :
      (i < j /\ ~AboveBeside(g, col, g.nodes[i], g.nodes[j])) =>
        Apart(pos[g.nodes[i].id], g.nodes[i], pos[g.nodes[j].id], g.nodes[j])
=============================================================================

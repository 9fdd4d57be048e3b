--------------------------------- MODULE Lists ------------------------------
(***************************************************************************)
(* The lists of the console: rows refetched under a selection, sorted and  *)
(* paged (ui-framework/components/Table.tsx, TableKit.tsx, TreeTable.tsx,  *)
(* hooks/useSelection.ts), their columns as the user arranged them, and    *)
(* the actions on what is selected (app/hooks/useBulkAction.ts,            *)
(* useDeselectOnBlankClick.tsx).                                           *)
(***************************************************************************)
EXTENDS Integers, Sequences, SequencesExt, FiniteSets, FiniteSetsExt

CONSTANTS RowIds,     \* the rows the node may return, numbers
          SortKey,    \* what a row is sorted by; 0: empty
          Sizes,      \* page sizes
          Forests     \* parents of the nodes of tree lists; 0: top level

VARIABLES rows,       \* one list: rows, selection, page, order, an action
          cols,       \* the columns of one table
          tree        \* one tree list

---------------------------------------------------------------------------
\* Sorting is stable, and rows without a value go last in either direction.

Precedes(a, b, dir) ==
  LET x == SortKey[a]  y == SortKey[b]
  IN  IF x = 0 \/ y = 0 THEN IF (x = 0) = (y = 0) THEN a < b ELSE y = 0
      ELSE IF x # y THEN (x < y) = (dir = "asc") ELSE a < b
Ordered(ids, dir) == IF dir = "none" THEN SetToSortSeq(ids, <) ELSE SetToSortSeq(ids, LAMBDA a, b : Precedes(a, b, dir))
Pages(n, size) == IF n = 0 THEN 1 ELSE ((n - 1) \div size) + 1
PageOf(s, page, size) ==
  LET last == IF page * size < Len(s) THEN page * size ELSE Len(s) IN SubSeq(s, (page - 1) * size + 1, last)
\* The pager's buttons: the ends, the page and its neighbours; 0 for a gap.
PagerButtons(page, pages) ==
  LET near(p) == p = 1 \/ p = pages \/ (p - page \in -1..1)
      f[p \in 0..pages] ==
        IF p = 0 THEN <<>>
        ELSE IF near(p) THEN Append(f[p - 1], p)
        ELSE IF Last(f[p - 1]) # 0 THEN Append(f[p - 1], 0) ELSE f[p - 1]
  IN  f[pages]

---------------------------------------------------------------------------
\* One list.

NoAction == [keys |-> {}, asked |-> FALSE, left |-> {}]
RowsInits == {[data |-> d, selected |-> {}, page |-> 1, size |-> s, sort |-> "none", bulk |-> NoAction] :
                d \in SUBSET RowIds, s \in Sizes}
RowsShown(r) == PageOf(Ordered(r.data, r.sort), r.page, r.size)
PageCount(r) == Pages(Cardinality(r.data), r.size)

\* (a plausible mistake: the page is left where it is)
RefetchedM(r, d) == [r EXCEPT !.data = d, !.selected = @ \cap d]
\* A refetch: the selection loses the rows that went, and a page past the end
\* becomes the last one.
Refetched(r, d) ==
  LET s == [r EXCEPT !.data = d, !.selected = @ \cap d] IN [s EXCEPT !.page = IF @ > PageCount(s) THEN PageCount(s) ELSE @]
Refetch == \E d \in SUBSET RowIds : rows' = Refetched(rows, d)
Toggle(s, k) == IF k \in s THEN s \ {k} ELSE s \cup {k}
Check == \E k \in ToSet(RowsShown(rows)) : rows' = [rows EXCEPT !.selected = Toggle(@, k)]
CheckAll ==
  rows' = [rows EXCEPT !.selected = IF Cardinality(@) = Cardinality(rows.data) /\ rows.data # {} THEN {} ELSE rows.data]
SelectOnly == \E k \in ToSet(RowsShown(rows)) : rows' = [rows EXCEPT !.selected = IF @ = {k} THEN {} ELSE {k}]
\* A press on nothing drops a single selection, never a larger one.
BlankClick == Cardinality(rows.selected) = 1 /\ rows' = [rows EXCEPT !.selected = {}]
SortClick == rows' = [rows EXCEPT !.sort = CASE @ = "none" -> "asc" [] @ = "asc" -> "desc" [] OTHER -> "none"]
Turn == \E p \in ToSet(PagerButtons(rows.page, PageCount(rows))) \ {0} : rows' = [rows EXCEPT !.page = p]
Resize == \E s \in Sizes \ {rows.size} : rows' = [rows EXCEPT !.size = s, !.page = 1]
\* An action on the selection as it was when its button was pressed: asked
\* first, then one call per row, all at once; a failed one ends it there.
BulkClick == rows.selected # {} /\ rows.bulk.left = {} /\ ~rows.bulk.asked
             /\ rows' = [rows EXCEPT !.bulk = [keys |-> rows.selected, asked |-> TRUE, left |-> {}]]
\* (a plausible mistake: what is selected when the question is answered)
BulkAnswerM == /\ rows.bulk.asked
               /\ rows' \in {[rows EXCEPT !.bulk = NoAction], [rows EXCEPT !.bulk.asked = FALSE, !.bulk.left = rows.selected]}
BulkAnswer == /\ rows.bulk.asked
              /\ rows' \in {[rows EXCEPT !.bulk = NoAction], [rows EXCEPT !.bulk.asked = FALSE, !.bulk.left = rows.bulk.keys]}
BulkCall ==
  \E k \in rows.bulk.left :
    \E d \in {rows.data, rows.data \ {k}} :
      LET r == [rows EXCEPT !.bulk.left = @ \ {k}]
      IN  \/ r.bulk.left # {} /\ rows' = r
          \/ r.bulk.left = {} /\ rows' = Refetched([r EXCEPT !.bulk = NoAction], d)
RowsNext == Refetch \/ Check \/ CheckAll \/ SelectOnly \/ BlankClick \/ SortClick \/ Turn \/ Resize
            \/ BulkClick \/ BulkAnswer \/ BulkCall

---------------------------------------------------------------------------
\* The columns: the first and those without a title stay where they are, the
\* others are shown, hidden and moved. `b` is hidden until asked for, `c` is
\* there only while its feature is on.

FixedFirst == "name"
FixedLast == "actions"
MovableOf(s) == IF s.feature THEN <<"a", "b", "c">> ELSE <<"a", "b">>
Rest2(order, all) == order \o SelectSeq(all, LAMBDA k : k \notin ToSet(order))
MenuOf(s) == Rest2(SelectSeq(s.order, LAMBDA k : k \in ToSet(MovableOf(s))), MovableOf(s))
HiddenOf(s) == IF s.hidden = "default" THEN {"b"} ELSE s.hiddenSet
VisibleOf(s) == <<FixedFirst>> \o SelectSeq(MenuOf(s), LAMBDA k : k \notin HiddenOf(s)) \o <<FixedLast>>

ColsInits == {[feature |-> f, order |-> <<>>, hidden |-> "default", hiddenSet |-> {}] : f \in BOOLEAN}
Feature == cols' = [cols EXCEPT !.feature = ~@]
ToggleCol == \E k \in ToSet(MenuOf(cols)) : cols' = [cols EXCEPT !.hidden = "chosen", !.hiddenSet = Toggle(HiddenOf(cols), k)]
MoveCol ==
  \E i, j \in DOMAIN MenuOf(cols) :
    i # j /\ cols' = [cols EXCEPT !.order = InsertAt(RemoveAt(MenuOf(cols), i), j, MenuOf(cols)[i])]
ResetCols == cols' = [cols EXCEPT !.order = <<>>, !.hidden = "default", !.hiddenSet = {}]
ColsNext == Feature \/ ToggleCol \/ MoveCol \/ ResetCols

---------------------------------------------------------------------------
\* Tree lists: siblings sort among themselves below one that is pinned, children
\* follow their parent while it is expanded, and a page counts top-level rows.

TreeInits == {[parent |-> f, pinned |-> k, closed |-> {}, dir |-> "none", page |-> 1] : f \in Forests, k \in {{}, {1}}}
Kids(t, p) ==
  LET own == {n \in DOMAIN t.parent : t.parent[n] = p}
  IN  SetToSeq(own \cap t.pinned) \o Ordered(own \ t.pinned, t.dir)
RECURSIVE Flatten(_, _, _, _)
Flatten(t, nodes, depth, guides) ==
  FlattenSeq([i \in DOMAIN nodes |->
    <<[node |-> nodes[i], depth |-> depth, last |-> i = Len(nodes), guides |-> guides]>>
    \o (IF nodes[i] \in t.closed THEN <<>>
        ELSE Flatten(t, Kids(t, nodes[i]), depth + 1, IF depth = 0 THEN <<>> ELSE Append(guides, i # Len(nodes))))])
TreePage(t, page) == Flatten(t, PageOf(Kids(t, 0), page, 2), 0, <<>>)
TopPages(t) == Pages(Len(Kids(t, 0)), 2)
Expand == \E n \in DOMAIN tree.parent : tree' = [tree EXCEPT !.closed = Toggle(@, n)]
SortTree == tree' = [tree EXCEPT !.dir = CASE @ = "none" -> "asc" [] @ = "asc" -> "desc" [] OTHER -> "none"]
TreeTurn == \E p \in 1..TopPages(tree) : tree' = [tree EXCEPT !.page = p]
TreeNext == Expand \/ SortTree \/ TreeTurn

---------------------------------------------------------------------------
\* Properties.

\* Whatever was refetched, sorted, turned and resized: the selection is rows
\* that exist, the page is one of the pages and holds rows while there are any,
\* the pager offers the way to the pages around it and to both ends, and the
\* pages together are the rows, each once.
RowsSound ==
  LET all == Ordered(rows.data, rows.sort)
      n == PageCount(rows)
      buttons == PagerButtons(rows.page, n)
  IN  /\ rows.selected \subseteq rows.data
      /\ rows.page \in 1..n /\ (rows.data # {} => RowsShown(rows) # <<>>)
      /\ FlattenSeq([p \in 1..n |-> PageOf(all, p, rows.size)]) = all
      /\ {1, n, rows.page} \cup ({rows.page - 1, rows.page + 1} \cap 1..n) \subseteq ToSet(buttons)
      /\ \A i \in 1..(Len(buttons) - 1) : buttons[i + 1] = buttons[i] + 1 \/ buttons[i] = 0 \/ buttons[i + 1] = 0

\* An action runs on exactly what was selected when it was asked for.
BulkAsAsked == rows'.bulk.left # {} /\ rows.bulk.left = {} => rows'.bulk.left = rows.bulk.keys /\ rows.bulk.asked

\* However columns were moved, hidden, and came and went with a feature, each
\* shown one appears once, the fixed ones at their ends, and every other one is
\* in the menu once.
ColumnsOnce ==
  LET v == VisibleOf(cols)  m == MenuOf(cols)
  IN  /\ v[1] = FixedFirst /\ Last(v) = FixedLast /\ Cardinality(ToSet(v)) = Len(v)
      /\ ToSet(m) = ToSet(MovableOf(cols)) /\ Len(m) = Len(MovableOf(cols))

Shown3(t, n) ==
  LET up[x \in DOMAIN t.parent] == t.parent[x] = 0 \/ (t.parent[x] \notin t.closed /\ up[t.parent[x]]) IN up[n]
\* The row of the node above a row, at a depth.
AboveAt(s, i, d) == LET c == {j \in 1..i : s[j].depth = d} IN s[CHOOSE j \in c : \A k \in c : k <= j]
\* The pages of a tree hold each node whose ancestors are all expanded once,
\* under its parent, with the pinned one first; a guide is drawn where the ancestor at that depth has a
\* later sibling, and nowhere else.
TreeRows ==
  LET s == TreePage(tree, tree.page)
      all == FlattenSeq([p \in 1..TopPages(tree) |-> TreePage(tree, p)])
  IN  /\ {all[i].node : i \in DOMAIN all} = {n \in DOMAIN tree.parent : Shown3(tree, n)}
      /\ Cardinality({all[i].node : i \in DOMAIN all}) = Len(all)
      /\ tree.pinned # {} => all[1].node \in tree.pinned
      /\ \A i \in DOMAIN s :
           /\ s[i].depth > 0 => AboveAt(s, i, s[i].depth - 1).node = tree.parent[s[i].node]
           /\ s[i].depth > 0 => Len(s[i].guides) = s[i].depth - 1
           /\ \A g \in DOMAIN s[i].guides : s[i].guides[g] = ~AboveAt(s, i, g).last
=============================================================================

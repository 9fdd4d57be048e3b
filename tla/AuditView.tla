------------------------------- MODULE AuditView -----------------------------
(***************************************************************************)
(* The audit page (pages/AuditPage.tsx): the newest flows under a filter,  *)
(* and pages of older ones fetched with the node's cursor. Loads overlap   *)
(* (a filter change, the refresh timer, a click), and each but a further   *)
(* page makes the ones before it void. A filter is a number; what is typed *)
(* takes effect when the typing has stopped.                               *)
(***************************************************************************)
EXTENDS Integers, Sequences

CONSTANTS AuditPages,   \* pages the node has for every filter
          AuditLoads,   \* bound on loads
          AuditFilters  \* bound on changes of the filter

VARIABLE audit

\* "ok" says whether the latest first page came; the cursor is the next page, 0
\* for none.
AuditInits ==
  {[typed |-> 0, filter |-> 0, auto |-> FALSE, records |-> <<>>, cursor |-> 0, loading |-> TRUE, error |-> FALSE, ok |-> FALSE,
    gen |-> 1, loads |-> {[g |-> 1, more |-> FALSE, filter |-> 0, page |-> 1]}, left |-> AuditLoads]}

Ask2(a, more) ==
  [a EXCEPT !.gen = IF more THEN @ ELSE @ + 1, !.loading = TRUE, !.error = FALSE, !.left = @ - 1, !.ok = more /\ @,
            !.loads = @ \cup {[g |-> IF more THEN a.gen ELSE a.gen + 1, more |-> more, filter |-> a.filter,
                               page |-> IF more THEN a.cursor ELSE 1]}]

TypeFilter == audit.typed < AuditFilters /\ audit' = [audit EXCEPT !.typed = @ + 1]
\* A menu takes effect at once, what was typed when the typing stops.
ApplyFilter == audit.left > 0 /\ audit.typed # audit.filter /\ audit' = Ask2([audit EXCEPT !.filter = audit.typed], FALSE)
PickFilter ==
  /\ audit.left > 0 /\ audit.typed < AuditFilters
  /\ audit' = Ask2([audit EXCEPT !.typed = @ + 1, !.filter = audit.typed + 1], FALSE)
ToggleAuto == audit' = [audit EXCEPT !.auto = ~@]
AutoRefresh == audit.auto /\ audit.left > 0 /\ audit' = Ask2(audit, FALSE)
RefreshAudit ==
  /\ audit.left > 0 /\ ~(audit.loading /\ audit.records = <<>>)
  /\ audit' = Ask2(audit, FALSE)
LoadMore == audit.left > 0 /\ audit.cursor # 0 /\ ~audit.loading /\ audit' = Ask2(audit, TRUE)

\* (a plausible mistake: an answer is taken whatever was asked since)
CurrentM(a, l) == TRUE
\* A page: its flows, and where the next begins.
Current(a, l) == l.g = a.gen
Loaded3(a, l) ==
  [a EXCEPT !.records = IF l.more THEN Append(@, [filter |-> l.filter, page |-> l.page]) ELSE <<[filter |-> l.filter, page |-> 1]>>,
            !.cursor = IF l.page < AuditPages THEN l.page + 1 ELSE 0, !.loading = FALSE, !.ok = @ \/ ~l.more]
Failed3(a) == [a EXCEPT !.error = TRUE, !.loading = FALSE]
LoadEnds ==
  \E l \in audit.loads, fails \in BOOLEAN :
    LET a == [audit EXCEPT !.loads = @ \ {l}] IN
    audit' = CASE ~Current(audit, l) -> a
               [] Current(audit, l) /\ fails -> Failed3(a)
               [] Current(audit, l) /\ ~fails -> Loaded3(a, l)

AuditNext ==
  \/ TypeFilter \/ ApplyFilter \/ PickFilter \/ ToggleAuto \/ AutoRefresh \/ RefreshAudit \/ LoadMore \/ LoadEnds

---------------------------------------------------------------------------
\* Once the first page of the current filter has come, the flows on view are
\* the pages of that filter from the first on, each once and in order, and the
\* cursor is the page that follows, whatever late answer comes; and the page is
\* loading exactly while an answer it will take is on its way.
PagesOfFilter ==
  /\ audit.ok => /\ \A i \in DOMAIN audit.records : audit.records[i] = [filter |-> audit.filter, page |-> i]
                 /\ audit.cursor = IF Len(audit.records) < AuditPages THEN Len(audit.records) + 1 ELSE 0
  /\ audit.loading <=> \E l \in audit.loads : Current(audit, l)
=============================================================================

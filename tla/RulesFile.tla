------------------------------ MODULE RulesFile -----------------------------
(***************************************************************************)
(* Rules as a file: written with names in place of ids, read back, and     *)
(* imported into a node set by set                                         *)
(* (components/policy/rulesFile.ts, RulesImportExport.tsx).                *)
(***************************************************************************)
EXTENDS RulesNode

CONSTANTS ImpNodes,    \* nodes an import is made into, and that export
          HandFiles,   \* files nobody exported, as they parse
          ImpFails     \* bound on the requests that get lost

VARIABLE imp          \* the dialog: pc, the node, and one import's progress

UserIs(u) == [type |-> "match", field |-> "user", user |-> u]
At(f, v) == IF v \in DOMAIN f THEN f[v] ELSE v

---------------------------------------------------------------------------
\* Names for ids, and back. n: [cond, policy, user], functions.

RECURSIVE MapCond(_, _)
MapCond(c, n) ==
  CASE c.type = "ref" -> Ref(At(n.cond, c.ref))
    [] c.type = "not" -> Not(MapCond(c.item, n))
    [] c.type \in {"all", "any"} -> Group(c.type, [i \in DOMAIN c.items |-> MapCond(c.items[i], n)])
    [] c.type = "match" /\ c.field = "user" -> UserIs(At(n.user, c.user))
    [] OTHER -> c

\* An otherwise keeps what it says: only a rule's own hand-over is mapped.
RECURSIVE MapRules(_, _)
MapAction(a, n) ==
  CASE a.type = "call" -> End("call", At(n.policy, a.arg))
    [] a.type = "flow" -> Flow(MapRules(a.rules, n), a.default)
    [] OTHER -> a
MapRules(rules, n) ==
  [i \in DOMAIN rules |-> [rules[i] EXCEPT !.when = MapCond(@, n), !.then = MapAction(@, n)]]

\* Names no set has. (An otherwise is not looked at.)
RECURSIVE ThenCalls(_)
ThenCalls(rules) ==
  UNION {CASE rules[i].then.type = "flow" -> ThenCalls(rules[i].then.rules)
           [] rules[i].then.type = "call" -> {rules[i].then.arg}
           [] OTHER -> {} : i \in DOMAIN rules}
Missing(s, n) == (Refs(s) \ DOMAIN n.cond) \cup (ThenCalls(s.rules) \ DOMAIN n.policy)

NameOf(list) == [id \in SetIds(list) |-> list[CHOOSE i \in DOMAIN list : list[i].id = id].name]
\* Of two sets of one name, the last counts.
IdOf(list) == [x \in {list[i].name : i \in DOMAIN list} |->
                 list[CHOOSE i \in DOMAIN list : list[i].name = x /\ \A j \in DOMAIN list : list[j].name = x => j <= i].id]
UserNames(n) == [u \in DOMAIN n.sources |-> "name of " \o u]
UserIds(n) == [x \in {"name of " \o u : u \in DOMAIN n.sources} |-> CHOOSE u \in DOMAIN n.sources : "name of " \o u = x]

\* The node's rules as a file (exportRules).
FileSet(s, n) == [name |-> s.name, rules |-> MapRules(s.rules, n), default |-> s.default]
FileSets(list, n) == [i \in DOMAIN list |-> FileSet(list[i], n)]
FileOf(cfg, n) ==
  [direct |-> IF cfg.direct \in DOMAIN n.policy THEN n.policy[cfg.direct] ELSE "",
   conditions |-> FileSets(cfg.conditions, n), policies |-> FileSets(cfg.policies, n)]
ExportRules(cfg) ==
  FileOf(cfg, [cond |-> NameOf(cfg.conditions), policy |-> NameOf(cfg.policies), user |-> UserNames(cfg)])

\* A file is refused without sets, or with a set that has no name (parseRules).
Readable(f) ==
  /\ f.conditions \o f.policies # <<>>
  /\ \A i \in DOMAIN f.conditions : f.conditions[i].name # ""
  /\ \A i \in DOMAIN f.policies : f.policies[i].name # ""

---------------------------------------------------------------------------
\* The import (doImport).

Entries(f) == [i \in DOMAIN f.conditions |-> [kind |-> "condition", set |-> f.conditions[i]]]
              \o [i \in DOMAIN f.policies |-> [kind |-> "policy", set |-> f.policies[i]]]
Field(kind) == IF kind = "policy" THEN "policies" ELSE "conditions"
IdsField(kind) == IF kind = "policy" THEN "pol" ELSE "cond"
Put(f, k, v) == [x \in DOMAIN f \cup {k} |-> IF x = k THEN v ELSE f[x]]
Drop(f, k) == [x \in DOMAIN f \ {k} |-> f[x]]

ImpInits ==
  {[pc |-> "idle", node |-> n, before |-> n, file |-> f, over |-> FALSE, fails |-> ImpFails, lost |-> 0,
    todo |-> <<>>, jobs |-> <<>>, failed |-> <<>>, done |-> {}, skipped |-> {}, errors |-> 0,
    cond |-> [x \in {} |-> ""], pol |-> [x \in {} |-> ""], cur |-> ""] :
     n \in ImpNodes, f \in {ExportRules(m) : m \in ImpNodes} \cup HandFiles}

\* A file is dropped or chosen. An unreadable one is reported and nothing is sent.
DropFile ==
  /\ imp.pc = "idle"
  /\ \E over \in BOOLEAN :
       imp' = IF ~Readable(imp.file) THEN [imp EXCEPT !.pc = "refused"]
              ELSE [imp EXCEPT !.pc = "making", !.over = over, !.todo = Entries(imp.file), !.cur = imp.node.direct,
                               !.cond = IdOf(imp.node.conditions), !.pol = IdOf(imp.node.policies)]

\* 1. Every imported set gets an id: an existing one (overwrite), a new one, or none.
Made(e) ==
  LET id == "i" \o ToString(imp.node.last + 1)
  IN  [imp EXCEPT !.node = [imp.node EXCEPT !.last = @ + 1,
                              ![Field(e.kind)] = Append(@, [id |-> id, name |-> e.set.name, rules |-> <<>>, default |-> None, refs |-> <<>>])],
                  ![IdsField(e.kind)] = Put(@, e.set.name, id),
                  !.jobs = Append(@, [kind |-> e.kind, set |-> e.set, id |-> id, made |-> TRUE]),
                  !.todo = Tail(@)]
MakeSet ==
  /\ imp.pc = "making" /\ imp.todo # <<>>
  /\ LET e == Head(imp.todo)
         ids == imp[IdsField(e.kind)]
     IN  \/ /\ e.set.name \in DOMAIN ids /\ ~imp.over
            /\ imp' = [imp EXCEPT !.todo = Tail(@), !.skipped = @ \cup {e}]
         \/ /\ e.set.name \in DOMAIN ids /\ imp.over
            /\ imp' = [imp EXCEPT !.todo = Tail(@),
                                  !.jobs = Append(@, [kind |-> e.kind, set |-> e.set, id |-> ids[e.set.name], made |-> FALSE])]
         \/ e.set.name \notin DOMAIN ids /\ imp' = Made(e)
         \/ /\ e.set.name \notin DOMAIN ids /\ imp.fails > 0
            /\ imp' = [imp EXCEPT !.todo = Tail(@), !.errors = @ + 1, !.fails = @ - 1, !.lost = @ + 1]
AllMade ==
  /\ imp.pc = "making" /\ imp.todo = <<>>
  /\ imp' = [imp EXCEPT !.pc = "writing", !.todo = imp.jobs]

\* 2. Their rules, the references resolved.
Names == [cond |-> imp.cond, policy |-> imp.pol, user |-> UserIds(imp.node)]
Body(j) == [id |-> j.id, name |-> j.set.name, rules |-> MapRules(j.set.rules, Names), default |-> j.set.default, refs |-> <<>>]
WithBody(j) == [imp.node EXCEPT ![Field(j.kind)] = PutIn(@, Body(j))]
Taken(j) == Missing(j.set, Names) = {} /\ SetTaken(WithBody(j), Body(j), j.kind)
WriteSet ==
  /\ imp.pc = "writing" /\ imp.todo # <<>>
  /\ LET j == Head(imp.todo)
         fail == [imp EXCEPT !.todo = Tail(@), !.errors = @ + 1, !.failed = Append(@, j), !.done = @ \ {<<j.kind, j.set.name>>}]
     IN  \/ Taken(j) /\ imp' = [imp EXCEPT !.todo = Tail(@), !.node = WithBody(j), !.done = @ \cup {<<j.kind, j.set.name>>}]
         \/ ~Taken(j) /\ imp' = fail
         \/ Taken(j) /\ imp.fails > 0 /\ imp' = [fail EXCEPT !.fails = @ - 1, !.lost = @ + 1]
AllWritten ==
  /\ imp.pc = "writing" /\ imp.todo = <<>>
  /\ imp' = [imp EXCEPT !.pc = "undoing", !.todo = Reverse(imp.failed)]

\* Sets created for an entry that failed are removed again; a refusal is swallowed.
UndoSet ==
  /\ imp.pc = "undoing" /\ imp.todo # <<>>
  /\ LET j == Head(imp.todo)
         gone == [imp.node EXCEPT ![Field(j.kind)] = Without(@, j.id)]
     IN  imp' = IF ~j.made THEN [imp EXCEPT !.todo = Tail(@)]
                ELSE [imp EXCEPT !.todo = Tail(@), !.node = IF UsedBy(@, j.id) THEN @ ELSE gone,
                                 ![IdsField(j.kind)] = Drop(@, j.set.name)]

\* 3. The direct entry: set when there is none yet, or replaced on overwrite.
SetDirect ==
  /\ imp.pc = "undoing" /\ imp.todo = <<>>
  /\ LET want == imp.file.direct # "" /\ (imp.over \/ imp.cur = "") /\ imp.file.direct \in DOMAIN imp.pol
     IN  imp' = [imp EXCEPT !.pc = "done", !.node.direct = IF want THEN imp.pol[imp.file.direct] ELSE @]

ImpNext == DropFile \/ MakeSet \/ AllMade \/ WriteSet \/ AllWritten \/ UndoSet \/ SetDirect

---------------------------------------------------------------------------
\* Properties.

Written(node, kind, name) ==
  LET file == ExportRules(node)[Field(kind)]
  IN  {[rules |-> file[i].rules, default |-> file[i].default] : i \in {j \in DOMAIN file : file[j].name = name}}

\* A set the import counts as added says on this node what the file says of it,
\* references by name included, if its name is the file's only one (doImport).
ImportedAsWritten ==
  imp.pc = "done" =>
    \A i \in DOMAIN Entries(imp.file) :
      LET e == Entries(imp.file)[i]
          once == \A j \in DOMAIN Entries(imp.file) : (Entries(imp.file)[j].kind = e.kind /\ Entries(imp.file)[j].set.name = e.set.name) => j = i
          local == \A k \in DOMAIN imp.before[Field(e.kind)] : imp.before[Field(e.kind)][k].name # e.set.name
      IN  (<<e.kind, e.set.name>> \in imp.done /\ once /\ local) =>
             Written(imp.node, e.kind, e.set.name) = {[rules |-> e.set.rules, default |-> e.set.default]}

\* Without overwrite an import changes no set and no direct entry that was there;
\* with it, only sets the file names. Every reference on the node still resolves.
ImportSpares ==
  /\ \A kind \in {"condition", "policy"} : \A i \in DOMAIN imp.before[Field(kind)] :
       LET s == imp.before[Field(kind)][i]
           named == \E j \in DOMAIN Entries(imp.file) : Entries(imp.file)[j].kind = kind /\ Entries(imp.file)[j].set.name = s.name
       IN  (imp.over /\ named) \/ s \in {imp.node[Field(kind)][j] : j \in DOMAIN imp.node[Field(kind)]}
  /\ \A i \in DOMAIN imp.node.policies : SetTaken(imp.node, imp.node.policies[i], "policy")
  /\ \A i \in DOMAIN imp.node.conditions : SetTaken(imp.node, imp.node.conditions[i], "condition")
  /\ imp.node.direct \in SetIds(imp.node.policies) \cup {""}
  /\ (~imp.over /\ imp.before.direct # "") => imp.node.direct = imp.before.direct
=============================================================================

------------------------------ MODULE RulesForm -----------------------------
(***************************************************************************)
(* The dialog of one rule set: a name, and its rules as a flow or as text  *)
(* (components/policy/SetModal.tsx, FlowEditor, CondEditor,                *)
(* TerminalEditor, setConfig.ts).                                          *)
(*                                                                         *)
(* Reading or writing the text waits for a chunk that is loaded on demand, *)
(* so a click may take effect after further typing: pend holds the clicks  *)
(* under way, with what each of them captured.                             *)
(***************************************************************************)
EXTENDS RulesModel

CONSTANTS
  FormSets,      \* the sets that may be opened; new ones have the id ""
  FormEdits,     \* bound on edits
  CondDepth      \* MAX_DEPTH of the condition editor (4 in the code)

VARIABLE form

---------------------------------------------------------------------------
\* The condition editor. The root is edited as a group.

IsGroup(c) == c.type \in {"all", "any"}
RootOf(v) == CASE IsGroup(v) -> v [] v = Always -> Group("all", <<>>) [] OTHER -> Group("all", <<v>>)
SetRoot(c) == CASE IsGroup(c) /\ c.items = <<>> -> Always
                [] c.type = "all" /\ Len(c.items) = 1 -> c.items[1]
                [] OTHER -> c

\* The conditions one click turns a node at this depth into. New fields are
\* empty; a group may be added above the deepest level.
RECURSIVE NodeEdits(_, _, _)
ItemEdits(c, depth) ==
  {Group(c.type, Append(c.items, x)) : x \in {Match(""), Ref("c1")} \cup
     (IF depth < CondDepth THEN {Group(IF c.type = "all" THEN "any" ELSE "all", <<>>)} ELSE {})}
  \cup (IF Len(c.items) > 1 THEN {Group("all", c.items), Group("any", c.items)} ELSE {})
  \cup {Group(c.type, RemoveAt(c.items, i)) : i \in DOMAIN c.items}
  \cup UNION {{Group(c.type, [c.items EXCEPT ![i] = x]) : x \in NodeEdits(c.items[i], depth + 1, FALSE)} : i \in DOMAIN c.items}
InnerEdits(c, depth) == CASE IsGroup(c) -> ItemEdits(c, depth)
                          [] c.type = "match" -> {Match("x"), Match("")}
                          [] c.type = "ref" -> {Ref("c1")}
                          [] OTHER -> {}
NodeEdits(c, depth, root) ==
  (IF c.type = "not" THEN {Not(x) : x \in InnerEdits(c.item, depth)} ELSE InnerEdits(c, depth))
  \cup (IF root THEN {} ELSE {IF c.type = "not" THEN c.item ELSE Not(c)})
CondEdits(v) == {SetRoot(c) : c \in NodeEdits(RootOf(v), 1, TRUE)}

RECURSIVE Levels(_)
Levels(c) == CASE IsGroup(c) -> 1 + (IF c.items = <<>> THEN 0 ELSE Max({Levels(c.items[i]) : i \in DOMAIN c.items}))
               [] c.type = "not" -> Levels(c.item)
               [] OTHER -> 0

---------------------------------------------------------------------------
\* The flow editor: rules added, removed, moved and switched, a rule's then and
\* the otherwise chosen. A flow's otherwise may be none: it continues outside.

NewThen(kind) == IF kind = "policy" THEN End("exit", "") ELSE End("result", "true")
NewRule(kind, n) == [id |-> "n" \o ToString(n), enabled |-> TRUE, when |-> Always, then |-> NewThen(kind)]
EndChoices(kind) == IF kind = "policy" THEN {End("exit", ""), End("default", ""), End("deny", "reject")}
                 ELSE {End("result", "true"), End("result", "false")}
Swapped(s, i) == [s EXCEPT ![i] = s[i + 1], ![i + 1] = s[i]]

RECURSIVE FlowEdits(_, _, _)
RuleEdits(r, kind, n, depth) ==
  {[r EXCEPT !.enabled = ~@]}
  \cup {[r EXCEPT !.when = c] : c \in CondEdits(r.when)}
  \cup {[r EXCEPT !.then = x] : x \in EndChoices(kind)}
  \cup (IF depth + 1 < 8 /\ r.then.type # "flow" THEN {[r EXCEPT !.then = Flow(<<NewRule(kind, n)>>, None)]} ELSE {})
  \cup (IF r.then.type = "flow"
        THEN {[r EXCEPT !.then = Flow(b.rules, b.default)] : b \in FlowEdits([rules |-> r.then.rules, default |-> r.then.default], <<kind, n>>, depth + 1)}
        ELSE {})
FlowEdits(b, k, depth) ==
  {[b EXCEPT !.rules = Append(@, NewRule(k[1], k[2]))]}
  \cup {[b EXCEPT !.rules = RemoveAt(@, i)] : i \in DOMAIN b.rules}
  \cup {[b EXCEPT !.rules = Swapped(@, i)] : i \in 1..(Len(b.rules) - 1)}
  \cup UNION {{[b EXCEPT !.rules[i] = r] : r \in RuleEdits(b.rules[i], k[1], k[2], depth)} : i \in DOMAIN b.rules}
  \cup {[b EXCEPT !.default = x] : x \in EndChoices(k[1]) \cup (IF depth > 0 THEN {None} ELSE {})}

---------------------------------------------------------------------------
\* The text: enabled is written only when it is false, and read as true when missing.

RECURSIVE ForYaml(_)
ForYaml(rules) ==
  [i \in DOMAIN rules |->
     LET r == rules[i]
         then == IF r.then.type = "flow" THEN Flow(ForYaml(r.then.rules), r.then.default) ELSE r.then
     IN  [k \in DOMAIN r \ (IF r.enabled THEN {"enabled"} ELSE {}) |-> IF k = "then" THEN then ELSE r[k]]]
RECURSIVE FromYaml(_)
FromYaml(rules) ==
  [i \in DOMAIN rules |->
     LET r == rules[i]
     IN  [id |-> r.id, when |-> r.when, enabled |-> ~("enabled" \in DOMAIN r /\ r.enabled = FALSE),
          then |-> IF r.then.type = "flow" THEN Flow(FromYaml(r.then.rules), r.then.default) ELSE r.then]]
ToYaml(b) == [ok |-> TRUE, rules |-> ForYaml(b.rules), default |-> b.default]
Malformed == [ok |-> FALSE, rules |-> <<>>, default |-> None]
ParseConfig(text) == [rules |-> FromYaml(text.rules), default |-> text.default]

---------------------------------------------------------------------------
\* The dialog.

Closed == [open |-> FALSE, key |-> "", kind |-> "policy", name |-> "", body |-> [rules |-> <<>>, default |-> None],
           tab |-> "flow", text |-> Malformed, error |-> FALSE, saving |-> FALSE, pend |-> <<>>, sent |-> <<>>, opens |-> 1, edits |-> FormEdits]
FormInits == {Closed}

\* The dialog opens, or is aimed at another set while open: its form is seeded.
OpenSet ==
  /\ ~form.open /\ form.opens > 0
  /\ \E s \in FormSets :
       form' = [form EXCEPT !.open = TRUE, !.key = s.id, !.kind = s.kind, !.name = s.name,
                            !.body = [rules |-> s.rules, default |-> s.default],
                            !.error = FALSE, !.tab = "flow", !.opens = @ - 1]
CloseSet == form.open /\ form' = [form EXCEPT !.open = FALSE]

TypeName == /\ form.open /\ form.edits > 0
            /\ \E x \in {"", "n"} : form' = [form EXCEPT !.name = x, !.edits = @ - 1]
EditFlow ==
  /\ form.open /\ form.tab = "flow" /\ form.edits > 0
  /\ \E b \in FlowEdits(form.body, <<form.kind, form.edits>>, 0) :
       form' = [form EXCEPT !.body = b, !.edits = @ - 1]
TypeText ==
  /\ form.open /\ form.tab = "config" /\ form.edits > 0
  /\ \E t \in {Malformed, [form.text EXCEPT !.ok = TRUE, !.default = End("deny", "drop")]} :
       form' = [form EXCEPT !.text = t, !.error = FALSE, !.edits = @ - 1]

\* A click that needs the chunk: what it captured.
FormClick(op) == [op |-> op, body |-> form.body, text |-> form.text, name |-> form.name]
SwitchTab ==
  /\ form.open /\ form.pend = <<>>
  /\ form' = [form EXCEPT !.pend = Append(@, FormClick(IF form.tab = "flow" THEN "toConfig" ELSE "toFlow"))]

Sent(c, body) == [name |-> c.name, body |-> body]
\* Save: a blank name is refused; the flow is sent as it is, the text once it parses.
SaveSet ==
  /\ form.open /\ ~form.saving /\ form.pend = <<>> /\ Len(form.sent) < 1
  /\ \/ form.name = "" /\ form' = [form EXCEPT !.error = TRUE]
     \/ form.name # "" /\ form.tab = "flow"
        /\ form' = [form EXCEPT !.saving = TRUE, !.error = FALSE, !.sent = Append(@, Sent(FormClick("save"), form.body))]
     \/ form.name # "" /\ form.tab = "config"
        /\ form' = [form EXCEPT !.pend = Append(@, FormClick("saveText"))]

\* The chunk is there: the click takes effect, with what it captured.
Loaded ==
  /\ form.pend # <<>>
  /\ LET c == Head(form.pend)
         f == [form EXCEPT !.pend = Tail(@)]
     IN  \/ c.op = "toConfig" /\ form' = [f EXCEPT !.text = ToYaml(c.body), !.tab = "config", !.error = FALSE]
         \/ c.op # "toConfig" /\ ~c.text.ok /\ form' = [f EXCEPT !.error = TRUE]
         \/ c.op = "toFlow" /\ c.text.ok /\ form' = [f EXCEPT !.body = ParseConfig(c.text), !.tab = "flow", !.error = FALSE]
         \/ c.op = "saveText" /\ c.text.ok
            /\ form' = [f EXCEPT !.saving = TRUE, !.error = FALSE, !.sent = Append(@, Sent(c, ParseConfig(c.text)))]

\* The node's answer: the dialog closes, or shows why not.
SaveAnswered ==
  /\ form.saving
  /\ \/ form' = [form EXCEPT !.saving = FALSE, !.open = FALSE]
     \/ form' = [form EXCEPT !.saving = FALSE, !.error = TRUE]
\* Delete is offered for a set that exists, and may be refused.
DeleteSet ==
  /\ form.open /\ form.key # ""
  /\ form' = [form EXCEPT !.open = FALSE]

FormNext == OpenSet \/ CloseSet \/ TypeName \/ EditFlow \/ TypeText \/ SwitchTab \/ SaveSet \/ Loaded \/ SaveAnswered \/ DeleteSet

---------------------------------------------------------------------------
\* Properties.

\* Turning a flow into text and the text into a flow is the same flow: a
\* disabled rule stays disabled, at any nesting (forYaml, fromYaml).
TextKeepsFlow == \A r \in {ParseConfig(ToYaml(form.body))} : r = form.body

\* However it is clicked together, wrapped and unwrapped, a condition has no
\* more levels of groups than the editor shows (CondEditor, MAX_DEPTH).
WithinDepth == \A i \in DOMAIN form.body.rules : Levels(form.body.rules[i].when) <= CondDepth
=============================================================================

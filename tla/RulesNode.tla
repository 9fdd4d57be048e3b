------------------------------ MODULE RulesNode -----------------------------
(***************************************************************************)
(* The node's side of the rules, as the console's requests meet it         *)
(* (internal/app/policy.go): which sets it takes, and which it keeps       *)
(* because something refers to them.                                       *)
(* A node is [conditions, policies, direct, sources, last].                  *)
(***************************************************************************)
EXTENDS RulesModel

SetIds(list) == {list[i].id : i \in DOMAIN list}
RECURSIVE EndsOf(_)
EndsOf(rules) == UNION {IF rules[i].then.type = "flow"
                        THEN EndsOf(rules[i].then.rules) \cup {rules[i].then.default}
                        ELSE {rules[i].then} : i \in DOMAIN rules}
RECURSIVE WhensOf(_)
WhensOf(rules) == UNION {{rules[i].when} \cup (IF rules[i].then.type = "flow" THEN WhensOf(rules[i].then.rules) ELSE {}) : i \in DOMAIN rules}
Calls(s) == {e.arg : e \in {x \in EndsOf(s.rules) \cup {s.default} : x.type = "call"}}
Refs(s) == UNION {CondRefs(c) : c \in WhensOf(s.rules)}

RECURSIVE Reaches(_, _, _)
Reaches(conds, from, seen) ==
  LET more == UNION {Refs(conds[i]) : i \in {j \in DOMAIN conds : conds[j].id \in seen}}
  IN  IF more \subseteq seen THEN seen ELSE Reaches(conds, from, seen \cup more)

\* Rule ids of a set, nested flows included, in order.
RECURSIVE RuleIds(_)
RuleIds(rules) == FlattenSeq([i \in DOMAIN rules |->
                    <<rules[i].id>> \o (IF rules[i].then.type = "flow" THEN RuleIds(rules[i].then.rules) ELSE <<>>)])
\* An end the kind of set allows; an exit names a path.
EndTaken(e, kind) == e = None \/ (KindOk(e, kind) /\ ~(e.type = "exit" /\ e.arg = ""))

\* Whether the node takes set s of the given kind, as it stands in n with s put in.
SetTaken(n, s, kind) ==
  /\ IsInjective(RuleIds(s.rules))
  /\ \A e \in EndsOf(s.rules) \cup {s.default} : EndTaken(e, kind)
  /\ Refs(s) \subseteq SetIds(n.conditions)
  /\ IF kind = "policy" THEN Calls(s) \subseteq SetIds(n.policies)
     ELSE \A r \in Refs(s) : s.id \notin Reaches(n.conditions, r, {r})

\* What refers to set id keeps it; a set's references to itself do not.
UsedBy(n, id) ==
  \/ \E i \in DOMAIN n.policies : n.policies[i].id # id /\ id \in Calls(n.policies[i]) \cup Refs(n.policies[i])
  \/ \E i \in DOMAIN n.conditions : n.conditions[i].id # id /\ id \in Refs(n.conditions[i])
  \/ n.direct = id \/ \E m \in DOMAIN n.sources : n.sources[m] = id

PutIn(list, s) == [i \in DOMAIN list |-> IF list[i].id = s.id THEN s ELSE list[i]]
Without(list, id) == SelectSeq(list, LAMBDA s : s.id # id)
=============================================================================

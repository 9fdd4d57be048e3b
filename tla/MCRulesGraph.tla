---------------------------- MODULE MCRulesGraph ----------------------------
(* Instances of RulesGraph for TLC. *)
EXTENDS RulesGraph

Rule1(id, when, then) == [id |-> id, enabled |-> TRUE, when |-> when, then |-> then]
Set1(id, rules, def) == [id |-> id, name |-> id, rules |-> rules, default |-> def, refs |-> <<>>]
OnP1(ms) == [m \in Users \cup Proxies |-> IF m \in ms THEN "p1" ELSE ""]

\* A condition set that a policy set refers to; a policy set that hands over to
\* another and has a nested flow; a rule id that both have; the direct entry.
Loaded ==
  [conditions |-> <<Set1("c1", <<Rule1("r1", Match("x"), End("result", "true"))>>, None)>>,
   policies |-> <<Set1("p1", <<Rule1("r2", Ref("c1"), Flow(<<Rule1("r3", Always, End("exit", "a"))>>, None)),
                               Rule1("r4", Always, End("call", "p2"))>>, None),
                  Set1("p2", <<Rule1("r4", Always, End("exit", "b"))>>, End("deny", "reject"))>>,
   direct |-> "p2", sources |-> OnP1(Users), last |-> 0]
Bare == [conditions |-> <<>>, policies |-> <<Set1("p1", <<>>, None)>>,
         direct |-> "", sources |-> OnP1({}), last |-> 0]

Menu == {"policy", "condition", "rule", "user", "exit", "deny", "default", "true"}
SaveMenu == {"condition", "false"}
Budget(kinds, e, s, f, o) == [edits |-> e, saves |-> s, fails |-> f, others |-> o, next |-> 1, kinds |-> kinds]
MCConds == {Match("x")}
\* Two edits of a rich graph; an edit and a save of it, with another writer;
\* two edits of a small graph and a save; three edits of it, so that one is undone
\* and done again.
Edits == {[node |-> Loaded, left |-> Budget(Menu, 2, 0, 0, 0)],
          [node |-> Loaded, left |-> Budget(Menu, 1, 1, 1, 1)],
          [node |-> Bare, left |-> Budget(Menu, 2, 1, 1, 0)],
          [node |-> Bare, left |-> Budget(Menu, 3, 0, 0, 0)]}

\* A set with a proxy and a condition set; the same, the first refers to the second.
Two(rules) == [conditions |-> <<Set1("c1", <<>>, None)>>, policies |-> <<Set1("p1", rules, None)>>,
               direct |-> "", sources |-> OnP1(Proxies), last |-> 0]
Few == Two(<<Rule1("r1", Ref("c1"), End("deny", "reject"))>>)
\* A save, a request, answer or fetch that fails, an edit or an undo, a second save;
\* a set created and edited twice before it is saved; the retry of a new set; two
\* failures and the retry with another writer.
Saves == {[node |-> Two(<<>>), left |-> Budget(SaveMenu, 2, 2, 1, 0)],
          [node |-> Bare, left |-> Budget(SaveMenu, 3, 1, 0, 0)],
          [node |-> Bare, left |-> Budget(SaveMenu, 2, 2, 1, 0)],
          [node |-> Few, left |-> Budget(SaveMenu, 1, 2, 2, 1)]}
MCStarts == Edits \cup Saves
=============================================================================

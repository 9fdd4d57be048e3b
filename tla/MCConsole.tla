------------------------------ MODULE MCConsole ------------------------------
(* Instances of the web interface's parts for TLC. *)
EXTENDS Console, Integers, Sequences, FiniteSets, FiniteSetsExt

AllScenes ==
  {"dialogs", "question", "hold", "rows", "cols", "tree", "session", "remote", "upgrade", "upload", "nform", "sform",
   "hylink", "scale", "mesh", "canvas", "pan", "nics", "diag", "uform", "log", "audit", "import", "ruleform", "layout",
   "route", "picture", "plan"}
NodePages == {"mesh"}

\* Two rows of the same key, one without; every tree of four nodes.
MCSortKey == <<1, 0, 1, 2>>
MCForests == {f \in [1..4 -> 0..3] : \A i \in 1..4 : f[i] < i}

Addr(h, p, b) == [host |-> h, port |-> p, bind |-> b]
\* Node entries: two addresses with a pasted certificate, and a punched one.
MCPunch == [signal |-> <<>>, binds |-> <<>>, fam |-> 4]
MCEntries ==
  [x \in {"A", "B"} |->
     IF x = "A" THEN [addrs |-> <<Addr("h1", "443", ""), Addr("[v6]", "500-600", "eth0")>>, pw |-> "pa", insecure |-> FALSE,
                      punch |-> MCPunch, tx |-> "10", caKind |-> "manual", ca |-> "pem", native |-> FALSE]
     ELSE [addrs |-> <<>>, pw |-> "", insecure |-> TRUE, punch |-> [signal |-> <<"B">>, binds |-> <<"eth0/6">>, fam |-> 4],
           tx |-> "", caKind |-> "cert", ca |-> "cert", native |-> FALSE]]
MCTyped == [rows |-> {Addr("h1", "443", ""), Addr("h1", "443", "eth0/4"), Addr("v6", "500-600", ""), Addr("h1", "bad", "")},
            paths |-> {"", "P"}, binds |-> {"", "eth0/4"}, names |-> {"", "n", "a/b"}]

\* Addresses put together from every choice of parts.
MCLinks == [auth : {<<>>, <<"pw">>, <<"u", ":", "p">>, <<"p", "@", "w">>}, host : {<<"h">>, <<"[", ":", "1", "]">>, <<"_relay_api_">>, <<"relayvia">>},
            port : {<<>>, <<"80">>}, slash : BOOLEAN, query : {<<>>, <<"mport">>, <<"insecure">>},
            name : {<<>>, <<"n">>, <<"a", "/", "b">>}, queryFirst : BOOLEAN]
\* Links with addresses and ways, over up to two known paths, or over seven that
\* lead to more ways than are kept.
MCScale == [x \in {"l1", "l2", "l3"} |->
              CASE x = "l1" -> [name |-> "T", addrs |-> <<"1.2.3.4:1", "">>, pw |-> "p", via |-> <<"A", "B">>]
                [] x = "l2" -> [name |-> "T", addrs |-> <<>>, pw |-> "p", via |-> <<"B">>]
                [] x = "l3" -> [name |-> "A", addrs |-> <<>>, pw |-> "", via |-> <<"T">>]]
MCPaths == <<<<"A">>, <<"S", "A">>, <<"A", "B">>, <<"A", "T">>, <<"T">>, <<"B", "T", "C">>, <<"C", "B">>, <<"T", "A">>>>
MCManyPaths == <<<<"A">>, <<"S", "A">>, <<"B">>, <<"C", "B">>, <<"A", "B">>, <<"D", "A">>, <<"C", "A">>>>
MCScaleMeshes ==
  {[self |-> "S", links |-> MCScale, paths |-> p] : p \in {<<>>, MCManyPaths} \cup {<<MCPaths[i]>> : i \in 1..8} \cup {<<MCPaths[i], MCPaths[j]>> : i, j \in 1..8}}

\* A node that is dialed and dials in, met again below another; switched off or
\* not, connected or not; a node below it a relay or a plain server.
Item(name, dir, conn, dis, nest, lat, kids) ==
  [name |-> name, dir |-> dir, conn |-> conn, dis |-> dis, nest |-> nest, native |-> FALSE, lat |-> lat, kids |-> kids]
MCLeaf(n, d, c, l) == Item(n, d, c, FALSE, FALSE, l, <<>>)
MCMeshes ==
  {<<Item("me", "local", TRUE, FALSE, FALSE, 0, in)>> \o out :
     in \in {<<>>} \cup {<<Item("b", "inbound", TRUE, dis, TRUE, 10, <<MCLeaf("c", "outbound", TRUE, 15)>>)>> : dis \in BOOLEAN},
     out \in {<<Item("a", "outbound", TRUE, FALSE, TRUE, 20,
                     <<Item("b", "outbound", cd[1], cd[2], TRUE, IF cd[1] THEN 25 ELSE 0, <<[MCLeaf("c", "", TRUE, 40) EXCEPT !.native = nat]>>)>>)>> \o tail :
                nat \in BOOLEAN,
                cd \in {<<TRUE, FALSE>>, <<TRUE, TRUE>>, <<FALSE, FALSE>>},
                tail \in {<<>>, <<MCLeaf("b", "outbound", TRUE, 0), MCLeaf("c", "outbound", FALSE, -1)>>}}}

\* Drawings of nodes: one without links, a crossing the sweeps undo, links within
\* a layer, two far apart in depth, a layer of two rows.
MCGraph(depth, width, links, fa, fb) == [kind |-> "graph", g |-> [depth |-> depth, width |-> width, links |-> links], fa |-> fa, fb |-> fb]
DepthOf(n) == IF n = 0 THEN 0 ELSE IF n < 4 THEN 1 ELSE 2
MCGraphs ==
  {MCGraph([n \in 0..6 |-> DepthOf(n)], [n \in 0..6 |-> IF n = 5 THEN 130 ELSE 60], {<<0, 1>>, <<0, 2>>, <<0, 3>>} \cup more, fa, fb) :
     more \in {{<<1, 6>>, <<2, 5>>, <<3, 4>>}, {<<1, 4>>, <<1, 5>>, <<1, 6>>, <<4, 6>>, <<3, 5>>}, {<<3, 4>>, <<2, 4>>, <<1, 6>>, <<4, 5>>}},
     fa \in {80, 100, 190}, fb \in {80, 100, 180}}
  \cup {MCGraph([n \in 0..0 |-> 0], [n \in 0..0 |-> 60], {}, 100, 100),
        MCGraph([n \in 0..3 |-> IF n = 3 THEN 3 ELSE DepthOf(n)], [n \in 0..3 |-> 60], {<<0, 1>>, <<1, 3>>, <<0, 2>>}, 100, 100)}
  \cup {MCGraph([n \in 0..15 |-> IF n = 0 THEN 0 ELSE 1], [n \in 0..15 |-> 70], {<<0, n>> : n \in 1..15}, fa, 100) : fa \in {80, 190}}
MCPacks == {[kind |-> "pack", want |-> w, gap |-> g] : w \in [1..3 -> {0, 6, 12, 60}], g \in {6, 24}}
MCRings == {[kind |-> "ring", angs |-> a, gap |-> 12, circle |-> 72] : a \in {x \in [1..3 -> {0, 6, 12, 30, 66}] : x[1] <= x[2] /\ x[2] <= x[3]}}
MCBend(pair, len, offs, sides) == {[kind |-> "bend", pair |-> pair, len |-> len, straight |-> s, hits |-> h] : s \in 0..2, h \in [offs \X sides -> 0..2]}
MCWraps == {[kind |-> "wrap", p |-> p, q |-> q, w |-> 6] : p, q \in -7..7}
MCPlans == MCGraphs \cup MCPacks \cup MCRings \cup MCWraps \cup MCBend(TRUE, 200, {26, 40, 56, 76}, {1}) \cup MCBend(FALSE, 50, {26, 40}, {1, -1})

\* Three fingers; a mouse and two fingers.
MCDevices == {{"f1", "f2", "f3"}, {"m", "f1", "f2"}}

\* A device and a bridge, a sub-interface of the device and one below that.
MCNics == [x \in {"eth0", "br0"} |-> [kind |-> IF x = "br0" THEN "virtual" ELSE "physical", takes |-> x = "eth0"]]
MCSubs ==
  [x \in {"c1", "c2"} |->
     IF x = "c1" THEN [parent |-> "eth0", on |-> TRUE, set |-> [mode |-> "dhcp", addrs |-> <<>>, dns |-> {}]]
     ELSE [parent |-> "c1", on |-> FALSE, set |-> [mode |-> "static", addrs |-> <<"a">>, dns |-> {"d"}]]]

\* Interfaces: shared and own gateways, children, an orphan, many without uplink.
MCFam(a, g, p) == [addr |-> a, gw |-> g, pub |-> p]
MCNone == MCFam(FALSE, "", "none")
MCIf(n, k, par, f4, f6) == [name |-> n, kind |-> k, parent |-> par, fam |-> [ipv4 |-> f4, ipv6 |-> f6]]
NicA == MCIf(1, "physical", 0, MCFam(TRUE, "10.1", "ok"), MCFam(TRUE, "fe80", "ok"))
NicB == MCIf(2, "physical", 0, MCFam(TRUE, "10.1", "bad"), MCNone)
NicC == MCIf(3, "other", 0, MCNone, MCFam(TRUE, "fe80", "none"))
KidA == MCIf(4, "child", 1, MCFam(TRUE, "10.2", "none"), MCNone)
KidB == MCIf(5, "child", 1, MCFam(FALSE, "", "ok"), MCFam(TRUE, "", "none"))
Stray == MCIf(6, "child", 9, MCFam(TRUE, "", "none"), MCNone)
Lo == MCIf(7, "loopback", 0, MCFam(TRUE, "", "none"), MCNone)
Containers == [i \in 1..5 |-> MCIf(10 + i, "container", 0, MCFam(TRUE, "", "none"), MCNone)]
MCIfaceLists == {<<>>, <<Lo>>, <<KidA, NicB, NicA, KidB, Lo, NicC>>, <<NicA, Stray, NicB>> \o Containers}
MCViews == {<<0, 0>>, <<1000, 300>>, <<500, 900>>}

\* Users: two ways to one exit, aggregated; one way.
MCStored == [x \in {"u1", "u2"} |-> IF x = "u1" THEN [paths |-> <<"b", "a/b">>, mode |-> "aggregate"]
                                   ELSE [paths |-> <<"a">>, mode |-> "quality"]]
MCPathTexts == {"", "a", "b", "a/b"}
MCTargetOf == [p \in {"a", "b", "a/b"} |-> IF p = "a" THEN "a" ELSE "b"]

---------------------------------------------------------------------------
\* Rule sets.

Rules == INSTANCE RulesModel

MCRule(id, when, then) == [id |-> id, enabled |-> TRUE, when |-> when, then |-> then]
MCSet(id, rules, def) == [id |-> id, name |-> id, rules |-> rules, default |-> def, refs |-> <<>>]
True1 == Rules!End("result", "true")
MCNode(cs, ps, direct, users) == [conditions |-> cs, policies |-> ps, direct |-> direct, sources |-> users, last |-> 0]

\* Nodes: one with sets of its own, an empty one, and two that have sets of the
\* same names. Files written by hand: with names no set has and a ring; without
\* a name.
OneUser == [u \in {"u"} |-> ""]
From == MCNode(<<MCSet("c1", <<MCRule("r1", [type |-> "match", field |-> "user", user |-> "u"], True1)>>, Rules!None),
                 MCSet("c2", <<MCRule("r5", Rules!Not(Rules!Ref("c1")), True1)>>, Rules!None)>>,
               <<MCSet("p1", <<MCRule("r2", Rules!Ref("c1"), Rules!Flow(<<MCRule("r3", Rules!Always, Rules!End("call", "p2"))>>, Rules!None)),
                               MCRule("r4", Rules!Always, Rules!End("exit", "x"))>>, Rules!None),
                 MCSet("p2", <<>>, Rules!End("deny", "reject"))>>, "p2", OneUser)
Empty == MCNode(<<>>, <<>>, "", OneUser)
Some == MCNode(<<MCSet("c1", <<>>, Rules!None)>>, <<MCSet("p2", <<>>, Rules!End("exit", "y"))>>, "", OneUser)
Hand == MCNode(<<MCSet("c2", <<>>, Rules!None)>>, <<MCSet("p9", <<>>, Rules!None)>>, "p9", OneUser)
FileSet1(name, rules) == [name |-> name, rules |-> rules, default |-> Rules!None]
Ring == [direct |-> "p9",
         conditions |-> <<FileSet1("c3", <<MCRule("r1", Rules!Ref("c4"), True1)>>), FileSet1("c4", <<MCRule("r2", Rules!Ref("c3"), True1)>>),
                          FileSet1("c1", <<MCRule("r3", Rules!Ref("zz"), True1)>>)>>,
         policies |-> <<>>]
Nameless == [direct |-> "", conditions |-> <<>>, policies |-> <<FileSet1("", <<>>)>>]
MCImpNodes == {From, Empty, Some, Hand}
MCHandFiles == {Ring, Nameless}

\* A new condition set; a set with nested conditions and a nested flow.
MCFormSets ==
  {[id |-> "", kind |-> "condition", name |-> "", rules |-> <<>>, default |-> Rules!None],
   [id |-> "p", kind |-> "policy", name |-> "p", default |-> Rules!None,
    rules |-> <<MCRule("a", Rules!Group("all", <<Rules!Match("x"), Rules!Group("any", <<Rules!Match("")>>)>>),
                       Rules!Flow(<<[MCRule("b", Rules!Always, Rules!End("exit", "")) EXCEPT !.enabled = FALSE]>>, Rules!None))>>]}

\* Pictures of rules: two policy sets that hand over and nest, a condition set,
\* users of each (a source has room for up to four) and proxies of the second, a
\* direct entry or none.
Ends == {Rules!None, Rules!End("deny", "reject"), Rules!End("exit", "a")}
CondLists == {<<>>, <<MCSet("c1", <<MCRule("r1", Rules!Match("x"), True1), MCRule("r2", Rules!Always, Rules!End("result", "false"))>>, Rules!None)>>}
PolicyLists ==
  {<<MCSet("p1", rs, d), MCSet("p2", <<MCRule("q", Rules!Always, Rules!End("exit", "a"))>>, d)>> :
     d \in Ends,
     rs \in {<<>>, <<MCRule("r3", Rules!Match("y"), Rules!End("call", "p2"))>>,
             <<MCRule("r3", Rules!Always, Rules!Flow(<<MCRule("r4", Rules!Always, Rules!End("call", "p2"))>>, Rules!End("exit", "b"))),
               MCRule("r5", Rules!Always, Rules!End("exit", "a"))>>}}
RefsOf(kind, n) == [j \in 1..n |-> [kind |-> kind, id |-> j]]
MCLayoutConfigs ==
  {[conditions |-> c, policies |-> <<[p[1] EXCEPT !.refs = RefsOf("user", n)],
                                     [p[2] EXCEPT !.refs = RefsOf("user", m) \o RefsOf("proxy", k)]>>, direct |-> direct] :
     c \in CondLists, p \in PolicyLists, direct \in {"", "p2"}, n \in {0, 5}, m \in {0, 1, 4}, k \in {0, 2}}
=============================================================================

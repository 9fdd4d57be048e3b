------------------------------- MODULE NodeLink -----------------------------
(***************************************************************************)
(* Node links: reading hysteria2:// addresses (utils/parseHy2Url.ts),      *)
(* writing and reading hy2scale:// links and the paths a punch is          *)
(* signalled by (utils/nodeLink.ts, utils/buildHy2Url.ts), and the dialog  *)
(* that imports one (components/NodeImportModal.tsx). An address is a      *)
(* sequence of tokens: the separators of the format, and words.            *)
(***************************************************************************)
EXTENDS Integers, Sequences, SequencesExt, FiniteSets, FiniteSetsExt

CONSTANTS Links,       \* the parts addresses are put together from
          ScaleMeshes       \* what this node reaches, and links to import over it

VARIABLES hylink,      \* an address, as its parts
          scale        \* the import dialog

IndexOf(s, t) == IF \E i \in DOMAIN s : s[i] = t THEN CHOOSE i \in DOMAIN s : s[i] = t /\ \A j \in 1..(i - 1) : s[j] # t ELSE 0
LastIndexOf(s, t) == IF \E i \in DOMAIN s : s[i] = t THEN Max({i \in DOMAIN s : s[i] = t}) ELSE 0
From(s, i) == SubSeq(s, i, Len(s))
Upto(s, i) == SubSeq(s, 1, i)

---------------------------------------------------------------------------
\* Reading an address. The name and the parameters are cut off first, in either
\* order; then the password, up to the last "@"; then host and port.

Cut2(body) ==
  LET h == IndexOf(body, "#")  q == IndexOf(body, "?")
  IN  CASE h > 0 /\ (q = 0 \/ h < q) ->
             LET frag == From(body, h + 1)  k == IndexOf(frag, "?")
             IN  [body |-> Upto(body, h - 1), frag |-> IF k > 0 THEN Upto(frag, k - 1) ELSE frag,
                  query |-> IF k > 0 THEN From(frag, k + 1) ELSE <<>>]
        [] q > 0 /\ ~(h > 0 /\ h < q) ->
             LET query == From(body, q + 1)  k == IndexOf(query, "#")
             IN  [body |-> Upto(body, q - 1), frag |-> IF k > 0 THEN From(query, k + 1) ELSE <<>>,
                  query |-> IF k > 0 THEN Upto(query, k - 1) ELSE query]
        [] OTHER -> [body |-> body, frag |-> <<>>, query |-> <<>>]
NoSlash(body) == IF body # <<>> /\ Last(body) = "/" THEN Front(body) ELSE body
\* (a plausible mistake: the password ends at the first "@")
SplitAuthM(body) == [auth |-> Upto(body, IndexOf(body, "@") - 1), rest |-> From(body, IndexOf(body, "@") + 1)]
SplitAuth(body) ==
  LET at == LastIndexOf(body, "@") IN [auth |-> Upto(body, at - 1), rest |-> From(body, at + 1)]
SplitPort(s) ==
  LET close == IndexOf(s, "]")  colon == LastIndexOf(s, ":")
      tail == From(s, close + 1)
  IN  CASE s # <<>> /\ s[1] = "[" /\ close > 0 ->
             [host |-> Upto(s, close), port |-> IF tail # <<>> /\ tail[1] = ":" THEN Tail(tail) ELSE <<>>]
        [] s # <<>> /\ s[1] = "[" /\ close = 0 -> [host |-> <<>>, port |-> <<>>]
        [] (s = <<>> \/ s[1] # "[") /\ colon > 0 -> [host |-> Upto(s, colon - 1), port |-> From(s, colon + 1)]
        [] OTHER -> [host |-> s, port |-> <<>>]
\* Names the relay keeps for itself, with and without their underscores.
RelayInternal(host) == host \in {<<"_relay_api_">>, <<"relay_api">>, <<"relayapi">>, <<"_relay_via_x">>, <<"relayvia">>}
NotALink == [ok |-> FALSE]
\* The port parameter overrides the one in the address; without either, 443.
Read3(c, a, p) ==
  IF p.host = <<>> \/ RelayInternal(p.host) THEN NotALink
  ELSE [ok |-> TRUE, host |-> p.host, pw |-> a.auth, name |-> c.frag, insecure |-> <<"insecure">> = c.query,
        port |-> CASE c.query = <<"mport">> -> <<"5000-6000">> [] c.query # <<"mport">> /\ p.port = <<>> -> <<"443">> [] OTHER -> p.port]
Read2(c, a) == Read3(c, a, SplitPort(a.rest))
Read1(c) == Read2(c, SplitAuth(NoSlash(c.body)))
ParseHy2(raw) == Read1(Cut2(raw))

HylinkInits == Links
OptPart(sep, s) == IF s = <<>> THEN <<>> ELSE <<sep>> \o s
Joined(l) ==
  (IF l.auth = <<>> THEN <<>> ELSE l.auth \o <<"@">>) \o l.host \o OptPart(":", l.port) \o (IF l.slash THEN <<"/">> ELSE <<>>)
  \o (IF l.queryFirst THEN OptPart("?", l.query) \o OptPart("#", l.name) ELSE OptPart("#", l.name) \o OptPart("?", l.query))

---------------------------------------------------------------------------
\* hy2scale links: every address, and the nodes through which a punch can be
\* signalled. A link with neither is none.

BuildScale(l) == [v |-> 1, name |-> l.name, addrs |-> l.addrs, pw |-> l.pw, via |-> l.via]
Words(s) == SelectSeq(s, LAMBDA x : x # "")
ParseScale(o) ==
  IF o.v # 1 \/ o.name = "" \/ (Words(o.addrs) = <<>> /\ Words(o.via) = <<>>) THEN NotALink
  ELSE [ok |-> TRUE, name |-> o.name, addrs |-> Words(o.addrs), pw |-> o.pw, via |-> Words(o.via)]

\* Signalling paths to a node: through each of the nodes it is connected to that
\* this one reaches, shortest first, and where it is reached already.
MaxPaths == 4
Strip(p, self) == IF Len(p) > 1 /\ p[1] = self THEN Tail(p) ELSE p
ByLen(paths) == SetToSortSeq(DOMAIN paths, LAMBDA i, j : Len(paths[i]) < Len(paths[j]) \/ (Len(paths[i]) = Len(paths[j]) /\ i < j))
SignalOf(p, target, via) ==
  CASE Last(p) = target /\ Len(p) > 1 -> p
    [] (Last(p) # target \/ Len(p) = 1) /\ Last(p) \in ToSet(via) /\ ~Contains(p, target) -> Append(p, target)
    [] OTHER -> <<>>
PunchSignalPaths(target, via, paths, self) ==
  LET ps == SelectSeq([i \in DOMAIN paths |-> Strip(paths[i], self)], LAMBDA p : p # <<>>)
      order == ByLen(ps)
      add(out, i) ==
        LET sig == SignalOf(ps[i], target, via)
        IN  IF Len(out) >= MaxPaths \/ sig = <<>> \/ Contains(out, sig) THEN out ELSE Append(out, sig)
  IN  FoldLeft(add, <<>>, order)

ScaleInits == {[open |-> TRUE, text |-> "none", mesh |-> m, busy |-> FALSE, sent |-> NotALink] : m \in ScaleMeshes}
\* What the pasted text would create, with the paths known now.
Plan(s) ==
  LET l == IF s.text = "none" THEN NotALink ELSE ParseScale(BuildScale(s.mesh.links[s.text]))
  IN  IF ~l.ok THEN NotALink
      ELSE [ok |-> TRUE, name |-> l.name, addrs |-> l.addrs, pw |-> l.pw,
            signal |-> IF l.via = <<>> THEN <<>> ELSE PunchSignalPaths(l.name, l.via, s.mesh.paths, s.mesh.self)]
Usable(p) == p.ok /\ (p.addrs # <<>> \/ p.signal # <<>>)
Paste == scale.open /\ \E k \in DOMAIN scale.mesh.links : scale' = [scale EXCEPT !.text = k]
\* The paths change while the dialog is open.
MeshMoves == \E m \in ScaleMeshes : m.links = scale.mesh.links /\ scale' = [scale EXCEPT !.mesh = m]
ImportNode ==
  /\ scale.open /\ ~scale.busy
  /\ \E p \in {Plan(scale)} : /\ Usable(p) /\ p.pw # ""
                              /\ scale' = [scale EXCEPT !.busy = TRUE, !.sent = p]
ImportDone == scale.busy /\ scale' \in {[scale EXCEPT !.busy = FALSE], [scale EXCEPT !.busy = FALSE, !.open = FALSE, !.text = "none"]}
Reopened == ~scale.open /\ scale' = [scale EXCEPT !.open = TRUE, !.sent = NotALink]
ScaleNext == Paste \/ MeshMoves \/ ImportNode \/ ImportDone \/ Reopened

---------------------------------------------------------------------------
\* Properties.

\* An address is read back as the parts it was written from, with its password,
\* parameters and name in any combination and order; a relay's own name is
\* refused (parseHy2Url).
ReadAsWritten ==
  LET r == ParseHy2(Joined(hylink))
  IN  IF RelayInternal(hylink.host) THEN ~r.ok
      ELSE /\ r.ok /\ r.host = hylink.host /\ r.pw = hylink.auth /\ r.name = hylink.name
           /\ r.insecure = (hylink.query = <<"insecure">>)
           /\ r.port = (CASE hylink.query = <<"mport">> -> <<"5000-6000">>
                          [] hylink.query # <<"mport">> /\ hylink.port = <<>> -> <<"443">> [] OTHER -> hylink.port)

\* What an import sends can be reached: an address, or punch paths that end at
\* the node and pass it nowhere before, each once, at most four, none of them
\* starting at this node itself (punchSignalPaths).
ImportReaches ==
  scale.sent.ok =>
    LET sig == scale.sent.signal
    IN  /\ scale.sent.addrs # <<>> \/ sig # <<>>
        /\ Len(sig) <= MaxPaths /\ Cardinality(ToSet(sig)) = Len(sig)
        /\ \A i \in DOMAIN sig : /\ Last(sig[i]) = scale.sent.name /\ Len(sig[i]) > 1
                                 /\ ~Contains(Front(sig[i]), scale.sent.name) /\ sig[i][1] # scale.mesh.self
=============================================================================

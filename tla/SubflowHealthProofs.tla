------------------------ MODULE SubflowHealthProofs ------------------------
(***************************************************************************)
(* Proofs about SubflowHealth, for every size of the PING table, capacity, *)
(* set of deadlines and depth of the path: a PONG gives capacity back only *)
(* for segments that arrived.  The ids of PINGs are reused, so the proof   *)
(* has to find the PING a PONG answers: an id is named by how many PINGs   *)
(* were made after it (IdAgo), which is known of every PING in the table   *)
(* and of every one on its way, and is less than the number of ids.  The   *)
(* inductive invariant is HealthInv.                                       *)
(***************************************************************************)
EXTENDS SubflowHealth, SequenceTheorems, TLAPS

(* The id of the PING after which d more were made.                        *)
IdAgo(d) == IF d <= pingSeq THEN pingSeq - d ELSE pingSeq - d + PingIds

(* How many PINGs were made after the i-th one in the table.               *)
Since(i) == Len(pings) - i

Record == [id : Id, age : Nat, mark : Nat \cup {NoMark}]

Types ==
  /\ waiting \in Nat /\ written \in Nat /\ pongMark \in Nat /\ peerGot \in Nat
  /\ pings \in Seq(Record) /\ pingSeq \in Id /\ ctrl \in Seq(Id)
  /\ wire \in Seq(Id \cup {Data}) /\ back \in Seq(Id) /\ silent \in BOOLEAN

(* The table holds the latest PINGs, and the queue the latest of those; no *)
(* watermark is ahead of what was written.                                 *)
TableInOrder ==
  /\ Len(pings) <= MaxPings
  /\ \A i \in 1 .. Len(pings) : pings[i].id = IdAgo(Since(i)) /\ pings[i].mark <= written

QueueInOrder ==
  /\ Len(ctrl) <= PathDepth
  /\ \A j \in 1 .. Len(ctrl) : ctrl[j] = IdAgo(Len(ctrl) - j)

(* At place k of the wire, later[k] PINGs were made after the ones ahead   *)
(* of that place, and the peer will have got[k] segments when it is        *)
(* reached.                                                                *)
Counts(later, arrived) ==
  /\ later \in [1 .. (Len(wire) + 1) -> Nat]
  /\ arrived \in [1 .. (Len(wire) + 1) -> Nat]
  /\ arrived[1] = peerGot /\ arrived[Len(wire) + 1] = written
  /\ later[Len(wire) + 1] = Len(ctrl)
  /\ \A k \in 1 .. Len(wire) :
       IF wire[k] = Data
       THEN later[k] = later[k + 1] /\ arrived[k + 1] = arrived[k] + 1
       ELSE /\ later[k] = later[k + 1] + 1 /\ arrived[k + 1] = arrived[k]
            /\ wire[k] = IdAgo(later[k + 1])
  /\ \A k \in 1 .. (Len(wire) + 1) :
       Len(ctrl) <= later[k] /\ later[k] <= Len(ctrl) + Len(wire) + 1 - k

BackInOrder(later) == \A j \in 1 .. Len(back) : back[j] = IdAgo(later[1] + Len(back) - j)

(* The watermark of a PING ahead of a place is made of segments ahead of   *)
(* that place.                                                             *)
MarksBehind(later, arrived) ==
  \A k \in 1 .. (Len(wire) + 1), i \in 1 .. Len(pings) :
    Since(i) >= later[k] => pings[i].mark <= arrived[k]

PathInOrder ==
  /\ silent => wire = <<>> /\ back = <<>>
  /\ ~silent =>
       /\ Len(wire) <= 2 * PathDepth /\ Len(back) <= PathDepth
       /\ \E later, arrived :
            Counts(later, arrived) /\ BackInOrder(later) /\ MarksBehind(later, arrived)

HealthInv == Types /\ TableInOrder /\ QueueInOrder /\ PathInOrder /\ PongProves

----------------------------------------------------------------------------
(* Identifiers.                                                            *)

LEMMA IdFacts ==
  /\ PingIds \in Nat /\ PathDepth \in Nat /\ MaxPings \in Nat /\ MaxPings > 0 /\ PathDepth > 0
  /\ PingIds > MaxPings + 4 * PathDepth
  /\ \A x \in Id : x \in Nat /\ x < PingIds /\ x # Data
BY CapAssumption, PathAssumption DEF Id, Data

(* Two of the last PingIds PINGs have different ids.                       *)
LEMMA IdsDiffer ==
  ASSUME pingSeq \in Id, NEW a \in Nat, NEW b \in Nat, a < PingIds, b < PingIds,
         IdAgo(a) = IdAgo(b)
  PROVE  a = b
BY IdFacts DEF IdAgo

LEMMA NextIdIs ==
  ASSUME pingSeq \in Id
  PROVE  /\ NextId \in Id
         /\ NextId = IF pingSeq + 1 = PingIds THEN 0 ELSE pingSeq + 1
<1>1. CASE pingSeq + 1 = PingIds
  BY <1>1, IdFacts DEF NextId, Id
<1>2. CASE pingSeq + 1 # PingIds
  <2>1. pingSeq + 1 \in 0 .. (PingIds - 1)
    BY <1>2, IdFacts DEF Id
  <2>2. (pingSeq + 1) % PingIds = pingSeq + 1
    BY <2>1, IdFacts
  <2> QED BY <2>1, <2>2, <1>2 DEF NextId, Id
<1> QED BY <1>1, <1>2

(* A new PING leaves every id where it was, one further back.              *)
LEMMA IdsMove ==
  ASSUME pingSeq \in Id, pingSeq' = NextId
  PROVE  /\ IdAgo(0)' = NextId
         /\ \A d \in Nat : d + 1 < PingIds => IdAgo(d + 1)' = IdAgo(d)
BY NextIdIs, IdFacts DEF IdAgo, Id

LEMMA RememberIs ==
  ASSUME NEW ps \in Seq(Record), Len(ps) <= MaxPings, NEW id \in Id
  PROVE  LET r == Remember(ps, id)
             drop == Len(ps) + 1 - Len(r)
         IN  /\ r \in Seq(Record) /\ Len(r) <= MaxPings /\ Len(r) > 0 /\ drop \in {0, 1}
             /\ \A i \in 1 .. (Len(r) - 1) : i + drop \in 1 .. Len(ps) /\ r[i] = ps[i + drop]
             /\ r[Len(r)].id = id /\ r[Len(r)].mark = NoMark
<1> DEFINE new == [id |-> id, age |-> 0, mark |-> NoMark]
           all == Append(ps, new)
<1>1. new \in Record /\ new.id = id /\ new.mark = NoMark
  BY DEF Record
<1>2. Len(ps) \in Nat
  BY LenProperties
<1>3. /\ all \in Seq(Record) /\ Len(all) = Len(ps) + 1 /\ all[Len(ps) + 1] = new
      /\ \A i \in 1 .. Len(ps) : all[i] = ps[i]
  <2> HIDE DEF new
  <2> QED BY <1>1, <1>2, AppendProperties
<1> HIDE DEF new, all
<1>4. all # <<>>
  BY <1>2, <1>3, EmptySeq
<1>5. /\ Tail(all) \in Seq(Record) /\ Len(Tail(all)) = Len(ps)
      /\ \A i \in 1 .. Len(ps) : Tail(all)[i] = all[i + 1]
  BY <1>2, <1>3, <1>4, HeadTailProperties
<1>6. Remember(ps, id) = IF Len(all) > MaxPings THEN Tail(all) ELSE all
  BY DEF Remember, all, new
<1>7. CASE Len(all) > MaxPings
  <2>1. Len(ps) = MaxPings
    BY <1>2, <1>3, <1>7, IdFacts
  <2>2. \A i \in 1 .. (Len(ps) - 1) : i + 1 \in 1 .. Len(ps) /\ Tail(all)[i] = ps[i + 1]
    BY <1>2, <1>3, <1>5
  <2>3. Tail(all)[Len(ps)] = new
    BY <2>1, <1>2, <1>3, <1>5, IdFacts
  <2> QED BY <1>1, <1>2, <1>5, <1>6, <1>7, <2>1, <2>2, <2>3, IdFacts
<1>8. CASE ~ Len(all) > MaxPings
  BY <1>1, <1>2, <1>3, <1>6, <1>8, IdFacts
<1> QED BY <1>7, <1>8

----------------------------------------------------------------------------
(* The steps.                                                              *)

LEMMA SeqFacts ==
  ASSUME Types
  PROVE  Len(wire) \in Nat /\ Len(back) \in Nat /\ Len(ctrl) \in Nat /\ Len(pings) \in Nat
BY LenProperties DEF Types

LEMMA RecordFields ==
  ASSUME Types, NEW i \in 1 .. Len(pings)
  PROVE  pings[i] \in Record /\ pings[i].id \in Id /\ pings[i].mark \in Nat \cup {NoMark} /\ Since(i) \in Nat
<1>1. pings[i] \in Record
  BY ElementOfSeq DEF Types
<1> QED BY <1>1, SeqFacts DEF Record, Since

LEMMA InitHealth == Init => HealthInv
<1> SUFFICES ASSUME Init PROVE HealthInv
  OBVIOUS
<1> DEFINE first == [id |-> 0, age |-> 0, mark |-> NoMark]
<1>1. first \in Record /\ 0 \in Id /\ first.id = 0 /\ first.mark = NoMark
  BY IdFacts DEF Record, Id
<1>2. /\ pings = <<first>> /\ pings \in Seq(Record) /\ Len(pings) = 1 /\ pings[1] = first
      /\ ctrl = <<0>> /\ ctrl \in Seq(Id) /\ Len(ctrl) = 1 /\ ctrl[1] = 0
  <2> HIDE DEF first
  <2> QED BY <1>1 DEF Init, first
<1> HIDE DEF first
<1>3. Types
  BY <1>1, <1>2, EmptySeq DEF Init, Types
<1>4. IdAgo(0) = 0
  BY DEF Init, IdAgo
<1>5. TableInOrder /\ QueueInOrder
  BY <1>1, <1>2, <1>4, IdFacts DEF TableInOrder, QueueInOrder, Since, NoMark, Init
<1>6. PathInOrder
  <2> DEFINE later == [k \in 1 .. (Len(wire) + 1) |-> 1]
             arrived == [k \in 1 .. (Len(wire) + 1) |-> 0]
  <2>1. wire = <<>> /\ Len(wire) = 0 /\ back = <<>> /\ Len(back) = 0
    BY EmptySeq DEF Init
  <2>2. Counts(later, arrived) /\ BackInOrder(later)
    BY <1>2, <2>1 DEF Counts, BackInOrder, Init
  <2>3. MarksBehind(later, arrived)
    BY <1>1, <1>2, <2>1 DEF MarksBehind, Since
  <2> HIDE DEF later, arrived
  <2> QED BY <2>1, <2>2, <2>3, IdFacts DEF PathInOrder
<1> QED BY <1>3, <1>5, <1>6 DEF HealthInv, PongProves, Init

(* Nothing the invariant is about changes.                                 *)
LEMMA OfferStep == HealthInv /\ Offer => HealthInv'
<1> SUFFICES ASSUME HealthInv, Offer PROVE HealthInv'
  OBVIOUS
<1>1. Types'
  BY DEF HealthInv, Types, Offer, pingVars, pathVars
<1> QED BY <1>1 DEF HealthInv, Offer, pingVars, pathVars, TableInOrder, QueueInOrder, PathInOrder,
                    PongProves, Counts, BackInOrder, MarksBehind, IdAgo, Since

LEMMA SilentStep == HealthInv /\ FallSilent => HealthInv'
<1> SUFFICES ASSUME HealthInv, FallSilent PROVE HealthInv'
  OBVIOUS
<1>1. Types'
  BY EmptySeq DEF HealthInv, Types, FallSilent, sendVars, pingVars
<1> QED BY <1>1 DEF HealthInv, FallSilent, sendVars, pingVars, TableInOrder, QueueInOrder, PathInOrder,
                    PongProves, IdAgo, Since

(* The queue moves to the wire; the watermarks taken are all that was      *)
(* written, and no PING ahead of the queue is among those marked.          *)
LEMMA WriteCtrlStep == HealthInv /\ WriteCtrl => HealthInv'
<1> SUFFICES ASSUME HealthInv, WriteCtrl PROVE HealthInv'
  OBVIOUS
<1>0. Types /\ TableInOrder /\ QueueInOrder /\ PathInOrder /\ PongProves
  BY DEF HealthInv
<1>1. /\ pings' = [i \in DOMAIN pings |-> IF pings[i].id \in ToSet(ctrl)
                                          THEN [pings[i] EXCEPT !.mark = written] ELSE pings[i]]
      /\ DOMAIN pings = 1 .. Len(pings)
  BY <1>0, LenProperties DEF WriteCtrl, Mark, Types
<1>2. \A i \in 1 .. Len(pings) :
        /\ pings'[i] \in Record /\ pings'[i].id = pings[i].id
        /\ pings'[i].mark = IF pings[i].id \in ToSet(ctrl) THEN written ELSE pings[i].mark
  BY <1>0, <1>1, RecordFields DEF Record, Types
<1>3. pings' \in Seq(Record) /\ Len(pings') = Len(pings)
  <2>1. pings' \in [1 .. Len(pings) -> Record]
    BY <1>1, <1>2
  <2> QED BY <2>1, <1>0, SeqFacts DEF Seq
<1>4. ctrl' = <<>> /\ Len(ctrl') = 0 /\ ctrl' \in Seq(Id)
  BY EmptySeq DEF WriteCtrl
<1>5. Transmit(ctrl) /\ ctrl \in Seq(Id \cup {Data})
  BY <1>0 DEF WriteCtrl, Types
<1>6. wire \o ctrl \in Seq(Id \cup {Data})
  BY <1>0, <1>5, ConcatProperties DEF Types
<1>7. Types'
  BY <1>0, <1>3, <1>4, <1>5, <1>6 DEF Types, WriteCtrl, sendVars, Transmit
<1>8. UNCHANGED <<written, pingSeq, back, peerGot, silent, pongMark>>
  BY DEF WriteCtrl, sendVars
<1>9. TableInOrder'
  <2>1. \A i \in 1 .. Len(pings) : IdAgo(Since(i))' = IdAgo(Since(i))
    BY <1>3, <1>8 DEF IdAgo, Since
  <2>2. \A i \in 1 .. Len(pings) : pings'[i].mark <= written
    BY <1>0, <1>2 DEF TableInOrder, Types
  <2> QED BY <2>1, <2>2, <1>0, <1>2, <1>3, <1>8 DEF TableInOrder
<1>10. QueueInOrder'
  BY <1>4, IdFacts DEF QueueInOrder
<1>11. PathInOrder'
  <2>1. CASE silent
    BY <2>1, <1>0, <1>5, <1>8 DEF PathInOrder, Transmit, Types
  <2>2. CASE ~silent
    <3>1. PICK later, arrived : Counts(later, arrived) /\ BackInOrder(later) /\ MarksBehind(later, arrived)
      BY <2>2, <1>0 DEF PathInOrder
    <3>2. PICK n \in Nat, c \in Nat : n = Len(wire) /\ c = Len(ctrl)
      BY <1>0, SeqFacts
    <3>3. /\ Len(wire') = n + c
          /\ \A k \in 1 .. (n + c) : wire'[k] = IF k <= n THEN wire[k] ELSE ctrl[k - n]
      BY <2>2, <3>2, <1>0, <1>5, ConcatProperties DEF Types, Transmit
    <3>4. /\ n < PathDepth /\ c <= PathDepth /\ written \in Nat
          /\ \A k \in 1 .. c : ctrl[k] \in Id /\ ctrl[k] # Data /\ ctrl[k] = IdAgo(c - k)
      BY <3>2, <1>0, ElementOfSeq, IdFacts DEF Types, WriteCtrl, QueueInOrder
    <3>5. /\ later \in [1 .. (n + 1) -> Nat] /\ arrived \in [1 .. (n + 1) -> Nat]
          /\ arrived[1] = peerGot /\ arrived[n + 1] = written /\ later[n + 1] = c
          /\ \A k \in 1 .. n :
               IF wire[k] = Data
               THEN later[k] = later[k + 1] /\ arrived[k + 1] = arrived[k] + 1
               ELSE /\ later[k] = later[k + 1] + 1 /\ arrived[k + 1] = arrived[k]
                    /\ wire[k] = IdAgo(later[k + 1])
          /\ \A k \in 1 .. (n + 1) : c <= later[k] /\ later[k] <= c + n + 1 - k
      BY <3>1, <3>2 DEF Counts
    <3>6. PICK later2, arrived2 :
            /\ later2 = [k \in 1 .. (n + c + 1) |-> IF k <= n + 1 THEN later[k] ELSE n + 1 + c - k]
            /\ arrived2 = [k \in 1 .. (n + c + 1) |-> IF k <= n + 1 THEN arrived[k] ELSE written]
      OBVIOUS
    <3>7. /\ later2 \in [1 .. (n + c + 1) -> Nat] /\ arrived2 \in [1 .. (n + c + 1) -> Nat]
          /\ \A k \in 1 .. (n + 1) : later2[k] = later[k] /\ arrived2[k] = arrived[k]
          /\ \A k \in (n + 1) .. (n + c + 1) : later2[k] = n + 1 + c - k /\ arrived2[k] = written
      BY <3>4, <3>5, <3>6
    <3>8. \A d : IdAgo(d)' = IdAgo(d)
      BY <1>8 DEF IdAgo
    <3>9. ASSUME NEW k \in 1 .. (n + c)
          PROVE  IF wire'[k] = Data
                 THEN later2[k] = later2[k + 1] /\ arrived2[k + 1] = arrived2[k] + 1
                 ELSE /\ later2[k] = later2[k + 1] + 1 /\ arrived2[k + 1] = arrived2[k]
                      /\ wire'[k] = IdAgo(later2[k + 1])
      <4>1. CASE k <= n
        <5>1. k \in 1 .. n /\ k \in 1 .. (n + 1) /\ k + 1 \in 1 .. (n + 1)
          BY <4>1
        <5>2. /\ later2[k] = later[k] /\ later2[k + 1] = later[k + 1]
              /\ arrived2[k] = arrived[k] /\ arrived2[k + 1] = arrived[k + 1]
          BY <5>1, <3>7
        <5>3. wire'[k] = wire[k]
          BY <4>1, <3>3
        <5> QED BY <5>1, <5>2, <5>3, <3>5
      <4>2. CASE k > n
        <5>1. wire'[k] = ctrl[k - n] /\ k - n \in 1 .. c
          BY <4>2, <3>3
        <5>2. wire'[k] # Data /\ wire'[k] = IdAgo(c - (k - n))
          BY <5>1, <3>4
        <5>3. /\ later2[k + 1] = c - (k - n) /\ later2[k] = later2[k + 1] + 1
              /\ arrived2[k] = written /\ arrived2[k + 1] = written
          BY <4>2, <3>7
        <5> QED BY <5>2, <5>3
      <4> QED BY <4>1, <4>2
    <3>10. \A k \in 1 .. (n + c + 1) : 0 <= later2[k] /\ later2[k] <= n + c + 1 - k
      BY <3>5, <3>7
    <3>11. arrived2[1] = peerGot /\ arrived2[n + c + 1] = written /\ later2[n + c + 1] = 0
      BY <3>5, <3>7
    <3>12. Counts(later2, arrived2)'
      BY <3>3, <3>7, <3>8, <3>9, <3>10, <3>11, <1>4, <1>8 DEF Counts
    <3>13. BackInOrder(later2)'
      <4>1. later2[1] = later[1]
        BY <3>7
      <4> QED BY <4>1, <3>1, <3>8, <1>8 DEF BackInOrder
    <3>14. MarksBehind(later2, arrived2)'
      <4> SUFFICES ASSUME NEW k \in 1 .. (n + c + 1), NEW i \in 1 .. Len(pings),
                          Since(i) >= later2[k]
                   PROVE  pings'[i].mark <= arrived2[k]
        BY <1>3, <3>3 DEF MarksBehind, Since
      <4>1. CASE k <= n + 1
        <5>1. /\ later2[k] = later[k] /\ arrived2[k] = arrived[k] /\ c <= later[k]
              /\ k \in 1 .. (Len(wire) + 1) /\ later[k] \in Nat
          <6>1. k \in 1 .. (n + 1)
            BY <4>1
          <6> QED BY <6>1, <3>2, <3>5, <3>7
        <5>2. pings[i].mark <= arrived[k]
          BY <5>1, <3>1 DEF MarksBehind
        <5>3. Since(i) \in Nat /\ Since(i) >= c /\ Since(i) < MaxPings
          <6>1. Since(i) \in Nat /\ Since(i) >= later[k]
            BY <5>1, <1>0, RecordFields
          <6>2. Since(i) < Len(pings) /\ Len(pings) <= MaxPings /\ Len(pings) \in Nat
            BY <1>0, SeqFacts DEF Since, TableInOrder
          <6> QED BY <6>1, <6>2, <5>1, IdFacts
        <5>4. pings[i].id \notin ToSet(ctrl)
          <6> SUFFICES ASSUME NEW j \in 1 .. c, pings[i].id = ctrl[j] PROVE FALSE
            BY <1>0, <3>2, LenProperties DEF ToSet, Types
          <6>1. ctrl[j] = IdAgo(c - j) /\ pings[i].id = IdAgo(Since(i))
            BY <1>0, <3>4 DEF TableInOrder
          <6>2. c - j \in Nat /\ c - j < c /\ c - j < PingIds /\ Since(i) < PingIds
            BY <3>4, <5>3, IdFacts
          <6>3. c - j = Since(i)
            BY <1>0, <6>1, <6>2, <5>3, IdsDiffer DEF Types
          <6> QED BY <6>2, <6>3, <5>3
        <5> QED BY <5>1, <5>2, <5>4, <1>2
      <4>2. CASE k > n + 1
        <5>1. arrived2[k] = written
          BY <4>2, <3>7
        <5>2. pings[i].mark <= written /\ written \in Nat
          BY <1>0 DEF TableInOrder, Types
        <5> QED BY <5>1, <5>2, <1>2
      <4> QED BY <4>1, <4>2
    <3>15. Len(wire') <= 2 * PathDepth
      BY <3>3, <3>4, IdFacts
    <3> QED BY <2>2, <3>12, <3>13, <3>14, <3>15, <1>0, <1>8 DEF PathInOrder
  <2> QED BY <2>1, <2>2
<1> QED BY <1>0, <1>7, <1>8, <1>9, <1>10, <1>11 DEF HealthInv, PongProves

LEMMA WriteDataStep == HealthInv /\ WriteData => HealthInv'
<1> SUFFICES ASSUME HealthInv, WriteData PROVE HealthInv'
  OBVIOUS
<1>0. Types /\ TableInOrder /\ QueueInOrder /\ PathInOrder /\ PongProves
  BY DEF HealthInv
<1>1. /\ Transmit(<<Data>>) /\ written' = written + 1 /\ Len(wire) < PathDepth
      /\ UNCHANGED <<pongMark, pings, pingSeq, ctrl, back, peerGot, silent>>
  BY DEF WriteData
<1>2. wire \o <<Data>> = Append(wire, Data) /\ Append(wire, Data) \in Seq(Id \cup {Data})
      /\ Len(Append(wire, Data)) = Len(wire) + 1
      /\ \A k \in 1 .. (Len(wire) + 1) :
           Append(wire, Data)[k] = IF k <= Len(wire) THEN wire[k] ELSE Data
  BY <1>0, AppendProperties, AppendIsConcat, SeqFacts DEF Types
<1>3. waiting' \in Nat /\ written' \in Nat /\ written <= written'
  BY <1>0 DEF WriteData, Types
<1>4. Types'
  BY <1>0, <1>1, <1>2, <1>3 DEF Types, Transmit
<1>5. \A d : IdAgo(d)' = IdAgo(d)
  BY <1>1 DEF IdAgo
<1>6. TableInOrder'
  <2>1. \A i \in 1 .. Len(pings) : pings[i].mark <= written'
    BY <1>0, <1>3, RecordFields DEF TableInOrder, Types, NoMark
  <2> QED BY <2>1, <1>0, <1>1, <1>5 DEF TableInOrder, Since
<1>7. QueueInOrder'
  BY <1>0, <1>1, <1>5 DEF QueueInOrder
<1>8. PathInOrder'
  <2>1. CASE silent
    BY <2>1, <1>0, <1>1 DEF PathInOrder, Transmit, Types
  <2>2. CASE ~silent
    <3>1. PICK later, arrived : Counts(later, arrived) /\ BackInOrder(later) /\ MarksBehind(later, arrived)
      BY <2>2, <1>0 DEF PathInOrder
    <3>2. PICK n \in Nat, c \in Nat : n = Len(wire) /\ c = Len(ctrl)
      BY <1>0, SeqFacts
    <3>3. ctrl = <<>> /\ c = 0
      BY <3>2, EmptySeq DEF WriteData
    <3>4. wire' = Append(wire, Data) /\ Len(wire') = n + 1
          /\ \A k \in 1 .. n : wire'[k] = wire[k]
          /\ wire'[n + 1] = Data
      BY <2>2, <3>2, <1>1, <1>2 DEF Transmit
    <3>5. PICK later2, arrived2 :
            /\ later2 = [k \in 1 .. (n + 2) |-> IF k <= n + 1 THEN later[k] ELSE 0]
            /\ arrived2 = [k \in 1 .. (n + 2) |-> IF k <= n + 1 THEN arrived[k] ELSE written + 1]
      OBVIOUS
    <3>6. /\ later \in [1 .. (n + 1) -> Nat] /\ arrived \in [1 .. (n + 1) -> Nat]
          /\ arrived[1] = peerGot /\ arrived[n + 1] = written /\ later[n + 1] = 0
      BY <3>1, <3>2, <3>3 DEF Counts
    <3>7. /\ later2 \in [1 .. (n + 2) -> Nat] /\ arrived2 \in [1 .. (n + 2) -> Nat]
          /\ \A k \in 1 .. (n + 1) : later2[k] = later[k] /\ arrived2[k] = arrived[k]
          /\ later2[n + 2] = 0 /\ arrived2[n + 2] = written + 1
      BY <3>5, <3>6, <1>3, <1>1
    <3>8. ASSUME NEW k \in 1 .. (n + 1)
          PROVE  IF wire'[k] = Data
                 THEN later2[k] = later2[k + 1] /\ arrived2[k + 1] = arrived2[k] + 1
                 ELSE /\ later2[k] = later2[k + 1] + 1 /\ arrived2[k + 1] = arrived2[k]
                      /\ wire'[k] = IdAgo(later2[k + 1])
      <4>1. CASE k <= n
        <5>1. k \in 1 .. n /\ k \in 1 .. (n + 1) /\ k + 1 \in 1 .. (n + 1)
          BY <4>1
        <5>2. /\ later2[k] = later[k] /\ later2[k + 1] = later[k + 1]
              /\ arrived2[k] = arrived[k] /\ arrived2[k + 1] = arrived[k + 1] /\ wire'[k] = wire[k]
          BY <5>1, <3>4, <3>7
        <5> QED BY <5>1, <5>2, <3>1, <3>2 DEF Counts
      <4>2. CASE k = n + 1
        BY <4>2, <3>4, <3>6, <3>7
      <4> QED BY <4>1, <4>2
    <3>9. \A k \in 1 .. (n + 2) : 0 <= later2[k] /\ later2[k] <= n + 2 - k
      <4> SUFFICES ASSUME NEW k \in 1 .. (n + 2) PROVE 0 <= later2[k] /\ later2[k] <= n + 2 - k
        OBVIOUS
      <4>1. CASE k \in 1 .. (n + 1)
        <5>1. later[k] \in Nat /\ later[k] <= c + n + 1 - k /\ later2[k] = later[k]
          BY <4>1, <3>1, <3>2, <3>6, <3>7 DEF Counts
        <5>2. c + n + 1 - k <= n + 2 - k
          BY <3>3
        <5> QED BY <5>1, <5>2, <3>3
      <4>2. CASE k = n + 2
        BY <4>2, <3>7
      <4> QED BY <4>1, <4>2
    <3>10. Counts(later2, arrived2)'
      <4>1. arrived2[1] = peerGot /\ peerGot' = peerGot
        BY <3>2, <3>6, <3>7, <1>1
      <4>2. written' = written + 1 /\ ctrl' = <<>> /\ Len(ctrl') = 0
        BY <3>3, <1>0, <1>1, EmptySeq DEF WriteData
      <4>3. Len(wire') = n + 1
        BY <3>4
      <4>4. \A k \in 1 .. (n + 2) : Len(ctrl') <= later2[k] /\ later2[k] <= Len(ctrl') + Len(wire') + 1 - k
        <5>1. \A k \in 1 .. (n + 2) : later2[k] \in Nat
          BY <3>7
        <5> QED BY <5>1, <4>2, <4>3, <3>9, <3>2
      <4>5. \A k \in 1 .. Len(wire') :
              IF wire'[k] = Data
              THEN later2[k] = later2[k + 1] /\ arrived2[k + 1] = arrived2[k] + 1
              ELSE /\ later2[k] = later2[k + 1] + 1 /\ arrived2[k + 1] = arrived2[k]
                   /\ wire'[k] = IdAgo(later2[k + 1])'
        BY <4>3, <3>8, <1>5
      <4>6. Len(wire') + 1 = n + 2
        BY <4>3, <3>2
      <4> QED BY <4>1, <4>2, <4>4, <4>5, <4>6, <3>7 DEF Counts
    <3>11. BackInOrder(later2)'
      <4>1. later2[1] = later[1]
        BY <3>7
      <4> QED BY <4>1, <3>1, <1>1, <1>5 DEF BackInOrder
    <3>12. MarksBehind(later2, arrived2)'
      <4> SUFFICES ASSUME NEW k \in 1 .. (n + 2), NEW i \in 1 .. Len(pings), Since(i) >= later2[k]
                   PROVE  pings[i].mark <= arrived2[k]
        BY <1>1, <3>4 DEF MarksBehind, Since
      <4>1. CASE k <= n + 1
        <5>1. k \in 1 .. (Len(wire) + 1) /\ later2[k] = later[k] /\ arrived2[k] = arrived[k]
          BY <4>1, <3>2, <3>7
        <5> QED BY <5>1, <3>1 DEF MarksBehind
      <4>2. CASE k = n + 2
        <5>1. arrived2[k] = written + 1 /\ pings[i].mark <= written
          BY <4>2, <3>7, <1>0 DEF TableInOrder
        <5>2. pings[i].mark \in Nat \cup {NoMark} /\ written \in Nat
          BY <1>0, RecordFields DEF Types
        <5> QED BY <5>1, <5>2 DEF NoMark
      <4> QED BY <4>1, <4>2
    <3>13. Len(wire') <= 2 * PathDepth
      BY <3>2, <3>4, <1>1, IdFacts
    <3> QED BY <2>2, <3>10, <3>11, <3>12, <3>13, <1>0, <1>1 DEF PathInOrder
  <2> QED BY <2>1, <2>2
<1> QED BY <1>0, <1>1, <1>4, <1>6, <1>7, <1>8 DEF HealthInv, PongProves

(* A PING is remembered and queued, by the cap or by the manager's tick.   *)
LEMMA NewPing ==
  ASSUME HealthInv, Len(ctrl) < PathDepth,
         NEW ps \in Seq(Record), Len(ps) = Len(pings),
         \A i \in 1 .. Len(pings) : ps[i].id = pings[i].id /\ ps[i].mark = pings[i].mark,
         pingSeq' = NextId, ctrl' = Append(ctrl, NextId), pings' = Remember(ps, NextId),
         UNCHANGED <<waiting, written, pongMark, peerGot, wire, back, silent>>
  PROVE  HealthInv'
<1>0. Types /\ TableInOrder /\ QueueInOrder /\ PathInOrder /\ PongProves
  BY DEF HealthInv
<1>1. PICK n \in Nat, c \in Nat : n = Len(wire) /\ c = Len(ctrl)
  BY <1>0, SeqFacts
<1>2. NextId \in Id /\ IdAgo(0)' = NextId /\ \A d \in Nat : d + 1 < PingIds => IdAgo(d + 1)' = IdAgo(d)
  BY <1>0, NextIdIs, IdsMove DEF Types
<1>3. /\ ctrl' \in Seq(Id) /\ Len(ctrl') = c + 1
      /\ \A j \in 1 .. c : ctrl'[j] = ctrl[j]
      /\ ctrl'[c + 1] = NextId
  BY <1>0, <1>1, <1>2, AppendProperties DEF Types
<1>4. PICK drop \in {0, 1} :
        /\ pings' \in Seq(Record) /\ Len(pings') <= MaxPings /\ Len(pings') > 0
        /\ Len(pings') = Len(pings) + 1 - drop
        /\ \A i \in 1 .. (Len(pings') - 1) : i + drop \in 1 .. Len(pings) /\ pings'[i] = ps[i + drop]
        /\ pings'[Len(pings')].id = NextId /\ pings'[Len(pings')].mark = NoMark
  <2>1. Len(ps) <= MaxPings /\ Len(ps) \in Nat /\ Len(Remember(ps, NextId)) \in Int
    <3>1. Remember(ps, NextId) \in Seq(Record)
      BY <1>0, <1>2, RememberIs DEF TableInOrder
    <3> QED BY <3>1, <1>0, LenProperties DEF TableInOrder
  <2>2. LET r == Remember(ps, NextId)
            drop == Len(ps) + 1 - Len(r)
        IN  /\ r \in Seq(Record) /\ Len(r) <= MaxPings /\ Len(r) > 0 /\ drop \in {0, 1}
            /\ \A i \in 1 .. (Len(r) - 1) : i + drop \in 1 .. Len(ps) /\ r[i] = ps[i + drop]
            /\ r[Len(r)].id = NextId /\ r[Len(r)].mark = NoMark
    BY <2>1, <1>2, RememberIs
  <2>3. PICK d \in {0, 1} : d = Len(ps) + 1 - Len(Remember(ps, NextId))
    BY <2>2
  <2>4. Len(Remember(ps, NextId)) = Len(ps) + 1 - d
    BY <2>1, <2>3
  <2> QED BY <2>2, <2>3, <2>4
<1>5. Types'
  BY <1>0, <1>2, <1>3, <1>4 DEF Types
<1>6. ASSUME NEW i \in 1 .. Len(pings')
      PROVE  /\ pings'[i].id = IdAgo(Since(i))' /\ pings'[i].mark <= written
             /\ i < Len(pings') => /\ i + drop \in 1 .. Len(pings) /\ Since(i)' = Since(i + drop) + 1
                                   /\ pings'[i].mark = pings[i + drop].mark
             /\ i = Len(pings') => Since(i)' = 0
  <2>0. Len(pings') \in Nat /\ Len(pings) \in Nat
    BY <1>0, <1>4, SeqFacts, LenProperties
  <2>1. CASE i < Len(pings')
    <3>1. i + drop \in 1 .. Len(pings) /\ pings'[i] = ps[i + drop]
      BY <2>0, <2>1, <1>4
    <3>2. Since(i)' = Since(i + drop) + 1 /\ Since(i + drop) \in Nat /\ Since(i + drop) + 1 < PingIds
      <4>1. Since(i)' = Since(i + drop) + 1
        BY <2>0, <1>4 DEF Since
      <4>2. Since(i + drop) \in Nat
        BY <2>0, <3>1 DEF Since
      <4>3. Since(i + drop) + 1 <= Len(pings)
        BY <2>0, <3>1 DEF Since
      <4> QED BY <2>0, <4>1, <4>2, <4>3, <1>0, IdFacts DEF TableInOrder
    <3>3. pings[i + drop].id = IdAgo(Since(i + drop)) /\ pings[i + drop].mark <= written
      BY <3>1, <1>0 DEF TableInOrder
    <3>4. IdAgo(Since(i))' = IdAgo(Since(i + drop))
      <4>1. \A d : d = Since(i + drop) => IdAgo(d + 1)' = IdAgo(d)
        BY <3>2, <1>2
      <4>2. \A d : d = Since(i)' => IdAgo(Since(i))' = IdAgo(d)'
        BY DEF IdAgo
      <4> QED BY <3>2, <4>1, <4>2
    <3> QED BY <2>1, <3>1, <3>2, <3>3, <3>4
  <2>2. CASE i = Len(pings')
    <3>1. Since(i)' = 0
      BY <2>0, <2>2 DEF Since
    <3>2. IdAgo(Since(i))' = IdAgo(0)'
      BY <3>1 DEF IdAgo
    <3>3. pings'[i].mark <= written
      BY <2>2, <1>0, <1>4 DEF Types, NoMark
    <3> QED BY <2>0, <2>2, <3>1, <3>2, <3>3, <1>2, <1>4
  <2> QED BY <2>0, <2>1, <2>2
<1>7. TableInOrder'
  BY <1>4, <1>6 DEF TableInOrder
<1>8. QueueInOrder'
  <2>1. ASSUME NEW j \in 1 .. (c + 1) PROVE ctrl'[j] = IdAgo(c + 1 - j)'
    <3>1. CASE j <= c
      <4>1. ctrl[j] = IdAgo(c - j) /\ c - j \in Nat /\ (c - j) + 1 < PingIds
        BY <3>1, <1>0, <1>1, IdFacts DEF QueueInOrder
      <4>2. IdAgo((c - j) + 1)' = ctrl[j]
        BY <4>1, <1>2
      <4>3. (c - j) + 1 = c + 1 - j
        OBVIOUS
      <4> QED BY <3>1, <4>2, <4>3, <1>3
    <3>2. CASE j = c + 1
      BY <3>2, <1>2, <1>3
    <3>3. j <= c \/ j = c + 1
      OBVIOUS
    <3> QED BY <3>1, <3>2, <3>3
  <2> QED BY <2>1, <1>1, <1>3, IdFacts DEF QueueInOrder
<1>9. PathInOrder'
  <2>1. CASE silent
    BY <2>1, <1>0 DEF PathInOrder
  <2>2. CASE ~silent
    <3>1. PICK later, arrived : Counts(later, arrived) /\ BackInOrder(later) /\ MarksBehind(later, arrived)
      BY <2>2, <1>0 DEF PathInOrder
    <3>2. /\ n <= 2 * PathDepth /\ Len(back) <= PathDepth /\ Len(back) \in Nat
      BY <2>2, <1>0, <1>1, SeqFacts DEF PathInOrder
    <3>3. /\ later \in [1 .. (n + 1) -> Nat] /\ arrived \in [1 .. (n + 1) -> Nat]
          /\ later[n + 1] = c
          /\ \A k \in 1 .. (n + 1) : c <= later[k] /\ later[k] <= c + n + 1 - k
      BY <3>1, <1>1 DEF Counts
    <3>4. PICK later2 : later2 = [k \in 1 .. (n + 1) |-> later[k] + 1]
      OBVIOUS
    <3>5. later2 \in [1 .. (n + 1) -> Nat] /\ \A k \in 1 .. (n + 1) : later2[k] = later[k] + 1
      BY <3>3, <3>4
    <3>6. \A k \in 1 .. (n + 1) : later[k] + Len(back) + 1 < PingIds
      <4> SUFFICES ASSUME NEW k \in 1 .. (n + 1) PROVE later[k] + Len(back) + 1 < PingIds
        OBVIOUS
      <4>1. later[k] \in Nat /\ later[k] <= c + n + 1 - k
        BY <3>3
      <4>2. later[k] <= c + n /\ c < PathDepth
        BY <4>1, <1>1
      <4> QED BY <4>1, <4>2, <3>2, IdFacts
    <3>7. Counts(later2, arrived)'
      <4>1. ASSUME NEW k \in 1 .. n
            PROVE  IF wire[k] = Data
                   THEN later2[k] = later2[k + 1] /\ arrived[k + 1] = arrived[k] + 1
                   ELSE /\ later2[k] = later2[k + 1] + 1 /\ arrived[k + 1] = arrived[k]
                        /\ wire[k] = IdAgo(later2[k + 1])'
        <5>1. /\ k \in 1 .. (n + 1) /\ k + 1 \in 1 .. (n + 1)
              /\ later[k] \in Nat /\ later[k + 1] \in Nat /\ later[k + 1] + 1 < PingIds
          <6>1. k \in 1 .. (n + 1) /\ k + 1 \in 1 .. (n + 1)
            OBVIOUS
          <6>2. later[k] \in Nat /\ later[k + 1] \in Nat
            BY <6>1, <3>3
          <6>3. later[k + 1] + Len(back) + 1 < PingIds
            BY <6>1, <3>6
          <6> QED BY <6>1, <6>2, <6>3, <3>2, IdFacts
        <5>2. later2[k] = later[k] + 1 /\ later2[k + 1] = later[k + 1] + 1
          BY <5>1, <3>5
        <5>3. IdAgo(later[k + 1] + 1)' = IdAgo(later[k + 1])
          BY <5>1, <1>2
        <5>4. IF wire[k] = Data
              THEN later[k] = later[k + 1] /\ arrived[k + 1] = arrived[k] + 1
              ELSE /\ later[k] = later[k + 1] + 1 /\ arrived[k + 1] = arrived[k]
                   /\ wire[k] = IdAgo(later[k + 1])
          BY <3>1, <1>1 DEF Counts
        <5> QED BY <5>1, <5>2, <5>3, <5>4
      <4>2. \A k \in 1 .. (n + 1) : c + 1 <= later2[k] /\ later2[k] <= c + 1 + n + 1 - k
        <5> SUFFICES ASSUME NEW k \in 1 .. (n + 1)
                     PROVE  c + 1 <= later2[k] /\ later2[k] <= c + 1 + n + 1 - k
          OBVIOUS
        <5>1. later[k] \in Nat /\ c <= later[k] /\ later[k] <= c + n + 1 - k /\ later2[k] = later[k] + 1
          BY <3>3, <3>5
        <5> QED BY <5>1
      <4>3. later2[n + 1] = c + 1
        BY <3>3, <3>5
      <4> QED BY <4>1, <4>2, <4>3, <3>1, <3>5, <1>1, <1>3 DEF Counts
    <3>8. BackInOrder(later2)'
      <4> SUFFICES ASSUME NEW j \in 1 .. Len(back)
                   PROVE  back[j] = IdAgo(later2[1] + Len(back) - j)'
        BY DEF BackInOrder
      <4>1. 1 \in 1 .. (n + 1)
        OBVIOUS
      <4>2. later[1] \in Nat /\ later2[1] = later[1] + 1 /\ later[1] + Len(back) + 1 < PingIds
        BY <4>1, <3>3, <3>5, <3>6
      <4>3. PICK l \in Nat, b \in Nat : l = later[1] /\ b = Len(back)
        BY <4>2, <3>2
      <4>4. PICK d \in Nat : d = l + b - j
        BY <4>3
      <4>a. d + 1 < PingIds
        <5>1. j \in 1 .. b /\ l + b + 1 < PingIds
          BY <4>2, <4>3
        <5>2. d + 1 <= l + b
          BY <5>1, <4>4
        <5> QED BY <5>1, <5>2, IdFacts
      <4>b. later2[1] + Len(back) - j = d + 1
        BY <4>2, <4>3, <4>4
      <4>5. back[j] = IdAgo(d)
        BY <4>3, <4>4, <3>1 DEF BackInOrder
      <4> QED BY <4>a, <4>b, <4>5, <1>2
    <3>9. MarksBehind(later2, arrived)'
      <4> SUFFICES ASSUME NEW k \in 1 .. (n + 1), NEW i \in 1 .. Len(pings'), Since(i)' >= later2[k]
                   PROVE  pings'[i].mark <= arrived[k]
        BY <1>1 DEF MarksBehind
      <4>1. later[k] \in Nat /\ later2[k] = later[k] + 1 /\ Len(pings') \in Nat
        BY <3>3, <3>5, <1>4, LenProperties
      <4>2. i < Len(pings')
        BY <4>1, <1>6
      <4>3. i + drop \in 1 .. Len(pings) /\ Since(i)' = Since(i + drop) + 1 /\ pings'[i].mark = pings[i + drop].mark
        BY <4>2, <1>6
      <4>4. Since(i + drop) \in Nat /\ Since(i + drop) >= later[k]
        BY <4>1, <4>3, <1>0, RecordFields
      <4> QED BY <4>3, <4>4, <3>1, <1>1 DEF MarksBehind
    <3> QED BY <2>2, <3>2, <3>7, <3>8, <3>9, <1>1 DEF PathInOrder
  <2> QED BY <2>1, <2>2
<1> QED BY <1>0, <1>5, <1>7, <1>8, <1>9 DEF HealthInv, PongProves


(* The table with other ages is as good.                                   *)
LEMMA Aged ==
  ASSUME HealthInv,
         NEW ps \in Seq(Record), Len(ps) = Len(pings),
         \A i \in 1 .. Len(pings) : ps[i].id = pings[i].id /\ ps[i].mark = pings[i].mark,
         pings' = ps,
         UNCHANGED <<waiting, written, pongMark, pingSeq, ctrl, peerGot, wire, back, silent>>
  PROVE  HealthInv'
<1>0. Types /\ TableInOrder /\ QueueInOrder /\ PathInOrder /\ PongProves
  BY DEF HealthInv
<1>1. Types'
  BY <1>0 DEF Types
<1>2. (\A d : IdAgo(d)' = IdAgo(d)) /\ (\A i : Since(i)' = Since(i))
  BY DEF IdAgo, Since
<1>3. TableInOrder' /\ QueueInOrder'
  BY <1>0, <1>2 DEF TableInOrder, QueueInOrder
<1>4. PathInOrder'
  <2>1. CASE silent
    BY <2>1, <1>0 DEF PathInOrder
  <2>2. CASE ~silent
    <3>1. PICK later, arrived : Counts(later, arrived) /\ BackInOrder(later) /\ MarksBehind(later, arrived)
      BY <2>2, <1>0 DEF PathInOrder
    <3>2. Counts(later, arrived)'
      BY <3>1, <1>2 DEF Counts
    <3>3. BackInOrder(later)'
      BY <3>1, <1>2 DEF BackInOrder
    <3>4. MarksBehind(later, arrived)'
      BY <3>1, <1>2 DEF MarksBehind
    <3> QED BY <2>2, <3>2, <3>3, <3>4, <1>0 DEF PathInOrder
  <2> QED BY <2>1, <2>2
<1> QED BY <1>0, <1>1, <1>3, <1>4 DEF HealthInv, PongProves

LEMMA CapPingStep == HealthInv /\ CapPing => HealthInv'
<1> SUFFICES ASSUME HealthInv, CapPing PROVE HealthInv'
  OBVIOUS
<1>1. Types
  BY DEF HealthInv
<1>2. pings \in Seq(Record) /\ Len(ctrl) = 0 /\ Len(ctrl) < PathDepth
  BY <1>1, EmptySeq, IdFacts DEF Types, CapPing
<1>3. ctrl' = Append(ctrl, NextId)
  BY DEF CapPing
<1>4. /\ pingSeq' = NextId /\ pings' = Remember(pings, NextId)
      /\ UNCHANGED <<waiting, written, pongMark, peerGot, wire, back, silent>>
  BY DEF CapPing, sendVars, pathVars
<1> QED BY <1>2, <1>3, <1>4, NewPing

LEMMA TickStep == HealthInv /\ Tick => HealthInv'
<1> SUFFICES ASSUME HealthInv, Tick PROVE HealthInv'
  OBVIOUS
<1> DEFINE aged == [i \in DOMAIN pings |->
                      [pings[i] EXCEPT !.age = IF @ < MaxAge THEN @ + 1 ELSE @]]
<1>1. Types /\ DOMAIN pings = 1 .. Len(pings) /\ Len(pings) \in Nat
  BY LenProperties DEF HealthInv, Types
<1>2. \A i \in 1 .. Len(pings) :
        aged[i] \in Record /\ aged[i].id = pings[i].id /\ aged[i].mark = pings[i].mark
  <2> SUFFICES ASSUME NEW i \in 1 .. Len(pings)
               PROVE  aged[i] \in Record /\ aged[i].id = pings[i].id /\ aged[i].mark = pings[i].mark
    OBVIOUS
  <2>1. pings[i] \in Record
    BY <1>1, RecordFields
  <2>2. PICK g : g = IF pings[i].age < MaxAge THEN pings[i].age + 1 ELSE pings[i].age
    OBVIOUS
  <2>3. g \in Nat
    BY <2>1, <2>2 DEF Record
  <2>4. aged[i] = [pings[i] EXCEPT !.age = g]
    BY <1>1, <2>2
  <2> HIDE DEF aged
  <2> QED BY <2>1, <2>3, <2>4 DEF Record
<1>3. aged \in Seq(Record) /\ Len(aged) = Len(pings)
  <2>1. aged \in [1 .. Len(pings) -> Record]
    <3>1. DOMAIN aged = 1 .. Len(pings) /\ aged = [i \in 1 .. Len(pings) |-> aged[i]]
      BY <1>1
    <3> HIDE DEF aged
    <3> QED BY <1>2, <3>1
  <2> HIDE DEF aged
  <2> QED BY <2>1, <1>1 DEF Seq
<1>4. /\ Len(ctrl) < PathDepth
      /\ UNCHANGED <<waiting, written, pongMark, peerGot, wire, back, silent>>
      /\ \/ pings' = aged /\ UNCHANGED <<pingSeq, ctrl>>
         \/ pingSeq' = NextId /\ ctrl' = Append(ctrl, NextId) /\ pings' = Remember(aged, NextId)
  <2> HIDE DEF aged
  <2>1. /\ Len(ctrl) < PathDepth /\ UNCHANGED <<sendVars, pongMark, capPinged, deadline, pathVars>>
        /\ IF Overdue(aged)
           THEN dead' = TRUE /\ pings' = aged /\ UNCHANGED <<pingSeq, ctrl>>
           ELSE /\ UNCHANGED dead
                /\ \/ pingSeq' = NextId /\ ctrl' = Append(ctrl, NextId) /\ pings' = Remember(aged, NextId)
                   \/ waiting = 0 /\ inflight = 0 /\ pings' = aged /\ UNCHANGED <<pingSeq, ctrl>>
    BY DEF Tick, aged
  <2> QED BY <2>1 DEF sendVars, pathVars
<1> HIDE DEF aged
<1>5. CASE pings' = aged /\ UNCHANGED <<pingSeq, ctrl>>
  BY <1>2, <1>3, <1>4, <1>5, Aged
<1>6. CASE pingSeq' = NextId /\ ctrl' = Append(ctrl, NextId) /\ pings' = Remember(aged, NextId)
  BY <1>2, <1>3, <1>4, <1>6, NewPing
<1> QED BY <1>4, <1>5, <1>6

(* The path moves on by one place; the peer's PONG is for the PING it read.*)
LEMMA DeliverStep == HealthInv /\ Deliver => HealthInv'
<1> SUFFICES ASSUME HealthInv, Deliver PROVE HealthInv'
  OBVIOUS
<1>0. Types /\ TableInOrder /\ QueueInOrder /\ PathInOrder /\ PongProves
  BY DEF HealthInv
<1>1. /\ ~silent /\ ~silent' /\ Len(back) < PathDepth
      /\ UNCHANGED <<waiting, written, pongMark, pings, pingSeq, ctrl>>
      /\ wire' = Tail(wire)
      /\ IF Head(wire) = Data THEN peerGot' = peerGot + 1 /\ back' = back
                              ELSE back' = Append(back, Head(wire)) /\ peerGot' = peerGot
  BY DEF Deliver, sendVars, pingVars
<1>2. PICK n \in Nat, c \in Nat, b \in Nat : n = Len(wire) - 1 /\ c = Len(ctrl) /\ b = Len(back)
  <2>1. Len(wire) \in Nat \ {0}
    BY <1>0, EmptySeq DEF Deliver, Types
  <2>2. Len(wire) - 1 \in Nat
    BY <2>1
  <2> QED BY <2>2, <1>0, SeqFacts
<1>3. /\ wire' \in Seq(Id \cup {Data}) /\ Len(wire') = n /\ Head(wire) = wire[1]
      /\ wire[1] \in Id \cup {Data} /\ \A k \in 1 .. n : wire'[k] = wire[k + 1]
  <2>1. wire # <<>> /\ wire \in Seq(Id \cup {Data})
    BY <1>0 DEF Deliver, Types
  <2>2. /\ Tail(wire) \in Seq(Id \cup {Data}) /\ Len(Tail(wire)) = Len(wire) - 1
        /\ \A k \in 1 .. Len(Tail(wire)) : Tail(wire)[k] = wire[k + 1]
        /\ Head(wire) \in Id \cup {Data}
    BY <2>1, HeadTailProperties
  <2> QED BY <2>1, <2>2, <1>1, <1>2
<1>4. /\ back' \in Seq(Id) /\ peerGot' \in Nat /\ peerGot <= peerGot' /\ Len(back') <= PathDepth
      /\ wire[1] # Data => /\ Len(back') = b + 1 /\ back'[b + 1] = wire[1]
                           /\ \A j \in 1 .. b : back'[j] = back[j]
  <2>1. CASE wire[1] = Data
    BY <2>1, <1>0, <1>1, <1>3, SeqFacts, IdFacts DEF Types
  <2>2. CASE wire[1] # Data
    <3>1. wire[1] \in Id /\ back \in Seq(Id) /\ back' = Append(back, wire[1])
      BY <2>2, <1>0, <1>1, <1>3 DEF Types
    <3> QED BY <2>2, <3>1, <1>0, <1>1, <1>2, <1>3, AppendProperties, IdFacts DEF Types
  <2> QED BY <2>1, <2>2
<1>5. Types'
  <2>1. /\ UNCHANGED <<waiting, written, pongMark, pings, pingSeq, ctrl>> /\ silent' \in BOOLEAN
        /\ wire' \in Seq(Id \cup {Data}) /\ back' \in Seq(Id) /\ peerGot' \in Nat
    <3>1. UNCHANGED <<waiting, written, pongMark, pings, pingSeq, ctrl>> /\ silent' \in BOOLEAN
      BY <1>0 DEF Types, Deliver, sendVars, pingVars
    <3>2. wire' \in Seq(Id \cup {Data})
      BY <1>3
    <3>3. back' \in Seq(Id) /\ peerGot' \in Nat
      BY <1>4
    <3> QED BY <3>1, <3>2, <3>3
  <2> QED BY <2>1, <1>0 DEF Types
<1>6. (\A d : IdAgo(d)' = IdAgo(d)) /\ (\A i : Since(i)' = Since(i))
  BY <1>1 DEF IdAgo, Since
<1>7. TableInOrder' /\ QueueInOrder'
  BY <1>0, <1>1, <1>6 DEF TableInOrder, QueueInOrder
<1>8. PathInOrder'
  <2>1. PICK later, arrived : Counts(later, arrived) /\ BackInOrder(later) /\ MarksBehind(later, arrived)
    BY <1>0, <1>1 DEF PathInOrder
  <2>2. /\ later \in [1 .. (n + 2) -> Nat] /\ arrived \in [1 .. (n + 2) -> Nat]
        /\ arrived[1] = peerGot /\ arrived[n + 2] = written /\ later[n + 2] = c
        /\ \A k \in 1 .. (n + 1) :
             IF wire[k] = Data
             THEN later[k] = later[k + 1] /\ arrived[k + 1] = arrived[k] + 1
             ELSE /\ later[k] = later[k + 1] + 1 /\ arrived[k + 1] = arrived[k]
                  /\ wire[k] = IdAgo(later[k + 1])
        /\ \A k \in 1 .. (n + 2) : c <= later[k] /\ later[k] <= c + n + 2 - k
    <3>1. Len(wire) = n + 1 /\ Len(wire) + 1 = n + 2
      BY <1>0, <1>2, SeqFacts
    <3>2. \A k \in 1 .. (n + 2) : c + (n + 1) + 1 - k = c + n + 2 - k
      OBVIOUS
    <3> QED BY <2>1, <1>2, <3>1, <3>2 DEF Counts
  <2>3. PICK later2, arrived2 : /\ later2 = [k \in 1 .. (n + 1) |-> later[k + 1]]
                                /\ arrived2 = [k \in 1 .. (n + 1) |-> arrived[k + 1]]
    OBVIOUS
  <2>4. \A k \in 1 .. (n + 1) : k + 1 \in 1 .. (n + 2)
    OBVIOUS
  <2>5. /\ later2 \in [1 .. (n + 1) -> Nat] /\ arrived2 \in [1 .. (n + 1) -> Nat]
        /\ \A k \in 1 .. (n + 1) : later2[k] = later[k + 1] /\ arrived2[k] = arrived[k + 1]
    BY <2>2, <2>3, <2>4
  <2>6. /\ arrived2[1] = arrived[2] /\ later2[1] = later[2]
        /\ arrived2[n + 1] = written /\ later2[n + 1] = c
    BY <2>2, <2>5
  <2>7. IF wire[1] = Data
        THEN later[1] = later[2] /\ arrived[2] = peerGot + 1
        ELSE later[1] = later[2] + 1 /\ arrived[2] = peerGot /\ wire[1] = IdAgo(later[2])
    BY <2>2
  <2>8. arrived2[1] = peerGot'
    BY <2>6, <2>7, <1>1, <1>3
  <2>9. ASSUME NEW k \in 1 .. n
        PROVE  IF wire'[k] = Data
               THEN later2[k] = later2[k + 1] /\ arrived2[k + 1] = arrived2[k] + 1
               ELSE /\ later2[k] = later2[k + 1] + 1 /\ arrived2[k + 1] = arrived2[k]
                    /\ wire'[k] = IdAgo(later2[k + 1])
    <3>1. k \in 1 .. (n + 1) /\ k + 1 \in 1 .. (n + 1) /\ (k + 1) + 1 = k + 2
      OBVIOUS
    <3>2. /\ later2[k] = later[k + 1] /\ later2[k + 1] = later[(k + 1) + 1]
          /\ arrived2[k] = arrived[k + 1] /\ arrived2[k + 1] = arrived[(k + 1) + 1]
      BY <3>1, <2>5
    <3>3. wire'[k] = wire[k + 1]
      BY <1>3
    <3> QED BY <3>1, <3>2, <3>3, <2>2
  <2>10. \A k \in 1 .. (n + 1) : c <= later2[k] /\ later2[k] <= c + n + 1 - k
    <3> SUFFICES ASSUME NEW k \in 1 .. (n + 1) PROVE c <= later2[k] /\ later2[k] <= c + n + 1 - k
      OBVIOUS
    <3>1. c <= later[k + 1] /\ later[k + 1] <= c + n + 2 - (k + 1) /\ later[k + 1] \in Nat
      BY <2>2, <2>4
    <3>2. later2[k] = later[k + 1]
      BY <2>5
    <3> QED BY <3>1, <3>2
  <2>11. Counts(later2, arrived2)'
    BY <2>5, <2>6, <2>8, <2>9, <2>10, <1>1, <1>2, <1>3, <1>6 DEF Counts
  <2>12. BackInOrder(later2)'
    <3>1. CASE wire[1] = Data
      BY <3>1, <2>1, <2>6, <2>7, <1>1, <1>3, <1>6 DEF BackInOrder
    <3>2. CASE wire[1] # Data
      <4> SUFFICES ASSUME NEW j \in 1 .. (b + 1) PROVE back'[j] = IdAgo(later2[1] + (b + 1) - j)
        BY <3>2, <1>4, <1>6 DEF BackInOrder
      <4>1. PICK l \in Nat : l = later[2] /\ l = later2[1]
        BY <2>2, <2>6
      <4>2. CASE j <= b
        <5>1. back[j] = IdAgo(later[1] + b - j)
          BY <4>2, <1>2, <2>1 DEF BackInOrder
        <5>2. later[1] + b - j = l + (b + 1) - j
          BY <3>2, <4>1, <2>7
        <5> QED BY <5>1, <5>2, <4>1, <4>2, <3>2, <1>4
      <4>3. CASE j = b + 1
        <5>1. l + (b + 1) - j = l
          BY <4>3
        <5> QED BY <5>1, <4>1, <4>3, <3>2, <1>4, <2>7
      <4> QED BY <4>2, <4>3
    <3> QED BY <3>1, <3>2
  <2>13. MarksBehind(later2, arrived2)'
    <3> SUFFICES ASSUME NEW k \in 1 .. (n + 1), NEW i \in 1 .. Len(pings), Since(i) >= later2[k]
                 PROVE  pings[i].mark <= arrived2[k]
      BY <1>1, <1>3, <1>6 DEF MarksBehind
    <3>1. k + 1 \in 1 .. (Len(wire) + 1)
      BY <1>0, <1>2, SeqFacts
    <3> QED BY <3>1, <2>1, <2>5 DEF MarksBehind
  <2>14. Len(wire') <= 2 * PathDepth
    <3>1. Len(wire) <= 2 * PathDepth /\ Len(wire) = n + 1
      BY <1>0, <1>1, <1>2, SeqFacts DEF PathInOrder
    <3> QED BY <3>1, <1>3, IdFacts
  <2> QED BY <2>11, <2>12, <2>13, <2>14, <1>1, <1>4 DEF PathInOrder
<1>9. PongProves'
  BY <1>0, <1>1, <1>4 DEF PongProves, Types
<1> QED BY <1>5, <1>7, <1>8, <1>9 DEF HealthInv

(* The oldest PONG on its way back is for a PING that no wire or queue     *)
(* holds any more, so what its watermark counts has arrived.               *)
LEMMA OnPongStep == HealthInv /\ OnPong => HealthInv'
<1> SUFFICES ASSUME HealthInv, OnPong PROVE HealthInv'
  OBVIOUS
<1>0. Types /\ TableInOrder /\ QueueInOrder /\ PathInOrder /\ PongProves
  BY DEF HealthInv
<1>1. /\ UNCHANGED <<waiting, written, pingSeq, ctrl, wire, peerGot, silent>>
      /\ back # <<>> /\ back' = Tail(back) /\ ~silent
  BY <1>0 DEF OnPong, sendVars, PathInOrder
<1>2. PICK n \in Nat, b \in Nat, q \in Nat : n = Len(wire) /\ b = Len(back) - 1 /\ q = Len(pings)
  <2>1. Len(back) \in Nat \ {0}
    BY <1>0, <1>1, EmptySeq DEF Types
  <2>2. Len(back) - 1 \in Nat
    BY <2>1
  <2> QED BY <2>2, <1>0, SeqFacts
<1>3. /\ back' \in Seq(Id) /\ Len(back') = b /\ Len(back) = b + 1 /\ Head(back) = back[1]
      /\ \A j \in 1 .. b : back'[j] = back[j + 1]
  <2>1. /\ Tail(back) \in Seq(Id) /\ Len(Tail(back)) = Len(back) - 1
        /\ \A j \in 1 .. Len(Tail(back)) : Tail(back)[j] = back[j + 1]
    BY <1>0, <1>1, HeadTailProperties DEF Types
  <2> QED BY <2>1, <1>0, <1>1, <1>2, SeqFacts
<1>4. PICK later, arrived : Counts(later, arrived) /\ BackInOrder(later) /\ MarksBehind(later, arrived)
  BY <1>0, <1>1 DEF PathInOrder
<1>5. later[1] \in Nat /\ later[1] + b < PingIds /\ arrived[1] = peerGot
  <2>1. 1 \in 1 .. (n + 1)
    OBVIOUS
  <2>2. later[1] \in Nat /\ later[1] <= Len(ctrl) + n + 1 - 1
    BY <2>1, <1>2, <1>4 DEF Counts
  <2>3. /\ Len(ctrl) \in Nat /\ Len(ctrl) <= PathDepth /\ n <= 2 * PathDepth /\ b + 1 <= PathDepth
    BY <1>0, <1>1, <1>2, <1>3, SeqFacts DEF QueueInOrder, PathInOrder
  <2>4. arrived[1] = peerGot
    BY <1>4 DEF Counts
  <2> QED BY <2>2, <2>3, <2>4, IdFacts
<1>6. ASSUME NEW i \in 1 .. q, pings[i].id = Head(back)
      PROVE  pings[i].mark <= peerGot
  <2>1. pings[i].id = IdAgo(Since(i)) /\ Since(i) \in Nat /\ Since(i) < PingIds
    <3>1. pings[i].id = IdAgo(Since(i)) /\ Since(i) \in Nat
      BY <1>0, <1>2, RecordFields DEF TableInOrder
    <3>2. Since(i) < q /\ q <= MaxPings
      BY <1>0, <1>2 DEF Since, TableInOrder
    <3> QED BY <3>1, <3>2, IdFacts
  <2>2. back[1] = IdAgo(later[1] + (b + 1) - 1)
    BY <1>3, <1>4 DEF BackInOrder
  <2>3. later[1] + (b + 1) - 1 = later[1] + b /\ later[1] + b \in Nat
    BY <1>5
  <2>4. IdAgo(Since(i)) = IdAgo(later[1] + b)
    BY <1>6, <2>1, <2>2, <2>3, <1>3
  <2>5. Since(i) = later[1] + b
    BY <1>0, <1>5, <2>1, <2>3, <2>4, IdsDiffer DEF Types
  <2>6. Since(i) >= later[1] /\ 1 \in 1 .. (Len(wire) + 1) /\ i \in 1 .. Len(pings)
    BY <1>2, <1>5, <2>5
  <2> QED BY <2>6, <1>4, <1>5 DEF MarksBehind
<1>7. PICK drop \in 0 .. q :
        /\ pings' \in Seq(Record) /\ Len(pings') = q - drop
        /\ \A k \in 1 .. (q - drop) : pings'[k] = pings[k + drop]
        /\ pongMark' \in Nat /\ pongMark' <= peerGot
  <2> DEFINE answered == {i \in DOMAIN pings : pings[i].id = Head(back)}
  <2>1. DOMAIN pings = 1 .. q /\ pings \in Seq(Record)
    BY <1>0, <1>2, LenProperties DEF Types
  <2>2. CASE answered = {}
    <3>1. pings' = pings /\ pongMark' = pongMark
      BY <2>2 DEF OnPong
    <3>2. \A k \in 1 .. (q - 0) : pings'[k] = pings[k + 0]
      BY <3>1
    <3>3. Len(pings') = q - 0 /\ 0 \in 0 .. q
      BY <3>1, <1>2
    <3> QED BY <2>1, <3>1, <3>2, <3>3, <1>0 DEF PongProves, Types
  <2>3. CASE answered # {}
    <3>1. PICK i \in answered :
            /\ pings' = SubSeq(pings, i + 1, Len(pings))
            /\ pongMark' = IF Proven(pings[i]) > pongMark THEN Proven(pings[i]) ELSE pongMark
      BY <2>3 DEF OnPong
    <3>2. i \in 1 .. q /\ pings[i].id = Head(back)
      BY <2>1, <3>1
    <3>3. /\ pings' \in Seq(Record) /\ Len(pings') = q - i
          /\ \A k \in 1 .. (q - i) : pings'[k] = pings[k + i]
      <4>1. i + 1 \in Int /\ q \in Int /\ \A k \in (i + 1) .. q : pings[k] \in Record
        <5>1. \A k \in (i + 1) .. q : k \in 1 .. Len(pings)
          BY <1>2, <3>2
        <5> QED BY <5>1, <2>1, <3>2, ElementOfSeq
      <4>2. /\ SubSeq(pings, i + 1, q) \in Seq(Record)
            /\ Len(SubSeq(pings, i + 1, q)) = IF i + 1 <= q THEN q - (i + 1) + 1 ELSE 0
            /\ \A k \in 1 .. (q - (i + 1) + 1) : SubSeq(pings, i + 1, q)[k] = pings[(i + 1) + k - 1]
        BY <4>1, SubSeqProperties
      <4>3. q - (i + 1) + 1 = q - i /\ (IF i + 1 <= q THEN q - i ELSE 0) = q - i
            /\ \A k \in 1 .. (q - i) : (i + 1) + k - 1 = k + i
        BY <3>2
      <4> QED BY <4>2, <4>3, <3>1, <1>2
    <3>4. pongMark' \in Nat /\ pongMark' <= peerGot
      <4>1. pongMark \in Nat /\ pongMark <= peerGot
        BY <1>0 DEF Types, PongProves
      <4>2. pings[i].mark \in Nat \cup {NoMark} /\ pings[i].mark <= peerGot
        BY <3>2, <1>0, <1>2, <1>6, RecordFields
      <4>3. Proven(pings[i]) \in Nat /\ Proven(pings[i]) <= peerGot
        BY <4>1, <4>2 DEF Proven
      <4> QED BY <4>1, <4>3, <3>1
    <3>5. i \in 0 .. q
      BY <3>2
    <3> QED BY <3>3, <3>4, <3>5
  <2> QED BY <2>2, <2>3
<1>8. Types'
  BY <1>0, <1>1, <1>3, <1>7 DEF Types
<1>9. \A d : IdAgo(d)' = IdAgo(d)
  BY <1>1 DEF IdAgo
<1>10. ASSUME NEW k \in 1 .. Len(pings')
       PROVE  k + drop \in 1 .. Len(pings) /\ pings'[k] = pings[k + drop] /\ Since(k)' = Since(k + drop)
  <2>1. k \in 1 .. (q - drop)
    BY <1>7
  <2>2. k + drop \in 1 .. Len(pings) /\ q - drop - k = q - (k + drop)
    BY <2>1, <1>2
  <2> QED BY <2>1, <2>2, <1>2, <1>7 DEF Since
<1>11. TableInOrder'
  <2>1. Len(pings') <= MaxPings
    BY <1>0, <1>2, <1>7, IdFacts DEF TableInOrder
  <2>2. ASSUME NEW k \in 1 .. Len(pings')
        PROVE  pings'[k].id = IdAgo(Since(k))' /\ pings'[k].mark <= written'
    <3>1. IdAgo(Since(k))' = IdAgo(Since(k + drop))
      BY <1>1, <1>10 DEF IdAgo
    <3> QED BY <3>1, <1>0, <1>1, <1>10 DEF TableInOrder
  <2> QED BY <2>1, <2>2 DEF TableInOrder
<1>12. QueueInOrder'
  BY <1>0, <1>1, <1>9 DEF QueueInOrder
<1>13. PathInOrder'
  <2>1. Counts(later, arrived)'
    BY <1>1, <1>4, <1>9 DEF Counts
  <2>2. BackInOrder(later)'
    <3> SUFFICES ASSUME NEW j \in 1 .. b PROVE back'[j] = IdAgo(later[1] + b - j)
      BY <1>3, <1>9 DEF BackInOrder
    <3>1. j + 1 \in 1 .. Len(back) /\ later[1] + (b + 1) - (j + 1) = later[1] + b - j
      BY <1>3, <1>5
    <3>2. back[j + 1] = IdAgo(later[1] + (b + 1) - (j + 1))
      BY <3>1, <1>3, <1>4 DEF BackInOrder
    <3> QED BY <3>1, <3>2, <1>3
  <2>3. MarksBehind(later, arrived)'
    <3> SUFFICES ASSUME NEW k \in 1 .. (Len(wire) + 1), NEW i \in 1 .. Len(pings'), Since(i)' >= later[k]
                 PROVE  pings'[i].mark <= arrived[k]
      BY <1>1 DEF MarksBehind
    <3> QED BY <1>4, <1>10 DEF MarksBehind
  <2>4. Len(back') <= PathDepth
    BY <1>0, <1>1, <1>3, IdFacts DEF PathInOrder
  <2> QED BY <2>1, <2>2, <2>3, <2>4, <1>0, <1>1 DEF PathInOrder
<1>14. PongProves'
  BY <1>1, <1>7 DEF PongProves
<1> QED BY <1>8, <1>11, <1>12, <1>13, <1>14 DEF HealthInv

----------------------------------------------------------------------------
(* A PONG in order of its PING: the invariant above, for every length of   *)
(* the run.  (Subflow.onPongLocked, queuePingLocked, writeLoop.)           *)
THEOREM HealthInvariant == Spec => []HealthInv
<1>1. HealthInv /\ [Next]_vars => HealthInv'
  <2> SUFFICES ASSUME HealthInv, [Next]_vars PROVE HealthInv'
    OBVIOUS
  <2>1. CASE UNCHANGED vars
    <3>1. UNCHANGED <<waiting, written, pongMark, pings, pingSeq, ctrl, peerGot, wire, back, silent>>
      BY <2>1 DEF vars, sendVars, pingVars, pathVars
    <3>2. pings \in Seq(Record)
      BY DEF HealthInv, Types
    <3> QED BY <3>1, <3>2, Aged
  <2>2. CASE Next
    BY <2>2, OfferStep, WriteCtrlStep, WriteDataStep, CapPingStep, DeliverStep, SilentStep,
       OnPongStep, TickStep DEF Next
  <2> QED BY <2>1, <2>2
<1> QED BY <1>1, InitHealth, PTL DEF Spec

(* In-flight capacity is given back only for segments that the peer has    *)
(* received, whatever the size of the table and however PINGs and DATA     *)
(* interleave on the path (core/msess subflow.go, onPongLocked).           *)
THEOREM PongsProveDelivery == Spec => []PongProves
<1>1. HealthInv => PongProves
  BY DEF HealthInv
<1> QED BY <1>1, HealthInvariant, PTL
=============================================================================

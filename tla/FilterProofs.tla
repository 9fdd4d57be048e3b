----------------------------- MODULE FilterProofs ----------------------------
(***************************************************************************)
(* What a filter returns. Induction over the naturals is used in the form  *)
(* of their least element, which is a fact about a set (WFMin): a          *)
(* statement that fails somewhere fails somewhere first.                   *)
(***************************************************************************)
EXTENDS Filter, TLAPS, WellFoundedInduction, SequenceTheorems

\* A set of naturals that is not empty has a least element.
LEMMA Least == ASSUME NEW T, T \subseteq Nat, T # {} PROVE \E m \in T : \A k \in T : m <= k
<1> DEFINE R == OpToRel(<, Nat)
<1>1. IsWellFoundedOn(R, Nat)
  BY NatLessThanWellFounded, Zenon
<1>2. \A x, y \in Nat : <<y, x>> \in R <=> y < x
  BY DEF OpToRel
<1> HIDE DEF R
<1>3. PICK m \in T : \A k \in T : ~(<<k, m>> \in R)
  BY <1>1, WFMin
<1>4. \A k \in T : ~(k < m)
  BY <1>2, <1>3
<1> QED BY <1>4

\* What holds at 0 and is handed on up to n holds up to n: the set of where it
\* fails has no least element.
LEMMA UpTo ==
  ASSUME NEW n \in Nat, NEW T, T \subseteq 0 .. n, 0 \in T, \A i \in 1 .. n : i - 1 \in T => i \in T
  PROVE  T = 0 .. n
<1>1. SUFFICES ASSUME (0 .. n) \ T # {} PROVE FALSE
  OBVIOUS
<1> DEFINE Fails == (0 .. n) \ T
<1>2. PICK m \in Fails : \A k \in Fails : m <= k
  <2>1. Fails \subseteq Nat /\ Fails # {}
    BY <1>1
  <2> QED BY <2>1, Least
<1>3. m \in 1 .. n /\ m - 1 \in 0 .. n
  BY <1>2
<1>4. m - 1 \in T
  BY <1>2, <1>3
<1> QED BY <1>2, <1>3, <1>4

\* One step of the filter.
Sifted(t, v, S) == IF v \in S THEN Append(t, v) ELSE t
Filters(F, s, S, n) == F = [i \in 0 .. n |-> IF i = 0 THEN <<>> ELSE Sifted(F[i - 1], s[i], S)]

LEMMA FilterExists == ASSUME NEW s, NEW S, NEW n \in Nat PROVE \E F : Filters(F, s, S, n)
<1> DEFINE T == {i \in 0 .. n : \E F : Filters(F, s, S, i)}
<1>1. 0 \in T
  <2> DEFINE G == [i \in 0 .. 0 |-> <<>>]
  <2>1. Filters(G, s, S, 0)
    BY DEF Filters
  <2> QED BY <2>1
<1>2. ASSUME NEW i \in 1 .. n, i - 1 \in T PROVE i \in T
  <2> PICK F : Filters(F, s, S, i - 1)
    BY <1>2
  <2> DEFINE G == [k \in 0 .. i |-> IF k = i THEN Sifted(F[i - 1], s[i], S) ELSE F[k]]
  <2>1. \A k \in 0 .. i : G[k] = IF k = 0 THEN <<>> ELSE Sifted(G[k - 1], s[k], S)
    <3> TAKE k \in 0 .. i
    <3>1. CASE k = i
      BY <3>1
    <3>2. CASE k # i
      <4>1. k \in 0 .. (i - 1)
        BY <3>2
      <4>2. F[k] = IF k = 0 THEN <<>> ELSE Sifted(F[k - 1], s[k], S)
        BY <4>1 DEF Filters
      <4>3. G[k] = F[k] /\ (k # 0 => G[k - 1] = F[k - 1])
        BY <3>2, <4>1
      <4> QED BY <4>2, <4>3
    <3> QED BY <3>1, <3>2
  <2>2. Filters(G, s, S, i)
    BY <2>1 DEF Filters
  <2> QED BY <2>2
<1> QED
  <2>1. T = 0 .. n
    <3> HIDE DEF T
    <3>1. T \subseteq 0 .. n
      BY DEF T
    <3> QED BY <1>1, <1>2, <3>1, UpTo
  <2> QED BY <2>1

LEMMA OnlyIs ==
  ASSUME NEW s, NEW S, Len(s) \in Nat
  PROVE  \E F : Filters(F, s, S, Len(s)) /\ Only(s, S) = F[Len(s)]
<1> DEFINE C == CHOOSE F : Filters(F, s, S, Len(s))
<1>1. Filters(C, s, S, Len(s))
  BY FilterExists
<1>2. Only(s, S) = C[Len(s)]
  BY DEF Only, Filters, Sifted
<1> QED BY <1>1, <1>2

---------------------------------------------------------------------------
\* The values of a sequence; each once.
Vals(t) == {t[i] : i \in 1 .. Len(t)}
Once(t) == \A i, j \in 1 .. Len(t) : t[i] = t[j] => i = j

LEMMA EmptyVals == ASSUME NEW X PROVE <<>> \in Seq(X) /\ Vals(<<>>) = {} /\ Once(<<>>)
BY DEF Vals, Once

LEMMA AppendVals ==
  ASSUME NEW X, NEW t \in Seq(X), NEW v \in X
  PROVE  /\ Append(t, v) \in Seq(X) /\ Vals(Append(t, v)) = Vals(t) \cup {v}
         /\ Once(t) /\ v \notin Vals(t) => Once(Append(t, v))
<1> PICK a : a = Append(t, v)
  OBVIOUS
<1> PICK n \in Nat : n = Len(t)
  BY LenProperties
<1>1. a \in Seq(X) /\ Len(a) = n + 1 /\ a[n + 1] = v /\ \A i \in 1 .. n : a[i] = t[i]
  BY AppendProperties
<1>2. Vals(a) = Vals(t) \cup {v}
  <2>1. \A i \in 1 .. n + 1 : i \in 1 .. n \/ i = n + 1
    OBVIOUS
  <2> QED BY <1>1, <2>1 DEF Vals
<1>3. ASSUME Once(t), v \notin Vals(t) PROVE Once(a)
  <2>1. \A i \in 1 .. n : t[i] # v
    BY <1>3 DEF Vals
  <2>2. \A i \in 1 .. n + 1 : i \in 1 .. n \/ i = n + 1
    OBVIOUS
  <2> QED BY <1>1, <1>3, <2>1, <2>2 DEF Once
<1> QED BY <1>1, <1>2, <1>3

\* The filter returns what is in S, all of it, and nothing twice that was there once.
LEMMA OnlyWhat ==
  ASSUME NEW X, NEW s \in Seq(X), NEW S
  PROVE  /\ Only(s, S) \in Seq(X \cap S) /\ Vals(Only(s, S)) = Vals(s) \cap S
         /\ Once(s) => Once(Only(s, S))
<1> PICK n \in Nat : n = Len(s)
  BY LenProperties
<1> PICK F : Filters(F, s, S, n) /\ Only(s, S) = F[n]
  BY OnlyIs
<1> DEFINE Upper(i) == {s[k] : k \in 1 .. i}
<1> DEFINE Good(i) == /\ F[i] \in Seq(X \cap S) /\ Vals(F[i]) = Upper(i) \cap S
                      /\ Once(s) => Once(F[i])
<1> DEFINE T == {i \in 0 .. n : Good(i)}
<1>1. Good(0)
  <2>1. F[0] = <<>> /\ Upper(0) = {}
    BY DEF Filters
  <2> QED BY <2>1, EmptyVals
<1>2. ASSUME NEW i \in 1 .. n, Good(i - 1) PROVE Good(i)
  <2>1. F[i] = Sifted(F[i - 1], s[i], S)
    BY DEF Filters
  <2>2. s[i] \in X
    BY ElementOfSeq
  <2>3. Upper(i) = Upper(i - 1) \cup {s[i]}
    <3>1. \A k \in 1 .. i : k \in 1 .. i - 1 \/ k = i
      OBVIOUS
    <3>2. \A k \in 1 .. i - 1 : k \in 1 .. i
      OBVIOUS
    <3> QED BY <3>1, <3>2
  <2>4. Once(s) => s[i] \notin Upper(i - 1)
    <3>1. \A k \in 1 .. i - 1 : k \in 1 .. n /\ k # i
      OBVIOUS
    <3> QED BY <3>1 DEF Once
  <2> PICK U, V : U = Upper(i - 1) /\ V = Upper(i)
    OBVIOUS
  <2>5. /\ F[i - 1] \in Seq(X \cap S) /\ Vals(F[i - 1]) = U \cap S /\ (Once(s) => Once(F[i - 1]))
        /\ V = U \cup {s[i]} /\ (Once(s) => s[i] \notin U)
    BY <1>2, <2>3, <2>4
  <2> HIDE DEF Upper
  <2>6. CASE s[i] \in S
    <3>1. F[i] = Append(F[i - 1], s[i]) /\ s[i] \in X \cap S
      BY <2>1, <2>2, <2>6 DEF Sifted
    <3>2. /\ F[i] \in Seq(X \cap S) /\ Vals(F[i]) = Vals(F[i - 1]) \cup {s[i]}
          /\ Once(F[i - 1]) /\ s[i] \notin Vals(F[i - 1]) => Once(F[i])
      BY <2>5, <3>1, AppendVals
    <3> QED BY <2>5, <2>6, <3>2
  <2>7. CASE s[i] \notin S
    <3>1. F[i] = F[i - 1]
      BY <2>1, <2>7 DEF Sifted
    <3> QED BY <2>5, <2>7, <3>1
  <2> QED BY <2>6, <2>7
<1>3. T = 0 .. n
  <2>1. \A i \in 1 .. n : i - 1 \in 0 .. n /\ i \in 0 .. n
    OBVIOUS
  <2> HIDE DEF Good
  <2>2. T \subseteq 0 .. n /\ 0 \in T /\ \A i \in 1 .. n : i - 1 \in T => i \in T
    BY <1>1, <1>2, <2>1
  <2> HIDE DEF T
  <2> QED BY <2>2, UpTo
<1>4. Good(n)
  <2> HIDE DEF Good
  <2> QED BY <1>3
<1>5. Upper(n) = Vals(s)
  BY DEF Vals
<1> QED BY <1>4, <1>5

\* A sequence after another.
Joins(a, X, s, t) ==
  /\ a \in Seq(X) /\ Vals(a) = Vals(s) \cup Vals(t)
  /\ Once(s) /\ Once(t) /\ Vals(s) \cap Vals(t) = {} => Once(a)
LEMMA BothVals == ASSUME NEW X, NEW s \in Seq(X), NEW t \in Seq(X) PROVE Joins(s \o t, X, s, t)
<1> PICK a : a = s \o t
  OBVIOUS
<1> PICK n \in Nat, k \in Nat : n = Len(s) /\ k = Len(t)
  BY LenProperties
<1>1. a \in Seq(X) /\ Len(a) = n + k /\ \A i \in 1 .. n + k : a[i] = IF i <= n THEN s[i] ELSE t[i - n]
  BY ConcatProperties
<1>2. \A i \in 1 .. n + k : (i \in 1 .. n /\ a[i] = s[i]) \/ (i - n \in 1 .. k /\ a[i] = t[i - n])
  BY <1>1
<1>3. Vals(a) = Vals(s) \cup Vals(t)
  <2>1. \A i \in 1 .. n : i \in 1 .. n + k /\ a[i] = s[i]
    BY <1>1
  <2>2. \A i \in 1 .. k : n + i \in 1 .. n + k /\ a[n + i] = t[i]
    <3> TAKE i \in 1 .. k
    <3>1. n + i \in 1 .. n + k /\ ~(n + i <= n) /\ (n + i) - n = i
      OBVIOUS
    <3> QED BY <1>1, <3>1
  <2>3. Vals(a) = {a[i] : i \in 1 .. n + k}
    BY <1>1 DEF Vals
  <2>4. Vals(a) \subseteq Vals(s) \cup Vals(t)
    BY <1>2, <2>3 DEF Vals
  <2>5. Vals(s) \subseteq Vals(a)
    BY <2>1, <2>3 DEF Vals
  <2>6. Vals(t) \subseteq Vals(a)
    <3>1. SUFFICES ASSUME NEW v \in Vals(t) PROVE v \in Vals(a)
      OBVIOUS
    <3>2. PICK i \in 1 .. k : v = t[i]
      BY <3>1 DEF Vals
    <3> QED BY <2>2, <2>3, <3>2
  <2> QED BY <2>4, <2>5, <2>6
<1>4. ASSUME Once(s), Once(t), Vals(s) \cap Vals(t) = {}, NEW i \in 1 .. n + k, NEW j \in 1 .. n + k, a[i] = a[j] PROVE i = j
  <2>1. \A p \in 1 .. n, q \in 1 .. k : s[p] # t[q]
    BY <1>4 DEF Vals
  <2>2. CASE i \in 1 .. n /\ j \in 1 .. n
    <3>1. s[i] = s[j]
      BY <1>1, <1>4, <2>2
    <3> QED BY <1>4, <2>2, <3>1 DEF Once
  <2>3. CASE i - n \in 1 .. k /\ j - n \in 1 .. k
    <3>1. t[i - n] = t[j - n]
      BY <1>1, <1>4, <2>3
    <3>2. i - n = j - n
      BY <1>4, <2>3, <3>1 DEF Once
    <3> QED BY <3>2
  <2>4. CASE i \in 1 .. n /\ j - n \in 1 .. k
    <3>1. a[i] = s[i] /\ a[j] = t[j - n]
      BY <1>1, <2>4
    <3> QED BY <1>4, <2>1, <2>4, <3>1
  <2>5. CASE i - n \in 1 .. k /\ j \in 1 .. n
    <3>1. a[j] = s[j] /\ a[i] = t[i - n]
      BY <1>1, <2>5
    <3> QED BY <1>4, <2>1, <2>5, <3>1
  <2> QED BY <1>2, <2>2, <2>3, <2>4, <2>5
<1>5. Once(s) /\ Once(t) /\ Vals(s) \cap Vals(t) = {} => Once(a)
  BY <1>1, <1>4 DEF Once
<1> QED BY <1>1, <1>3, <1>5 DEF Joins

---------------------------------------------------------------------------
\* A sequence, of whatever.
Series(s) == s \in Seq({s[i] : i \in DOMAIN s})

LEMMA SeriesIs == ASSUME NEW X, NEW s \in Seq(X) PROVE Series(s)
<1> PICK n \in Nat : n = Len(s) /\ DOMAIN s = 1 .. n /\ s \in [1 .. n -> X]
  BY LenProperties
<1> PICK Y : Y = {s[i] : i \in DOMAIN s}
  OBVIOUS
<1>1. s \in [1 .. n -> Y]
  OBVIOUS
<1>2. s \in Seq(Y)
  BY <1>1, SeqDef
<1> QED BY <1>2 DEF Series

LEMMA OneSeries == ASSUME NEW v PROVE Series(<<v>>) /\ DOMAIN <<v>> = {1} /\ <<v>>[1] = v
<1>1. <<v>> \in Seq({v}) /\ DOMAIN <<v>> = {1} /\ <<v>>[1] = v
  OBVIOUS
<1> QED BY <1>1, SeriesIs

LEMMA NoSeries == Series(<<>>) /\ DOMAIN <<>> = {}
<1>1. <<>> \in Seq({})
  OBVIOUS
<1>2. DOMAIN <<>> = {}
  OBVIOUS
<1> QED BY <1>1, <1>2, SeriesIs

\* A sequence with a value changed, added, dropped.
LEMMA SeriesExcept ==
  ASSUME NEW s, Series(s), NEW i \in DOMAIN s, NEW v, NEW t, t = [s EXCEPT ![i] = v]
  PROVE  Series(t) /\ \A j \in DOMAIN t : t[j] = v \/ (j \in DOMAIN s /\ t[j] = s[j])
<1> PICK X : X = {s[k] : k \in DOMAIN s} \cup {v}
  OBVIOUS
<1>1. s \in Seq(X)
  <2>1. {s[k] : k \in DOMAIN s} \subseteq X
    OBVIOUS
  <2> QED BY <2>1, SeqMonotonic DEF Series
<1>2. DOMAIN s = 1 .. Len(s)
  BY <1>1, LenProperties
<1>3. t \in Seq(X)
  BY <1>1, <1>2, ExceptSeq
<1>4. DOMAIN t = DOMAIN s
  OBVIOUS
<1> QED BY <1>3, <1>4, SeriesIs

LongerBy(t, s, v) == Series(t) /\ \A j \in DOMAIN t : t[j] = v \/ (j \in DOMAIN s /\ t[j] = s[j])
LEMMA SeriesAppend == ASSUME NEW s, Series(s), NEW v PROVE LongerBy(Append(s, v), s, v)
<1> PICK t : t = Append(s, v)
  OBVIOUS
<1> PICK X : X = {s[k] : k \in DOMAIN s} \cup {v}
  OBVIOUS
<1>1. s \in Seq(X)
  <2>1. {s[k] : k \in DOMAIN s} \subseteq X
    OBVIOUS
  <2> QED BY <2>1, SeqMonotonic DEF Series
<1> PICK n \in Nat : n = Len(s) /\ DOMAIN s = 1 .. n
  BY <1>1, LenProperties
<1>2. t \in Seq(X) /\ Len(t) = n + 1 /\ t[n + 1] = v /\ \A i \in 1 .. n : t[i] = s[i]
  BY <1>1, AppendProperties
<1>3. DOMAIN t = 1 .. n + 1
  BY <1>2, LenProperties
<1>4. \A j \in 1 .. n + 1 : j \in 1 .. n \/ j = n + 1
  OBVIOUS
<1> QED BY <1>2, <1>3, <1>4, SeriesIs DEF LongerBy

\* The addresses of a link can be dialled.
LEMMA TwoSeries == ASSUME NEW a, NEW b PROVE Series(<<a, b>>)
<1>1. <<a, b>> \in [1 .. 2 -> {a, b}]
  <2>1. DOMAIN <<a, b>> = 1 .. 2 /\ <<a, b>>[1] = a /\ <<a, b>>[2] = b
    OBVIOUS
  <2>2. \A i \in 1 .. 2 : i = 1 \/ i = 2
    OBVIOUS
  <2>3. <<a, b>> = [i \in 1 .. 2 |-> <<a, b>>[i]]
    BY <2>1
  <2> QED BY <2>1, <2>2, <2>3
<1>2. <<a, b>> \in Seq({a, b})
  BY <1>1, SeqDef
<1> QED BY <1>2, SeriesIs
=============================================================================

------------------------------ MODULE RankingProofs ------------------------------
(***************************************************************************)
(* Lemmas about the lists of Ranking, about the sets they are made of, and *)
(* about least and greatest elements.                                      *)
(***************************************************************************)
EXTENDS Ranking, SequencesExt, FiniteSetTheorems, FunctionTheorems, SequenceTheorems,
        WellFoundedInduction, TLAPS

\* R orders the members of S one after another.
Orders(R, S) ==
    /\ \A x \in S: <<x, x>> \notin R
    /\ \A x, y, z \in S: <<x, y>> \in R /\ <<y, z>> \in R => <<x, z>> \in R
    /\ \A x, y \in S: x = y \/ <<x, y>> \in R \/ <<y, x>> \in R

\* Induction on the members of a set: the least number outside it has a predecessor inside.
LEMMA SetInduction ==
    ASSUME NEW S, 0 \in S, \A n \in Nat: n \in S => n + 1 \in S
    PROVE  \A n \in Nat: n \in S
<1> DEFINE T == {n \in Nat: n \notin S}
           R == OpToRel(<, Nat)
<1>1. SUFFICES ASSUME T # {} PROVE FALSE
  OBVIOUS
<1>2. IsWellFoundedOn(R, Nat)
  BY NatLessThanWellFounded
<1>3. T \subseteq Nat
  OBVIOUS
<1>4. \E x \in T: \A y \in T: ~(<<y, x>> \in R)
  <2> HIDE DEF T, R
  <2> QED BY <1>1, <1>2, <1>3, WFMin
<1>5. PICK x \in T: \A y \in T: ~(<<y, x>> \in R)
  BY <1>4
<1>6. x - 1 \in T /\ x - 1 < x
  OBVIOUS
<1>7. <<x - 1, x>> \in R
  BY <1>6, <1>3 DEF OpToRel
<1> QED BY <1>5, <1>6, <1>7

\* The more precede an item, the more precede those behind it.
LEMMA RankGrows ==
    ASSUME NEW S, IsFiniteSet(S), NEW R, Orders(R, S), NEW x \in S, NEW y \in S, <<x, y>> \in R
    PROVE  Cardinality(Preceding(S, R, x)) < Cardinality(Preceding(S, R, y))
<1>1. /\ Preceding(S, R, y) \in SUBSET S
      /\ Preceding(S, R, x) \in SUBSET Preceding(S, R, y)
      /\ x \in Preceding(S, R, y) /\ x \notin Preceding(S, R, x)
  BY DEF Preceding, Orders
<1>2. IsFiniteSet(Preceding(S, R, y))
  BY <1>1, FS_Subset
<1>3. Cardinality(Preceding(S, R, y)) \in Nat
  BY <1>2, FS_CardinalityType
<1>4. /\ Cardinality(Preceding(S, R, x)) <= Cardinality(Preceding(S, R, y))
      /\ Cardinality(Preceding(S, R, y)) = Cardinality(Preceding(S, R, x))
            => Preceding(S, R, y) = Preceding(S, R, x)
      /\ IsFiniteSet(Preceding(S, R, x))
  BY <1>1, <1>2, FS_Subset
<1>5. Cardinality(Preceding(S, R, x)) \in Nat
  BY <1>4, FS_CardinalityType
<1> QED BY <1>1, <1>3, <1>4, <1>5

\* Every place is somebody's, and nobody else's.
LEMMA RankIsUnique ==
    ASSUME NEW S, IsFiniteSet(S), NEW R, Orders(R, S)
    PROVE  /\ Cardinality(S) \in Nat
           /\ \A x \in S: Cardinality(Preceding(S, R, x)) \in 0 .. Cardinality(S) - 1
           /\ \A x, y \in S:
                 Cardinality(Preceding(S, R, x)) = Cardinality(Preceding(S, R, y)) => x = y
           /\ \A r \in 0 .. Cardinality(S) - 1: \E x \in S: Cardinality(Preceding(S, R, x)) = r
<1> DEFINE n == Cardinality(S)
           f == [x \in S |-> Cardinality(Preceding(S, R, x))]
<1>1. n \in Nat
  BY FS_CardinalityType
<1>2. ASSUME NEW x \in S PROVE f[x] \in 0 .. n - 1
  <2>1. Preceding(S, R, x) \in SUBSET (S \ {x}) /\ IsFiniteSet(S \ {x})
    BY FS_RemoveElement DEF Preceding, Orders
  <2>2. /\ Cardinality(S \ {x}) = n - 1
        /\ IsFiniteSet(Preceding(S, R, x))
        /\ Cardinality(Preceding(S, R, x)) <= Cardinality(S \ {x})
    BY <2>1, FS_RemoveElement, FS_Subset
  <2>3. Cardinality(Preceding(S, R, x)) \in Nat
    BY <2>2, FS_CardinalityType
  <2> QED BY <1>1, <2>2, <2>3
<1>3. ASSUME NEW x \in S, NEW y \in S, f[x] = f[y] PROVE x = y
  <2>1. x = y \/ <<x, y>> \in R \/ <<y, x>> \in R
    BY DEF Orders
  <2>2. CASE <<x, y>> \in R
    BY <2>2, <1>2, <1>3, RankGrows
  <2>3. CASE <<y, x>> \in R
    BY <2>3, <1>2, <1>3, RankGrows
  <2> QED BY <2>1, <2>2, <2>3
<1>4. f \in [S -> 0 .. n - 1]
  BY <1>2
<1> HIDE DEF f
<1>5. f \in Injection(S, 0 .. n - 1)
  BY <1>3, <1>4, Fun_IsInj
<1>6. IsFiniteSet(0 .. n - 1) /\ Cardinality(0 .. n - 1) = n
  BY <1>1, FS_Interval
<1>7. f \in Surjection(S, 0 .. n - 1)
  BY <1>5, <1>6, FS_Injection
<1>8. \A r \in 0 .. n - 1: \E x \in S: f[x] = r
  <2> HIDE DEF n
  <2> QED BY <1>7, Fun_SurjectionProperties
<1> QED BY <1>1, <1>2, <1>3, <1>8 DEF f

\* A ranked list holds each member of the set once, and keeps its order.
LEMMA RankedList ==
    ASSUME NEW S, IsFiniteSet(S), NEW R, Orders(R, S)
    PROVE  /\ Cardinality(S) \in Nat
           /\ Ranked(S, R) \in [1 .. Cardinality(S) -> S]
           /\ \A k \in 1 .. Cardinality(S): Cardinality(Preceding(S, R, Ranked(S, R)[k])) = k - 1
           /\ \A x \in S: \E k \in 1 .. Cardinality(S): Ranked(S, R)[k] = x
           /\ \A i, j \in 1 .. Cardinality(S):
                 i < j <=> <<Ranked(S, R)[i], Ranked(S, R)[j]>> \in R
<1> DEFINE n == Cardinality(S)
           f == [x \in S |-> Cardinality(Preceding(S, R, x))]
           s == Ranked(S, R)
<1>1. n \in Nat
  BY FS_CardinalityType
<1>2. \A x \in S: f[x] \in 0 .. n - 1
  BY RankIsUnique
<1>3. \A r \in 0 .. n - 1: \E x \in S: f[x] = r
  BY RankIsUnique
<1>4. \A x, y \in S: f[x] = f[y] => x = y
  BY RankIsUnique
<1>6. ASSUME NEW k \in 1 .. n PROVE s[k] \in S /\ f[s[k]] = k - 1
  <2>1. \E x \in S: Cardinality(Preceding(S, R, x)) = k - 1
    BY <1>1, <1>3
  <2>2. s[k] = CHOOSE x \in S: Cardinality(Preceding(S, R, x)) = k - 1
    BY DEF Ranked
  <2>3. s[k] \in S /\ Cardinality(Preceding(S, R, s[k])) = k - 1
    BY <2>1, <2>2
  <2> QED BY <2>3
<1>7. s \in [1 .. n -> S]
  BY <1>6 DEF Ranked
<1>8. ASSUME NEW x \in S PROVE \E k \in 1 .. n: s[k] = x
  <2>1. f[x] + 1 \in 1 .. n
    BY <1>1, <1>2
  <2>2. f[s[f[x] + 1]] = f[x] /\ s[f[x] + 1] \in S
    BY <1>1, <1>2, <1>6, <2>1
  <2> HIDE DEF f, s
  <2>3. s[f[x] + 1] = x
    BY <1>4, <2>2
  <2> QED BY <2>1, <2>3
<1>9. ASSUME NEW i \in 1 .. n, NEW j \in 1 .. n
      PROVE  i < j <=> <<s[i], s[j]>> \in R
  <2>1. s[i] \in S /\ s[j] \in S /\ f[s[i]] = i - 1 /\ f[s[j]] = j - 1
    BY <1>6
  <2>2. <<s[i], s[j]>> \in R => f[s[i]] < f[s[j]]
    <3> HIDE DEF s
    <3> QED BY <2>1, RankGrows
  <2>3. <<s[j], s[i]>> \in R => f[s[j]] < f[s[i]]
    <3> HIDE DEF s
    <3> QED BY <2>1, RankGrows
  <2>4. s[i] = s[j] \/ <<s[i], s[j]>> \in R \/ <<s[j], s[i]>> \in R
    BY <2>1 DEF Orders
  <2> HIDE DEF f, s
  <2> QED BY <1>1, <2>1, <2>2, <2>3, <2>4
<1> QED BY <1>1, <1>6, <1>7, <1>8, <1>9

\* Two sets whose orders correspond are listed alike.
LEMMA RankedAlike ==
    ASSUME NEW S, IsFiniteSet(S), NEW R, Orders(R, S),
           NEW T, IsFiniteSet(T), NEW Q, Orders(Q, T),
           NEW g \in [S -> T], \A t \in T: \E x \in S: g[x] = t,
           \A x, y \in S: <<x, y>> \in R <=> <<g[x], g[y]>> \in Q
    PROVE  /\ Cardinality(T) = Cardinality(S)
           /\ \A k \in 1 .. Cardinality(S): Ranked(T, Q)[k] = g[Ranked(S, R)[k]]
<1> DEFINE n == Cardinality(S)
           s == Ranked(S, R)
           u == Ranked(T, Q)
<1>1. \A x, y \in S: g[x] = g[y] => x = y
  BY DEF Orders
<1>2. g \in Bijection(S, T)
  BY <1>1, Fun_IsBij
<1>3. Cardinality(T) = n
  BY <1>2, FS_Bijection DEF ExistsBijection
<1>4. ASSUME NEW x \in S
      PROVE  Cardinality(Preceding(T, Q, g[x])) = Cardinality(Preceding(S, R, x))
  <2> DEFINE A == Preceding(S, R, x)
             B == Preceding(T, Q, g[x])
             h == [y \in A |-> g[y]]
  <2>1. A \in SUBSET S
    BY DEF Preceding
  <2>2. h \in [A -> B]
    BY <2>1 DEF Preceding
  <2>3. \A t \in B: \E y \in A: h[y] = t
    BY DEF Preceding
  <2>4. \A y, z \in A: h[y] = h[z] => y = z
    BY <1>1, <2>1
  <2>5. IsFiniteSet(A)
    BY <2>1, FS_Subset
  <2> HIDE DEF A, B, h
  <2>6. h \in Bijection(A, B)
    BY <2>2, <2>3, <2>4, Fun_IsBij
  <2> QED BY <2>5, <2>6, FS_Bijection DEF ExistsBijection, A, B
<1>5. ASSUME NEW k \in 1 .. n PROVE u[k] = g[s[k]]
  <2>1. s[k] \in S /\ Cardinality(Preceding(S, R, s[k])) = k - 1
    BY RankedList
  <2>2. u[k] \in T /\ Cardinality(Preceding(T, Q, u[k])) = k - 1
    <3> DEFINE m == Cardinality(T)
    <3>1. /\ u \in [1 .. m -> T]
          /\ \A i \in 1 .. m: Cardinality(Preceding(T, Q, u[i])) = i - 1
      BY RankedList
    <3> HIDE DEF u
    <3>2. k \in 1 .. m
      BY <1>3
    <3> QED BY <3>1, <3>2
  <2>3. g[s[k]] \in T /\ Cardinality(Preceding(T, Q, g[s[k]])) = k - 1
    BY <1>4, <2>1
  <2> QED BY <2>2, <2>3, RankIsUnique
<1> QED BY <1>3, <1>5

IsLess(S) == {d \in S \X S: d[1] < d[2]}

\* Ascending lists a finite set of numbers from the least to the greatest.
LEMMA AscendingList ==
    ASSUME NEW S \in SUBSET Int, IsFiniteSet(S)
    PROVE  /\ Cardinality(S) \in Nat
           /\ Ascending(S) \in [1 .. Cardinality(S) -> S]
           /\ \A x \in S: \E k \in 1 .. Cardinality(S): Ascending(S)[k] = x
           /\ \A i, j \in 1 .. Cardinality(S): i < j <=> Ascending(S)[i] < Ascending(S)[j]
<1>1. Orders(IsLess(S), S)
  BY DEF Orders, IsLess
<1> DEFINE n == Cardinality(S)
           R == IsLess(S)
           s == Ranked(S, R)
<1>2. /\ n \in Nat /\ s \in [1 .. n -> S]
      /\ \A k \in 1 .. n: Cardinality(Preceding(S, R, s[k])) = k - 1
      /\ \A x \in S: \E k \in 1 .. n: s[k] = x
      /\ \A i, j \in 1 .. n: i < j <=> <<s[i], s[j]>> \in R
  <2> HIDE DEF R
  <2> QED BY <1>1, RankedList DEF R
<1>3. \A x \in S: {y \in S: y < x} = Preceding(S, R, x)
  BY DEF Preceding, IsLess
<1>4. \A i, j \in 1 .. n: <<s[i], s[j]>> \in R <=> s[i] < s[j]
  <2> HIDE DEF s
  <2> QED BY <1>2 DEF IsLess
<1>5. ASSUME NEW k \in 1 .. n PROVE Ascending(S)[k] = s[k]
  <2> HIDE DEF R, s
  <2>1. s[k] \in S /\ Cardinality({y \in S: y < s[k]}) = k - 1
    BY <1>2, <1>3
  <2>2. Ascending(S)[k] = CHOOSE x \in S: Cardinality({y \in S: y < x}) = k - 1
    BY DEF Ascending
  <2>3. Ascending(S)[k] \in S /\ Cardinality({y \in S: y < Ascending(S)[k]}) = k - 1
    BY <2>1, <2>2
  <2>4. Cardinality(Preceding(S, R, Ascending(S)[k])) = Cardinality(Preceding(S, R, s[k]))
    BY <1>3, <2>1, <2>3
  <2> QED BY <1>1, <2>1, <2>3, <2>4, RankIsUnique DEF R
<1> HIDE DEF R, s
<1>6. Ascending(S) \in [1 .. n -> S]
  <2>1. \A k \in 1 .. n: Ascending(S)[k] \in S
    BY <1>2, <1>5
  <2> QED BY <2>1 DEF Ascending
<1> HIDE DEF n
<1>7. Ascending(S) = s
  BY <1>2, <1>5, <1>6
<1> QED BY <1>2, <1>4, <1>7 DEF n

\* A list is a function whose domain is 1 .. n.
LEMMA ListIsASeq ==
    ASSUME NEW S, NEW n \in Nat, NEW s \in [1 .. n -> S]
    PROVE  s \in Seq(S) /\ Len(s) = n /\ DOMAIN s = 1 .. n
OBVIOUS

LEMMA ToSetOfSeq ==
    ASSUME NEW S, NEW s \in Seq(S)
    PROVE  /\ ToSet(s) = {s[i]: i \in 1 .. Len(s)}
           /\ ToSet(s) \subseteq S
           /\ s \in Seq(ToSet(s))
           /\ IsFiniteSet(ToSet(s))
<1>1. Len(s) \in Nat /\ s \in [1 .. Len(s) -> S] /\ DOMAIN s = 1 .. Len(s)
  BY LenProperties
<1>2. ToSet(s) = {s[i]: i \in 1 .. Len(s)}
  BY <1>1 DEF ToSet
<1>3. s \in [1 .. Len(s) -> ToSet(s)]
  BY <1>1, <1>2
<1>4. s \in Seq(ToSet(s))
  <2> DEFINE n == Len(s)
             T == ToSet(s)
  <2>1. n \in Nat /\ s \in [1 .. n -> T]
    BY <1>1, <1>3
  <2> HIDE DEF n, T
  <2>2. s \in Seq(T)
    BY <2>1, ListIsASeq
  <2> QED BY <2>2 DEF T
<1>5. s \in Surjection(1 .. Len(s), ToSet(s))
  <2> DEFINE T == ToSet(s)
  <2>1. s \in [1 .. Len(s) -> T] /\ \A t \in T: \E i \in 1 .. Len(s): s[i] = t
    BY <1>2, <1>3
  <2> HIDE DEF T
  <2>2. s \in Surjection(1 .. Len(s), T)
    BY <2>1, Fun_IsSurj
  <2> QED BY <2>2 DEF T
<1>6. IsFiniteSet(1 .. Len(s))
  BY <1>1, FS_Interval
<1>7. IsFiniteSet(ToSet(s))
  BY <1>5, <1>6, FS_Surjection
<1> QED BY <1>1, <1>2, <1>4, <1>7

LEMMA ToSetOfConcat ==
    ASSUME NEW S, NEW s \in Seq(S), NEW t \in Seq(S)
    PROVE  ToSet(s \o t) = ToSet(s) \cup ToSet(t) /\ s \o t \in Seq(S)
<1>1. /\ s \o t \in Seq(S) /\ Len(s) \in Nat /\ Len(t) \in Nat
      /\ Len(s \o t) = Len(s) + Len(t)
      /\ \A i \in 1 .. Len(s) + Len(t):
            (s \o t)[i] = IF i <= Len(s) THEN s[i] ELSE t[i - Len(s)]
  BY ConcatProperties, LenProperties
<1>2. /\ ToSet(s \o t) = {(s \o t)[i]: i \in 1 .. Len(s) + Len(t)}
      /\ ToSet(s) = {s[i]: i \in 1 .. Len(s)}
      /\ ToSet(t) = {t[i]: i \in 1 .. Len(t)}
  BY <1>1, ToSetOfSeq
<1>3. ASSUME NEW x \in ToSet(s) PROVE x \in ToSet(s \o t)
  <2>1. PICK i \in 1 .. Len(s): x = s[i]
    BY <1>2
  <2>2. i \in 1 .. Len(s) + Len(t) /\ (s \o t)[i] = x
    BY <1>1, <2>1
  <2> QED BY <1>2, <2>2
<1>4. ASSUME NEW x \in ToSet(t) PROVE x \in ToSet(s \o t)
  <2>1. PICK i \in 1 .. Len(t): x = t[i]
    BY <1>2
  <2>2. i + Len(s) \in 1 .. Len(s) + Len(t) /\ (s \o t)[i + Len(s)] = x
    BY <1>1, <2>1
  <2> QED BY <1>2, <2>2
<1>5. ASSUME NEW x \in ToSet(s \o t) PROVE x \in ToSet(s) \cup ToSet(t)
  <2>1. PICK i \in 1 .. Len(s) + Len(t): x = (s \o t)[i]
    BY <1>2
  <2>2. CASE i <= Len(s)
    BY <1>1, <1>2, <2>1, <2>2
  <2>3. CASE ~(i <= Len(s))
    <3>1. i - Len(s) \in 1 .. Len(t) /\ x = t[i - Len(s)]
      BY <1>1, <2>1, <2>3
    <3> QED BY <1>2, <3>1
  <2> QED BY <2>2, <2>3
<1> QED BY <1>1, <1>3, <1>4, <1>5

\* The items at the positions I, and no others.
LEMMA ItemsAtList ==
    ASSUME NEW S, NEW I \in SUBSET Int, IsFiniteSet(I), NEW s, \A i \in I: s[i] \in S
    PROVE  /\ ItemsAt(s, I) \in Seq(S)
           /\ Len(ItemsAt(s, I)) = Cardinality(I)
           /\ ToSet(ItemsAt(s, I)) = {s[i]: i \in I}
<1> DEFINE n == Cardinality(I)
           a == Ascending(I)
<1>1. n \in Nat /\ a \in [1 .. n -> I] /\ \A x \in I: \E k \in 1 .. n: a[k] = x
  BY AscendingList
<1> HIDE DEF a
<1>2. ItemsAt(s, I) = [k \in 1 .. n |-> s[a[k]]]
  BY <1>1 DEF ItemsAt, a
<1> HIDE DEF n
<1>3. ItemsAt(s, I) \in [1 .. n -> S]
  BY <1>1, <1>2
<1>4. ItemsAt(s, I) \in Seq(S) /\ Len(ItemsAt(s, I)) = n
  BY <1>1, <1>3, ListIsASeq
<1>5. ToSet(ItemsAt(s, I)) = {s[a[k]]: k \in 1 .. n}
  BY <1>2 DEF ToSet
<1>6. {s[a[k]]: k \in 1 .. n} = {s[i]: i \in I}
  BY <1>1
<1> QED BY <1>4, <1>5, <1>6 DEF n

\* Of a sequence, they are a subsequence.
LEMMA ItemsOfSeq ==
    ASSUME NEW S, NEW s \in Seq(S), NEW I \in SUBSET DOMAIN s
    PROVE  /\ ItemsAt(s, I) \in Seq(S)
           /\ ToSet(ItemsAt(s, I)) = {s[i]: i \in I}
<1>1. Len(s) \in Nat /\ s \in [1 .. Len(s) -> S] /\ DOMAIN s = 1 .. Len(s)
  BY LenProperties
<1>2. IsFiniteSet(1 .. Len(s))
  BY <1>1, FS_Interval
<1>3. IsFiniteSet(I)
  BY <1>1, <1>2, FS_Subset
<1>4. I \in SUBSET Int /\ \A i \in I: s[i] \in S
  BY <1>1
<1> QED BY <1>3, <1>4, ItemsAtList

\* A finite set of numbers has a least and a greatest one.
LEMMA UpTo ==
    ASSUME NEW n \in Nat
    PROVE  IsFiniteSet(1 .. n) /\ Cardinality(1 .. n) = n
<1>1. IsFiniteSet(1 .. n)
  BY FS_Interval
<1>2. Cardinality(1 .. n) = IF 1 > n THEN 0 ELSE n - 1 + 1
  BY FS_Interval
<1>3. Cardinality(1 .. n) = n
  BY <1>2
<1> QED BY <1>1, <1>3

LEMMA FiniteImage ==
    ASSUME NEW S, IsFiniteSet(S), NEW U, NEW f \in [S -> U], \A u \in U: \E x \in S: f[x] = u
    PROVE  IsFiniteSet(U)
<1>1. f \in Surjection(S, U)
  BY Fun_IsSurj
<1> QED BY <1>1, FS_Surjection

LEMMA LeastAndGreatest ==
    ASSUME NEW a \in Int, NEW b \in Int
    PROVE  /\ Min({a, b}) \in {a, b} /\ Min({a, b}) <= a /\ Min({a, b}) <= b
           /\ Max({a, b}) \in {a, b} /\ Max({a, b}) >= a /\ Max({a, b}) >= b
<1>1. \E x \in {a, b}: \A y \in {a, b}: x <= y
  OBVIOUS
<1>2. \E x \in {a, b}: \A y \in {a, b}: x >= y
  OBVIOUS
<1>3. Min({a, b}) \in {a, b} /\ \A y \in {a, b}: Min({a, b}) <= y
  BY <1>1 DEF Min
<1>4. Max({a, b}) \in {a, b} /\ \A y \in {a, b}: Max({a, b}) >= y
  BY <1>2 DEF Max
<1> QED BY <1>3, <1>4

LEMMA MinMax ==
    ASSUME NEW S \in SUBSET Int, IsFiniteSet(S), S # {}
    PROVE  /\ Min(S) \in S /\ \A y \in S: Min(S) <= y
           /\ Max(S) \in S /\ \A y \in S: Max(S) >= y
<1> DEFINE n == Cardinality(S)
           a == Ascending(S)
<1>1. /\ n \in Nat /\ a \in [1 .. n -> S] /\ \A x \in S: \E k \in 1 .. n: a[k] = x
      /\ \A i, j \in 1 .. n: i < j <=> a[i] < a[j]
  BY AscendingList
<1> HIDE DEF a, n
<1>2. 1 \in 1 .. n /\ n \in 1 .. n /\ a[1] \in S /\ a[n] \in S
  <2>1. PICK x: x \in S
    OBVIOUS
  <2>2. PICK k \in 1 .. n: a[k] = x
    BY <1>1, <2>1
  <2>3. 1 \in 1 .. n /\ n \in 1 .. n
    BY <1>1, <2>2
  <2> QED BY <1>1, <2>3
<1>3. ASSUME NEW y \in S PROVE a[1] <= y /\ a[n] >= y
  <2>1. PICK k \in 1 .. n: a[k] = y
    BY <1>1
  <2>2. ~(k < 1) /\ ~(n < k)
    BY <1>1
  <2>3. ~(a[k] < a[1]) /\ ~(a[n] < a[k])
    BY <1>1, <1>2, <2>2
  <2>4. a[k] \in Int /\ a[1] \in Int /\ a[n] \in Int
    BY <1>2, <2>1
  <2> QED BY <2>1, <2>3, <2>4
<1>4. \E x \in S: \A y \in S: x <= y
  BY <1>2, <1>3
<1>5. \E x \in S: \A y \in S: x >= y
  BY <1>2, <1>3
<1> QED BY <1>4, <1>5 DEF Min, Max

\* The function that concatenates the first i lists exists: it grows by one list at a time.
LEMMA ConcatenationExists ==
    ASSUME NEW x, NEW n \in Nat
    PROVE  \E g: g = [i \in 1 .. n |-> IF i = 1 THEN x[i] ELSE g[i - 1] \o x[i]]
<1> DEFINE Good(m) == \E g: g = [i \in 1 .. m |-> IF i = 1 THEN x[i] ELSE g[i - 1] \o x[i]]
           S == {m \in Nat: Good(m)}
<1>1. 0 \in S
  <2>1. [i \in 1 .. 0 |-> <<>>] =
           [i \in 1 .. 0 |-> IF i = 1 THEN x[i] ELSE [j \in 1 .. 0 |-> <<>>][i - 1] \o x[i]]
    OBVIOUS
  <2>2. Good(0)
    BY <2>1
  <2> QED BY <2>2
<1>2. ASSUME NEW m \in Nat, m \in S PROVE m + 1 \in S
  <2>1. PICK g: g = [i \in 1 .. m |-> IF i = 1 THEN x[i] ELSE g[i - 1] \o x[i]]
    BY <1>2
  <2> DEFINE h == [i \in 1 .. m + 1 |->
                      IF i = 1 THEN x[i] ELSE IF i = m + 1 THEN g[m] \o x[i] ELSE g[i]]
  <2>2. ASSUME NEW i \in 1 .. m + 1
        PROVE  h[i] = IF i = 1 THEN x[i] ELSE h[i - 1] \o x[i]
    <3>1. CASE i = 1
      BY <3>1
    <3>2. CASE i # 1
      <4>1. i - 1 \in 1 .. m /\ i - 1 \in 1 .. m + 1 /\ i - 1 # m + 1
        BY <3>2
      <4>2. h[i - 1] = g[i - 1]
        <5>1. CASE i - 1 = 1
          <6>1. 1 \in 1 .. m
            BY <4>1, <5>1
          <6>2. g[1] = x[1]
            BY <2>1, <6>1
          <6> QED BY <4>1, <5>1, <6>2
        <5>2. CASE i - 1 # 1
          BY <4>1, <5>2
        <5> QED BY <5>1, <5>2
      <4>3. CASE i = m + 1
        <5>1. i - 1 = m
          BY <4>3
        <5>2. h[i] = g[m] \o x[i]
          BY <3>2, <4>3
        <5> HIDE DEF h
        <5> QED BY <3>2, <4>2, <5>1, <5>2
      <4>4. CASE i # m + 1
        <5>1. i \in 1 .. m
          BY <4>4
        <5>2. g[i] = g[i - 1] \o x[i]
          BY <2>1, <3>2, <5>1
        <5> QED BY <3>2, <4>2, <4>4, <5>2
      <4> QED BY <4>3, <4>4
    <3> QED BY <3>1, <3>2
  <2>3. h = [i \in 1 .. m + 1 |-> h[i]]
    OBVIOUS
  <2> HIDE DEF h
  <2>4. h = [i \in 1 .. m + 1 |-> IF i = 1 THEN x[i] ELSE h[i - 1] \o x[i]]
    BY <2>2, <2>3
  <2>5. Good(m + 1)
    BY <2>4
  <2>6. m + 1 \in Nat
    OBVIOUS
  <2> HIDE DEF Good
  <2> QED BY <2>5, <2>6
<1> HIDE DEF S
<1>3. n \in S
  BY <1>1, <1>2, SetInduction
<1> QED BY <1>3 DEF S

\* The i-th value of g is the concatenation of the first i lists of x.
Concatenates(g, x, n) ==
    \A i \in 1 .. n: g[i] = IF i = 1 THEN x[i] ELSE g[i - 1] \o x[i]

\* Its last value has the items of all the lists.
LEMMA ConcatenationOfAll ==
    ASSUME NEW S, NEW n \in Nat \ {0}, NEW x \in [1 .. n -> Seq(S)], NEW g, Concatenates(g, x, n)
    PROVE  /\ g[n] \in Seq(S)
           /\ ToSet(g[n]) = UNION {ToSet(x[i]): i \in 1 .. n}
<1> DEFINE All(k) == UNION {ToSet(x[i]): i \in 1 .. k}
           T == {k \in Nat: k + 1 <= n => g[k + 1] \in Seq(S) /\ ToSet(g[k + 1]) = All(k + 1)}
<1>a. \A i \in 1 .. n: g[i] = IF i = 1 THEN x[i] ELSE g[i - 1] \o x[i]
  BY DEF Concatenates
<1>1. 0 \in T
  <2>1. 1 \in 1 .. n
    OBVIOUS
  <2>2. g[1] = x[1] /\ x[1] \in Seq(S)
    BY <1>a, <2>1
  <2>3. 1 .. 1 = {1}
    OBVIOUS
  <2>4. All(1) = ToSet(x[1])
    BY <2>3
  <2> HIDE DEF All
  <2> QED BY <2>2, <2>4
<1>2. ASSUME NEW k \in Nat, k \in T PROVE k + 1 \in T
  <2>1. CASE ~(k + 2 <= n)
    BY <2>1
  <2>2. CASE k + 2 <= n
    <3>1. k + 2 \in 1 .. n /\ k + 1 <= n /\ k + 2 # 1 /\ (k + 2) - 1 = k + 1
      BY <2>2
    <3>2. g[k + 2] = g[k + 1] \o x[k + 2] /\ x[k + 2] \in Seq(S)
      <4> HIDE DEF T, All
      <4>1. g[k + 2] = g[(k + 2) - 1] \o x[k + 2]
        BY <1>a, <3>1
      <4> QED BY <3>1, <4>1
    <3>3. g[k + 1] \in Seq(S) /\ ToSet(g[k + 1]) = All(k + 1)
      BY <1>2, <3>1
    <3>4. g[k + 2] \in Seq(S) /\ ToSet(g[k + 2]) = All(k + 1) \cup ToSet(x[k + 2])
      <4> DEFINE s == g[k + 1]
                 t == x[k + 2]
      <4>1. s \in Seq(S) /\ t \in Seq(S)
        BY <3>2, <3>3
      <4> HIDE DEF All, s, t
      <4>2. ToSet(s \o t) = ToSet(s) \cup ToSet(t) /\ s \o t \in Seq(S)
        BY <4>1, ToSetOfConcat
      <4> QED BY <3>2, <3>3, <4>2 DEF s, t
    <3>5. 1 .. k + 2 = (1 .. k + 1) \cup {k + 2}
      OBVIOUS
    <3>6. All(k + 2) = All(k + 1) \cup ToSet(x[k + 2])
      BY <3>5
    <3>7. (k + 1) + 1 = k + 2 /\ k + 1 \in Nat
      OBVIOUS
    <3> HIDE DEF All
    <3>8. g[(k + 1) + 1] \in Seq(S) /\ ToSet(g[(k + 1) + 1]) = All((k + 1) + 1)
      BY <3>4, <3>6, <3>7
    <3> QED BY <3>7, <3>8
  <2> QED BY <2>1, <2>2
<1> HIDE DEF T
<1>3. n - 1 \in T
  <2>1. n - 1 \in Nat
    OBVIOUS
  <2> QED BY <1>1, <1>2, <2>1, SetInduction
<1>4. n - 1 + 1 = n
  OBVIOUS
<1> HIDE DEF All
<1>5. g[n] \in Seq(S) /\ ToSet(g[n]) = All(n)
  BY <1>3, <1>4 DEF T
<1> QED BY <1>5 DEF All

LEMMA FlattenedSeq ==
    ASSUME NEW S, NEW ss \in Seq(Seq(S))
    PROVE  /\ FlattenSeq(ss) \in Seq(S)
           /\ ToSet(FlattenSeq(ss)) = UNION {ToSet(ss[i]): i \in 1 .. Len(ss)}
<1> DEFINE n == Len(ss)
           f == CHOOSE g: g = [i \in 1 .. n |-> IF i = 1 THEN ss[i] ELSE g[i - 1] \o ss[i]]
<1>1. n \in Nat /\ ss \in [1 .. n -> Seq(S)]
  BY LenProperties
<1>2. CASE n = 0
  <2>1. FlattenSeq(ss) = ss /\ ss = <<>>
    BY <1>1, <1>2 DEF FlattenSeq
  <2>2. ToSet(ss) = {} /\ UNION {ToSet(ss[i]): i \in 1 .. 0} = {} /\ <<>> \in Seq(S)
    BY <2>1 DEF ToSet
  <2> QED BY <1>2, <2>1, <2>2
<1>3. CASE n # 0
  <2>1. FlattenSeq(ss) = f[n]
    BY <1>3 DEF FlattenSeq
  <2> HIDE DEF n
  <2>2. \E g: g = [i \in 1 .. n |-> IF i = 1 THEN ss[i] ELSE g[i - 1] \o ss[i]]
    BY <1>1, ConcatenationExists
  <2>3. f = [i \in 1 .. n |-> IF i = 1 THEN ss[i] ELSE f[i - 1] \o ss[i]]
    BY <2>2
  <2> HIDE DEF f
  <2>4. \A i \in 1 .. n: f[i] = IF i = 1 THEN ss[i] ELSE f[i - 1] \o ss[i]
    BY <2>3
  <2>5. Concatenates(f, ss, n) /\ n \in Nat \ {0}
    BY <1>1, <1>3, <2>4 DEF Concatenates
  <2>6. f[n] \in Seq(S) /\ ToSet(f[n]) = UNION {ToSet(ss[i]): i \in 1 .. n}
    BY <1>1, <2>5, ConcatenationOfAll
  <2> QED BY <2>1, <2>6 DEF n
<1> QED BY <1>2, <1>3
=================================================================================

------------------------------ MODULE HierarchyProofs ------------------------------
(***************************************************************************)
(* Theorems about Hierarchy, for every list of blocks and every answer of  *)
(* the language model: each well-formed id is in the tree once, the        *)
(* reading order keeps what geometric_pre_sorter promises, and the edges   *)
(* of the tree are the answer's or are told of.                            *)
(***************************************************************************)
EXTENDS Hierarchy, RankingProofs

---------------------------------------------------------------------------
(* Sort keys *)

Key == Int \X Int \X Int \X Int \X Int

\* The order of the tuples, component by component.
LEMMA LessByComponent ==
    ASSUME NEW k \in Key, NEW l \in Key
    PROVE  Less(k, l) <=>
              \/ k[1] < l[1]
              \/ k[1] = l[1] /\ k[2] < l[2]
              \/ k[1] = l[1] /\ k[2] = l[2] /\ k[3] < l[3]
              \/ k[1] = l[1] /\ k[2] = l[2] /\ k[3] = l[3] /\ k[4] < l[4]
              \/ k[1] = l[1] /\ k[2] = l[2] /\ k[3] = l[3] /\ k[4] = l[4] /\ k[5] < l[5]
<1> DEFINE Differ(i) == k[i] < l[i] /\ \A j \in 1 .. i - 1: k[j] = l[j]
<1>1. DOMAIN k = {1, 2, 3, 4, 5}
  BY DEF Key
<1>2. /\ Differ(1) <=> k[1] < l[1]
      /\ Differ(2) <=> k[1] = l[1] /\ k[2] < l[2]
      /\ Differ(3) <=> k[1] = l[1] /\ k[2] = l[2] /\ k[3] < l[3]
      /\ Differ(4) <=> k[1] = l[1] /\ k[2] = l[2] /\ k[3] = l[3] /\ k[4] < l[4]
      /\ Differ(5) <=> k[1] = l[1] /\ k[2] = l[2] /\ k[3] = l[3] /\ k[4] = l[4] /\ k[5] < l[5]
  <2>1. /\ 1 .. 1 - 1 = {} /\ 1 .. 2 - 1 = {1} /\ 1 .. 3 - 1 = {1, 2}
        /\ 1 .. 4 - 1 = {1, 2, 3} /\ 1 .. 5 - 1 = {1, 2, 3, 4}
    OBVIOUS
  <2> QED BY <2>1
<1>3. Less(k, l) <=> \E i \in DOMAIN k: Differ(i)
  BY DEF Less
<1> HIDE DEF Differ
<1>4. Less(k, l) <=> Differ(1) \/ Differ(2) \/ Differ(3) \/ Differ(4) \/ Differ(5)
  BY <1>1, <1>3
<1> QED BY <1>2, <1>4

\* Keys stand one after another.
LEMMA KeysAreOrdered ==
    ASSUME NEW keys \in SUBSET Key
    PROVE  Orders(ReadsBefore(keys), keys)
<1>1. ASSUME NEW k \in keys, NEW l \in keys
      PROVE  <<k, l>> \in ReadsBefore(keys) <=> Less(k, l)
  BY DEF ReadsBefore
<1>2. ASSUME NEW k \in keys PROVE ~Less(k, k)
  <2>1. k \in Key /\ k[1] \in Int /\ k[2] \in Int /\ k[3] \in Int /\ k[4] \in Int /\ k[5] \in Int
    BY DEF Key
  <2> QED BY <2>1, LessByComponent
<1>3. ASSUME NEW k \in keys, NEW l \in keys, NEW m \in keys, Less(k, l), Less(l, m)
      PROVE  Less(k, m)
  <2>1. k \in Key /\ k[1] \in Int /\ k[2] \in Int /\ k[3] \in Int /\ k[4] \in Int /\ k[5] \in Int
    BY DEF Key
  <2>2. l \in Key /\ l[1] \in Int /\ l[2] \in Int /\ l[3] \in Int /\ l[4] \in Int /\ l[5] \in Int
    BY DEF Key
  <2>3. m \in Key /\ m[1] \in Int /\ m[2] \in Int /\ m[3] \in Int /\ m[4] \in Int /\ m[5] \in Int
    BY DEF Key
  <2>4. \/ k[1] < l[1]
        \/ k[1] = l[1] /\ k[2] < l[2]
        \/ k[1] = l[1] /\ k[2] = l[2] /\ k[3] < l[3]
        \/ k[1] = l[1] /\ k[2] = l[2] /\ k[3] = l[3] /\ k[4] < l[4]
        \/ k[1] = l[1] /\ k[2] = l[2] /\ k[3] = l[3] /\ k[4] = l[4] /\ k[5] < l[5]
    BY <1>3, <2>1, <2>2, LessByComponent
  <2>5. \/ l[1] < m[1]
        \/ l[1] = m[1] /\ l[2] < m[2]
        \/ l[1] = m[1] /\ l[2] = m[2] /\ l[3] < m[3]
        \/ l[1] = m[1] /\ l[2] = m[2] /\ l[3] = m[3] /\ l[4] < m[4]
        \/ l[1] = m[1] /\ l[2] = m[2] /\ l[3] = m[3] /\ l[4] = m[4] /\ l[5] < m[5]
    BY <1>3, <2>2, <2>3, LessByComponent
  <2>6. \/ k[1] < m[1]
        \/ k[1] = m[1] /\ k[2] < m[2]
        \/ k[1] = m[1] /\ k[2] = m[2] /\ k[3] < m[3]
        \/ k[1] = m[1] /\ k[2] = m[2] /\ k[3] = m[3] /\ k[4] < m[4]
        \/ k[1] = m[1] /\ k[2] = m[2] /\ k[3] = m[3] /\ k[4] = m[4] /\ k[5] < m[5]
    BY <2>1, <2>2, <2>3, <2>4, <2>5
  <2> QED BY <2>1, <2>3, <2>6, LessByComponent
<1>4. ASSUME NEW k \in keys, NEW l \in keys
      PROVE  k = l \/ Less(k, l) \/ Less(l, k)
  <2>1. k \in Key /\ k[1] \in Int /\ k[2] \in Int /\ k[3] \in Int /\ k[4] \in Int /\ k[5] \in Int
    BY DEF Key
  <2>2. l \in Key /\ l[1] \in Int /\ l[2] \in Int /\ l[3] \in Int /\ l[4] \in Int /\ l[5] \in Int
    BY DEF Key
  <2>3. k[1] = l[1] /\ k[2] = l[2] /\ k[3] = l[3] /\ k[4] = l[4] /\ k[5] = l[5] => k = l
    BY <2>1, <2>2 DEF Key
  <2> QED BY <2>1, <2>2, <2>3, LessByComponent
<1>5. \A k \in keys: <<k, k>> \notin ReadsBefore(keys)
  BY <1>1, <1>2
<1>6. \A k, l, m \in keys:
         <<k, l>> \in ReadsBefore(keys) /\ <<l, m>> \in ReadsBefore(keys)
            => <<k, m>> \in ReadsBefore(keys)
  BY <1>1, <1>3
<1>7. \A k, l \in keys:
         k = l \/ <<k, l>> \in ReadsBefore(keys) \/ <<l, k>> \in ReadsBefore(keys)
  BY <1>1, <1>4
<1> QED BY <1>5, <1>6, <1>7 DEF Orders

---------------------------------------------------------------------------
(* Blocks of a page *)

\* What a page is made of: finitely many blocks, so it has a left and a right end.
LEMMA PagesAreFinite ==
    ASSUME NEW bs \in Seq(Block), NEW b \in ToSet(bs)
    PROVE  /\ PageOf(bs, b) \in SUBSET Block /\ IsFiniteSet(PageOf(bs, b)) /\ b \in PageOf(bs, b)
           /\ Span(PageOf(bs, b)) \in Int
<1> DEFINE page == PageOf(bs, b)
<1>1. ToSet(bs) \in SUBSET Block /\ IsFiniteSet(ToSet(bs))
  BY ToSetOfSeq
<1>2. page \in SUBSET ToSet(bs) /\ b \in page
  BY DEF PageOf
<1> HIDE DEF page
<1>3. IsFiniteSet(page) /\ page \in SUBSET Block
  BY <1>1, <1>2, FS_Subset
<1>4. {c.right: c \in page} \in SUBSET Int /\ {c.left: c \in page} \in SUBSET Int
  BY <1>3 DEF Block
<1>5. {c.right: c \in page} # {} /\ {c.left: c \in page} # {}
  BY <1>2
<1>6. IsFiniteSet({c.right: c \in page}) /\ IsFiniteSet({c.left: c \in page})
  <2> DEFINE R == {c.right: c \in page}
             L == {c.left: c \in page}
             right == [c \in page |-> c.right]
             left == [c \in page |-> c.left]
  <2>1. /\ right \in [page -> R] /\ \A x \in R: \E c \in page: right[c] = x
        /\ left \in [page -> L] /\ \A x \in L: \E c \in page: left[c] = x
    OBVIOUS
  <2> HIDE DEF R, L, right, left
  <2>2. IsFiniteSet(R) /\ IsFiniteSet(L)
    BY <1>3, <2>1, FiniteImage
  <2> QED BY <2>2 DEF R, L
<1>7. Max({c.right: c \in page}) \in Int /\ Min({c.left: c \in page}) \in Int
  <2> DEFINE R == {c.right: c \in page}
             L == {c.left: c \in page}
  <2>1. R \in SUBSET Int /\ R # {} /\ IsFiniteSet(R) /\ L \in SUBSET Int /\ L # {} /\ IsFiniteSet(L)
    BY <1>4, <1>5, <1>6
  <2> HIDE DEF R, L
  <2>2. Max(R) \in R /\ Min(L) \in L
    BY <2>1, MinMax
  <2>3. Max(R) \in Int /\ Min(L) \in Int
    BY <2>1, <2>2
  <2> QED BY <2>3 DEF R, L
<1>8. Span(page) \in Int
  BY <1>7 DEF Span
<1> QED BY <1>2, <1>3, <1>8 DEF page

\* The bands are numbered, and those of a page grow with the height of the cut.
LEMMA BandsAreNumbered ==
    ASSUME NEW page \in SUBSET Block, IsFiniteSet(page), NEW y \in Int
    PROVE  /\ BandOf(page, y) \in Nat
           /\ \A f \in page: IsFull(page, f) /\ f.top > y => BandOf(page, y) < BandOf(page, f.top)
           /\ (\A f \in page: IsFull(page, f) => f.top > y) => BandOf(page, y) = 0
<1> DEFINE Above(z) == {f \in page: IsFull(page, f) /\ z >= f.top}
<1>1. \A z: IsFiniteSet(Above(z)) /\ Cardinality(Above(z)) \in Nat
  <2> TAKE z
  <2>1. Above(z) \in SUBSET page
    OBVIOUS
  <2>2. IsFiniteSet(Above(z))
    BY <2>1, FS_Subset
  <2> QED BY <2>2, FS_CardinalityType
<1>2. \A z: BandOf(page, z) = Cardinality(Above(z))
  BY DEF BandOf
<1>3. ASSUME NEW f \in page, IsFull(page, f), f.top > y
      PROVE  Cardinality(Above(y)) < Cardinality(Above(f.top))
  <2>1. f.top \in Int /\ \A g \in page: g.top \in Int
    BY DEF Block
  <2>2. Above(y) \in SUBSET Above(f.top) /\ f \in Above(f.top) /\ f \notin Above(y)
    BY <1>3, <2>1
  <2> HIDE DEF Above
  <2>3. /\ Cardinality(Above(y)) <= Cardinality(Above(f.top))
        /\ Cardinality(Above(f.top)) = Cardinality(Above(y)) => Above(f.top) = Above(y)
    BY <1>1, <2>2, FS_Subset
  <2> QED BY <1>1, <2>2, <2>3
<1>4. ASSUME \A f \in page: IsFull(page, f) => f.top > y
      PROVE  Cardinality(Above(y)) = 0
  <2>1. \A g \in page: g.top \in Int
    BY DEF Block
  <2>2. Above(y) = {}
    BY <1>4, <2>1
  <2> HIDE DEF Above
  <2> QED BY <2>2, FS_EmptySet
<1> HIDE DEF Above
<1>5. BandOf(page, y) \in Nat
  BY <1>1, <1>2
<1>6. \A f \in page: IsFull(page, f) /\ f.top > y => BandOf(page, y) < BandOf(page, f.top)
  BY <1>2, <1>3
<1>7. (\A f \in page: IsFull(page, f) => f.top > y) => BandOf(page, y) = 0
  BY <1>2, <1>4
<1> QED BY <1>5, <1>6, <1>7

\* A block that introduces nothing is in the band of its top, any other in that of a
\* full-width block below its top.
LEMMA BandOfBlock ==
    ASSUME NEW page \in SUBSET Block, IsFiniteSet(page), NEW b \in page
    PROVE  /\ Band(page, b) \in Nat
           /\ (\A f \in page: ~Introduces(page, b, f)) => Band(page, b) = BandOf(page, b.top)
           /\ \A f \in page:
                 Introduces(page, b, f) /\ (\A g \in page: IsFull(page, g) => g.top >= f.top)
                    => Band(page, b) = BandOf(page, f.top)
<1> DEFINE introduced == {f \in page: Introduces(page, b, f)}
           tops == {f.top: f \in introduced}
<1>1. Band(page, b) = BandOf(page, IF introduced = {} THEN b.top ELSE Min(tops))
  BY DEF Band
<1>2. b.top \in Int /\ \A f \in page: f.top \in Int
  BY DEF Block
<1>3. introduced \in SUBSET page
  OBVIOUS
<1>4. IsFiniteSet(introduced)
  BY <1>3, FS_Subset
<1>5. tops \in SUBSET Int /\ IsFiniteSet(tops)
  <2>1. tops \in SUBSET Int
    BY <1>2, <1>3
  <2> DEFINE top == [f \in introduced |-> f.top]
  <2>2. top \in [introduced -> tops] /\ \A t \in tops: \E f \in introduced: top[f] = t
    OBVIOUS
  <2> HIDE DEF introduced, tops, top
  <2>3. IsFiniteSet(tops)
    BY <1>4, <2>2, FiniteImage
  <2> QED BY <2>1, <2>3
<1>6. introduced # {} => tops # {}
  OBVIOUS
<1>7. introduced # {} => Min(tops) \in tops /\ \A t \in tops: Min(tops) <= t
  <2> HIDE DEF tops
  <2> QED BY <1>5, <1>6, MinMax
<1>8. Band(page, b) \in Nat
  <2>1. (IF introduced = {} THEN b.top ELSE Min(tops)) \in Int
    <3> HIDE DEF tops, introduced
    <3> QED BY <1>2, <1>5, <1>7
  <2> HIDE DEF introduced, tops
  <2> QED BY <1>1, <2>1, BandsAreNumbered
<1>9. (\A f \in page: ~Introduces(page, b, f)) => introduced = {}
  OBVIOUS
<1>10. ASSUME NEW f \in page, Introduces(page, b, f),
              \A g \in page: IsFull(page, g) => g.top >= f.top
       PROVE  Band(page, b) = BandOf(page, f.top)
  <2>1. f \in introduced /\ f.top \in tops
    BY <1>10
  <2>2. \A t \in tops: t \in Int /\ t >= f.top
    <3>1. \A g \in introduced: IsFull(page, g) /\ g \in page
      BY DEF Introduces
    <3> QED BY <1>2, <1>10, <3>1
  <2> HIDE DEF tops, introduced
  <2>3. Min(tops) = f.top
    BY <1>2, <1>7, <2>1, <2>2
  <2> QED BY <1>1, <2>1, <2>3
<1> HIDE DEF introduced
<1> QED BY <1>1, <1>8, <1>9, <1>10

\* A bucket is a number: it is never less than one unit wide.
LEMMA BucketsAreNumbered ==
    ASSUME NEW page, Span(page) \in Int, NEW b \in Block
    PROVE  Bucket(page, b) \in Int
<1>1. 11 * Span(page) \in Int /\ b.left \in Int
  BY DEF Block
<1>2. Width(page) \in Int /\ Width(page) >= 100
  <2> DEFINE w == 11 * Span(page)
  <2> HIDE DEF w
  <2>1. w \in Int
    BY <1>1 DEF w
  <2>2. 100 \in Int
    OBVIOUS
  <2> DEFINE hundred == 100
  <2> HIDE DEF hundred
  <2>3. hundred \in Int
    BY <2>2 DEF hundred
  <2>4. Max({w, hundred}) \in {w, hundred} /\ Max({w, hundred}) >= hundred
    BY <2>1, <2>3, LeastAndGreatest
  <2>5. Max({w, hundred}) \in Int
    BY <2>1, <2>3, <2>4
  <2> QED BY <2>4, <2>5 DEF w, hundred, Width
<1> DEFINE w == Width(page)
<1> HIDE DEF w
<1>3. w \in Int /\ w > 0
  BY <1>2 DEF w
<1>4. (100 * b.left) \div w \in Int
  BY <1>1, <1>3
<1> QED BY <1>4 DEF Bucket, w

LEMMA SortKeysAreKeys ==
    ASSUME NEW bs \in Seq(Block)
    PROVE  /\ \A b \in ToSet(bs):
                 /\ SortKey(bs, b) \in Key
                 /\ SortKey(bs, b) = <<b.page, Band(PageOf(bs, b), b), Bucket(PageOf(bs, b), b), b.top, b.id>>
           /\ SortKeys(bs) \in SUBSET Key
           /\ IsFiniteSet(SortKeys(bs))
<1>1. ToSet(bs) \in SUBSET Block /\ IsFiniteSet(ToSet(bs))
  BY ToSetOfSeq
<1>2. ASSUME NEW b \in ToSet(bs)
      PROVE  /\ SortKey(bs, b) \in Key
             /\ SortKey(bs, b) = <<b.page, Band(PageOf(bs, b), b), Bucket(PageOf(bs, b), b), b.top, b.id>>
  <2>1. b \in Block /\ b.page \in Int /\ b.top \in Int /\ b.id \in Ids
    BY <1>1 DEF Block
  <2>2. b.id \in Nat
    BY <2>1, IdsAssumption, Zenon
  <2>3. b.id \in Int
    BY <2>2
  <2> DEFINE page == PageOf(bs, b)
  <2> HIDE DEF page
  <2>4. page \in SUBSET Block /\ IsFiniteSet(page) /\ b \in page /\ Span(page) \in Int
    BY PagesAreFinite DEF page
  <2>5. Band(page, b) \in Int
    BY <2>4, BandOfBlock
  <2>6. Bucket(page, b) \in Int
    BY <2>1, <2>4, BucketsAreNumbered
  <2>7. SortKey(bs, b) = <<b.page, Band(page, b), Bucket(page, b), b.top, b.id>>
    BY DEF SortKey, page
  <2>8. SortKey(bs, b) \in Key
    BY <2>1, <2>3, <2>5, <2>6, <2>7 DEF Key
  <2> QED BY <2>7, <2>8 DEF page
<1>3. SortKeys(bs) \in SUBSET Key
  BY <1>2 DEF SortKeys
<1>4. IsFiniteSet(SortKeys(bs))
  <2> DEFINE f == [b \in ToSet(bs) |-> SortKey(bs, b)]
  <2>1. f \in [ToSet(bs) -> SortKeys(bs)] /\ \A k \in SortKeys(bs): \E b \in ToSet(bs): f[b] = k
    BY DEF SortKeys
  <2> HIDE DEF f
  <2> QED BY <1>1, <2>1, FiniteImage
<1> QED BY <1>2, <1>3, <1>4

---------------------------------------------------------------------------
(* The sorted list *)

DistinctIds(bs) == \A a, b \in ToSet(bs): a.id = b.id => a = b

\* The list of a page's ids: each one once, in the order of the keys.
LEMMA SortedIds ==
    ASSUME NEW bs \in Seq(Block), DistinctIds(bs)
    PROVE  /\ PreSortedIds(bs) \in Seq(IdsOf(ToSet(bs)))
           /\ Len(PreSortedIds(bs)) = Cardinality(IdsOf(ToSet(bs)))
           /\ ToSet(PreSortedIds(bs)) = IdsOf(ToSet(bs))
           /\ \A a, b \in ToSet(bs):
                 Before(PreSortedIds(bs), a, b) <=> Less(SortKey(bs, a), SortKey(bs, b))
<1> DEFINE K == SortKeys(bs)
           R == ReadsBefore(K)
           s == Ranked(K, R)
           n == Cardinality(K)
           I == IdsOf(ToSet(bs))
           ids == PreSortedIds(bs)
<1>1. /\ K \in SUBSET Key /\ IsFiniteSet(K)
      /\ \A b \in ToSet(bs): SortKey(bs, b) \in K /\ SortKey(bs, b)[5] = b.id
      /\ \A k \in K: \E b \in ToSet(bs): k = SortKey(bs, b)
  <2>1. K \in SUBSET Key /\ IsFiniteSet(K)
    BY SortKeysAreKeys
  <2>2. ASSUME NEW b \in ToSet(bs) PROVE SortKey(bs, b)[5] = b.id
    BY SortKeysAreKeys
  <2>3. /\ \A b \in ToSet(bs): SortKey(bs, b) \in K
        /\ \A k \in K: \E b \in ToSet(bs): k = SortKey(bs, b)
    BY DEF SortKeys
  <2> QED BY <2>1, <2>2, <2>3
<1>2. /\ n \in Nat /\ s \in [1 .. n -> K]
      /\ \A x \in K: \E k \in 1 .. n: s[k] = x
      /\ \A i, j \in 1 .. n: i < j <=> <<s[i], s[j]>> \in R
  <2>1. Orders(R, K)
    BY <1>1, KeysAreOrdered
  <2> HIDE DEF K, R
  <2> QED BY <1>1, <2>1, RankedList
<1>3. \A i, j \in 1 .. n: i < j <=> Less(s[i], s[j])
  <2>1. \A i \in 1 .. n: s[i] \in K
    BY <1>2
  <2>2. \A k, l \in K: <<k, l>> \in R <=> Less(k, l)
    BY DEF ReadsBefore
  <2> HIDE DEF K, R, s, n
  <2> QED BY <1>2, <2>1, <2>2
<1>4. ids = [i \in 1 .. n |-> s[i][5]]
  <2>1. DOMAIN s = 1 .. n
    BY <1>2
  <2> HIDE DEF n
  <2> QED BY <2>1 DEF PreSortedIds, PreSorted
<1>5. \A k \in K: k[5] \in I
  BY <1>1 DEF IdsOf
<1>6. \A x \in I: \E k \in K: k[5] = x
  BY <1>1 DEF IdsOf
<1>7. \A k, l \in K: k[5] = l[5] => k = l
  <2> SUFFICES ASSUME NEW k \in K, NEW l \in K, k[5] = l[5] PROVE k = l
    OBVIOUS
  <2>1. PICK a \in ToSet(bs): k = SortKey(bs, a)
    BY <1>1
  <2>2. PICK b \in ToSet(bs): l = SortKey(bs, b)
    BY <1>1
  <2>3. a.id = b.id
    BY <1>1, <2>1, <2>2
  <2>4. a = b
    BY <2>3 DEF DistinctIds
  <2> QED BY <2>1, <2>2, <2>4
<1> HIDE DEF K, R, s, I, ids
<1>8. n = Cardinality(I)
  <2> DEFINE f == [k \in K |-> k[5]]
  <2>1. f \in [K -> I]
    BY <1>5
  <2>2. \A k, l \in K: f[k] = f[l] => k = l
    BY <1>7
  <2>3. \A x \in I: \E k \in K: f[k] = x
    BY <1>6
  <2> HIDE DEF f
  <2>4. f \in Bijection(K, I)
    BY <2>1, <2>2, <2>3, Fun_IsBij
  <2> QED BY <1>1, <2>4, FS_Bijection DEF ExistsBijection
<1>9. ids \in [1 .. n -> I]
  BY <1>2, <1>4, <1>5
<1> HIDE DEF n
<1>10. ids \in Seq(I) /\ Len(ids) = n /\ DOMAIN ids = 1 .. n
  BY <1>2, <1>9, ListIsASeq
<1>11. ToSet(ids) = I
  <2>1. ToSet(ids) = {ids[i]: i \in 1 .. n}
    BY <1>10 DEF ToSet
  <2>2. ASSUME NEW x \in I PROVE \E i \in 1 .. n: ids[i] = x
    BY <1>2, <1>4, <1>6
  <2> QED BY <1>9, <2>1, <2>2
<1>12. ASSUME NEW a \in ToSet(bs), NEW b \in ToSet(bs)
       PROVE  Before(ids, a, b) <=> Less(SortKey(bs, a), SortKey(bs, b))
  <2>1. ASSUME NEW i \in 1 .. n, NEW j \in 1 .. n, i < j, ids[i] = a.id, ids[j] = b.id
        PROVE  Less(SortKey(bs, a), SortKey(bs, b))
    <3>1. s[i] \in K /\ s[j] \in K /\ s[i][5] = a.id /\ s[j][5] = b.id
      BY <1>2, <1>4, <2>1
    <3>2. s[i] = SortKey(bs, a)
      BY <1>1, <1>7, <3>1
    <3>3. s[j] = SortKey(bs, b)
      BY <1>1, <1>7, <3>1
    <3> QED BY <1>3, <2>1, <3>2, <3>3
  <2>2. ASSUME Less(SortKey(bs, a), SortKey(bs, b))
        PROVE  \E i, j \in 1 .. n: i < j /\ ids[i] = a.id /\ ids[j] = b.id
    <3>1. PICK i \in 1 .. n: s[i] = SortKey(bs, a)
      BY <1>1, <1>2
    <3>2. PICK j \in 1 .. n: s[j] = SortKey(bs, b)
      BY <1>1, <1>2
    <3>3. i < j
      BY <1>3, <2>2, <3>1, <3>2
    <3>4. ids[i] = a.id /\ ids[j] = b.id
      BY <1>1, <1>4, <3>1, <3>2
    <3> QED BY <3>3, <3>4
  <2> QED BY <1>10, <2>1, <2>2 DEF Before
<1> QED BY <1>8, <1>10, <1>11, <1>12 DEF I, ids

---------------------------------------------------------------------------
(* Filter and deduplicate *)

\* The positions of the first block of each id.
Firsts(bs) == {i \in DOMAIN bs: ~Seen(bs, i)}

LEMMA FirstsKeepEachId ==
    ASSUME NEW bs \in Seq(Block)
    PROVE  /\ ItemsAt(bs, Firsts(bs)) \in Seq(Block)
           /\ IdsOf(ToSet(ItemsAt(bs, Firsts(bs)))) = IdsOf(ToSet(bs))
           /\ DistinctIds(ItemsAt(bs, Firsts(bs)))
<1> DEFINE n == Len(bs)
           F == Firsts(bs)
           kept == ItemsAt(bs, F)
<1>1. n \in Nat /\ bs \in [1 .. n -> Block] /\ DOMAIN bs = 1 .. n
  BY LenProperties
<1>2. F \in SUBSET DOMAIN bs
  BY DEF Firsts
<1>3. kept \in Seq(Block) /\ ToSet(kept) = {bs[i]: i \in F}
  <2> HIDE DEF F
  <2> QED BY <1>2, ItemsOfSeq
<1>4. ToSet(bs) = {bs[i]: i \in 1 .. n}
  BY <1>1 DEF ToSet
<1>5. ASSUME NEW i \in 1 .. n PROVE \E j \in F: bs[j].id = bs[i].id
  <2> DEFINE same == {j \in 1 .. n: bs[j].id = bs[i].id}
  <2>1. same \in SUBSET Int /\ same \in SUBSET (1 .. n) /\ i \in same
    OBVIOUS
  <2>2. IsFiniteSet(1 .. n)
    BY <1>1, FS_Interval
  <2>3. IsFiniteSet(same)
    <3> HIDE DEF same, n
    <3> QED BY <2>1, <2>2, FS_Subset
  <2>4. Min(same) \in same /\ \A j \in same: Min(same) <= j
    <3>1. same # {}
      BY <2>1
    <3> HIDE DEF same
    <3> QED BY <2>1, <2>3, <3>1, MinMax
  <2>5. PICK j \in same: \A k \in same: j <= k
    BY <2>4
  <2>6. j \in 1 .. n /\ bs[j].id = bs[i].id
    BY <2>5
  <2>7. ASSUME NEW k \in 1 .. j - 1, bs[k].id = bs[j].id PROVE FALSE
    <3>1. k \in 1 .. n /\ k < j
      BY <1>1, <2>6
    <3>2. k \in same
      BY <2>6, <2>7, <3>1
    <3>3. j <= k
      BY <2>5, <3>2
    <3> QED BY <2>6, <3>1, <3>3
  <2>8. j \in F
    BY <1>1, <2>6, <2>7 DEF Firsts, Seen
  <2> QED BY <2>6, <2>8
<1>6. ASSUME NEW i \in F, NEW j \in F, bs[i].id = bs[j].id PROVE i = j
  <2>1. i \in 1 .. n /\ j \in 1 .. n
    BY <1>1, <1>2
  <2>2. ~(i < j)
    <3>1. i < j => i \in 1 .. j - 1
      BY <1>1, <2>1
    <3> QED BY <1>6, <3>1 DEF Firsts, Seen
  <2>3. ~(j < i)
    <3>1. j < i => j \in 1 .. i - 1
      BY <1>1, <2>1
    <3> QED BY <1>6, <3>1 DEF Firsts, Seen
  <2> QED BY <1>1, <2>1, <2>2, <2>3
<1>7. \A i \in F: i \in 1 .. n
  BY <1>1, <1>2
<1> HIDE DEF F, kept
<1>8. DistinctIds(kept)
  BY <1>3, <1>6 DEF DistinctIds
<1>9. IdsOf(ToSet(kept)) = IdsOf(ToSet(bs))
  <2>1. IdsOf(ToSet(kept)) = {bs[i].id: i \in F}
    BY <1>3 DEF IdsOf
  <2>2. IdsOf(ToSet(bs)) = {bs[i].id: i \in 1 .. n}
    BY <1>4 DEF IdsOf
  <2>3. {bs[i].id: i \in F} = {bs[i].id: i \in 1 .. n}
    BY <1>5, <1>7
  <2> QED BY <2>1, <2>2, <2>3
<1> QED BY <1>3, <1>8, <1>9 DEF kept, F

---------------------------------------------------------------------------
(* The invariant: what a stage hands to the next one *)

Complete(bs) == ItemsAt(bs, {i \in DOMAIN bs: bs[i].fields # "missing"})

\* The blocks that are sorted have the well-formed ids, each one once; the payload lists those ids.
StageInv ==
    /\ blocks \in Seq(Block)
    /\ stage = "prepare" => wellFormed = IdsOf({b \in ToSet(blocks): b.fields # "missing"})
    /\ stage = "sort" => wellFormed = IdsOf(ToSet(blocks)) /\ DistinctIds(blocks)
    /\ stage \in {"relate", "done"} =>
          /\ payload \in Seq(wellFormed)
          /\ ToSet(payload) = wellFormed
          /\ Len(payload) = Cardinality(wellFormed)

LEMMA InitStage == Init => StageInv
  BY InputsAssumption DEF Init, StageInv

\* Dropping the incomplete blocks and the copies keeps every well-formed id, once.
LEMMA PrepareKeepsIds ==
    ASSUME StageInv, Prepare
    PROVE  /\ blocks' \in Seq(Block)
           /\ wellFormed' = IdsOf(ToSet(blocks'))
           /\ DistinctIds(blocks')
<1> DEFINE I == {i \in DOMAIN blocks: blocks[i].fields # "missing"}
           complete == Complete(blocks)
<1>1. blocks \in Seq(Block)
  BY DEF StageInv
<1>2. wellFormed' = IdsOf({b \in ToSet(blocks): b.fields # "missing"})
  BY DEF StageInv, Prepare
<1>3. blocks' = ItemsAt(complete, Firsts(complete))
  BY DEF Prepare, Firsts, Complete
<1>4. complete \in Seq(Block) /\ ToSet(complete) = {blocks[i]: i \in I}
  <2>1. I \in SUBSET DOMAIN blocks
    OBVIOUS
  <2>2. complete = ItemsAt(blocks, I)
    BY DEF Complete
  <2> HIDE DEF I, complete
  <2> QED BY <1>1, <2>1, <2>2, ItemsOfSeq
<1>5. {blocks[i]: i \in I} = {b \in ToSet(blocks): b.fields # "missing"}
  BY DEF ToSet
<1> HIDE DEF complete
<1>6. /\ ItemsAt(complete, Firsts(complete)) \in Seq(Block)
      /\ IdsOf(ToSet(ItemsAt(complete, Firsts(complete)))) = IdsOf(ToSet(complete))
      /\ DistinctIds(ItemsAt(complete, Firsts(complete)))
  BY <1>4, FirstsKeepEachId
<1> QED BY <1>2, <1>3, <1>4, <1>5, <1>6

LEMMA NextStage == StageInv /\ [Next]_vars => StageInv'
<1> SUFFICES ASSUME StageInv, [Next]_vars PROVE StageInv'
  OBVIOUS
<1>1. CASE Prepare
  <2>1. blocks' \in Seq(Block) /\ wellFormed' = IdsOf(ToSet(blocks')) /\ DistinctIds(blocks')
    BY <1>1, PrepareKeepsIds
  <2>2. stage' = "sort"
    BY <1>1 DEF Prepare
  <2> QED BY <2>1, <2>2 DEF StageInv, IdsOf, DistinctIds, ToSet
<1>2. CASE Sort
  <2>1. /\ blocks \in Seq(Block) /\ DistinctIds(blocks)
        /\ wellFormed' = IdsOf(ToSet(blocks)) /\ payload' = PreSortedIds(blocks)
        /\ blocks' = <<>> /\ stage' = "relate"
    BY <1>2 DEF Sort, StageInv
  <2>2. /\ payload' \in Seq(wellFormed') /\ ToSet(payload') = wellFormed'
        /\ Len(payload') = Cardinality(wellFormed')
    BY <2>1, SortedIds
  <2>3. blocks' \in Seq(Block)
    BY <2>1
  <2>4. ToSet(payload)' = ToSet(payload')
    BY DEF ToSet
  <2> QED BY <2>1, <2>2, <2>3, <2>4 DEF StageInv
<1>3. CASE SortRaises \/ RelateRaises
  BY <1>3 DEF SortRaises, RelateRaises, StageInv
<1>4. CASE Relate \/ Skip
  <2>1. /\ stage = "relate" /\ stage' = "done"
        /\ UNCHANGED <<blocks, payload, wellFormed>>
    BY <1>4 DEF Relate, Skip
  <2>2. ToSet(payload)' = ToSet(payload)
    BY <2>1 DEF ToSet
  <2> QED BY <2>1, <2>2 DEF StageInv
<1>5. CASE UNCHANGED vars
  <2>1. ToSet(payload)' = ToSet(payload) /\ ToSet(blocks)' = ToSet(blocks)
    BY <1>5 DEF vars, ToSet
  <2> QED BY <1>5, <2>1 DEF vars, StageInv, IdsOf, DistinctIds, ToSet
<1> QED BY <1>1, <1>2, <1>3, <1>4, <1>5 DEF Next

LEMMA StageInvariant == Spec => []StageInv
  BY InitStage, NextStage, PTL DEF Spec

\* The well-formed ids are all in the tree, and none is there twice, however many copies retries
\* and overlapping answers bring (layout_hierarchy_agent_node, seen_ids).
THEOREM EachIdOnce == Spec => []OneBlockPerId
<1>1. StageInv => OneBlockPerId
  BY DEF StageInv, OneBlockPerId
<1> QED BY <1>1, StageInvariant, PTL

\* A relation map has a relation for each name of the answer, and for no other.
LEMMA RelationMapNames ==
    ASSUME NEW relations \in BoundedSeq([id: Names, parent: Names \cup {None}], MaxRelations)
    PROVE  DOMAIN RelationMap(relations) \subseteq Names
<1> DEFINE Relation == [id: Names, parent: Names \cup {None}]
<1>1. PICK m \in 0 .. MaxRelations: relations \in [1 .. m -> Relation]
  BY DEF BoundedSeq, SeqOf
<1>2. \A r \in ToSet(relations): r \in Relation
  BY <1>1 DEF ToSet
<1>3. \A r \in ToSet(relations): r.id \in Names
  BY <1>2
<1>4. DOMAIN RelationMap(relations) = {r.id: r \in ToSet(relations)}
  BY DEF RelationMap
<1> QED BY <1>3, <1>4

\* Each stage of layout_hierarchy_agent_node has what the next one reads, and the tree is made of
\* well-formed ids.
THEOREM TypeCorrect == Spec => []TypeOK
<1>1. Init => TypeOK
  <2> SUFFICES ASSUME Init PROVE TypeOK
    OBVIOUS
  <2>1. blocks \in Seq(Block) /\ payload = <<>>
    BY InputsAssumption DEF Init
  <2>2. \A b \in ToSet(blocks): b.id \in Ids
    <3>1. ToSet(blocks) \subseteq Block
      BY <2>1, ToSetOfSeq
    <3> QED BY <3>1 DEF Block
  <2>3. wellFormed \subseteq Ids
    BY <2>2 DEF Init, IdsOf
  <2>4. payload \in Seq(wellFormed)
    BY <2>1
  <2> QED BY <2>1, <2>3, <2>4 DEF Init, TypeOK
<1>2. TypeOK /\ StageInv /\ StageInv' /\ [Next]_vars => TypeOK'
  <2> SUFFICES ASSUME TypeOK, StageInv, StageInv', [Next]_vars PROVE TypeOK'
    OBVIOUS
  <2>1. blocks' \in Seq(Block)
    BY DEF StageInv
  <2>2. CASE Prepare
    BY <2>1, <2>2 DEF Prepare, TypeOK
  <2>3. CASE Sort
    BY <2>1, <2>3 DEF Sort, TypeOK, StageInv
  <2>4. CASE SortRaises \/ RelateRaises
    BY <2>1, <2>4 DEF SortRaises, RelateRaises, TypeOK
  <2>5. CASE Relate
    <3>1. PICK relations \in BoundedSeq([id: Names, parent: Names \cup {None}], MaxRelations):
             answer' = RelationMap(relations) /\ parent' = Repaired(RelationMap(relations))
      BY <2>5 DEF Relate
    <3>2. DOMAIN answer' \subseteq Names
      BY <3>1, RelationMapNames
    <3>3. ToSet(payload)' = ToSet(payload)
      BY <2>5 DEF Relate, ToSet
    <3>4. DOMAIN parent' = ToSet(payload)
      BY <3>1 DEF Repaired
    <3> QED BY <2>1, <2>5, <3>2, <3>3, <3>4 DEF Relate, TypeOK
  <2>6. CASE Skip
    <3>1. ToSet(payload)' = ToSet(payload)
      BY <2>6 DEF Skip, ToSet
    <3> QED BY <2>1, <2>6, <3>1 DEF Skip, TypeOK
  <2>7. CASE UNCHANGED vars
    <3>1. ToSet(payload)' = ToSet(payload)
      BY <2>7 DEF vars, ToSet
    <3> QED BY <2>7, <3>1 DEF vars, TypeOK
  <2> QED BY <2>2, <2>3, <2>4, <2>5, <2>6, <2>7 DEF Next
<1> QED BY <1>1, <1>2, StageInvariant, PTL DEF Spec

---------------------------------------------------------------------------
(* Reading order *)

\* Of two blocks of a page, that of the upper band comes first; of two pages, the former.
LEMMA BandsDecide ==
    ASSUME NEW bs \in Seq(Block), NEW a \in ToSet(bs), NEW b \in ToSet(bs), a.page = b.page,
           Band(PageOf(bs, a), a) < Band(PageOf(bs, a), b)
    PROVE  Less(SortKey(bs, a), SortKey(bs, b)) /\ ~Less(SortKey(bs, b), SortKey(bs, a))
<1>1. PageOf(bs, a) = PageOf(bs, b)
  BY DEF PageOf
<1>2. /\ SortKey(bs, a) \in Key /\ SortKey(bs, b) \in Key
      /\ SortKey(bs, a)[1] = SortKey(bs, b)[1]
      /\ SortKey(bs, a)[2] < SortKey(bs, b)[2]
  BY <1>1, SortKeysAreKeys
<1> DEFINE k == SortKey(bs, a)
           l == SortKey(bs, b)
<1> HIDE DEF k, l
<1>3. /\ k \in Key /\ l \in Key /\ k[1] = l[1] /\ k[2] < l[2]
      /\ k[1] \in Int /\ k[2] \in Int /\ l[2] \in Int
  BY <1>2 DEF Key, k, l
<1>4. Less(k, l)
  BY <1>3, LessByComponent
<1>5. ~Less(l, k)
  <2>1. ~(l[1] < k[1]) /\ ~(l[2] < k[2]) /\ l[2] # k[2]
    BY <1>3
  <2> QED BY <1>3, <2>1, LessByComponent
<1> QED BY <1>4, <1>5 DEF k, l

LEMMA PagesDecide ==
    ASSUME NEW bs \in Seq(Block), NEW a \in ToSet(bs), NEW b \in ToSet(bs), a.page < b.page
    PROVE  Less(SortKey(bs, a), SortKey(bs, b))
<1>1. /\ SortKey(bs, a) \in Key /\ SortKey(bs, b) \in Key
      /\ SortKey(bs, a)[1] < SortKey(bs, b)[1]
  BY SortKeysAreKeys
<1> QED BY <1>1, LessByComponent

\* A block that is full, or no heading, is in the band of its top.
LEMMA OwnBand ==
    ASSUME NEW bs \in Seq(Block), NEW b \in ToSet(bs), NEW page, page = PageOf(bs, b),
           b.type \notin {"heading", "title"} \/ IsFull(page, b)
    PROVE  Band(page, b) = BandOf(page, b.top)
<1>1. page \in SUBSET Block /\ IsFiniteSet(page) /\ b \in page
  BY PagesAreFinite
<1>2. \A f \in page: ~Introduces(page, b, f)
  BY DEF Introduces
<1> QED BY <1>1, <1>2, BandOfBlock

\* What starts above a full-width block is in an upper band, if it is in the band of its top.
LEMMA StartsAboveReadsBefore ==
    ASSUME NEW bs \in Seq(Block), NEW a \in ToSet(bs), NEW b \in ToSet(bs),
           a.page = b.page, a.top < b.top, IsFull(PageOf(bs, b), b),
           a.type \notin {"heading", "title"} \/ IsFull(PageOf(bs, a), a)
    PROVE  Less(SortKey(bs, a), SortKey(bs, b))
<1> DEFINE page == PageOf(bs, a)
<1>1. page = PageOf(bs, b)
  BY DEF PageOf
<1>2. page \in SUBSET Block /\ IsFiniteSet(page) /\ a \in page /\ b \in page
  BY <1>1, PagesAreFinite
<1>3. a.top \in Int
  BY <1>2 DEF Block
<1>4. Band(page, a) = BandOf(page, a.top)
  BY OwnBand
<1>5. Band(page, b) = BandOf(page, b.top)
  BY <1>1, OwnBand
<1>6. BandOf(page, a.top) < BandOf(page, b.top)
  <2>1. IsFull(page, b) /\ b.top > a.top
    <3>1. b.top \in Int
      BY <1>2 DEF Block
    <3> QED BY <1>1, <1>3, <3>1
  <2> HIDE DEF page
  <2> QED BY <1>2, <1>3, <2>1, BandsAreNumbered
<1> QED BY <1>4, <1>5, <1>6, BandsDecide

\* Only Sort leads from sorting to the relations.
LEMMA SortingStep ==
    ASSUME StageInv, [Next]_vars, Sorting
    PROVE  blocks \in Seq(Block) /\ DistinctIds(blocks) /\ payload' = PreSortedIds(blocks)
<1>1. Sort
  BY DEF Sorting, Next, vars, Prepare, SortRaises, Relate, RelateRaises, Skip
<1> QED BY <1>1 DEF Sort, StageInv

\* Pages follow one another, and what starts above a full-width block reads before it, unless it
\* is a heading (geometric_pre_sorter, band_of).
THEOREM FullWidthBlocksSeparate == Spec => FullWidthSeparates
<1>1. StageInv /\ [Next]_vars =>
         [Sorting =>
            \A a, b \in ToSet(blocks):
               \/ a.page < b.page
               \/ /\ a.page = b.page /\ a.top < b.top
                  /\ IsFull(PageOf(blocks, b), b)
                  /\ a.type \notin {"heading", "title"} \/ IsFull(PageOf(blocks, a), a)
               => Before(payload', a, b)]_vars
  <2> SUFFICES ASSUME StageInv, [Next]_vars, Sorting,
                      NEW a \in ToSet(blocks), NEW b \in ToSet(blocks),
                      \/ a.page < b.page
                      \/ /\ a.page = b.page /\ a.top < b.top
                         /\ IsFull(PageOf(blocks, b), b)
                         /\ a.type \notin {"heading", "title"} \/ IsFull(PageOf(blocks, a), a)
               PROVE  Before(payload', a, b)
    OBVIOUS
  <2>1. blocks \in Seq(Block) /\ DistinctIds(blocks) /\ payload' = PreSortedIds(blocks)
    BY SortingStep
  <2>2. Less(SortKey(blocks, a), SortKey(blocks, b))
    BY <2>1, PagesDecide, StartsAboveReadsBefore
  <2> QED BY <2>1, <2>2, SortedIds
<1> QED BY <1>1, StageInvariant, PTL DEF Spec, FullWidthSeparates

\* The heading is pulled into the band of the first full-width block; the text is above both.
LEMMA TextReadsBeforeHeading ==
    ASSUME NEW bs \in Seq(Block),
           NEW h \in ToSet(bs), NEW f \in ToSet(bs), NEW a \in ToSet(bs),
           NEW page, page = PageOf(bs, h), f \in page, a \in page,
           h.type = "heading", ~IsFull(page, h),
           a.type = "text", a.top < f.top,
           IsFull(page, f), Overlaps(h, f), h.top < f.top,
           20 * (f.top - h.bottom) \in - Span(page) .. Span(page),
           \A g \in page: IsFull(page, g) => g.top >= f.top
    PROVE  /\ ~Less(SortKey(bs, h), SortKey(bs, a))
           /\ ~Less(SortKey(bs, f), SortKey(bs, a))
<1>1. page \in SUBSET Block /\ IsFiniteSet(page) /\ h \in page /\ Span(page) \in Int
  BY PagesAreFinite
<1>2. /\ f.page = h.page /\ a.page = h.page
      /\ PageOf(bs, f) = page /\ PageOf(bs, a) = page
  BY DEF PageOf
<1>3. f.top \in Int /\ a.top \in Int /\ h.bottom \in Int
  BY <1>1 DEF Block
<1>4. Near(page, h, f)
  <2> DEFINE down == f.top - h.bottom
             up == h.bottom - f.top
             span == Span(page)
  <2>1. down \in Int /\ up \in Int /\ up = - down /\ span \in Int
    BY <1>1, <1>3
  <2>2. 20 * down \in - span .. span
    OBVIOUS
  <2>3. Near(page, h, f) <=> 100 * Max({down, up}) <= 5 * span
    BY DEF Near
  <2> HIDE DEF down, up, span
  <2>4. Max({down, up}) \in {down, up}
    BY <2>1, LeastAndGreatest
  <2>5. 20 * down <= span /\ 20 * up <= span
    BY <2>1, <2>2
  <2>6. 100 * Max({down, up}) <= 5 * span
    BY <2>1, <2>4, <2>5
  <2> QED BY <2>3, <2>6
<1>5. Introduces(page, h, f)
  BY <1>4 DEF Introduces
<1>6. Band(page, h) = BandOf(page, f.top)
  BY <1>1, <1>5, BandOfBlock
<1>7. Band(page, f) = BandOf(page, f.top)
  BY <1>2, OwnBand
<1>8. Band(page, a) = BandOf(page, a.top)
  BY <1>2, OwnBand
<1>9. BandOf(page, a.top) < BandOf(page, f.top)
  <2>1. f.top > a.top
    BY <1>3
  <2> QED BY <1>1, <1>3, <2>1, BandsAreNumbered
<1>10. ~Less(SortKey(bs, h), SortKey(bs, a))
  BY <1>2, <1>6, <1>8, <1>9, BandsDecide
<1>11. ~Less(SortKey(bs, f), SortKey(bs, a))
  BY <1>2, <1>7, <1>8, <1>9, BandsDecide
<1> QED BY <1>10, <1>11

\* A text that starts above the first full-width block of a page reads before the block and
\* before the heading the block is introduced by, so it is never between the two (the pull-down
\* of geometric_pre_sorter).
THEOREM HeadingsStay == Spec => HeadingStaysWithBlock
<1> DEFINE Parted(h, f, a) ==
              \/ Before(payload', h, a) /\ Before(payload', a, f)
              \/ Before(payload', f, a) /\ Before(payload', a, h)
<1>1. ASSUME StageInv, [Next]_vars, Sorting,
             NEW h \in ToSet(blocks), NEW f \in ToSet(blocks), NEW a \in ToSet(blocks),
             LET page == PageOf(blocks, h) IN
             /\ f \in page /\ a \in page
             /\ h.type = "heading" /\ ~IsFull(page, h)
             /\ a.type = "text" /\ a.top < f.top
             /\ IsFull(page, f) /\ Overlaps(h, f) /\ h.top < f.top
             /\ 20 * (f.top - h.bottom) \in - Span(page) .. Span(page)
             /\ \A g \in page: IsFull(page, g) => g.top >= f.top
      PROVE  ~Parted(h, f, a)
  <2>1. blocks \in Seq(Block) /\ DistinctIds(blocks) /\ payload' = PreSortedIds(blocks)
    BY <1>1, SortingStep
  <2>2. /\ ~Less(SortKey(blocks, h), SortKey(blocks, a))
        /\ ~Less(SortKey(blocks, f), SortKey(blocks, a))
    <3> DEFINE page == PageOf(blocks, h)
    <3>1. page = PageOf(blocks, h)
      OBVIOUS
    <3>2. /\ f \in page /\ a \in page
          /\ h.type = "heading" /\ ~IsFull(page, h)
          /\ a.type = "text" /\ a.top < f.top
          /\ IsFull(page, f) /\ Overlaps(h, f) /\ h.top < f.top
          /\ 20 * (f.top - h.bottom) \in - Span(page) .. Span(page)
          /\ \A g \in page: IsFull(page, g) => g.top >= f.top
      BY <1>1
    <3> HIDE DEF page
    <3> QED BY <2>1, <3>1, <3>2, TextReadsBeforeHeading
  <2>3. ~Before(payload', h, a) /\ ~Before(payload', f, a)
    BY <2>1, <2>2, SortedIds
  <2> QED BY <2>3
<1>2. StageInv /\ [Next]_vars =>
         [Sorting =>
            \A h, f, a \in ToSet(blocks):
               LET page == PageOf(blocks, h) IN
               /\ f \in page /\ a \in page
               /\ h.type = "heading" /\ ~IsFull(page, h)
               /\ a.type = "text" /\ a.top < f.top
               /\ IsFull(page, f) /\ Overlaps(h, f) /\ h.top < f.top
               /\ 20 * (f.top - h.bottom) \in - Span(page) .. Span(page)
               /\ \A g \in page: IsFull(page, g) => g.top >= f.top
               => ~(\/ Before(payload', h, a) /\ Before(payload', a, f)
                    \/ Before(payload', f, a) /\ Before(payload', a, h))]_vars
  BY <1>1
<1> QED BY <1>2, StageInvariant, PTL DEF Spec, HeadingStaysWithBlock

---------------------------------------------------------------------------
(* Other units *)

\* Multiplying by k keeps the order of numbers, and their differences in proportion.
LEMMA ScalesOrder ==
    ASSUME NEW k \in Nat \ {0}, NEW x \in Int, NEW y \in Int
    PROVE  /\ k * x \in Int /\ k * y \in Int
           /\ k * x < k * y <=> x < y
           /\ k * x <= k * y <=> x <= y
           /\ k * x = k * y <=> x = y
           /\ k * x - k * y = k * (x - y)
<1>1. k * x \in Int /\ k * y \in Int
  OBVIOUS
<1>2. k * x - k * y = k * (x - y)
  OBVIOUS
<1>3. x < y => k * x < k * y
  OBVIOUS
<1>4. y < x => k * y < k * x
  OBVIOUS
<1> DEFINE p == k * x
           q == k * y
<1> HIDE DEF p, q
<1>5. p \in Int /\ q \in Int /\ (x < y => p < q) /\ (y < x => q < p) /\ (x = y => p = q)
  BY <1>1, <1>3, <1>4 DEF p, q
<1>6. (p < q <=> x < y) /\ (p <= q <=> x <= y) /\ (p = q <=> x = y)
  BY <1>5
<1> QED BY <1>1, <1>2, <1>6 DEF p, q

LEMMA ScalesQuotient ==
    ASSUME NEW k \in Nat \ {0}, NEW a \in Int, NEW b \in Nat \ {0}
    PROVE  (k * a) \div (k * b) = a \div b
<1> DEFINE q == a \div b
<1>1. q \in Int /\ b * q <= a /\ a < b * q + b
  OBVIOUS
<1> HIDE DEF q
<1>2. k * b \in Nat \ {0} /\ b * q \in Int
  BY <1>1
<1>3. k * (b * q) <= k * a /\ k * a < k * (b * q + b)
  BY <1>1, <1>2, ScalesOrder
<1>4. k * (b * q) = (k * b) * q /\ k * (b * q + b) = (k * b) * q + k * b
  BY <1>1
<1> DEFINE d == k * b
           c == k * a
<1> HIDE DEF d, c
<1>5. d \in Nat \ {0} /\ c \in Int /\ d * q <= c /\ c < d * q + d
  BY <1>2, <1>3, <1>4 DEF d, c
<1>6. c \div d = q
  BY <1>1, <1>5
<1> QED BY <1>6 DEF c, d, q

LEMMA ScalesDivisor ==
    ASSUME NEW k \in Nat \ {0}, NEW a \in Int, NEW b \in Nat \ {0}, (k * a) % (k * b) = 0
    PROVE  a % b = 0
<1> DEFINE q == a \div b
           d == k * b
           c == k * a
<1>1. q \in Int /\ a % b = a - b * q
  OBVIOUS
<1>2. d \in Nat \ {0} /\ c \in Int
  OBVIOUS
<1>3. c \div d = q
  BY ScalesQuotient
<1>4. c % d = 0
  OBVIOUS
<1>5. k * (b * q) = d * q
  BY <1>1
<1> HIDE DEF q, d, c
<1>6. c % d = c - d * (c \div d)
  BY <1>2
<1>7. c = d * q
  BY <1>1, <1>2, <1>3, <1>4, <1>6
<1>8. k * a = k * (b * q) /\ b * q \in Int
  BY <1>1, <1>5, <1>7 DEF c
<1>9. a = b * q
  BY <1>8, ScalesOrder
<1> QED BY <1>1, <1>9

\* So the least and the greatest number are multiplied too.
LEMMA ScalesMinMax ==
    ASSUME NEW k \in Nat \ {0}, NEW S \in SUBSET Int, IsFiniteSet(S), S # {},
           NEW T, T = {k * x: x \in S}
    PROVE  Max(T) = k * Max(S) /\ Min(T) = k * Min(S)
<1> DEFINE top == Max(S)
           bottom == Min(S)
<1>1. top \in S /\ bottom \in S /\ \A x \in S: bottom <= x /\ x <= top
  BY MinMax
<1> HIDE DEF top, bottom
<1>2. top \in Int /\ bottom \in Int
  BY <1>1
<1>3. T \in SUBSET Int /\ k * top \in T /\ k * bottom \in T
  BY <1>1
<1>4. \A t \in T: k * bottom <= t /\ t <= k * top
  <2> SUFFICES ASSUME NEW t \in T PROVE k * bottom <= t /\ t <= k * top
    OBVIOUS
  <2>1. PICK x \in S: t = k * x
    OBVIOUS
  <2> QED BY <1>1, <1>2, <2>1, ScalesOrder
<1>5. Max(T) \in T /\ \A t \in T: Max(T) >= t
  BY <1>3, <1>4 DEF Max
<1>6. Min(T) \in T /\ \A t \in T: Min(T) <= t
  BY <1>3, <1>4 DEF Min
<1>7. Max(T) = k * top
  BY <1>3, <1>4, <1>5
<1>8. Min(T) = k * bottom
  BY <1>3, <1>4, <1>6
<1> QED BY <1>7, <1>8 DEF top, bottom

\* A page in other units.
Rescaled(S, k) == {Scaled(b, k): b \in S}

LEMMA ScaledBlock ==
    ASSUME NEW k \in Nat \ {0}, NEW b \in Block
    PROVE  /\ Scaled(b, k) \in Block
           /\ Scaled(b, k).id = b.id /\ Scaled(b, k).page = b.page /\ Scaled(b, k).type = b.type
           /\ Scaled(b, k).left = k * b.left /\ Scaled(b, k).right = k * b.right
           /\ Scaled(b, k).top = k * b.top /\ Scaled(b, k).bottom = k * b.bottom
<1>1. /\ k * b.left \in Int /\ k * b.right \in Int /\ k * b.top \in Int /\ k * b.bottom \in Int
  BY DEF Block
<1>2. DOMAIN b = {"id", "page", "type", "fields", "left", "right", "top", "bottom"}
  BY DEF Block
<1>3. /\ DOMAIN Scaled(b, k) = DOMAIN b
      /\ Scaled(b, k).id = b.id /\ Scaled(b, k).page = b.page
      /\ Scaled(b, k).type = b.type /\ Scaled(b, k).fields = b.fields
  BY <1>2 DEF Scaled
<1>4. /\ Scaled(b, k).left = k * b.left /\ Scaled(b, k).right = k * b.right
      /\ Scaled(b, k).top = k * b.top /\ Scaled(b, k).bottom = k * b.bottom
  BY <1>2 DEF Scaled
<1>5. Scaled(b, k) = [x \in DOMAIN b |-> Scaled(b, k)[x]]
  BY <1>3 DEF Scaled
<1>6. b.id \in Ids /\ b.page \in Int /\ b.type \in STRING /\ b.fields \in Fields
  BY DEF Block
<1> DEFINE c == Scaled(b, k)
<1>7. c \in Block
  <2> HIDE DEF c
  <2>1. c = [x \in {"id", "page", "type", "fields", "left", "right", "top", "bottom"} |-> c[x]]
    BY <1>2, <1>5 DEF c
  <2>2. /\ c.id \in Ids /\ c.page \in Int /\ c.type \in STRING /\ c.fields \in Fields
        /\ c.left \in Int /\ c.right \in Int /\ c.top \in Int /\ c.bottom \in Int
    BY <1>1, <1>3, <1>4, <1>6 DEF c
  <2> QED BY <2>1, <2>2 DEF Block
<1> QED BY <1>3, <1>4, <1>7

LEMMA ScaledApart ==
    ASSUME NEW k \in Nat \ {0}, NEW a \in Block, NEW b \in Block, Scaled(a, k) = Scaled(b, k)
    PROVE  a = b
<1>1. /\ a.id = b.id /\ a.page = b.page /\ a.type = b.type
      /\ k * a.left = k * b.left /\ k * a.right = k * b.right
      /\ k * a.top = k * b.top /\ k * a.bottom = k * b.bottom
  BY ScaledBlock
<1>2. a.fields = b.fields
  <2>1. Scaled(a, k).fields = a.fields /\ Scaled(b, k).fields = b.fields
    BY DEF Scaled, Block
  <2> QED BY <2>1
<1>3. /\ a.left \in Int /\ a.right \in Int /\ a.top \in Int /\ a.bottom \in Int
      /\ b.left \in Int /\ b.right \in Int /\ b.top \in Int /\ b.bottom \in Int
  BY DEF Block
<1>4. a.left = b.left /\ a.right = b.right /\ a.top = b.top /\ a.bottom = b.bottom
  <2>1. \A x, y \in Int: k * x = k * y => x = y
    BY ScalesOrder
  <2> QED BY <1>1, <1>3, <2>1
<1> QED BY <1>1, <1>2, <1>4 DEF Block

LEMMA ScalesSpan ==
    ASSUME NEW k \in Nat \ {0}, NEW page \in SUBSET Block, IsFiniteSet(page), page # {}
    PROVE  Span(Rescaled(page, k)) = k * Span(page) /\ Span(page) \in Int
<1> DEFINE R == {c.right: c \in page}
           L == {c.left: c \in page}
           RR == {c.right: c \in Rescaled(page, k)}
           LL == {c.left: c \in Rescaled(page, k)}
<1>1. /\ R \in SUBSET Int /\ R # {} /\ L \in SUBSET Int /\ L # {}
      /\ IsFiniteSet(R) /\ IsFiniteSet(L)
  <2> DEFINE right == [c \in page |-> c.right]
             left == [c \in page |-> c.left]
  <2>1. /\ right \in [page -> R] /\ \A x \in R: \E c \in page: right[c] = x
        /\ left \in [page -> L] /\ \A x \in L: \E c \in page: left[c] = x
    OBVIOUS
  <2>2. R \in SUBSET Int /\ R # {} /\ L \in SUBSET Int /\ L # {}
    BY DEF Block
  <2> HIDE DEF R, L, right, left
  <2>3. IsFiniteSet(R) /\ IsFiniteSet(L)
    BY <2>1, FiniteImage
  <2> QED BY <2>2, <2>3
<1>2. RR = {k * x: x \in R} /\ LL = {k * x: x \in L}
  <2>1. \A c \in page: Scaled(c, k).right = k * c.right /\ Scaled(c, k).left = k * c.left
    BY ScaledBlock
  <2> QED BY <2>1 DEF Rescaled
<1>3. Span(page) = Max(R) - Min(L) /\ Span(Rescaled(page, k)) = Max(RR) - Min(LL)
  BY DEF Span
<1> HIDE DEF R, L, RR, LL
<1>4. Max(RR) = k * Max(R) /\ Min(LL) = k * Min(L)
  BY <1>1, <1>2, ScalesMinMax
<1>5. Max(R) \in Int /\ Min(L) \in Int
  <2>1. Max(R) \in R /\ Min(L) \in L
    BY <1>1, MinMax
  <2> QED BY <1>1, <2>1
<1>6. k * Max(R) - k * Min(L) = k * (Max(R) - Min(L))
  BY <1>5, ScalesOrder
<1> QED BY <1>3, <1>4, <1>5, <1>6

\* The blocks of a page whose order rounding does not decide.
Clear(page) == \A b \in page: ~OnThreshold(page, b)

\* What a comparison of lengths decides is the same in other units.
LEMMA ScalesIsFull ==
    ASSUME NEW k \in Nat \ {0}, NEW page \in SUBSET Block, IsFiniteSet(page), NEW b \in page,
           Clear(page)
    PROVE  IsFull(Rescaled(page, k), Scaled(b, k)) <=> IsFull(page, b)
<1> DEFINE s == Span(page)
           w == b.right - b.left
<1>1. Span(Rescaled(page, k)) = k * s /\ s \in Int
  BY ScalesSpan
<1>2. b.right \in Int /\ b.left \in Int /\ w \in Int
  BY DEF Block
<1>3. Scaled(b, k).right - Scaled(b, k).left = k * w
  <2>1. k * b.right - k * b.left = k * w
    BY <1>2, ScalesOrder
  <2> QED BY <2>1, ScaledBlock
<1>a. 100 * w # 55 * s
  BY DEF Clear, OnThreshold
<1>b. 100 * (k * w) # 55 * (k * s)
  <2>1. 100 * w \in Int /\ 55 * s \in Int
    BY <1>1, <1>2
  <2>2. k * (100 * w) # k * (55 * s)
    <3> DEFINE x == 100 * w
               y == 55 * s
    <3>1. x \in Int /\ y \in Int /\ x # y
      BY <2>1, <1>a
    <3> HIDE DEF x, y
    <3>2. k * x # k * y
      BY <3>1, ScalesOrder
    <3> QED BY <3>2 DEF x, y
  <2>3. k * (100 * w) = 100 * (k * w) /\ k * (55 * s) = 55 * (k * s)
    BY <1>1, <1>2
  <2> QED BY <2>2, <2>3
<1>4. /\ IsFull(page, b) <=> s > 0 /\ 100 * w > 55 * s
      /\ IsFull(Rescaled(page, k), Scaled(b, k)) <=> k * s > 0 /\ 100 * (k * w) > 55 * (k * s)
  BY <1>1, <1>3, <1>a, <1>b DEF IsFull
<1> HIDE DEF s, w
<1>5. k * s > 0 <=> s > 0
  <2>1. k * 0 < k * s <=> 0 < s
    BY <1>1, ScalesOrder
  <2>2. k * 0 = 0 /\ k * s \in Int
    BY <1>1
  <2> QED BY <1>1, <2>1, <2>2
<1>6. 100 * (k * w) > 55 * (k * s) <=> 100 * w > 55 * s
  <2>1. k * (55 * s) < k * (100 * w) <=> 55 * s < 100 * w
    BY <1>1, <1>2, ScalesOrder
  <2>2. /\ k * (55 * s) = 55 * (k * s) /\ k * (100 * w) = 100 * (k * w)
        /\ k * s \in Int /\ k * w \in Int
    BY <1>1, <1>2
  <2> QED BY <1>1, <1>2, <2>1, <2>2
<1> QED BY <1>4, <1>5, <1>6

LEMMA ScalesNear ==
    ASSUME NEW k \in Nat \ {0}, NEW page \in SUBSET Block, IsFiniteSet(page),
           NEW b \in page, NEW f \in page
    PROVE  Near(Rescaled(page, k), Scaled(b, k), Scaled(f, k)) <=> Near(page, b, f)
<1> DEFINE s == Span(page)
           down == f.top - b.bottom
           up == b.bottom - f.top
           gap == Max({down, up})
<1>1. Span(Rescaled(page, k)) = k * s /\ s \in Int
  BY ScalesSpan
<1>2. f.top \in Int /\ b.bottom \in Int /\ down \in Int /\ up \in Int
  BY DEF Block
<1>3. /\ Scaled(f, k).top - Scaled(b, k).bottom = k * down
      /\ Scaled(b, k).bottom - Scaled(f, k).top = k * up
  <2>1. k * f.top - k * b.bottom = k * down /\ k * b.bottom - k * f.top = k * up
    BY <1>2, ScalesOrder
  <2> QED BY <2>1, ScaledBlock
<1>4. /\ Near(page, b, f) <=> 100 * gap <= 5 * s
      /\ Near(Rescaled(page, k), Scaled(b, k), Scaled(f, k)) <=>
            100 * Max({k * down, k * up}) <= 5 * (k * s)
  BY <1>1, <1>3 DEF Near
<1> HIDE DEF s, down, up
<1>5. Max({k * down, k * up}) = k * gap
  <2> DEFINE S == {down, up}
             T == {k * down, k * up}
  <2>1. S \in SUBSET Int /\ S # {} /\ S = ({} \cup {down}) \cup {up}
    BY <1>2
  <2>3. IsFiniteSet(({} \cup {down}) \cup {up})
    BY FS_EmptySet, FS_AddElement
  <2>2. T = {k * x: x \in S}
    OBVIOUS
  <2> HIDE DEF S, T
  <2>4. Max(T) = k * Max(S)
    BY <2>1, <2>2, <2>3, ScalesMinMax
  <2> QED BY <2>4 DEF S, T
<1>6. gap \in Int
  <2>1. gap \in {down, up}
    BY <1>2, LeastAndGreatest
  <2> QED BY <1>2, <2>1
<1> HIDE DEF gap
<1>7. 100 * (k * gap) <= 5 * (k * s) <=> 100 * gap <= 5 * s
  <2>1. k * (100 * gap) <= k * (5 * s) <=> 100 * gap <= 5 * s
    BY <1>1, <1>6, ScalesOrder
  <2>2. k * (100 * gap) = 100 * (k * gap) /\ k * (5 * s) = 5 * (k * s)
    BY <1>1, <1>6
  <2> QED BY <2>1, <2>2
<1> QED BY <1>4, <1>5, <1>7

LEMMA ScalesIntroduces ==
    ASSUME NEW k \in Nat \ {0}, NEW page \in SUBSET Block, IsFiniteSet(page),
           NEW b \in page, NEW f \in page, Clear(page)
    PROVE  Introduces(Rescaled(page, k), Scaled(b, k), Scaled(f, k)) <=> Introduces(page, b, f)
<1>1. /\ b.left \in Int /\ b.right \in Int /\ b.top \in Int
      /\ f.left \in Int /\ f.right \in Int /\ f.top \in Int
  BY DEF Block
<1>2. Overlaps(Scaled(b, k), Scaled(f, k)) <=> Overlaps(b, f)
  <2>1. k * b.left < k * f.right <=> b.left < f.right
    BY <1>1, ScalesOrder
  <2>2. k * f.left < k * b.right <=> f.left < b.right
    BY <1>1, ScalesOrder
  <2>3. /\ k * b.right > k * f.left <=> b.right > f.left
    BY <1>1, <2>2
  <2> QED BY <2>1, <2>3, ScaledBlock DEF Overlaps
<1>3. Scaled(b, k).top < Scaled(f, k).top <=> b.top < f.top
  <2>1. k * b.top < k * f.top <=> b.top < f.top
    BY <1>1, ScalesOrder
  <2> QED BY <2>1, ScaledBlock
<1>4. Scaled(b, k).type = b.type
  BY ScaledBlock
<1>5. /\ IsFull(Rescaled(page, k), Scaled(b, k)) <=> IsFull(page, b)
      /\ IsFull(Rescaled(page, k), Scaled(f, k)) <=> IsFull(page, f)
  BY ScalesIsFull
<1>6. Near(Rescaled(page, k), Scaled(b, k), Scaled(f, k)) <=> Near(page, b, f)
  BY ScalesNear
<1> QED BY <1>2, <1>3, <1>4, <1>5, <1>6 DEF Introduces

\* The bands are those of the page in other units, as are the columns of a page that is not
\* so narrow that a bucket has its least width.
LEMMA ScalesBandOf ==
    ASSUME NEW k \in Nat \ {0}, NEW page \in SUBSET Block, IsFiniteSet(page), NEW y \in Int,
           Clear(page)
    PROVE  BandOf(Rescaled(page, k), k * y) = BandOf(page, y)
<1> DEFINE A == {f \in page: IsFull(page, f) /\ y >= f.top}
           B == {f \in Rescaled(page, k): IsFull(Rescaled(page, k), f) /\ k * y >= f.top}
           g == [f \in A |-> Scaled(f, k)]
<1>1. ASSUME NEW f \in page PROVE f \in A <=> Scaled(f, k) \in B
  <2>1. IsFull(Rescaled(page, k), Scaled(f, k)) <=> IsFull(page, f)
    BY ScalesIsFull
  <2>2. k * y >= Scaled(f, k).top <=> y >= f.top
    <3>1. f.top \in Int
      BY DEF Block
    <3>2. k * f.top <= k * y <=> f.top <= y
      BY <3>1, ScalesOrder
    <3>3. k * f.top \in Int /\ k * y \in Int
      BY <3>1, ScalesOrder
    <3> QED BY <3>1, <3>2, <3>3, ScaledBlock
  <2>3. Scaled(f, k) \in Rescaled(page, k)
    BY DEF Rescaled
  <2> QED BY <2>1, <2>2, <2>3
<1>2. g \in [A -> B]
  BY <1>1
<1>3. \A c \in B: \E f \in A: g[f] = c
  BY <1>1 DEF Rescaled
<1>4. \A a, b \in A: g[a] = g[b] => a = b
  BY ScaledApart
<1>5. A \in SUBSET page
  OBVIOUS
<1>6. BandOf(page, y) = Cardinality(A) /\ BandOf(Rescaled(page, k), k * y) = Cardinality(B)
  BY DEF BandOf
<1> HIDE DEF A, B, g
<1>7. IsFiniteSet(A)
  BY <1>5, FS_Subset
<1>8. g \in Bijection(A, B)
  BY <1>2, <1>3, <1>4, Fun_IsBij
<1>9. Cardinality(A) = Cardinality(B)
  BY <1>7, <1>8, FS_Bijection DEF ExistsBijection
<1> QED BY <1>6, <1>9

LEMMA ScalesBand ==
    ASSUME NEW k \in Nat \ {0}, NEW page \in SUBSET Block, IsFiniteSet(page), NEW b \in page,
           Clear(page)
    PROVE  Band(Rescaled(page, k), Scaled(b, k)) = Band(page, b)
<1> DEFINE other == Rescaled(page, k)
           I == {f \in page: Introduces(page, b, f)}
           J == {f \in other: Introduces(other, Scaled(b, k), f)}
           tops == {f.top: f \in I}
           others == {f.top: f \in J}
           top == [f \in I |-> f.top]
<1>1. /\ Band(page, b) = BandOf(page, IF I = {} THEN b.top ELSE Min(tops))
      /\ Band(other, Scaled(b, k)) =
            BandOf(other, IF J = {} THEN Scaled(b, k).top ELSE Min(others))
  BY DEF Band
<1>2. ASSUME NEW f \in page PROVE f \in I <=> Scaled(f, k) \in J
  <2>1. Introduces(other, Scaled(b, k), Scaled(f, k)) <=> Introduces(page, b, f)
    BY ScalesIntroduces
  <2>2. Scaled(f, k) \in other
    BY DEF Rescaled
  <2> HIDE DEF other
  <2> QED BY <2>1, <2>2
<1>3. \A c \in J: \E f \in page: c = Scaled(f, k)
  BY DEF Rescaled
<1>4. J = {} <=> I = {}
  <2>1. \A f \in I: f \in page
    OBVIOUS
  <2> HIDE DEF I, J, other
  <2> QED BY <1>2, <1>3, <2>1
<1>5. others = {k * t: t \in tops}
  <2>1. \A f \in page: Scaled(f, k).top = k * f.top
    BY ScaledBlock
  <2>2. \A f \in I: f \in page
    OBVIOUS
  <2> HIDE DEF I, J, other
  <2> QED BY <1>2, <1>3, <2>1, <2>2
<1>6. b.top \in Int /\ \A f \in page: f.top \in Int
  BY DEF Block
<1>7. tops \in SUBSET Int /\ (I # {} => tops # {})
  BY <1>6
<1>8. IsFiniteSet(tops)
  <2>1. I \in SUBSET page
    OBVIOUS
  <2>2. top \in [I -> tops] /\ \A t \in tops: \E f \in I: top[f] = t
    OBVIOUS
  <2> HIDE DEF I, tops, top
  <2>3. IsFiniteSet(I)
    BY <2>1, FS_Subset
  <2> QED BY <2>2, <2>3, FiniteImage
<1> HIDE DEF tops, others, I, J
<1>9. CASE I = {}
  <2>1. Scaled(b, k).top = k * b.top
    BY ScaledBlock
  <2>2. BandOf(other, k * b.top) = BandOf(page, b.top)
    BY <1>6, ScalesBandOf
  <2> HIDE DEF other
  <2>3. Band(other, Scaled(b, k)) = Band(page, b)
    BY <1>1, <1>4, <1>9, <2>1, <2>2
  <2> QED BY <2>3 DEF other
<1>10. CASE I # {}
  <2>1. Min(others) = k * Min(tops)
    BY <1>5, <1>7, <1>8, <1>10, ScalesMinMax
  <2>2. Min(tops) \in Int
    <3>1. Min(tops) \in tops
      BY <1>7, <1>8, <1>10, MinMax
    <3> QED BY <1>7, <3>1
  <2>3. BandOf(other, k * Min(tops)) = BandOf(page, Min(tops))
    BY <2>2, ScalesBandOf
  <2> HIDE DEF other
  <2>4. Band(other, Scaled(b, k)) = Band(page, b)
    BY <1>1, <1>4, <1>10, <2>1, <2>3
  <2> QED BY <2>4 DEF other
<1> QED BY <1>9, <1>10

LEMMA ScalesBucket ==
    ASSUME NEW k \in Nat \ {0}, NEW page \in SUBSET Block, IsFiniteSet(page), NEW b \in page,
           Span(page) >= 10, Clear(page)
    PROVE  Bucket(Rescaled(page, k), Scaled(b, k)) = Bucket(page, b)
<1> DEFINE s == Span(page)
<1>1. Span(Rescaled(page, k)) = k * s /\ s \in Int
  BY ScalesSpan
<1>2. Scaled(b, k).left = k * b.left /\ b.left \in Int
  BY ScaledBlock DEF Block
<1>3. s >= 10
  OBVIOUS
<1>a. b.left = 0 \/ (100 * b.left) % (11 * s) # 0
  BY DEF Clear, OnThreshold
<1>4. /\ Width(page) = Max({11 * s, 100})
      /\ Width(Rescaled(page, k)) = Max({11 * (k * s), 100})
  BY <1>1 DEF Width
<1>b. /\ Slips(page, b) => b.left # 0 /\ (100 * b.left) % (11 * s) = 0
      /\ Slips(Rescaled(page, k), Scaled(b, k)) =>
            k * b.left # 0 /\ (100 * (k * b.left)) % (11 * (k * s)) = 0
  BY <1>1, <1>2 DEF Slips
<1>c. /\ Bucket(page, b) = ((100 * b.left) \div Width(page)) - (IF Slips(page, b) THEN 1 ELSE 0)
      /\ Bucket(Rescaled(page, k), Scaled(b, k)) =
            ((100 * (k * b.left)) \div Width(Rescaled(page, k)))
               - (IF Slips(Rescaled(page, k), Scaled(b, k)) THEN 1 ELSE 0)
  BY <1>2 DEF Bucket
<1> HIDE DEF s
<1>5. ASSUME NEW w \in Int, w >= 110 PROVE Max({w, 100}) = w
  <2>1. \E x \in {w, 100}: \A y \in {w, 100}: x >= y
    BY <1>5
  <2>2. Max({w, 100}) \in {w, 100} /\ \A y \in {w, 100}: Max({w, 100}) >= y
    BY <2>1 DEF Max
  <2> QED BY <1>5, <2>2
<1>6. 11 * s \in Int /\ 11 * s >= 110
  BY <1>1, <1>3
<1>7. 11 * (k * s) \in Int /\ 11 * (k * s) >= 110
  <2>1. k * s >= s
    <3>1. k * s - s = (k - 1) * s /\ (k - 1) * s >= 0 /\ k * s \in Int
      BY <1>1, <1>3
    <3> QED BY <1>1, <3>1
  <2>2. k * s \in Int
    BY <1>1
  <2> QED BY <1>1, <1>3, <2>1, <2>2
<1>8. Max({11 * s, 100}) = 11 * s
  BY <1>5, <1>6
<1>9. Max({11 * (k * s), 100}) = 11 * (k * s)
  BY <1>5, <1>7
<1>10. 100 * (k * b.left) = k * (100 * b.left) /\ 11 * (k * s) = k * (11 * s)
  BY <1>1, <1>2
<1>11. (k * (100 * b.left)) \div (k * (11 * s)) = (100 * b.left) \div (11 * s)
  <2>1. 100 * b.left \in Int /\ 11 * s \in Nat \ {0}
    BY <1>1, <1>2, <1>6
  <2> QED BY <2>1, ScalesQuotient
<1>12. ~Slips(page, b)
  BY <1>a, <1>b
<1>13. ~Slips(Rescaled(page, k), Scaled(b, k))
  <2> SUFFICES ASSUME Slips(Rescaled(page, k), Scaled(b, k)) PROVE FALSE
    OBVIOUS
  <2>1. k * b.left # 0 /\ (100 * (k * b.left)) % (11 * (k * s)) = 0
    BY <1>b
  <2>2. b.left # 0
    BY <1>2, <2>1
  <2>3. (k * (100 * b.left)) % (k * (11 * s)) = 0
    BY <1>10, <2>1
  <2>4. 100 * b.left \in Int /\ 11 * s \in Nat \ {0}
    BY <1>1, <1>2, <1>6
  <2>5. (100 * b.left) % (11 * s) = 0
    BY <2>3, <2>4, ScalesDivisor
  <2> QED BY <1>a, <2>2, <2>5
<1>14. (100 * (k * b.left)) \div Width(Rescaled(page, k)) = (100 * b.left) \div Width(page)
  BY <1>4, <1>8, <1>9, <1>10, <1>11
<1> QED BY <1>c, <1>12, <1>13, <1>14

\* A list of blocks in other units.
LEMMA ScaledList ==
    ASSUME NEW k \in Nat \ {0}, NEW bs \in Seq(Block),
           NEW cs, cs = [i \in DOMAIN bs |-> Scaled(bs[i], k)]
    PROVE  /\ cs \in Seq(Block)
           /\ ToSet(cs) = Rescaled(ToSet(bs), k)
           /\ \A b \in ToSet(bs): PageOf(cs, Scaled(b, k)) = Rescaled(PageOf(bs, b), k)
<1>1. Len(bs) \in Nat /\ bs \in [1 .. Len(bs) -> Block] /\ DOMAIN bs = 1 .. Len(bs)
  BY LenProperties
<1>2. cs \in Seq(Block)
  <2> DEFINE n == Len(bs)
  <2>1. cs \in [1 .. n -> Block]
    BY <1>1, ScaledBlock
  <2> HIDE DEF n
  <2> QED BY <1>1, <2>1, ListIsASeq DEF n
<1>3. ToSet(cs) = Rescaled(ToSet(bs), k)
  BY DEF ToSet, Rescaled
<1>4. ToSet(bs) \subseteq Block
  BY ToSetOfSeq
<1>5. ASSUME NEW b \in ToSet(bs)
      PROVE  PageOf(cs, Scaled(b, k)) = Rescaled(PageOf(bs, b), k)
  <2>1. \A c \in ToSet(bs): Scaled(c, k).page = c.page
    BY <1>4, ScaledBlock
  <2>2. PageOf(cs, Scaled(b, k)) = {c \in Rescaled(ToSet(bs), k): c.page = b.page}
    BY <1>3, <2>1 DEF PageOf
  <2>3. Rescaled(PageOf(bs, b), k) = {c \in Rescaled(ToSet(bs), k): c.page = b.page}
    BY <2>1 DEF PageOf, Rescaled
  <2> QED BY <2>2, <2>3
<1> QED BY <1>2, <1>3, <1>5

\* The order of the blocks is the same in other units.
LEMMA ScaledOrder ==
    ASSUME NEW k \in Nat \ {0}, NEW bs \in Seq(Block),
           \A b \in ToSet(bs): Span(PageOf(bs, b)) >= 10 /\ ~OnThreshold(PageOf(bs, b), b),
           NEW cs, cs = [i \in DOMAIN bs |-> Scaled(bs[i], k)]
    PROVE  PreSortedIds(cs) = PreSortedIds(bs)
<1> DEFINE S == SortKeys(bs)
           T == SortKeys(cs)
           R == ReadsBefore(S)
           Q == ReadsBefore(T)
           g == [x \in S |-> <<x[1], x[2], x[3], k * x[4], x[5]>>]
           n == Cardinality(S)
           s == Ranked(S, R)
           u == Ranked(T, Q)
<1>1. /\ cs \in Seq(Block) /\ ToSet(cs) = Rescaled(ToSet(bs), k)
      /\ \A b \in ToSet(bs): PageOf(cs, Scaled(b, k)) = Rescaled(PageOf(bs, b), k)
  BY ScaledList
<1>2. S \in SUBSET Key /\ IsFiniteSet(S) /\ T \in SUBSET Key /\ IsFiniteSet(T)
  BY <1>1, SortKeysAreKeys
<1>3. Orders(R, S) /\ Orders(Q, T)
  <2> HIDE DEF S, T
  <2> QED BY <1>2, KeysAreOrdered
<1>4. ASSUME NEW b \in ToSet(bs)
      PROVE  SortKey(bs, b) \in S /\ SortKey(cs, Scaled(b, k)) = g[SortKey(bs, b)]
  <2> DEFINE page == PageOf(bs, b)
  <2>1. SortKey(bs, b) \in S
    BY DEF SortKeys
  <2>2. SortKey(bs, b) = <<b.page, Band(page, b), Bucket(page, b), b.top, b.id>>
    BY SortKeysAreKeys
  <2>3. Scaled(b, k) \in ToSet(cs)
    BY <1>1 DEF Rescaled
  <2>4. SortKey(cs, Scaled(b, k)) =
           <<Scaled(b, k).page, Band(Rescaled(page, k), Scaled(b, k)),
             Bucket(Rescaled(page, k), Scaled(b, k)), Scaled(b, k).top, Scaled(b, k).id>>
    BY <1>1 DEF SortKey
  <2>5. /\ page \in SUBSET Block /\ IsFiniteSet(page) /\ b \in page /\ Span(page) >= 10
    BY PagesAreFinite
  <2>a. Clear(page)
    <3>1. \A c \in page: c \in ToSet(bs) /\ PageOf(bs, c) = page
      BY DEF PageOf
    <3> HIDE DEF page
    <3> QED BY <3>1 DEF Clear
  <2> HIDE DEF page
  <2>6. /\ Band(Rescaled(page, k), Scaled(b, k)) = Band(page, b)
        /\ Bucket(Rescaled(page, k), Scaled(b, k)) = Bucket(page, b)
    BY <2>5, <2>a, ScalesBand, ScalesBucket
  <2>7. b \in Block
    BY <2>5
  <2>8. Scaled(b, k).page = b.page /\ Scaled(b, k).top = k * b.top /\ Scaled(b, k).id = b.id
    BY <2>7, ScaledBlock
  <2>9. SortKey(cs, Scaled(b, k)) =
           <<b.page, Band(page, b), Bucket(page, b), k * b.top, b.id>>
    BY <2>4, <2>6, <2>8
  <2>10. g[SortKey(bs, b)] = <<b.page, Band(page, b), Bucket(page, b), k * b.top, b.id>>
    <3> HIDE DEF S
    <3> QED BY <2>1, <2>2
  <2> QED BY <2>1, <2>9, <2>10
<1>5. ASSUME NEW x \in S PROVE \E b \in ToSet(bs): x = SortKey(bs, b)
  BY DEF SortKeys
<1>6. ASSUME NEW t \in T PROVE \E b \in ToSet(bs): t = SortKey(cs, Scaled(b, k))
  BY <1>1 DEF SortKeys, Rescaled
<1>7. ASSUME NEW b \in ToSet(bs) PROVE SortKey(cs, Scaled(b, k)) \in T
  BY <1>1 DEF SortKeys, Rescaled
<1> HIDE DEF S, T
<1>8. g \in [S -> T]
  <2>1. \A x \in S: g[x] \in T
    BY <1>4, <1>5, <1>7
  <2> QED BY <2>1
<1>9. \A t \in T: \E x \in S: g[x] = t
  <2> HIDE DEF g
  <2> QED BY <1>4, <1>6
<1>10. \A x \in S: g[x][5] = x[5]
  OBVIOUS
<1>11. ASSUME NEW x \in S, NEW y \in S PROVE Less(x, y) <=> Less(g[x], g[y])
  <2>1. x \in Key /\ y \in Key /\ g[x] \in Key /\ g[y] \in Key
    BY <1>2, <1>8
  <2>2. /\ x[4] \in Int /\ y[4] \in Int
    BY <2>1 DEF Key
  <2>3. (k * x[4] < k * y[4] <=> x[4] < y[4]) /\ (k * x[4] = k * y[4] <=> x[4] = y[4])
    <3> DEFINE p == x[4]
               q == y[4]
    <3>1. p \in Int /\ q \in Int
      BY <2>2
    <3> HIDE DEF p, q
    <3>2. (k * p < k * q <=> p < q) /\ (k * p = k * q <=> p = q)
      BY <3>1, ScalesOrder
    <3> QED BY <3>2 DEF p, q
  <2>4. /\ g[x][1] = x[1] /\ g[x][2] = x[2] /\ g[x][3] = x[3] /\ g[x][4] = k * x[4] /\ g[x][5] = x[5]
        /\ g[y][1] = y[1] /\ g[y][2] = y[2] /\ g[y][3] = y[3] /\ g[y][4] = k * y[4] /\ g[y][5] = y[5]
    OBVIOUS
  <2> HIDE DEF g
  <2>5. g[x][4] < g[y][4] <=> x[4] < y[4]
    BY <2>3, <2>4
  <2>6. g[x][4] = g[y][4] <=> x[4] = y[4]
    BY <2>3, <2>4
  <2> QED BY <2>1, <2>4, <2>5, <2>6, LessByComponent
<1>12. \A x, y \in S: <<x, y>> \in R <=> <<g[x], g[y]>> \in Q
  <2>1. \A x, y \in S: <<x, y>> \in R <=> Less(x, y)
    BY DEF ReadsBefore
  <2>2. \A x, y \in T: <<x, y>> \in Q <=> Less(x, y)
    BY DEF ReadsBefore
  <2> HIDE DEF g, R, Q
  <2> QED BY <1>8, <1>11, <2>1, <2>2
<1> HIDE DEF g, R, Q
<1>13. Cardinality(T) = n /\ \A i \in 1 .. n: u[i] = g[s[i]]
  BY <1>2, <1>3, <1>8, <1>9, <1>12, RankedAlike
<1>14. s \in [1 .. n -> S] /\ u \in [1 .. n -> T]
  <2>1. s \in [1 .. n -> S] /\ u \in [1 .. Cardinality(T) -> T]
    BY <1>2, <1>3, RankedList
  <2> QED BY <1>13, <2>1
<1>15. /\ PreSortedIds(bs) = [i \in DOMAIN s |-> s[i][5]]
       /\ PreSortedIds(cs) = [i \in DOMAIN u |-> u[i][5]]
  BY DEF PreSortedIds, PreSorted, S, T, R, Q
<1> HIDE DEF s, u, n
<1>16. \A i \in 1 .. n: u[i][5] = s[i][5]
  BY <1>10, <1>13, <1>14
<1>17. DOMAIN s = 1 .. n /\ DOMAIN u = 1 .. n
  BY <1>14
<1> QED BY <1>15, <1>16, <1>17

\* The reading order does not depend on the units of the coordinates, whatever the factor and
\* however products are rounded, on pages of ten units or more where no block lies exactly on a
\* threshold (geometric_pre_sorter, "invariant to the model's coordinate scale").
THEOREM OrderIsScaleFree == Spec => ScaleInvariant
<1> DEFINE Unrounded == \A b \in ToSet(blocks):
              LET page == PageOf(blocks, b) IN Span(page) >= 10 /\ ~OnThreshold(page, b)
<1>1. ASSUME StageInv, [Next]_vars, Sorting, Unrounded, NEW k \in Factors
      PROVE  payload' = PreSortedIds([i \in DOMAIN blocks |-> Scaled(blocks[i], k)])
  <2>1. blocks \in Seq(Block) /\ payload' = PreSortedIds(blocks)
    BY <1>1, SortingStep
  <2>2. k \in Nat \ {0}
    BY FactorsAssumption
  <2> DEFINE cs == [i \in DOMAIN blocks |-> Scaled(blocks[i], k)]
  <2>3. cs = [i \in DOMAIN blocks |-> Scaled(blocks[i], k)]
    OBVIOUS
  <2> HIDE DEF cs
  <2>4. PreSortedIds(cs) = PreSortedIds(blocks)
    BY <1>1, <2>1, <2>2, <2>3, ScaledOrder
  <2> QED BY <2>1, <2>4 DEF cs
<1>2. StageInv /\ [Next]_vars =>
         [Sorting /\ Unrounded =>
             \A k \in Factors:
                payload' = PreSortedIds([i \in DOMAIN blocks |-> Scaled(blocks[i], k)])]_vars
  BY <1>1
<1> QED BY <1>2, StageInvariant, PTL DEF Spec, ScaleInvariant

---------------------------------------------------------------------------
(* Repair *)

\* A repaired edge goes to another block of the payload.
LEMMA RepairedResolves ==
    ASSUME NEW map, NEW b \in ToSet(payload)
    PROVE  Repaired(map)[b] \in (ToSet(payload) \ {b}) \cup {None}
<1>1. CASE b \notin DOMAIN map \/ b \in Orphans(map) \cup SelfParents(map)
  BY <1>1 DEF Repaired
<1>2. CASE b \in DOMAIN map /\ b \notin Orphans(map) \cup SelfParents(map)
  <2>1. Repaired(map)[b] = map[b]
    BY <1>2 DEF Repaired
  <2>2. map[b] = None \/ map[b] \in ToSet(payload)
    BY <1>2 DEF Orphans, Known
  <2>3. map[b] # b
    BY <1>2 DEF SelfParents
  <2> QED BY <2>1, <2>2, <2>3
<1> QED BY <1>1, <1>2

\* An edge is the answer's, or it is None and one of the three warnings names the block.
LEMMA RepairedOrTold ==
    ASSUME NEW map, NEW b \in ToSet(payload)
    PROVE  \/ b \in DOMAIN map /\ Repaired(map)[b] = map[b]
           \/ Repaired(map)[b] = None /\ \E w \in RepairWarnings(map): w[2] = b
<1>1. CASE b \in DOMAIN map /\ b \notin Orphans(map) \cup SelfParents(map)
  BY <1>1 DEF Repaired
<1>2. CASE b \in Orphans(map)
  <2>1. <<"unknown parent", b>> \in RepairWarnings(map)
    BY <1>2 DEF RepairWarnings
  <2> QED BY <1>2, <2>1 DEF Repaired
<1>3. CASE b \in SelfParents(map)
  <2>1. <<"own parent", b>> \in RepairWarnings(map)
    BY <1>3 DEF RepairWarnings
  <2> QED BY <1>3, <2>1 DEF Repaired
<1>4. CASE b \notin DOMAIN map
  <2>1. <<"missing", b>> \in RepairWarnings(map)
    BY <1>4 DEF RepairWarnings, Missing
  <2> QED BY <1>4, <2>1 DEF Repaired
<1> QED BY <1>1, <1>2, <1>3, <1>4

\* Only the last two steps make the tree.
LEMMA DoneSteps ==
    [Next]_vars /\ stage' = "done" =>
        \/ Relate \/ Skip
        \/ stage = "done" /\ UNCHANGED <<payload, parent, warnings, answer>>
  BY DEF Next, vars, Prepare, Sort, SortRaises, RelateRaises

\* Every parent in a tree is another block of it, whatever the answer names
\* (layout_hierarchy_agent_node, relation_map).
THEOREM ParentsAreBlocks == Spec => []ParentsResolve
<1>1. Init => ParentsResolve
  BY DEF Init, ParentsResolve
<1>2. ParentsResolve /\ [Next]_vars => ParentsResolve'
  <2> SUFFICES ASSUME ParentsResolve, [Next]_vars, stage' = "done",
                      NEW b \in ToSet(payload)'
               PROVE  parent'[b] \in (ToSet(payload)' \ {b}) \cup {None}
    BY DEF ParentsResolve
  <2>1. CASE Relate
    <3>1. PICK map: parent' = Repaired(map) /\ payload' = payload
      BY <2>1 DEF Relate
    <3>2. ToSet(payload)' = ToSet(payload)
      BY <3>1 DEF ToSet
    <3> QED BY <3>1, <3>2, RepairedResolves
  <2>2. CASE Skip
    <3>1. payload' = payload /\ parent' = [c \in ToSet(payload) |-> None]
      BY <2>2 DEF Skip
    <3>2. ToSet(payload)' = ToSet(payload)
      BY <3>1 DEF ToSet
    <3> QED BY <3>1, <3>2
  <2>3. CASE stage = "done" /\ UNCHANGED <<payload, parent, warnings, answer>>
    <3>1. ToSet(payload)' = ToSet(payload)
      BY <2>3 DEF ToSet
    <3> QED BY <2>3, <3>1 DEF ParentsResolve
  <2> QED BY <2>1, <2>2, <2>3, DoneSteps
<1> QED BY <1>1, <1>2, PTL DEF Spec

\* No edge of the answer is changed in silence (layout_hierarchy_agent_node, orphan_warnings).
THEOREM ChangesAreTold == Spec => []RepairsAreTold
<1>1. Init => RepairsAreTold
  BY DEF Init, RepairsAreTold
<1>2. RepairsAreTold /\ [Next]_vars => RepairsAreTold'
  <2> SUFFICES ASSUME RepairsAreTold, [Next]_vars, stage' = "done", Len(payload') > 1,
                      NEW b \in ToSet(payload)'
               PROVE  \/ b \in DOMAIN answer' /\ parent'[b] = answer'[b]
                      \/ parent'[b] = None /\ \E w \in warnings': w[2] = b
    BY DEF RepairsAreTold
  <2>1. CASE Relate
    <3>1. PICK map: /\ answer' = map /\ parent' = Repaired(map) /\ payload' = payload
                    /\ warnings' = warnings \cup RepairWarnings(map)
      BY <2>1 DEF Relate
    <3>2. ToSet(payload)' = ToSet(payload)
      BY <3>1 DEF ToSet
    <3> QED BY <3>1, <3>2, RepairedOrTold
  <2>2. CASE Skip
    BY <2>2 DEF Skip
  <2>3. CASE stage = "done" /\ UNCHANGED <<payload, parent, warnings, answer>>
    <3>1. ToSet(payload)' = ToSet(payload)
      BY <2>3 DEF ToSet
    <3> QED BY <2>3, <3>1 DEF RepairsAreTold
  <2> QED BY <2>1, <2>2, <2>3, DoneSteps
<1> QED BY <1>1, <1>2, PTL DEF Spec
====================================================================================

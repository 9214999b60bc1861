---------------------------- MODULE PipelineBlockProofs ----------------------------
(***************************************************************************)
(* Theorems about the blocks and the warnings of Pipeline, for every       *)
(* number of pages, retries and runs: that the channels have their types,  *)
(* that the buffer holds blocks of the present run only, that the pages    *)
(* extracted badly are warned of, and that the audit neither lies nor      *)
(* loses a page.                                                           *)
(***************************************************************************)
EXTENDS PipelineProofs, RankingProofs

\* What the workers of the fan-out have returned so far.
WritesInv ==
    \A p \in 2 .. PageCount: \A b \in ToSet(writes[p].blocks):
        b.by = p /\ b.run = run /\ (b.quality # "ok" => writes[p].warned)

\* Up to the fan-out all blocks are of page 1; behind it those the schema rejects are warned of.
BadBlocksInv ==
    /\ next \in {"retry_node", "burst_dispatcher", "parser_worker"} =>
          \A b \in ToSet(blocks): b.by = 1
    /\ next \in {"coverage_auditor", "hierarchy_node", "end"} =>
          \A b \in ToSet(blocks): b.by > 1 /\ b.quality # "ok" => Warning("page", b.by) \in warnings

\* Only the audit warns of coverage, and it says what is then true of the blocks.
AuditInv ==
    /\ \A w \in warnings: w.run <= run
    /\ next \notin {"hierarchy_node", "end"} =>
          \A w \in warnings: w.run = run => w.kind # "coverage"
    /\ next \in {"hierarchy_node", "end"} /\ run > 0 /\ Warning("audit skipped", 0) \notin warnings =>
          \A p \in Audited: Warning("coverage", p) \in warnings <=> Score(blocks, p) = 0

BlockInv == TypeOK /\ WritesInv /\ BufferIsOfThisRun /\ BadBlocksInv /\ AuditInv
---------------------------------------------------------------------------
(* The reducer, and what a call may answer *)

LEMMA EmptyList == ToSet(<<>>) = {} /\ \A S: <<>> \in Seq(S)
BY DEF ToSet

LEMMA Merges ==
    /\ \A bs: MergeFlatBlocks(bs, Reset) = <<>>
    /\ \A bs, new: MergeFlatBlocks(bs, Append_(new)) = bs \o new
    /\ \A bs, pages, new: MergeFlatBlocks(bs, Replace(pages, new)) =
          ItemsAt(bs, {i \in DOMAIN bs: bs[i].page \notin pages}) \o new
BY DEF MergeFlatBlocks, Reset, Append_, Replace

LEMMA ShortLists ==
    ASSUME NEW S, NEW x \in S, NEW y \in S
    PROVE  /\ <<x>> \in Seq(S) /\ ToSet(<<x>>) = {x}
           /\ <<x, y>> \in Seq(S) /\ ToSet(<<x, y>>) = {x, y}
BY DEF ToSet

\* The blocks of a call carry its page, its run and the number of the attempt.
MadeFor(p) == {b \in BlockSet: b.by = p /\ b.run = run /\ b.try = retry_count}

LEMMA BlocksMade ==
    ASSUME run \in 1 .. MaxRuns, retry_count \in 0 .. MaxRetries, NEW p \in Pages
    PROVE  \A l \in 0 .. PageCount, a \in Pages, q \in Quality, i \in Ids:
              Block(l, a, q, p, i) \in MadeFor(p)
BY DEF Block, BlockSet, MadeFor

LEMMA RepliesMade ==
    ASSUME run \in 1 .. MaxRuns, retry_count \in 0 .. MaxRetries, NEW p \in Pages,
           NEW bs \in Replies(p)
    PROVE  bs \in Seq(MadeFor(p))
<1>1. /\ \A l \in 0 .. PageCount, a \in Pages, q \in Quality, i \in Ids:
            Block(l, a, q, p, i) \in MadeFor(p)
      /\ "ok" \in Quality /\ Pages \subseteq 0 .. PageCount /\ 0 \in 0 .. PageCount
  BY BlocksMade, QualityAssumption, PageCountAssumption DEF Pages
<1>2. CASE bs = <<>>
  BY <1>2, EmptyList
<1>3. CASE \E a \in Pages, i \in Ids: bs = <<Block(p, a, "ok", p, i)>>
  BY <1>1, <1>3, ShortLists
<1>4. CASE \E l \in Pages, i \in Ids: bs = <<Block(l, p, "ok", p, i)>>
  BY <1>1, <1>4, ShortLists
<1>5. CASE \E q \in Quality, i \in Ids: bs = <<Block(IF q = "nobbox" THEN 0 ELSE p, p, q, p, i)>>
  BY <1>1, <1>5, ShortLists
<1>6. CASE \E l \in Pages \ {p}, q \in Quality \cap {"ok", "invalid"}, i \in Ids, j \in Ids:
              bs = <<Block(p, p, "ok", p, i), Block(l, l, q, p, j)>>
  BY <1>1, <1>6, ShortLists
<1> QED BY <1>2, <1>3, <1>4, <1>5, <1>6 DEF Replies

\* A worker's blocks that the schema rejects come with a warning.
Returns(p) ==
    {w \in [blocks: Seq(MadeFor(p)), warned: BOOLEAN, done: BOOLEAN]:
        \A b \in ToSet(w.blocks): b.quality # "ok" => w.warned}

LEMMA ReturnsMade ==
    ASSUME run \in 1 .. MaxRuns, retry_count \in 0 .. MaxRetries, NEW p \in Pages,
           NEW w \in WorkerReturns(p)
    PROVE  w \in Returns(p)
<1>1. PICK bs \in Replies(p):
         w = [blocks |-> bs, warned |-> ~(bs # <<>> /\ Valid(bs)), done |-> TRUE]
  BY DEF WorkerReturns
<1>2. bs \in Seq(MadeFor(p))
  BY RepliesMade
<1>3. (~(bs # <<>> /\ Valid(bs))) \in BOOLEAN
  OBVIOUS
<1>4. \A b \in ToSet(bs): b.quality # "ok" => ~(bs # <<>> /\ Valid(bs))
  BY DEF Valid
<1> QED BY <1>1, <1>2, <1>3, <1>4 DEF Returns

\* Blocks on or off some pages.
LEMMA OffPages ==
    ASSUME NEW S, NEW bs \in Seq(S), NEW pages
    PROVE  /\ ItemsAt(bs, {i \in DOMAIN bs: bs[i].page \notin pages}) \in Seq(S)
           /\ ToSet(ItemsAt(bs, {i \in DOMAIN bs: bs[i].page \notin pages}))
                = {b \in ToSet(bs): b.page \notin pages}
<1> DEFINE I == {i \in DOMAIN bs: bs[i].page \notin pages}
<1>1. ItemsAt(bs, I) \in Seq(S) /\ ToSet(ItemsAt(bs, I)) = {bs[i]: i \in I}
  <2>1. I \in SUBSET DOMAIN bs
    OBVIOUS
  <2> HIDE DEF I
  <2> QED BY <2>1, ItemsOfSeq
<1>2. {bs[i]: i \in I} = {b \in ToSet(bs): b.page \notin pages}
  BY DEF ToSet
<1> QED BY <1>1, <1>2

LEMMA OnOnePage ==
    ASSUME NEW S, NEW bs \in Seq(S), NEW p
    PROVE  OnPage(bs, p) \in Seq(S) /\ ToSet(OnPage(bs, p)) = {b \in ToSet(bs): b.page = p}
<1> DEFINE I == {i \in DOMAIN bs: bs[i].page = p}
<1>1. ItemsAt(bs, I) \in Seq(S) /\ ToSet(ItemsAt(bs, I)) = {bs[i]: i \in I}
  <2>1. I \in SUBSET DOMAIN bs
    OBVIOUS
  <2> HIDE DEF I
  <2> QED BY <2>1, ItemsOfSeq
<1>2. {bs[i]: i \in I} = {b \in ToSet(bs): b.page = p}
  BY DEF ToSet
<1> QED BY <1>1, <1>2 DEF OnPage
---------------------------------------------------------------------------
(* The audit *)

LEMMA PagesFinite == Pages \subseteq 1 .. PageCount /\ IsFiniteSet(Pages)
                     /\ Legible \subseteq Pages /\ Audited \subseteq Pages
BY PageCountAssumption, LayerAssumption, FS_Interval DEF Pages

LEMMA FlaggedPages == \A bs: Flagged(bs) \in Seq(Pages)
<1> SUFFICES ASSUME NEW bs PROVE Flagged(bs) \in Seq(Pages)
  OBVIOUS
<1> DEFINE suspects == [n \in {d[1]: d \in Duplicates(bs)} |-> SuspectOf(bs, n)]
           first == {n \in DOMAIN suspects:
                        /\ suspects[n] \notin Uncovered(bs)
                        /\ \A m \in DOMAIN suspects: m < n => suspects[m] # suspects[n]}
<1> DEFINE U == Uncovered(bs)
<1>1. U \in SUBSET Pages
  BY PagesFinite DEF Uncovered
<1>2. Ascending(Uncovered(bs)) \in Seq(Pages)
  <2> HIDE DEF U
  <2>1. U \in SUBSET Int
    BY <1>1, PagesFinite, PageCountAssumption
  <2>2. IsFiniteSet(U)
    BY <1>1, PagesFinite, FS_Subset
  <2>3. Cardinality(U) \in Nat /\ Ascending(U) \in [1 .. Cardinality(U) -> U]
    BY <2>1, <2>2, AscendingList
  <2>4. Ascending(U) \in [1 .. Cardinality(U) -> Pages]
    BY <1>1, <2>3
  <2>5. Ascending(U) \in Seq(Pages)
    BY <2>3, <2>4, ListIsASeq
  <2> QED BY <2>5 DEF U
<1>3. ASSUME NEW d \in Duplicates(bs) PROVE d[1] \in Pages /\ SuspectOf(bs, d[1]) \in Pages
  <2>1. d \in Pages \X Pages /\ Resembled(bs, d[1]) = {d[2]}
    BY DEF Duplicates
  <2>2. (CHOOSE m \in Resembled(bs, d[1]): TRUE) = d[2]
    BY <2>1
  <2> QED BY <2>1, <2>2 DEF SuspectOf, Suspect
<1>4. DOMAIN suspects \subseteq Pages /\ \A n \in DOMAIN suspects: suspects[n] \in Pages
  BY <1>3
<1>5. ItemsAt(suspects, first) \in Seq(Pages)
  <2>1. first \in SUBSET Pages /\ \A n \in first: suspects[n] \in Pages
    BY <1>4
  <2> HIDE DEF suspects, first
  <2>2. IsFiniteSet(first)
    BY <2>1, PagesFinite, FS_Subset
  <2>3. first \in SUBSET Int
    BY <2>1, PagesFinite, PageCountAssumption
  <2> QED BY <2>1, <2>2, <2>3, ItemsAtList
<1>6. Flagged(bs) = Ascending(Uncovered(bs)) \o ItemsAt(suspects, first)
  BY DEF Flagged
<1> HIDE DEF suspects, first
<1> QED BY <1>2, <1>5, <1>6, ConcatProperties

\* A score is 0 or 1, and depends on which blocks there are, not on their order.
LEMMA Scores ==
    \A bs, cs, p:
        /\ Score(bs, p) \in {0, 1}
        /\ ToSet(bs) = ToSet(cs) => Score(bs, p) = Score(cs, p)
BY DEF Score

\* What one audit does: it replaces the blocks of pages that were not covered.
LEMMA AuditStep ==
    ASSUME TypeOK, run \in 1 .. MaxRuns, Audit
    PROVE  \E replaced \in SUBSET Legible, new \in Seq(BlockSet), told \in SUBSET {Warning("page", p): p \in Pages}:
             /\ \A b \in ToSet(new):
                   /\ b.page \in replaced /\ b.run = run /\ b.try = retry_count
                   /\ b.quality # "ok" => Warning("page", b.by) \in told
             /\ \A p \in replaced: Score(blocks, p) = 0
             /\ blocks' \in Seq(BlockSet)
             /\ ToSet(blocks') = {b \in ToSet(blocks): b.page \notin replaced} \cup ToSet(new)
             /\ ToSet(AuditedAfter(replaced, new)) = ToSet(blocks')
             /\ warnings' = warnings \cup AuditWarnings(AuditedAfter(replaced, new), replaced,
                                                         Flagged(blocks)) \cup told
<1> DEFINE flagged == Flagged(blocks)
           retried == Retried(flagged)
           Replaced(w) == {p \in retried: Keep(blocks, p, w[p].blocks)}
           Kept(replaced) == ItemsAt(flagged, {i \in DOMAIN flagged: flagged[i] \in replaced})
           Scoped(w, kept) == [i \in DOMAIN kept |-> OnPage(w[kept[i]].blocks, kept[i])]
           told(w) == UNION {WorkerWarnings(p, w[p]): p \in retried}
<1> DEFINE Made(w, replaced) ==
              LET new == FlattenSeq(Scoped(w, Kept(replaced))) IN
              /\ blocks' = IF replaced = {} THEN blocks
                           ELSE MergeFlatBlocks(blocks, Replace(replaced, new))
              /\ warnings' = warnings \cup
                    (AuditWarnings(AuditedAfter(replaced, new), replaced, flagged) \cup told(w))
<1>1. PICK w: /\ \A p \in retried: w[p] \in WorkerReturns(p)
              /\ \E replaced \in {Replaced(w)}: Made(w, replaced)
  <2> DEFINE all == [p \in retried |-> WorkerReturns(p)]
             Some(returns) == {v \in [retried -> UNION {returns[p]: p \in retried}]:
                                  \A p \in retried: v[p] \in returns[p]}
  <2>1. \E returns \in {all}: \E w \in Some(returns):
           \E replaced \in {Replaced(w)}: Made(w, replaced)
    BY DEF Audit, MergeWarnings
  <2> HIDE DEF Made, Replaced
  <2>2. PICK w \in Some(all): \E replaced \in {Replaced(w)}: Made(w, replaced)
    <3> HIDE DEF all, Some
    <3> QED BY <2>1
  <2>3. \A p \in retried: w[p] \in all[p] /\ all[p] = WorkerReturns(p)
    <3> HIDE DEF retried
    <3> QED BY <2>2
  <2> QED BY <2>2, <2>3
<1>2. retried \subseteq Legible /\ \A p \in retried: p \in Pages /\ w[p] \in Returns(p)
  <2>1. retried \subseteq Legible /\ retried \subseteq Pages
    BY PagesFinite DEF Retried
  <2>2. ASSUME NEW p \in retried PROVE w[p] \in WorkerReturns(p)
    BY <1>1
  <2> QED BY <2>1, <2>2, ReturnsMade, TypeOK DEF TypeOK
<1> DEFINE replaced == Replaced(w)
           kept == Kept(replaced)
           new == FlattenSeq(Scoped(w, kept))
           toldNow == told(w)
<1>3. /\ blocks' = IF replaced = {} THEN blocks ELSE MergeFlatBlocks(blocks, Replace(replaced, new))
      /\ warnings' = warnings \cup AuditWarnings(AuditedAfter(replaced, new), replaced, flagged) \cup toldNow
  <2>1. PICK r \in {replaced}:
          LET n == FlattenSeq(Scoped(w, Kept(r))) IN
          /\ blocks' = IF r = {} THEN blocks ELSE MergeFlatBlocks(blocks, Replace(r, n))
          /\ warnings' = warnings \cup (AuditWarnings(AuditedAfter(r, n), r, flagged) \cup told(w))
    BY <1>1
  <2>2. r = replaced
    BY <2>1
  <2>3. new = FlattenSeq(Scoped(w, Kept(r)))
    BY <2>2
  <2> HIDE DEF replaced, new, toldNow, flagged
  <2> QED BY <2>1, <2>2, <2>3 DEF toldNow
<1>4. replaced \subseteq retried /\ \A p \in replaced: Score(blocks, p) = 0
  <2>1. \A p \in replaced: Score(OnPage(w[p].blocks, p), p) > Score(blocks, p)
    BY DEF Keep
  <2>2. \A bs, p: Score(bs, p) \in {0, 1}
    BY Scores
  <2> QED BY <2>1, <2>2
<1>5. kept \in Seq(replaced)
  <2>1. flagged \in Seq(Pages)
    BY FlaggedPages
  <2> DEFINE I == {i \in DOMAIN flagged: flagged[i] \in replaced}
  <2>2. I \in SUBSET DOMAIN flagged /\ \A i \in I: flagged[i] \in replaced
    OBVIOUS
  <2>3. IsFiniteSet(I) /\ I \in SUBSET Int
    <3> HIDE DEF I, flagged
    <3>1. DOMAIN flagged = 1 .. Len(flagged) /\ Len(flagged) \in Nat
      BY <2>1, LenProperties
    <3>2. IsFiniteSet(1 .. Len(flagged))
      <4>1. \A n \in Nat: IsFiniteSet(1 .. n)
        BY FS_Interval
      <4> QED BY <3>1, <4>1
    <3>3. IsFiniteSet(I)
      BY <2>2, <3>1, <3>2, FS_Subset
    <3>4. I \in SUBSET Int
      BY <2>2, <3>1
    <3> QED BY <3>3, <3>4
  <2>4. kept = ItemsAt(flagged, I)
    OBVIOUS
  <2> HIDE DEF I, flagged, replaced, kept
  <2>5. ItemsAt(flagged, I) \in Seq(replaced)
    BY <2>2, <2>3, ItemsAtList
  <2> QED BY <2>4, <2>5
<1> DEFINE Good(p) == {b \in BlockSet: /\ b.page = p /\ b.run = run /\ b.try = retry_count
                                       /\ b.quality # "ok" => Warning("page", b.by) \in toldNow}
           AllGood == UNION {Good(p): p \in replaced}
<1>6. ASSUME NEW p \in replaced PROVE OnPage(w[p].blocks, p) \in Seq(Good(p))
  <2>1. p \in retried /\ w[p] \in Returns(p)
    BY <1>2, <1>4, <1>6
  <2>2. /\ w[p].blocks \in Seq(MadeFor(p))
        /\ \A b \in ToSet(w[p].blocks): b.quality # "ok" => w[p].warned
    BY <2>1 DEF Returns
  <2>3. /\ OnPage(w[p].blocks, p) \in Seq(MadeFor(p))
        /\ ToSet(OnPage(w[p].blocks, p)) = {b \in ToSet(w[p].blocks): b.page = p}
    BY <2>2, OnOnePage
  <2>4. ToSet(w[p].blocks) \subseteq MadeFor(p)
    BY <2>2, ToSetOfSeq
  <2>5. w[p].warned => Warning("page", p) \in toldNow
    BY <2>1 DEF WorkerWarnings
  <2>6. ToSet(OnPage(w[p].blocks, p)) \subseteq Good(p)
    BY <2>2, <2>3, <2>4, <2>5 DEF MadeFor
  <2>7. OnPage(w[p].blocks, p) \in Seq(ToSet(OnPage(w[p].blocks, p)))
    BY <2>3, ToSetOfSeq
  <2> HIDE DEF Good
  <2> QED BY <2>6, <2>7, SeqMonotonic
<1>7. new \in Seq(AllGood) /\ ToSet(new) \subseteq AllGood
  <2> HIDE DEF Good, replaced, kept
  <2>1. DOMAIN kept = 1 .. Len(kept) /\ Len(kept) \in Nat /\ \A i \in DOMAIN kept: kept[i] \in replaced
    BY <1>5, LenProperties, ElementOfSeq
  <2>2. ASSUME NEW i \in DOMAIN kept PROVE OnPage(w[kept[i]].blocks, kept[i]) \in Seq(AllGood)
    <3>1. OnPage(w[kept[i]].blocks, kept[i]) \in Seq(Good(kept[i]))
      BY <1>6, <2>1
    <3>2. Good(kept[i]) \subseteq AllGood
      BY <2>1
    <3> QED BY <3>1, <3>2, SeqMonotonic
  <2> DEFINE ss == Scoped(w, kept)
  <2>3. ss \in [1 .. Len(kept) -> Seq(AllGood)]
    BY <2>1, <2>2
  <2> HIDE DEF ss, AllGood
  <2>4. ss \in Seq(Seq(AllGood))
    BY <2>1, <2>3, ListIsASeq
  <2>5. FlattenSeq(ss) \in Seq(AllGood)
    BY <2>4, FlattenedSeq
  <2>6. ToSet(FlattenSeq(ss)) \subseteq AllGood
    BY <2>5, ToSetOfSeq
  <2> QED BY <2>5, <2>6 DEF ss
<1>8. AllGood \subseteq BlockSet
  OBVIOUS
<1>9. new \in Seq(BlockSet)
  <2> HIDE DEF AllGood, new
  <2> QED BY <1>7, <1>8, SeqMonotonic
<1>10. blocks \in Seq(BlockSet)
  BY DEF TypeOK
<1> DEFINE rest == ItemsAt(blocks, {i \in DOMAIN blocks: blocks[i].page \notin replaced})
<1>11. rest \in Seq(BlockSet) /\ ToSet(rest) = {b \in ToSet(blocks): b.page \notin replaced}
  <2>1. \A pages:
          /\ ItemsAt(blocks, {i \in DOMAIN blocks: blocks[i].page \notin pages}) \in Seq(BlockSet)
          /\ ToSet(ItemsAt(blocks, {i \in DOMAIN blocks: blocks[i].page \notin pages}))
               = {b \in ToSet(blocks): b.page \notin pages}
    BY <1>10, OffPages
  <2> HIDE DEF replaced
  <2> QED BY <2>1, Zenon
<1>12. /\ rest \o new \in Seq(BlockSet)
       /\ ToSet(rest \o new) = {b \in ToSet(blocks): b.page \notin replaced} \cup ToSet(new)
  <2> HIDE DEF replaced, rest, new
  <2> QED BY <1>9, <1>11, ToSetOfConcat
<1>13. AuditedAfter(replaced, new) = rest \o new
  BY DEF AuditedAfter
<1>14. replaced = {} => ToSet(new) = {}
  BY <1>7
<1>15. /\ blocks' \in Seq(BlockSet)
       /\ ToSet(blocks') = {b \in ToSet(blocks): b.page \notin replaced} \cup ToSet(new)
  <2>1. CASE replaced = {}
    <3>1. blocks' = blocks
      BY <1>3, <2>1
    <3>2. {b \in ToSet(blocks): b.page \notin replaced} = ToSet(blocks)
      BY <2>1
    <3> HIDE DEF replaced, new
    <3> QED BY <1>10, <1>14, <2>1, <3>1, <3>2
  <2>2. CASE replaced # {}
    <3>1. MergeFlatBlocks(blocks, Replace(replaced, new)) = rest \o new
      <4> HIDE DEF replaced, new
      <4> QED BY Merges
    <3>2. blocks' = rest \o new
      BY <1>3, <2>2, <3>1
    <3> HIDE DEF replaced, rest, new
    <3> QED BY <1>12, <3>2
  <2> QED BY <2>1, <2>2
<1>16. toldNow \in SUBSET {Warning("page", p): p \in Pages}
  BY <1>2 DEF WorkerWarnings
<1>17. replaced \in SUBSET Legible
  BY <1>2, <1>4
<1>18. \A b \in ToSet(new):
          /\ b.page \in replaced /\ b.run = run /\ b.try = retry_count
          /\ b.quality # "ok" => Warning("page", b.by) \in toldNow
  <2>1. \A b \in AllGood:
          /\ b.page \in replaced /\ b.run = run /\ b.try = retry_count
          /\ b.quality # "ok" => Warning("page", b.by) \in toldNow
    <3> HIDE DEF replaced, toldNow
    <3> QED OBVIOUS
  <2> HIDE DEF replaced, toldNow, AllGood, new
  <2> QED BY <1>7, <2>1
<1> HIDE DEF replaced, new, toldNow, rest, flagged
<1> QED BY <1>3, <1>4, <1>9, <1>12, <1>13, <1>15, <1>16, <1>17, <1>18 DEF flagged
---------------------------------------------------------------------------
(* The fan-out *)

\* The blocks after it are those before and those of the workers.
LEMMA MergedBlocks ==
    ASSUME TypeOK
    PROVE  /\ Merged[PageCount] \in Seq(BlockSet)
           /\ ToSet(Merged[PageCount])
                = ToSet(blocks) \cup UNION {ToSet(writes[p].blocks): p \in 2 .. PageCount}
<1> DEFINE x == [p \in 1 .. PageCount |-> IF p = 1 THEN blocks ELSE writes[p].blocks]
<1>1. PageCount \in Nat \ {0} /\ 1 \in 1 .. PageCount
  BY PageCountAssumption
<1>2. x \in [1 .. PageCount -> Seq(BlockSet)]
  <2>1. blocks \in Seq(BlockSet) /\ \A p \in 2 .. PageCount: writes[p].blocks \in Seq(BlockSet)
    BY DEF TypeOK
  <2>2. \A p \in 1 .. PageCount: p # 1 => p \in 2 .. PageCount
    BY <1>1
  <2> QED BY <2>1, <2>2
<1>3. \A g: [p \in Pages |-> IF p = 1 THEN blocks
                             ELSE MergeFlatBlocks(g[p - 1], Append_(writes[p].blocks))]
              = [p \in 1 .. PageCount |-> IF p = 1 THEN x[p] ELSE g[p - 1] \o x[p]]
  <2> TAKE g
  <2>1. ASSUME NEW p \in 1 .. PageCount
        PROVE  (IF p = 1 THEN blocks ELSE MergeFlatBlocks(g[p - 1], Append_(writes[p].blocks)))
                 = (IF p = 1 THEN x[p] ELSE g[p - 1] \o x[p])
    BY Merges
  <2> HIDE DEF x
  <2> QED BY <2>1 DEF Pages
<1> HIDE DEF x
<1>4. PICK g: g = [p \in 1 .. PageCount |-> IF p = 1 THEN x[p] ELSE g[p - 1] \o x[p]]
  BY <1>1, ConcatenationExists
<1>5. \E h: h = [p \in Pages |-> IF p = 1 THEN blocks
                                 ELSE MergeFlatBlocks(h[p - 1], Append_(writes[p].blocks))]
  <2> DEFINE F(h) == [p \in Pages |-> IF p = 1 THEN blocks
                                      ELSE MergeFlatBlocks(h[p - 1], Append_(writes[p].blocks))]
             G(h) == [p \in 1 .. PageCount |-> IF p = 1 THEN x[p] ELSE h[p - 1] \o x[p]]
  <2>1. F(g) = G(g) /\ g = G(g)
    BY <1>3, <1>4
  <2> HIDE DEF F, G
  <2>2. \E h: h = F(h)
    BY <2>1
  <2> QED BY <2>2 DEF F
<1>6. Merged = [p \in Pages |-> IF p = 1 THEN blocks
                               ELSE MergeFlatBlocks(Merged[p - 1], Append_(writes[p].blocks))]
  BY <1>5 DEF Merged
<1>7. Merged = [p \in 1 .. PageCount |-> IF p = 1 THEN x[p] ELSE Merged[p - 1] \o x[p]]
  BY <1>3, <1>6
<1>8. Concatenates(Merged, x, PageCount)
  <2>1. \A p \in 1 .. PageCount: Merged[p] = IF p = 1 THEN x[p] ELSE Merged[p - 1] \o x[p]
    BY <1>7
  <2> QED BY <2>1 DEF Concatenates
<1>9. /\ Merged[PageCount] \in Seq(BlockSet)
      /\ ToSet(Merged[PageCount]) = UNION {ToSet(x[p]): p \in 1 .. PageCount}
  BY <1>1, <1>2, <1>8, ConcatenationOfAll
<1>10. UNION {ToSet(x[p]): p \in 1 .. PageCount}
         = ToSet(blocks) \cup UNION {ToSet(writes[p].blocks): p \in 2 .. PageCount}
  <2>1. x[1] = blocks /\ \A p \in 2 .. PageCount: x[p] = writes[p].blocks
    BY <1>1 DEF x
  <2>2. 1 .. PageCount = {1} \cup 2 .. PageCount
    BY <1>1
  <2> QED BY <2>1, <2>2
<1> QED BY <1>9, <1>10
---------------------------------------------------------------------------
(* The steps *)

WarningSet == [kind: Kinds, page: 0 .. PageCount, run: 1 .. MaxRuns]

LEMMA RunBegun ==
    ASSUME Inv, TypeOK, next # "end"
    PROVE  run \in 1 .. MaxRuns /\ tree # run
<1>1. run \in Nat /\ tree \in 0 .. run /\ tree # run
  BY DEF Inv, ThreadInv
<1>2. run \in 0 .. MaxRuns
  BY DEF TypeOK
<1> QED BY <1>1, <1>2, MaxRunsAssumption

\* The types, one by one, of the variables a step changes.
LEMMA TypeKept ==
    ASSUME TypeOK,
           running' \in BOOLEAN,
           outcome' \in {"none", "returned", "KeyError", "other error"},
           running' => outcome' = "none",
           next' \in Nodes \cup {"end"},
           writes' = writes \/
              writes' \in [2 .. PageCount -> [blocks: Seq(BlockSet), warned: BOOLEAN, done: BOOLEAN]],
           retry_count' = retry_count \/ retry_count' \in 0 .. MaxRetries,
           last_validation_error' = last_validation_error \/ last_validation_error' \in Errors,
           truncation_error' = truncation_error \/ truncation_error' \in BOOLEAN,
           blocks' = blocks \/ blocks' \in Seq(BlockSet),
           warnings' = warnings \/ warnings' \subseteq WarningSet,
           usage_log' = usage_log \/ usage_log' \subseteq 1 .. MaxRuns,
           tree' = tree \/ tree' \in 0 .. MaxRuns,
           run' = run \/ run' \in 0 .. MaxRuns,
           cause' = cause \/ cause' \in Errors
    PROVE  TypeOK'
<1>1. writes' \in [2 .. PageCount -> [blocks: Seq(BlockSet), warned: BOOLEAN, done: BOOLEAN]]
  BY DEF TypeOK
<1>2. retry_count' \in 0 .. MaxRetries /\ tree' \in 0 .. MaxRuns /\ run' \in 0 .. MaxRuns
  BY DEF TypeOK
<1>3. last_validation_error' \in Errors /\ cause' \in Errors
  BY DEF TypeOK
<1>4. truncation_error' \in BOOLEAN
  BY DEF TypeOK
<1>5. blocks' \in Seq(BlockSet) /\ usage_log' \subseteq 1 .. MaxRuns
  BY DEF TypeOK
<1>6. warnings' \subseteq [kind: Kinds, page: 0 .. PageCount, run: 1 .. MaxRuns]
  BY DEF TypeOK, WarningSet
<1> QED BY <1>1, <1>2, <1>3, <1>4, <1>5, <1>6 DEF TypeOK

LEMMA WarningsMade ==
    ASSUME run \in 1 .. MaxRuns
    PROVE  /\ \A kind \in Kinds, p \in 0 .. PageCount: Warning(kind, p) \in WarningSet
           /\ \A kind, p: /\ Warning(kind, p).run = run
                          /\ Warning(kind, p).kind = kind
                          /\ Warning(kind, p).page = p
BY DEF Warning, WarningSet

LEMMA InitBlocks == Init => BlockInv
<1> SUFFICES ASSUME Init PROVE BlockInv
  OBVIOUS
<1>1. /\ writes = [p \in 2 .. PageCount |-> NotYet] /\ blocks = <<>> /\ warnings = {}
      /\ running = FALSE /\ next = "end" /\ retry_count = 0 /\ last_validation_error = "none"
      /\ truncation_error = FALSE /\ usage_log = {} /\ tree = 0 /\ outcome = "none" /\ run = 0
      /\ cause = "none"
  BY DEF Init
<1>2. NotYet \in [blocks: Seq(BlockSet), warned: BOOLEAN, done: BOOLEAN]
  BY EmptyList DEF NotYet
<1>3. TypeOK
  <2>1. writes \in [2 .. PageCount -> [blocks: Seq(BlockSet), warned: BOOLEAN, done: BOOLEAN]]
    BY <1>1, <1>2
  <2>2. blocks \in Seq(BlockSet) /\ "none" \in Errors
    BY <1>1, EmptyList DEF Errors
  <2>3. 0 \in 0 .. MaxRetries /\ 0 \in 0 .. MaxRuns
    BY MaxRetriesAssumption, MaxRunsAssumption
  <2> QED BY <1>1, <2>1, <2>2, <2>3 DEF TypeOK
<1>4. WritesInv
  BY <1>1, EmptyList DEF WritesInv, NotYet
<1>5. BufferIsOfThisRun
  BY <1>1, EmptyList DEF BufferIsOfThisRun
<1>6. BadBlocksInv
  BY <1>1, EmptyList DEF BadBlocksInv
<1>7. AuditInv
  BY <1>1 DEF AuditInv
<1> QED BY <1>3, <1>4, <1>5, <1>6, <1>7 DEF BlockInv

\* Starting and ending runs leaves the channels as they are; a fresh run makes them old.
LEMMA RunsKeepBlocks ==
    ASSUME Inv, BlockInv,
           Fresh \/ Resume \/ Kill \/ Fail \/ PioneerRaises \/ AuditRaises \/ Return \/ UNCHANGED vars
    PROVE  BlockInv'
<1>1. UNCHANGED <<channels, cause>>
  BY DEF Fresh, Resume, Kill, Fail, PioneerRaises, AuditRaises, Return, Stop, vars
<1>2. CASE Fresh
  <2>1. /\ next' = "native_extractor" /\ run' = run + 1 /\ run < MaxRuns /\ outcome' = "none"
        /\ running' = TRUE /\ writes' = [p \in 2 .. PageCount |-> NotYet]
    BY <1>2 DEF Fresh
  <2>2. NotYet \in [blocks: Seq(BlockSet), warned: BOOLEAN, done: BOOLEAN]
    BY EmptyList DEF NotYet
  <2>3. tree' # run' /\ run \in 0 .. MaxRuns /\ run' \in 1 .. MaxRuns /\ tree \in 0 .. run
    <3>1. tree' = tree
      BY <1>1 DEF channels
    <3>2. run \in 0 .. MaxRuns
      BY DEF BlockInv, TypeOK
    <3>3. tree \in 0 .. run
      BY DEF Inv, ThreadInv
    <3> QED BY <2>1, <3>1, <3>2, <3>3, MaxRunsAssumption
  <2>4. TypeOK'
    <3>1. writes' \in [2 .. PageCount -> [blocks: Seq(BlockSet), warned: BOOLEAN, done: BOOLEAN]]
      BY <2>1, <2>2
    <3>2. run' \in 0 .. MaxRuns
      BY <2>3
    <3> QED BY <1>1, <2>1, <3>1, <3>2, TypeKept DEF BlockInv, channels, Nodes
  <2>5. WritesInv'
    BY <2>1, EmptyList DEF WritesInv, NotYet
  <2>6. BufferIsOfThisRun'
    BY <2>1, <2>3 DEF BufferIsOfThisRun
  <2>7. BadBlocksInv'
    BY <2>1 DEF BadBlocksInv
  <2>8. AuditInv'
    <3>1. \A w \in warnings: w.run \in Nat /\ w.run <= run
      <4>1. warnings \subseteq [kind: Kinds, page: 0 .. PageCount, run: 1 .. MaxRuns]
        BY DEF BlockInv, TypeOK
      <4>2. \A w \in warnings: w.run <= run
        BY DEF BlockInv, AuditInv
      <4> QED BY <4>1, <4>2, MaxRunsAssumption
    <3>2. \A w \in warnings: w.run <= run' /\ w.run # run'
      BY <2>1, <2>3, <3>1
    <3> QED BY <1>1, <2>1, <3>2 DEF AuditInv, channels
  <2> QED BY <2>4, <2>5, <2>6, <2>7, <2>8 DEF BlockInv
<1>3. CASE Resume \/ Kill \/ Fail \/ PioneerRaises \/ AuditRaises \/ Return \/ UNCHANGED vars
  <2>1. /\ next' = next /\ run' = run /\ writes' = writes /\ blocks' = blocks
        /\ warnings' = warnings /\ usage_log' = usage_log /\ tree' = tree /\ retry_count' = retry_count
    BY <1>1, <1>3 DEF Resume, Kill, Fail, PioneerRaises, AuditRaises, Return, Stop, vars, channels
  <2>2. /\ running' \in BOOLEAN /\ outcome' \in {"none", "returned", "KeyError", "other error"}
        /\ running' => outcome' = "none"
    <3>1. CASE Resume
      BY <3>1 DEF Resume
    <3>2. CASE Kill \/ Fail \/ PioneerRaises \/ AuditRaises \/ Return
      BY <3>2 DEF Kill, Fail, PioneerRaises, AuditRaises, Return, Stop
    <3>3. CASE UNCHANGED vars
      BY <3>3 DEF vars, BlockInv, TypeOK
    <3> QED BY <1>3, <3>1, <3>2, <3>3
  <2>3. TypeOK'
    <3>1. next' \in Nodes \cup {"end"}
      BY <2>1 DEF BlockInv, TypeOK
    <3> QED BY <1>1, <2>1, <2>2, <3>1, TypeKept DEF BlockInv, channels
  <2>4. WritesInv' /\ BufferIsOfThisRun' /\ BadBlocksInv' /\ AuditInv'
    BY <2>1 DEF BlockInv, WritesInv, BufferIsOfThisRun, BadBlocksInv, AuditInv, Warning
  <2> QED BY <2>3, <2>4 DEF BlockInv
<1> QED BY <1>2, <1>3

\* Up to the fan-out there are at most the blocks of one attempt.
LEMMA PioneerKeepsBlocks ==
    ASSUME Inv, BlockInv, NativeExtractor \/ Classifier \/ Pioneer \/ RetryNode
    PROVE  BlockInv'
<1>1. next # "end" /\ TypeOK /\ run \in 1 .. MaxRuns /\ tree # run
  <2>1. next # "end" /\ TypeOK
    BY DEF NativeExtractor, Classifier, Pioneer, RetryNode, Executing, BlockInv
  <2> QED BY <2>1, RunBegun
<1>2. UNCHANGED <<writes, warnings, tree, running, outcome, run>>
  BY DEF NativeExtractor, Classifier, Pioneer, RetryNode, Goto, MergeWarnings
<1>3. next' \in {"classifier", "pioneer_parser", "retry_node", "burst_dispatcher"}
  BY DEF NativeExtractor, Classifier, Pioneer, RetryNode, Goto
<1>4. /\ blocks' \in Seq(BlockSet)
      /\ \A b \in ToSet(blocks'): b.by = 1 /\ b.run = run /\ b.try = retry_count'
  <2>1. CASE NativeExtractor \/ RetryNode
    BY <2>1, EmptyList, Merges DEF NativeExtractor, RetryNode, ExtractorBlocks
  <2>2. CASE Classifier
    <3>1. blocks = <<>> \/ next # "classifier"
      BY DEF Inv, LoopInv
    <3>2. blocks' = <<>>
      BY <2>2, <3>1 DEF Classifier, Executing
    <3> QED BY <3>2, EmptyList
  <2>3. CASE Pioneer
    <3>1. PICK a \in Attempts: blocks' = MergeFlatBlocks(blocks, Append_(a.reply))
      BY <2>3 DEF Pioneer
    <3>2. blocks = <<>> /\ retry_count' = retry_count
      BY <2>3 DEF Pioneer, Executing, Inv, LoopInv
    <3>3. a.reply = <<>> \/ a.reply \in Replies(1)
      <4> DEFINE R == Replies(1)
      <4>1. a \in [reply: R, truncated: {FALSE}] \/ a = [reply |-> <<>>, truncated |-> TRUE]
        BY DEF Attempts
      <4> HIDE DEF R
      <4>2. a \in [reply: R, truncated: {FALSE}] => a.reply \in R
        OBVIOUS
      <4>3. a = [reply |-> <<>>, truncated |-> TRUE] => a.reply = <<>>
        OBVIOUS
      <4> QED BY <4>1, <4>2, <4>3 DEF R
    <3>4. 1 \in Pages /\ retry_count \in 0 .. MaxRetries
      <4>1. 1 \in Pages
        BY PageCountAssumption DEF Pages
      <4>2. retry_count \in 0 .. MaxRetries
        BY <1>1 DEF TypeOK
      <4> QED BY <4>1, <4>2
    <3>5. a.reply \in Seq(MadeFor(1))
      BY <1>1, <3>3, <3>4, RepliesMade, EmptyList
    <3>6. blocks' = a.reply
      BY <3>1, <3>2, <3>5, Merges
    <3>7. ToSet(a.reply) \subseteq MadeFor(1) /\ MadeFor(1) \subseteq BlockSet
      BY <3>5, ToSetOfSeq DEF MadeFor
    <3>8. a.reply \in Seq(BlockSet)
      BY <3>5, <3>7, SeqMonotonic
    <3> QED BY <3>2, <3>6, <3>7, <3>8 DEF MadeFor
  <2> QED BY <2>1, <2>2, <2>3
<1>5. usage_log' \subseteq {run}
  <2>1. CASE NativeExtractor
    BY <2>1 DEF NativeExtractor, ResetUsage
  <2>2. CASE Classifier \/ Pioneer \/ RetryNode
    <3>1. next \in {"classifier", "pioneer_parser", "retry_node"}
      BY <2>2 DEF Classifier, Pioneer, RetryNode, Executing
    <3>2. usage_log \subseteq {run}
      BY <3>1 DEF BlockInv, BufferIsOfThisRun
    <3> QED BY <2>2, <3>2 DEF Classifier, Pioneer, RetryNode, MergeUsageLog
  <2> QED BY <2>1, <2>2
<1>6. TypeOK'
  <2>1. retry_count' \in 0 .. MaxRetries
    BY ExecuteKeeps DEF Execute, Inv, LoopInv
  <2>2. last_validation_error' \in Errors /\ truncation_error' \in BOOLEAN /\ cause' \in Errors
    <3>1. \A bs: Rejection(bs) \in Errors
      BY DEF Rejection, Errors
    <3>2. \A a \in Attempts: a.truncated \in BOOLEAN
      BY AttemptsKnown
    <3> QED BY <1>1, <3>1, <3>2 DEF TypeOK, Errors, NativeExtractor, Classifier, Pioneer, RetryNode, Truncation
  <2> QED BY <1>1, <1>2, <1>3, <1>4, <1>5, <2>1, <2>2 DEF TypeOK, Nodes
<1>7. WritesInv'
  BY <1>2 DEF BlockInv, WritesInv
<1>8. BufferIsOfThisRun'
  BY <1>1, <1>2, <1>3, <1>4, <1>5 DEF BufferIsOfThisRun
<1>9. BadBlocksInv'
  BY <1>3, <1>4 DEF BadBlocksInv
<1>10. AuditInv'
  <2>1. next \notin {"hierarchy_node", "end"}
    BY DEF NativeExtractor, Classifier, Pioneer, RetryNode, Executing
  <2> QED BY <1>2, <1>3, <2>1 DEF BlockInv, AuditInv
<1> QED BY <1>6, <1>7, <1>8, <1>9, <1>10 DEF BlockInv

\* The dispatcher adds a warning, and goes on with the blocks of page 1.
LEMMA DispatchKeepsBlocks ==
    ASSUME Inv, BlockInv, BurstDispatcher
    PROVE  BlockInv'
<1>1. next = "burst_dispatcher" /\ next' \in {"parser_worker", "coverage_auditor"}
  BY DEF BurstDispatcher, Executing, Goto
<1>2. UNCHANGED <<running, outcome, run, writes, retry_count, last_validation_error,
                  truncation_error, blocks, usage_log, tree, cause>>
  BY DEF BurstDispatcher, Goto
<1>3. warnings' \in {warnings, warnings \cup {Warning("pioneer", 1)}}
  BY DEF BurstDispatcher, MergeWarnings
<1>4. TypeOK /\ run \in 1 .. MaxRuns /\ tree # run
  <2>1. TypeOK
    BY DEF BlockInv
  <2> QED BY <1>1, <2>1, RunBegun
<1>5. Warning("pioneer", 1) \in WarningSet /\ Warning("pioneer", 1).run = run
      /\ Warning("pioneer", 1).kind = "pioneer"
  <2>1. 1 \in 0 .. PageCount
    BY PageCountAssumption
  <2>2. "pioneer" \in Kinds
    BY DEF Kinds
  <2> QED BY <1>4, <2>1, <2>2, WarningsMade
<1>6. TypeOK'
  <2>1. next' \in Nodes \cup {"end"}
    BY <1>1 DEF Nodes
  <2>2. running' \in BOOLEAN /\ outcome' \in {"none", "returned", "KeyError", "other error"}
        /\ (running' => outcome' = "none")
    BY <1>2, <1>4 DEF TypeOK
  <2>3. warnings' \subseteq WarningSet
    BY <1>3, <1>4, <1>5 DEF TypeOK, WarningSet
  <2> QED BY <1>2, <1>4, <2>1, <2>2, <2>3, TypeKept
<1>7. WritesInv'
  BY <1>2 DEF BlockInv, WritesInv
<1>8. BufferIsOfThisRun'
  BY <1>1, <1>2 DEF BlockInv, BufferIsOfThisRun
<1>9. BadBlocksInv'
  BY <1>1, <1>2 DEF BlockInv, BadBlocksInv
<1>10. AuditInv'
  <2>1. /\ \A w \in warnings: w.run <= run
        /\ \A w \in warnings: w.run = run => w.kind # "coverage"
    BY <1>1 DEF BlockInv, AuditInv
  <2>2. run <= run
    BY <1>4
  <2> QED BY <1>1, <1>2, <1>3, <1>5, <2>1, <2>2 DEF AuditInv
<1> QED BY <1>6, <1>7, <1>8, <1>9, <1>10 DEF BlockInv

\* A worker returns blocks of its page, and is done.
LEMMA ReturnKeepsBlocks ==
    ASSUME Inv, BlockInv, NEW p \in 2 .. PageCount, WorkerReturn(p)
    PROVE  BlockInv'
<1>1. next = "parser_worker" /\ UNCHANGED <<running, next, channels, outcome, run, cause>>
  BY DEF WorkerReturn, Executing
<1>2. TypeOK /\ run \in 1 .. MaxRuns
  <2>1. TypeOK
    BY DEF BlockInv
  <2> QED BY <1>1, <2>1, RunBegun
<1>3. PICK w \in WorkerReturns(p): writes' = [writes EXCEPT ![p] = w]
  BY DEF WorkerReturn
<1>4. p \in Pages /\ p > 1 /\ retry_count \in 0 .. MaxRetries
  <2>1. p \in Pages /\ p > 1
    BY PageCountAssumption DEF Pages
  <2> QED BY <1>2, <2>1 DEF TypeOK
<1>5. w \in Returns(p)
  BY <1>2, <1>3, <1>4, ReturnsMade
<1>6. /\ w \in [blocks: Seq(BlockSet), warned: BOOLEAN, done: BOOLEAN]
      /\ \A b \in ToSet(w.blocks): b.by = p /\ b.run = run /\ (b.quality # "ok" => w.warned)
  <2>1. /\ w \in [blocks: Seq(MadeFor(p)), warned: BOOLEAN, done: BOOLEAN]
        /\ \A b \in ToSet(w.blocks): b.quality # "ok" => w.warned
    BY <1>5 DEF Returns
  <2>2. ToSet(w.blocks) \subseteq MadeFor(p)
    BY <2>1, ToSetOfSeq
  <2>3. MadeFor(p) \subseteq BlockSet
    BY DEF MadeFor
  <2>4. Seq(MadeFor(p)) \subseteq Seq(BlockSet)
    BY <2>3, SeqMonotonic
  <2>5. w \in [blocks: Seq(BlockSet), warned: BOOLEAN, done: BOOLEAN]
    BY <2>1, <2>4
  <2> QED BY <2>1, <2>2, <2>5 DEF MadeFor
<1>7. writes \in [2 .. PageCount -> [blocks: Seq(BlockSet), warned: BOOLEAN, done: BOOLEAN]]
  BY <1>2 DEF TypeOK
<1>8. writes' \in [2 .. PageCount -> [blocks: Seq(BlockSet), warned: BOOLEAN, done: BOOLEAN]]
  BY <1>3, <1>6, <1>7
<1>9. TypeOK'
  <2>1. next' \in Nodes \cup {"end"} /\ running' \in BOOLEAN
        /\ outcome' \in {"none", "returned", "KeyError", "other error"}
        /\ (running' => outcome' = "none")
    BY <1>1, <1>2 DEF TypeOK
  <2> QED BY <1>1, <1>2, <1>8, <2>1, TypeKept DEF channels
<1>10. WritesInv'
  <2>1. ASSUME NEW q \in 2 .. PageCount, NEW b \in ToSet(writes'[q].blocks)
        PROVE  b.by = q /\ b.run = run /\ (b.quality # "ok" => writes'[q].warned)
    <3>1. CASE q = p
      BY <1>3, <1>6, <1>7, <2>1, <3>1
    <3>2. CASE q # p
      <4>1. writes'[q] = writes[q]
        BY <1>3, <1>7, <3>2
      <4> QED BY <2>1, <4>1 DEF BlockInv, WritesInv
    <3> QED BY <3>1, <3>2
  <2> QED BY <1>1, <2>1 DEF WritesInv
<1>11. BufferIsOfThisRun' /\ BadBlocksInv' /\ AuditInv'
  BY <1>1 DEF BlockInv, BufferIsOfThisRun, BadBlocksInv, AuditInv, channels, Warning
<1> QED BY <1>9, <1>10, <1>11 DEF BlockInv

\* The fan-in appends the blocks of the workers and warns of those who warned.
LEMMA FanInKeepsBlocks ==
    ASSUME Inv, BlockInv, FanIn
    PROVE  BlockInv'
<1> DEFINE added == UNION {WorkerWarnings(p, writes[p]): p \in DOMAIN writes}
<1>1. /\ next = "parser_worker" /\ next' = "coverage_auditor" /\ blocks' = Merged[PageCount]
      /\ UNCHANGED <<running, outcome, run, retry_count, last_validation_error, truncation_error,
                     tree, cause>>
      /\ writes' = [p \in DOMAIN writes |-> NotYet]
      /\ usage_log' = usage_log \cup {run}
      /\ warnings' = warnings \cup added
  BY DEF FanIn, Executing, Goto, MergeUsageLog, MergeWarnings
<1>2. TypeOK /\ run \in 1 .. MaxRuns /\ tree # run
  <2>1. TypeOK
    BY DEF BlockInv
  <2> QED BY <1>1, <2>1, RunBegun
<1>3. writes \in [2 .. PageCount -> [blocks: Seq(BlockSet), warned: BOOLEAN, done: BOOLEAN]]
  BY <1>2 DEF TypeOK
<1>4. /\ blocks' \in Seq(BlockSet)
      /\ ToSet(blocks') = ToSet(blocks) \cup UNION {ToSet(writes[p].blocks): p \in 2 .. PageCount}
  BY <1>1, <1>2, MergedBlocks
<1>5. /\ \A p \in 2 .. PageCount: writes[p].warned => Warning("page", p) \in added
      /\ \A w \in added: w \in WarningSet /\ w.run = run /\ w.kind = "page"
  <2>1. \A p \in 2 .. PageCount: p \in 0 .. PageCount
    BY PageCountAssumption
  <2>2. ASSUME NEW w \in added PROVE w \in WarningSet /\ w.run = run /\ w.kind = "page"
    <3>1. PICK p \in 2 .. PageCount: w = Warning("page", p)
      BY <1>3, <2>2 DEF WorkerWarnings
    <3>2. "page" \in Kinds
      BY DEF Kinds
    <3>3. p \in 0 .. PageCount
      BY <2>1
    <3> QED BY <1>2, <3>1, <3>2, <3>3, WarningsMade
  <2>3. ASSUME NEW p \in 2 .. PageCount, writes[p].warned PROVE Warning("page", p) \in added
    <3>1. Warning("page", p) \in WorkerWarnings(p, writes[p])
      BY <2>3 DEF WorkerWarnings
    <3> QED BY <1>3, <3>1
  <2> QED BY <2>2, <2>3
<1> HIDE DEF added
<1>6. \A b \in ToSet(blocks'):
         \/ b.by = 1 /\ b \in ToSet(blocks)
         \/ \E p \in 2 .. PageCount: b.by = p /\ b.run = run /\ (b.quality # "ok" => writes[p].warned)
  <2>1. \A b \in ToSet(blocks): b.by = 1
    BY <1>1 DEF BlockInv, BadBlocksInv
  <2>2. \A p \in 2 .. PageCount: \A b \in ToSet(writes[p].blocks):
           b.by = p /\ b.run = run /\ (b.quality # "ok" => writes[p].warned)
    BY DEF BlockInv, WritesInv
  <2> QED BY <1>4, <2>1, <2>2
<1>7. TypeOK'
  <2>1. next' \in Nodes \cup {"end"}
    BY <1>1 DEF Nodes
  <2>2. running' \in BOOLEAN /\ outcome' \in {"none", "returned", "KeyError", "other error"}
        /\ (running' => outcome' = "none")
    BY <1>1, <1>2 DEF TypeOK
  <2>3. warnings' \subseteq WarningSet
    BY <1>1, <1>2, <1>5 DEF TypeOK, WarningSet
  <2>4. writes' \in [2 .. PageCount -> [blocks: Seq(BlockSet), warned: BOOLEAN, done: BOOLEAN]]
    BY <1>1, <1>3, EmptyList DEF NotYet
  <2>5. usage_log' \subseteq 1 .. MaxRuns
    BY <1>1, <1>2 DEF TypeOK
  <2> QED BY <1>1, <1>2, <1>4, <2>1, <2>2, <2>3, <2>4, <2>5, TypeKept
<1>8. WritesInv'
  BY <1>1, <1>3, EmptyList DEF WritesInv, NotYet
<1>9. BufferIsOfThisRun'
  <2>1. /\ \A b \in ToSet(blocks): b.run = run /\ (b.by = 1 => b.try = retry_count)
        /\ usage_log \subseteq {run}
    BY <1>1 DEF BlockInv, BufferIsOfThisRun
  <2>2. \A p \in 2 .. PageCount: p # 1
    BY PageCountAssumption
  <2> QED BY <1>1, <1>6, <2>1, <2>2 DEF BufferIsOfThisRun
<1>10. BadBlocksInv'
  <2>1. \A b \in ToSet(blocks'): b.by > 1 /\ b.quality # "ok" => Warning("page", b.by) \in added
    BY <1>5, <1>6
  <2> QED BY <1>1, <2>1 DEF BadBlocksInv, Warning
<1>11. AuditInv'
  <2>1. /\ \A w \in warnings: w.run <= run
        /\ \A w \in warnings: w.run = run => w.kind # "coverage"
    BY <1>1 DEF BlockInv, AuditInv
  <2>2. run <= run
    BY <1>2
  <2> QED BY <1>1, <1>5, <2>1, <2>2 DEF AuditInv
<1> QED BY <1>7, <1>8, <1>9, <1>10, <1>11 DEF BlockInv

\* What the audit says is of this run, and of coverage it says what its final blocks say.
LEMMA AuditWarningsMade ==
    ASSUME run \in 1 .. MaxRuns, NEW final, NEW replaced \in SUBSET Legible,
           NEW w \in AuditWarnings(final, replaced, Flagged(blocks))
    PROVE  /\ w \in WarningSet /\ w.run = run
           /\ w.kind = "coverage" => \E p \in Uncovered(final): w = Warning("coverage", p)
<1> DEFINE flagged == Flagged(blocks)
           considered == ToSet(Considered(flagged))
<1>1. ToSet(flagged) \subseteq Pages
  BY FlaggedPages, ToSetOfSeq
<1>2. considered \subseteq Pages
  <2>1. flagged \in Seq(Pages)
    BY FlaggedPages
  <2> HIDE DEF flagged
  <2> DEFINE k == IF Len(flagged) < RetryPages THEN Len(flagged) ELSE RetryPages
  <2>2. k \in 0 .. Len(flagged)
    BY <2>1, LenProperties, RetryPagesAssumption
  <2>3. SubSeq(flagged, 1, k) \in Seq(Pages)
    <3> HIDE DEF k
    <3>1. \A i \in 1 .. k: i \in 1 .. Len(flagged)
      BY <2>1, <2>2, LenProperties
    <3> QED BY <2>1, <2>2, <3>1, LenProperties, SubSeqProperties
  <2> QED BY <2>3, ToSetOfSeq DEF Considered
<1>3. Pages \subseteq 0 .. PageCount /\ Legible \subseteq Pages /\ Audited \subseteq Pages
  BY PagesFinite, PageCountAssumption
<1>4. \/ \E p \in Uncovered(final): w = Warning("coverage", p)
      \/ \E d \in Duplicates(final): w = Warning("duplicate", d[1])
      \/ \E p \in considered \ Legible: w = Warning("not verifiable", p)
      \/ \E p \in ToSet(flagged) \ considered: w = Warning("not retried", p)
      \/ \E p \in replaced: w = Warning("replaced", p)
  BY DEF AuditWarnings
<1> HIDE DEF flagged, considered
<1>5. \E kind \in Kinds, p \in Pages:
         w = Warning(kind, p) /\ (kind = "coverage" => p \in Uncovered(final))
  <2>1. \A kind \in {"coverage", "duplicate", "not verifiable", "not retried", "replaced"}: kind \in Kinds
    BY DEF Kinds
  <2>2. Uncovered(final) \subseteq Pages
    BY <1>3 DEF Uncovered
  <2>3. \A d \in Duplicates(final): d[1] \in Pages
    BY DEF Duplicates
  <2> QED BY <1>1, <1>2, <1>3, <1>4, <2>1, <2>2, <2>3
<1> QED BY <1>3, <1>5, WarningsMade

\* The audit keeps the invariant, and leaves at least the pages covered that were.
LEMMA AuditKeepsBlocks ==
    ASSUME Inv, BlockInv, Audit
    PROVE  BlockInv' /\ \A p \in Audited: Score(blocks, p) = 1 => Score(blocks', p) = 1
<1>1. /\ next = "coverage_auditor" /\ next' = "hierarchy_node"
      /\ UNCHANGED <<running, outcome, run, writes, retry_count, last_validation_error,
                     truncation_error, tree, cause>>
      /\ usage_log' \in {usage_log, usage_log \cup {run}}
  BY DEF Audit, Executing, Goto, MergeUsageLog
<1>2. TypeOK /\ run \in 1 .. MaxRuns /\ tree # run
  <2>1. TypeOK
    BY DEF BlockInv
  <2> QED BY <1>1, <2>1, RunBegun
<1>3. PICK replaced \in SUBSET Legible, new \in Seq(BlockSet),
           told \in SUBSET {Warning("page", p): p \in Pages}:
         /\ \A b \in ToSet(new):
               /\ b.page \in replaced /\ b.run = run /\ b.try = retry_count
               /\ b.quality # "ok" => Warning("page", b.by) \in told
         /\ \A p \in replaced: Score(blocks, p) = 0
         /\ blocks' \in Seq(BlockSet)
         /\ ToSet(blocks') = {b \in ToSet(blocks): b.page \notin replaced} \cup ToSet(new)
         /\ ToSet(AuditedAfter(replaced, new)) = ToSet(blocks')
         /\ warnings' = warnings \cup AuditWarnings(AuditedAfter(replaced, new), replaced,
                                                     Flagged(blocks)) \cup told
  BY <1>2, AuditStep
<1> DEFINE final == AuditedAfter(replaced, new)
           said == AuditWarnings(final, replaced, Flagged(blocks))
<1>4. \A w \in said: /\ w \in WarningSet /\ w.run = run
                     /\ w.kind = "coverage" => \E p \in Uncovered(final): w = Warning("coverage", p)
  BY <1>2, AuditWarningsMade
<1>5. \A w \in told: w \in WarningSet /\ w.run = run /\ w.kind = "page"
  <2>1. Pages \subseteq 0 .. PageCount
    BY PagesFinite, PageCountAssumption
  <2>2. "page" \in Kinds
    BY DEF Kinds
  <2> QED BY <1>2, <2>1, <2>2, WarningsMade
<1>6. \A p \in Audited: Warning("coverage", p) \in said <=> Score(final, p) = 0
  <2>1. \A p \in Uncovered(final): Warning("coverage", p) \in said
    BY DEF AuditWarnings
  <2>2. ASSUME NEW p \in Audited, Warning("coverage", p) \in said PROVE p \in Uncovered(final)
    <3> HIDE DEF said, final
    <3>1. Warning("coverage", p).kind = "coverage"
      BY DEF Warning
    <3>2. PICK q \in Uncovered(final): Warning("coverage", p) = Warning("coverage", q)
      BY <1>4, <2>2, <3>1
    <3>3. p = q
      BY <3>2 DEF Warning
    <3> QED BY <3>3
  <2> HIDE DEF said, final
  <2> QED BY <2>1, <2>2 DEF Uncovered
<1>7. \A p: Score(final, p) = Score(blocks', p)
  BY <1>3, Scores
<1>8. warnings' = warnings \cup said \cup told
  BY <1>3
<1> HIDE DEF said, final
<1>9. TypeOK'
  <2>1. next' \in Nodes \cup {"end"}
    BY <1>1 DEF Nodes
  <2>2. running' \in BOOLEAN /\ outcome' \in {"none", "returned", "KeyError", "other error"}
        /\ (running' => outcome' = "none")
    BY <1>1, <1>2 DEF TypeOK
  <2>3. warnings' \subseteq WarningSet
    BY <1>2, <1>4, <1>5, <1>8 DEF TypeOK, WarningSet
  <2>4. usage_log' \subseteq 1 .. MaxRuns
    BY <1>1, <1>2 DEF TypeOK
  <2> QED BY <1>1, <1>2, <1>3, <2>1, <2>2, <2>3, <2>4, TypeKept
<1>10. WritesInv'
  BY <1>1 DEF BlockInv, WritesInv
<1>11. BufferIsOfThisRun'
  <2>1. /\ \A b \in ToSet(blocks): b.run = run /\ (b.by = 1 => b.try = retry_count)
        /\ usage_log \subseteq {run}
    BY <1>1 DEF BlockInv, BufferIsOfThisRun
  <2>2. \A b \in ToSet(blocks'): b.run = run /\ (b.by = 1 => b.try = retry_count)
    BY <1>3, <2>1
  <2> QED BY <1>1, <2>1, <2>2 DEF BufferIsOfThisRun
<1>12. BadBlocksInv'
  <2>1. \A b \in ToSet(blocks): b.by > 1 /\ b.quality # "ok" => Warning("page", b.by) \in warnings
    BY <1>1 DEF BlockInv, BadBlocksInv
  <2>2. \A b \in ToSet(blocks'): b.by > 1 /\ b.quality # "ok" => Warning("page", b.by) \in warnings'
    BY <1>3, <1>8, <2>1
  <2> QED BY <1>1, <2>2 DEF BadBlocksInv, Warning
<1>13. AuditInv'
  <2>1. /\ \A w \in warnings: w.run <= run
        /\ \A w \in warnings: w.run = run => w.kind # "coverage"
    BY <1>1 DEF BlockInv, AuditInv
  <2>2. run <= run
    BY <1>2
  <2>3. \A w \in warnings': w.run <= run
    BY <1>4, <1>5, <1>8, <2>1, <2>2
  <2>4. \A p: Warning("coverage", p).run = run /\ Warning("coverage", p).kind = "coverage"
    BY DEF Warning
  <2>5. \A p: Warning("coverage", p) \notin warnings /\ Warning("coverage", p) \notin told
    BY <1>5, <2>1, <2>4
  <2>6. \A p \in Audited: Warning("coverage", p) \in warnings' <=> Score(blocks', p) = 0
    BY <1>6, <1>7, <1>8, <2>5
  <2>7. \A p: Warning("coverage", p)' = Warning("coverage", p)
    BY <1>1 DEF Warning
  <2>8. \A p: Score(blocks, p)' = Score(blocks', p)
    BY DEF Score
  <2> QED BY <1>1, <2>3, <2>6, <2>7, <2>8 DEF AuditInv
<1>14. ASSUME NEW p \in Audited, Score(blocks, p) = 1 PROVE Score(blocks', p) = 1
  <2>1. p \notin replaced
    BY <1>3, <1>14
  <2>2. PICK b \in ToSet(blocks): b.page = p /\ b.about = p
    BY <1>14 DEF Score
  <2>3. b \in ToSet(blocks')
    BY <1>3, <2>1, <2>2
  <2> QED BY <2>2, <2>3 DEF Score
<1> QED BY <1>9, <1>10, <1>11, <1>12, <1>13, <1>14 DEF BlockInv

\* The skipped audit and the hierarchy node add warnings of other kinds.
LEMMA LastNodesKeepBlocks ==
    ASSUME Inv, BlockInv, AuditSkipped \/ HierarchyNode
    PROVE  BlockInv' /\ blocks' = blocks
<1>1. /\ next \in {"coverage_auditor", "hierarchy_node"} /\ next' \in {"hierarchy_node", "end"}
      /\ UNCHANGED <<running, outcome, run, writes, retry_count, last_validation_error,
                     truncation_error, blocks, cause>>
      /\ next = "coverage_auditor" => Warning("audit skipped", 0) \in warnings'
      /\ tree' \in {tree, run} /\ usage_log' \in {usage_log, usage_log \cup {run}}
  BY DEF AuditSkipped, HierarchyNode, Executing, Goto, MergeUsageLog, MergeWarnings
<1>2. TypeOK /\ run \in 1 .. MaxRuns /\ tree # run
  <2>1. TypeOK
    BY DEF BlockInv
  <2> QED BY <1>1, <2>1, RunBegun
<1>3. PICK added: /\ \A w \in added: \E kind \in {"audit skipped", "relation", "dropped"}:
                                          w = Warning(kind, 0)
                  /\ warnings' = warnings \cup added
  BY DEF AuditSkipped, HierarchyNode, MergeWarnings
<1>4. \A w \in added: w \in WarningSet /\ w.run = run /\ w.kind # "coverage"
  <2>1. 0 \in 0 .. PageCount
    BY PageCountAssumption
  <2>2. \A kind \in {"audit skipped", "relation", "dropped"}: kind \in Kinds /\ kind # "coverage"
    BY DEF Kinds
  <2> SUFFICES ASSUME NEW w \in added
               PROVE  w \in WarningSet /\ w.run = run /\ w.kind # "coverage"
    OBVIOUS
  <2>3. PICK kind \in {"audit skipped", "relation", "dropped"}: w = Warning(kind, 0)
    BY <1>3
  <2>4. kind \in Kinds /\ kind # "coverage"
    BY <2>2
  <2>5. Warning(kind, 0) \in WarningSet
    BY <1>2, <2>1, <2>4, WarningsMade
  <2>6. w.run = run /\ w.kind = kind
    BY <2>3 DEF Warning
  <2> QED BY <2>3, <2>4, <2>5, <2>6
<1>5. TypeOK'
  <2>1. next' \in Nodes \cup {"end"}
    BY <1>1 DEF Nodes
  <2>2. running' \in BOOLEAN /\ outcome' \in {"none", "returned", "KeyError", "other error"}
        /\ (running' => outcome' = "none")
    BY <1>1, <1>2 DEF TypeOK
  <2>3. warnings' \subseteq WarningSet
    BY <1>2, <1>3, <1>4 DEF TypeOK, WarningSet
  <2>4. usage_log' \subseteq 1 .. MaxRuns
    BY <1>1, <1>2 DEF TypeOK
  <2>5. tree' = tree \/ tree' \in 0 .. MaxRuns
    <3>1. run \in 0 .. MaxRuns
      BY <1>2 DEF TypeOK
    <3> QED BY <1>1, <3>1
  <2> QED BY <1>1, <1>2, <2>1, <2>2, <2>3, <2>4, <2>5, TypeKept
<1>6. WritesInv'
  BY <1>1 DEF BlockInv, WritesInv
<1>7. BufferIsOfThisRun'
  <2>1. /\ \A b \in ToSet(blocks): b.run = run /\ (b.by = 1 => b.try = retry_count)
        /\ usage_log \subseteq {run}
    BY <1>1 DEF BlockInv, BufferIsOfThisRun
  <2> QED BY <1>1, <2>1 DEF BufferIsOfThisRun
<1>8. BadBlocksInv'
  <2>1. \A b \in ToSet(blocks): b.by > 1 /\ b.quality # "ok" => Warning("page", b.by) \in warnings
    BY <1>1 DEF BlockInv, BadBlocksInv
  <2> QED BY <1>1, <1>3, <2>1 DEF BadBlocksInv, Warning
<1>9. AuditInv'
  <2>1. \A w \in warnings': w.run <= run
    <3>1. \A w \in warnings: w.run <= run
      BY DEF BlockInv, AuditInv
    <3>2. run <= run
      BY <1>2
    <3> QED BY <1>3, <1>4, <3>1, <3>2
  <2>2. \A kind, p: Warning(kind, p)' = Warning(kind, p)
    BY <1>1 DEF Warning
  <2>3. CASE next = "coverage_auditor"
    BY <1>1, <2>1, <2>2, <2>3 DEF AuditInv
  <2>4. CASE next = "hierarchy_node"
    <3>1. ASSUME Warning("audit skipped", 0) \notin warnings', NEW p \in Audited
          PROVE  Warning("coverage", p) \in warnings' <=> Score(blocks, p) = 0
      <4>1. Warning("coverage", p) \in warnings <=> Score(blocks, p) = 0
        <5>1. run > 0 /\ Warning("audit skipped", 0) \notin warnings
          <6>1. run > 0
            BY <1>2
          <6>2. Warning("audit skipped", 0) \notin warnings
            BY <1>3, <3>1
          <6> QED BY <6>1, <6>2
        <5>2. next \in {"hierarchy_node", "end"} /\ p \in Audited
          BY <2>4, <3>1
        <5> QED BY <5>1, <5>2 DEF BlockInv, AuditInv
      <4>2. Warning("coverage", p) \notin added
        BY <1>4 DEF Warning
      <4> QED BY <1>3, <4>1, <4>2
    <3>2. \A p: Score(blocks, p)' = Score(blocks, p)
      BY <1>1 DEF Score
    <3> QED BY <1>1, <2>1, <2>2, <3>1, <3>2 DEF AuditInv
  <2> QED BY <1>1, <2>3, <2>4
<1> QED BY <1>1, <1>5, <1>6, <1>7, <1>8, <1>9 DEF BlockInv

LEMMA StepKeepsBlocks == Inv /\ BlockInv /\ [Next]_vars => BlockInv'
<1> SUFFICES ASSUME Inv, BlockInv, [Next]_vars PROVE BlockInv'
  OBVIOUS
<1>1. CASE Fresh \/ Resume \/ Kill \/ Fail \/ PioneerRaises \/ AuditRaises \/ Return \/ UNCHANGED vars
  BY <1>1, RunsKeepBlocks
<1>2. CASE NativeExtractor \/ Classifier \/ Pioneer \/ RetryNode
  BY <1>2, PioneerKeepsBlocks
<1>3. CASE BurstDispatcher
  BY <1>3, DispatchKeepsBlocks
<1>4. CASE \E p \in 2 .. PageCount: WorkerReturn(p)
  BY <1>4, ReturnKeepsBlocks
<1>5. CASE FanIn
  BY <1>5, FanInKeepsBlocks
<1>6. CASE Audit
  BY <1>6, AuditKeepsBlocks
<1>7. CASE AuditSkipped \/ HierarchyNode
  BY <1>7, LastNodesKeepBlocks
<1> QED BY <1>1, <1>2, <1>3, <1>4, <1>5, <1>6, <1>7 DEF Next, Execute

LEMMA AlwaysBlocks == Spec => [](Inv /\ BlockInv)
<1>1. Inv /\ [Next]_vars => Inv'
  BY RunsKeep, ExecuteKeeps DEF Next
<1> QED BY <1>1, InitInv, InitBlocks, StepKeepsBlocks, PTL DEF Spec

\* A tree without all the blocks comes with a warning, unless an id was taken.
DropsInv ==
    next = "end" /\ run > 0 =>
        WellFormed(blocks) = DOMAIN blocks \/ Warning("dropped", 0) \in warnings

LEMMA StepKeepsDrops == Inv /\ DropsInv /\ [Next]_vars => DropsInv'
<1> SUFFICES ASSUME Inv, DropsInv, [Next]_vars PROVE DropsInv'
  OBVIOUS
<1>1. CASE Resume \/ Kill \/ Fail \/ PioneerRaises \/ AuditRaises \/ Return \/ UNCHANGED vars
  <2>1. UNCHANGED <<next, run, blocks, warnings>>
    BY <1>1 DEF Resume, Kill, Fail, PioneerRaises, AuditRaises, Return, Stop, channels, vars
  <2> QED BY <2>1 DEF DropsInv, WellFormed, Warning
<1>2. CASE HierarchyNode
  <2>1. /\ UNCHANGED <<run, blocks>>
        /\ WellFormed(blocks) = DOMAIN blocks \/ Warning("dropped", 0) \in warnings'
    BY <1>2 DEF HierarchyNode, Goto, MergeWarnings
  <2> QED BY <2>1 DEF DropsInv, WellFormed, Warning
<1>3. CASE Fresh \/ NativeExtractor \/ Classifier \/ Pioneer \/ RetryNode \/ BurstDispatcher
           \/ (\E p \in 2 .. PageCount: WorkerReturn(p)) \/ FanIn \/ AuditSkipped \/ Audit
  <2>1. next' # "end"
    BY <1>3 DEF Fresh, NativeExtractor, Classifier, Pioneer, RetryNode, BurstDispatcher, WorkerReturn,
           FanIn, AuditSkipped, Audit, Executing, Goto
  <2> QED BY <2>1 DEF DropsInv
<1> QED BY <1>1, <1>2, <1>3 DEF Next, Execute

LEMMA AlwaysDrops == Spec => []DropsInv
<1>1. Init => DropsInv
  BY DEF Init, DropsInv
<1>2. Inv /\ [Next]_vars => Inv'
  BY RunsKeep, ExecuteKeeps DEF Next
<1> QED BY <1>1, <1>2, InitInv, StepKeepsDrops, PTL DEF Spec

\* The words that the tree has, and those it lacks.
LEMMA PayloadScores ==
    ASSUME TypeOK, NEW p
    PROVE  /\ Score(blocks, p) = 0 => Score(Payload(blocks), p) = 0
           /\ Score(Payload(blocks), p) = 0 =>
                 \/ Score(blocks, p) = 0
                 \/ \E i \in DOMAIN blocks:
                       /\ blocks[i].page = p /\ blocks[i].about = p
                       /\ i \in Repeated(blocks) \/ i \notin WellFormed(blocks)
<1> DEFINE I == WellFormed(blocks) \ Repeated(blocks)
<1>1. I \in SUBSET DOMAIN blocks /\ blocks \in Seq(BlockSet)
  BY DEF TypeOK, WellFormed
<1>2. ToSet(Payload(blocks)) = {blocks[i]: i \in I}
  <2> HIDE DEF I
  <2>1. ToSet(ItemsAt(blocks, I)) = {blocks[i]: i \in I}
    BY <1>1, ItemsOfSeq
  <2> QED BY <2>1 DEF Payload, I
<1>3. ToSet(blocks) = {blocks[i]: i \in DOMAIN blocks}
  BY DEF ToSet
<1>4. Score(blocks, p) = 1 <=> \E i \in DOMAIN blocks: blocks[i].page = p /\ blocks[i].about = p
  BY <1>3 DEF Score
<1>5. Score(Payload(blocks), p) = 1 <=> \E i \in I: blocks[i].page = p /\ blocks[i].about = p
  <2> HIDE DEF I
  <2> QED BY <1>2 DEF Score
<1>6. Score(blocks, p) \in {0, 1} /\ Score(Payload(blocks), p) \in {0, 1}
  BY Scores
<1> QED BY <1>1, <1>4, <1>5, <1>6
---------------------------------------------------------------------------
(* The theorems *)

\* The channels hold what their reducers and nodes put there.
THEOREM TypeCorrect == Spec => []TypeOK
<1>1. BlockInv => TypeOK
  BY DEF BlockInv
<1> QED BY <1>1, AlwaysBlocks, PTL

\* However many runs were killed, and wherever, the blocks and the usage past the extractor are
\* those of the present run and of the present attempt at page 1.
THEOREM NothingStaleIsMerged == Spec => []BufferIsOfThisRun
<1>1. BlockInv => BufferIsOfThisRun
  BY DEF BlockInv
<1> QED BY <1>1, AlwaysBlocks, PTL

\* A page whose blocks the schema rejects reaches the tree with a warning of this run, whether
\* the fan-out or a retry of the audit extracted it.
THEOREM PagesAreWarnedOf == Spec => []DegradedPagesWarned
<1>1. Inv /\ BlockInv => DegradedPagesWarned
  BY DEF Inv, ThreadInv, BlockInv, BadBlocksInv, DegradedPagesWarned
<1> QED BY <1>1, AlwaysBlocks, PTL

\* After an audit that was not skipped, a page that is warned of has none of its words in the
\* tree, and one whose words are missing from it is warned of, but for a block that the hierarchy
\* node has dropped: with a warning, or for its repeated id.
THEOREM AuditIsTruthful == Spec => []AuditTellsTheTruth
<1>1. Inv /\ BlockInv /\ DropsInv => AuditTellsTheTruth
  <2> SUFFICES ASSUME Inv, BlockInv, DropsInv, tree = run, run > 0,
                      Warning("audit skipped", 0) \notin warnings, NEW p \in Audited
               PROVE  /\ Warning("coverage", p) \in warnings => Score(Payload(blocks), p) = 0
                      /\ Score(Payload(blocks), p) = 0 =>
                            \/ Warning("coverage", p) \in warnings
                            \/ \E i \in DOMAIN blocks:
                                  /\ blocks[i].page = p /\ blocks[i].about = p
                                  /\ \/ i \in Repeated(blocks)
                                     \/ /\ i \notin WellFormed(blocks)
                                        /\ Warning("dropped", 0) \in warnings
    BY DEF AuditTellsTheTruth
  <2>1. next = "end"
    BY DEF Inv, ThreadInv
  <2>2. Warning("coverage", p) \in warnings <=> Score(blocks, p) = 0
    BY <2>1 DEF BlockInv, AuditInv
  <2>3. WellFormed(blocks) = DOMAIN blocks \/ Warning("dropped", 0) \in warnings
    BY <2>1 DEF DropsInv
  <2>4. TypeOK
    BY DEF BlockInv
  <2> QED BY <2>2, <2>3, <2>4, PayloadScores
<1> QED BY <1>1, AlwaysBlocks, AlwaysDrops, PTL

\* No step of the audit makes an audited page that was covered an uncovered one.
THEOREM AuditOnlyImproves == Spec => AuditNeverRegresses
<1> DEFINE Covers == next = "coverage_auditor" =>
                        \A p \in Audited: Score(blocks, p) = 1 => Score(blocks', p) = 1
<1>1. Inv /\ BlockInv /\ [Next]_vars => [Covers]_vars
  <2> SUFFICES ASSUME Inv, BlockInv, Next, next = "coverage_auditor"
               PROVE  \A p \in Audited: Score(blocks, p) = 1 => Score(blocks', p) = 1
    OBVIOUS
  <2>1. CASE Audit
    BY <2>1, AuditKeepsBlocks
  <2>2. CASE Fresh \/ Resume \/ Kill \/ Fail \/ AuditSkipped \/ AuditRaises
    <3>1. blocks' = blocks
      BY <2>2 DEF Fresh, Resume, Kill, Fail, AuditSkipped, AuditRaises, Stop, channels
    <3> QED BY <3>1
  <2>3. Audit \/ Fresh \/ Resume \/ Kill \/ Fail \/ AuditSkipped \/ AuditRaises
    BY DEF Next, Execute, NativeExtractor, Classifier, Pioneer, PioneerRaises, RetryNode,
       BurstDispatcher, WorkerReturn, FanIn, HierarchyNode, Return, Executing
  <2> QED BY <2>1, <2>2, <2>3
<1>2. AuditNeverRegresses <=> [][Covers]_vars
  BY DEF AuditNeverRegresses
<1> HIDE DEF Covers
<1> QED BY <1>1, <1>2, AlwaysBlocks, PTL DEF Spec
=================================================================================

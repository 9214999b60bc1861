--------------------------------- MODULE Hierarchy ---------------------------------
(***************************************************************************)
(* The hierarchy node: it drops blocks that lack a required field, keeps   *)
(* the first block of every id, sorts the blocks of each page into reading *)
(* order, asks the language model for the parent of each one, and repairs  *)
(* the answer.                                                             *)
(*                                                                         *)
(* Block ids are numbers: all the code does with them is compare them.     *)
(* The fractions of src/config.py are in hundredths, so that a comparison  *)
(* of two integer lengths of a page is one of their multiples.  The code   *)
(* multiplies doubles: where both sides are equal, the constants FullUp,   *)
(* SlotUp and SlotDown say to which side the product was rounded.          *)
(***************************************************************************)
EXTENDS Ranking, SequencesExt

CONSTANTS
    Ids,          \* block ids
    Inputs,       \* the block lists the graph may hand over
    Unknown,      \* names in an answer that are no block's
    MaxRelations, \* bound on the length of an answer
    FullUp,       \* the spans whose product with 0.55 is rounded up,
    SlotUp,       \* those whose product with 0.11 is,
    SlotDown,     \* and those whose product with 0.11 is rounded down
    Factors,      \* the other units in which a page is compared with itself
    None

ASSUME IdsAssumption == Ids \subseteq Nat /\ Unknown \cap Ids = {} /\ None \notin Ids \cup Unknown
ASSUME FactorsAssumption == Factors \subseteq Nat \ {0}
ASSUME MaxRelationsAssumption == MaxRelations \in Nat

\* A block lacks a required field, or has a bbox without a page number, or is complete.
Fields == {"all", "missing", "no page"}

\* What the node reads of a block; the bbox is given by its four sides.
Block == [id: Ids, page: Int, type: STRING, fields: Fields,
          left: Int, right: Int, top: Int, bottom: Int]

ASSUME InputsAssumption == Inputs \subseteq Seq(Block)

VARIABLES
    stage,     \* "prepare", "sort", "relate", "done" or "raised"
    blocks,    \* the blocks that are to be sorted
    payload,   \* structured_payload, as ids: nothing later looks at more of a block
    parent,    \* the parent_id of each block
    warnings,
    wellFormed,\* history: the ids of the complete blocks
    answer     \* history: the relation of each name in the answer

vars == <<stage, blocks, payload, parent, warnings, wellFormed, answer>>

Names == Ids \cup Unknown
IdsOf(bs) == {b.id: b \in bs}

\* The tree is made of well-formed ids; each stage has what the next one reads.
TypeOK ==
    /\ stage \in {"prepare", "sort", "relate", "done", "raised"}
    /\ blocks \in Seq(Block)
    /\ payload \in Seq(wellFormed)
    /\ wellFormed \subseteq Ids
    /\ stage \in {"relate", "done"} => blocks = <<>>
    /\ DOMAIN parent = IF stage = "done" THEN ToSet(payload) ELSE {}
    /\ DOMAIN answer \subseteq Names

Init ==
    /\ stage = "prepare"
    /\ blocks \in Inputs
    /\ payload = <<>> /\ parent = <<>> /\ warnings = {}
    /\ wellFormed = IdsOf({b \in ToSet(blocks): b.fields # "missing"})
    /\ answer = <<>>

---------------------------------------------------------------------------
(* Filter and deduplicate *)

\* Mutant: two copies of a block are told apart by their page.
SeenOnPage(bs, i) == \E j \in 1 .. i - 1: bs[j].id = bs[i].id /\ bs[j].page = bs[i].page
Seen(bs, i) == \E j \in 1 .. i - 1: bs[j].id = bs[i].id

Prepare ==
    LET complete == ItemsAt(blocks, {i \in DOMAIN blocks: blocks[i].fields # "missing"}) IN
    /\ stage = "prepare"
    /\ stage' = "sort"
    /\ blocks' = ItemsAt(complete, {i \in DOMAIN complete: ~Seen(complete, i)})
    /\ warnings' = IF complete = blocks THEN {} ELSE {<<"dropped", None>>}
    /\ UNCHANGED <<payload, parent, wellFormed, answer>>

---------------------------------------------------------------------------
(* geometric_pre_sorter: below, page is the set of the blocks of one page *)

PageOf(bs, b) == {c \in ToSet(bs): c.page = b.page}
Span(page) == Max({b.right: b \in page}) - Min({b.left: b \in page})

\* Mutant: the width of a column is the same on every page.
BucketFixed(page, b) == b.left \div 11
\* COLUMN_BUCKET_FRAC = 0.11, and a bucket is never narrower than one unit.
Width(page) == Max({11 * Span(page), 100})
\* A block that starts where a bucket does is in the one before it if the bucket is wider,
\* or, left of the origin, narrower than that.
Slips(page, b) ==
    /\ 11 * Span(page) > 100 /\ (100 * b.left) % (11 * Span(page)) = 0
    /\ \/ b.left > 0 /\ Span(page) \in SlotUp
       \/ b.left < 0 /\ Span(page) \in SlotDown
Bucket(page, b) == ((100 * b.left) \div Width(page)) - (IF Slips(page, b) THEN 1 ELSE 0)

\* BAND_FULL_WIDTH_FRAC = 0.55
IsFull(page, b) ==
    /\ Span(page) > 0
    /\ \/ 100 * (b.right - b.left) > 55 * Span(page)
       \/ 100 * (b.right - b.left) = 55 * Span(page) /\ Span(page) \notin FullUp

\* Mutant: a full-width block belongs to the band above it.
BandBelow(page, y) == Cardinality({f \in page: IsFull(page, f) /\ y > f.top})
BandOf(page, y) == Cardinality({f \in page: IsFull(page, f) /\ y >= f.top})

Overlaps(b, f) == b.left < f.right /\ b.right > f.left

\* Mutant: the gap is not taken on either side of the cut.
NearAbove(page, b, f) == f.top >= b.bottom /\ 100 * (f.top - b.bottom) <= 5 * Span(page)
\* BAND_PULLDOWN_GAP_FRAC = 0.05: where the product is an integer, it is rounded to it.
Near(page, b, f) == 100 * Max({f.top - b.bottom, b.bottom - f.top}) <= 5 * Span(page)

\* A heading or title right above a full-width block.
Introduces(page, b, f) ==
    /\ IsFull(page, f) /\ ~IsFull(page, b) /\ b.type \in {"heading", "title"}
    /\ b.top < f.top /\ Near(page, b, f) /\ Overlaps(b, f)

\* It joins the band of the first such block.
Band(page, b) ==
    LET introduced == {f \in page: Introduces(page, b, f)} IN
    BandOf(page, IF introduced = {} THEN b.top ELSE Min({f.top: f \in introduced}))

SortKey(bs, b) ==
    LET page == PageOf(bs, b) IN
    <<b.page, Band(page, b), Bucket(page, b), b.top, b.id>>

\* Tuples are compared from the left.
Less(k, l) == \E i \in DOMAIN k: k[i] < l[i] /\ \A j \in 1 .. i - 1: k[j] = l[j]

\* The blocks in reading order, each given by its key: the key ends in the block's id.
SortKeys(bs) == {SortKey(bs, b): b \in ToSet(bs)}
ReadsBefore(keys) == {d \in keys \X keys: Less(d[1], d[2])}
PreSorted(bs) == LET keys == SortKeys(bs) IN Ranked(keys, ReadsBefore(keys))
PreSortedIds(bs) == LET ordered == PreSorted(bs) IN [i \in DOMAIN ordered |-> ordered[i][5]]

Sort ==
    /\ stage = "sort"
    /\ \A b \in ToSet(blocks): b.fields = "all"
    /\ stage' = "relate"
    /\ payload' = PreSortedIds(blocks)
    /\ blocks' = <<>>
    /\ UNCHANGED <<parent, warnings, wellFormed, answer>>

\* b["bbox"]["page_number"] raises KeyError.
SortRaises ==
    /\ stage = "sort"
    /\ \E b \in ToSet(blocks): b.fields = "no page"
    /\ stage' = "raised"
    /\ UNCHANGED <<blocks, payload, parent, warnings, wellFormed, answer>>

---------------------------------------------------------------------------
(* Relate and repair *)

\* relation_map: the last relation of a name is the one that counts.
RelationMap(relations) ==
    [n \in {r.id: r \in ToSet(relations)} |->
        Last(SelectSeq(relations, LAMBDA r: r.id = n)).parent]

\* Mutant: a parent is known if the answer has a relation for it.
KnownToAnswer(map) == DOMAIN map
Known(map) == ToSet(payload)

Orphans(map) == {n \in DOMAIN map: map[n] # None /\ map[n] \notin Known(map)}

\* Mutant: a block that is its own parent is left to the reader of the tree.
NoSelfParents(map) == {}
SelfParents(map) == {n \in DOMAIN map: map[n] = n} \ Orphans(map)

\* Mutant: a block the answer forgets becomes a root in silence.
NoneMissing(map) == {}
Missing(map) == ToSet(payload) \ DOMAIN map

\* Mutant: the blocks that have no relation get no parent_id.
RepairedNamed(map) ==
    [b \in ToSet(payload) \cap DOMAIN map |->
        IF b \in Orphans(map) \cup SelfParents(map) THEN None ELSE map[b]]
Repaired(map) ==
    [b \in ToSet(payload) |->
        IF b \notin DOMAIN map \/ b \in Orphans(map) \cup SelfParents(map)
        THEN None ELSE map[b]]

RepairWarnings(map) ==
    ({"unknown parent"} \X Orphans(map)) \cup ({"own parent"} \X SelfParents(map))
      \cup ({"missing"} \X Missing(map))

\* One call, and what is made of its answer.
Relate ==
    /\ stage = "relate" /\ Len(payload) > 1
    /\ \E relations \in BoundedSeq([id: Names, parent: Names \cup {None}], MaxRelations):
          LET map == RelationMap(relations) IN
          /\ answer' = map
          /\ parent' = Repaired(map)
          /\ warnings' = warnings \cup RepairWarnings(map)
    /\ stage' = "done"
    /\ UNCHANGED <<blocks, payload, wellFormed>>

\* The call fails, or its answer has no tool call.
RelateRaises ==
    /\ stage = "relate" /\ Len(payload) > 1
    /\ stage' = "raised"
    /\ UNCHANGED <<blocks, payload, parent, warnings, wellFormed, answer>>

\* At most one block has no relation to ask for.
Skip ==
    /\ stage = "relate" /\ Len(payload) <= 1
    /\ parent' = [b \in ToSet(payload) |-> None]
    /\ stage' = "done"
    /\ UNCHANGED <<blocks, payload, warnings, wellFormed, answer>>

Next == Prepare \/ Sort \/ SortRaises \/ Relate \/ RelateRaises \/ Skip

Spec == Init /\ [][Next]_vars

---------------------------------------------------------------------------
(* Properties *)

Sorting == stage = "sort" /\ stage' = "relate"
Before(ids, a, b) == \E i, j \in DOMAIN ids: i < j /\ ids[i] = a.id /\ ids[j] = b.id

\* Every well-formed id is in the tree, and once, whichever pages and attempts its copies
\* come from: the relations of the answer name blocks by their id alone.
OneBlockPerId ==
    stage \in {"relate", "done"} =>
        /\ ToSet(payload) = wellFormed
        /\ Len(payload) = Cardinality(wellFormed)

\* Pages read one after the other, and a full-width block separates its page: whatever
\* starts above it reads before it, unless it is a heading (geometric_pre_sorter bands).
FullWidthSeparates ==
    [][Sorting =>
          \A a, b \in ToSet(blocks):
              \/ a.page < b.page
              \/ /\ a.page = b.page /\ a.top < b.top
                 /\ IsFull(PageOf(blocks, b), b)
                 /\ a.type \notin {"heading", "title"} \/ IsFull(PageOf(blocks, a), a)
              => Before(payload', a, b)]_vars

\* No text that starts above the first full-width block of a page comes between that block and
\* a heading it is introduced by (geometric_pre_sorter pull-down).
HeadingStaysWithBlock ==
    [][Sorting =>
          \A h, f, a \in ToSet(blocks):
              LET page == PageOf(blocks, h) IN
              /\ f \in page /\ a \in page
              /\ h.type = "heading" /\ ~IsFull(page, h)
              /\ a.type = "text" /\ a.top < f.top
              /\ IsFull(page, f) /\ Overlaps(h, f) /\ h.top < f.top
              /\ 20 * (f.top - h.bottom) \in - Span(page) .. Span(page)
              /\ \A g \in page: IsFull(page, g) => g.top >= f.top
              => ~(\/ Before(payload', h, a) /\ Before(payload', a, f)
                   \/ Before(payload', f, a) /\ Before(payload', a, h))]_vars

\* The same page in other units has the same order, if it is ten units wide or more and no
\* block is exactly as wide as a full-width block must be or starts exactly where a column
\* does (geometric_pre_sorter: three knobs that are fractions of the page's span).
Scaled(b, k) ==
    [b EXCEPT !.top = k * @, !.left = k * @, !.bottom = k * @, !.right = k * @]
OnThreshold(page, b) ==
    \/ 100 * (b.right - b.left) = 55 * Span(page)
    \/ b.left # 0 /\ (100 * b.left) % (11 * Span(page)) = 0
ScaleInvariant ==
    [][Sorting /\ (\A b \in ToSet(blocks):
                      LET page == PageOf(blocks, b) IN Span(page) >= 10 /\ ~OnThreshold(page, b)) =>
          \A k \in Factors:
              payload' = PreSortedIds([i \in DOMAIN blocks |-> Scaled(blocks[i], k)])]_vars

\* Every parent_id of the tree is the id of another block of it, whatever the answer names:
\* blocks that were dropped, blocks that never were, the block itself.
ParentsResolve ==
    stage = "done" =>
        \A b \in ToSet(payload): parent[b] \in (ToSet(payload) \ {b}) \cup {None}

\* The tree is the answer wherever it is not said to be repaired: an edge that was not
\* asked for, or that is gone, has a warning with the block's id.
RepairsAreTold ==
    stage = "done" /\ Len(payload) > 1 =>
        \A b \in ToSet(payload):
            \/ b \in DOMAIN answer /\ parent[b] = answer[b]
            \/ parent[b] = None /\ \E w \in warnings: w[2] = b
=================================================================================

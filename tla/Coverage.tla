-------------------------------- MODULE Coverage --------------------------------
(***************************************************************************)
(* The decisions of the coverage auditor (src/nodes/coverage_node.py) over *)
(* a list of blocks: which pages it flags, which of a pair of duplicates   *)
(* it suspects, and which re-extraction it keeps.                          *)
(*                                                                         *)
(* A block has the page number the model gave it and the page whose words  *)
(* it carries.  One block stands for all the text of a page, so the share  *)
(* of a page's native words that its blocks carry is 0 or 1, and a block   *)
(* counts as the number of substantial blocks a duplication needs.         *)
(***************************************************************************)
EXTENDS Ranking, SequencesExt

CONSTANTS
    PageCount,   \* total_pages
    Legible,     \* pages whose native text layer is usable
    Audited,     \* those with enough significant words to be audited
    RetryPages   \* COVERAGE_RETRY_MAX_PAGES

ASSUME PageCountAssumption == PageCount \in Nat \ {0}
ASSUME LayerAssumption == Legible \subseteq 1 .. PageCount /\ Audited \subseteq Legible
ASSUME RetryPagesAssumption == RetryPages \in Nat

Pages == 1 .. PageCount

\* page_word_coverage of an audited page, as 0 or 1.
Score(blocks, p) ==
    IF \E b \in ToSet(blocks): b.page = p /\ b.about = p THEN 1 ELSE 0

\* The pages of coverage_findings.
Uncovered(blocks) == {p \in Audited: Score(blocks, p) = 0}

\* The other pages that page n mostly duplicates (a ratio of at least 1/2).
Content(blocks, n) == {b.about: b \in {c \in ToSet(blocks): c.page = n}}
Resembled(blocks, n) ==
    {m \in Pages \ {n}:
        /\ Content(blocks, n) # {}
        /\ Content(blocks, m) # {}
        /\ 2 * Cardinality(Content(blocks, n) \cap Content(blocks, m))
             >= Cardinality(Content(blocks, n))}

\* duplication_findings: the page resembles one other page only, and the pair is
\* not reported from the lower page already.
Duplicates(blocks) ==
    LET resembled == [n \in Pages |-> Resembled(blocks, n)] IN
    {d \in Pages \X Pages:
        /\ resembled[d[1]] = {d[2]}
        /\ ~ (d[2] < d[1] /\ resembled[d[2]] = {d[1]})}

\* The page of the pair that lost its content: the one with the lower coverage.
Suspect(blocks, n, m) ==
    IF n \in Audited /\ m \in Audited
    THEN IF Score(blocks, n) <= Score(blocks, m) THEN n ELSE m
    ELSE IF m \in Audited THEN m ELSE n

\* The suspect of the pair that page n is reported for.
SuspectOf(blocks, n) == Suspect(blocks, n, CHOOSE m \in Resembled(blocks, n): TRUE)

\* Uncovered pages first, then the suspects, without repetition, both in page order.
Flagged(blocks) ==
    LET suspects == [n \in {d[1]: d \in Duplicates(blocks)} |-> SuspectOf(blocks, n)]
        first == {n \in DOMAIN suspects:
                     /\ suspects[n] \notin Uncovered(blocks)
                     /\ \A m \in DOMAIN suspects: m < n => suspects[m] # suspects[n]}
    IN Ascending(Uncovered(blocks)) \o ItemsAt(suspects, first)

\* The cost cap: only the first RetryPages flagged pages are looked at again, and
\* an illegible one is not, as no improvement could be verified.
Considered(flagged) ==
    SubSeq(flagged, 1, IF Len(flagged) < RetryPages THEN Len(flagged) ELSE RetryPages)
Retried(flagged) == ToSet(Considered(flagged)) \cap Legible

\* Strict page scope: only blocks the retry attributes to the page count.
OnPage(blocks, p) == ItemsAt(blocks, {i \in DOMAIN blocks: blocks[i].page = p})

\* Mutant: the result of the retry is kept whatever it scores.
KeepAny(blocks, p, retry) == p \in Audited
\* The retry is kept only when it scores better than what it replaces.
Keep(blocks, p, retry) ==
    p \in Audited /\ Score(OnPage(retry, p), p) > Score(blocks, p)
=================================================================================

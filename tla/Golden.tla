----------------------------------- MODULE Golden -----------------------------------
(***************************************************************************)
(* What scripts/generate_real_ground_truth.py (C2) makes of several runs   *)
(* of the pipeline over one document, and how a later run is judged by     *)
(* scripts/evaluate_real_docs.py (C4) and by the end-to-end test (C3).     *)
(*                                                                         *)
(* A run is the record of what the scripts look at: how many blocks it     *)
(* has, whether they are sound (valid boxes, the type of the slot), the    *)
(* title of a paper, the headings, and the rows of an invoice's table.     *)
(***************************************************************************)
EXTENDS Ranking, SequencesExt

CONSTANTS
    NRuns,  \* --runs
    Norm,   \* the canonical form of each title a model may return
    None    \* no title

ASSUME NRunsAssumption == NRuns \in Nat \ {0}
ASSUME NormAssumption == None \notin DOMAIN Norm

\* math.ceil(0.8 * n_runs), math.ceil(0.6 * n_runs) and the fewest successes.
RequiredThreshold == (4 * NRuns + 4) \div 5
DeferredThreshold == (3 * NRuns + 4) \div 5
MinSuccesses == Max({3, DeferredThreshold})

Positions(runs, Holds(_)) == {i \in DOMAIN runs: Holds(runs[i])}
Votes(runs, Holds(_)) == Cardinality(Positions(runs, Holds))

Counts(runs) == [i \in DOMAIN runs |-> runs[i].count]
\* The pairs of positions in the order of sorted(counts), which is stable.
Sorted(counts) ==
    {d \in (DOMAIN counts) \X (DOMAIN counts):
        \/ counts[d[1]] < counts[d[2]]
        \/ counts[d[1]] = counts[d[2]] /\ d[1] < d[2]}
\* round((len - 1) * 0.8) is never halfway between two integers.
Percentile80(counts) ==
    LET order == Ranked(DOMAIN counts, Sorted(counts))
    IN counts[order[((Len(counts) - 1) * 8 + 5) \div 10 + 1]]

\* Mutant: the floor before it was clamped to the smallest run.
UnclampedFloor(runs) == Max({1, (85 * Percentile80(Counts(runs))) \div 100})
Floor(runs) ==
    Max({1, Min({(85 * Percentile80(Counts(runs))) \div 100,
                 (95 * Min({r.count: r \in ToSet(runs)})) \div 100})})

\* The forms of the title that are canonically one.
InGroup(group, r) == r.title # None /\ Norm[r.title] = group
GroupVotes(runs, group) == Votes(runs, LAMBDA r: InGroup(group, r))
FormVotes(runs, form) == Votes(runs, LAMBDA r: r.title = form)
Groups == {Norm[v]: v \in DOMAIN Norm}

\* The most common form of a group, the first of them in a tie.
Representative(runs, group) ==
    LET group_ == Positions(runs, LAMBDA r: InGroup(group, r))
        most == Max({FormVotes(runs, runs[i].title): i \in group_})
    IN runs[Min({i \in group_: FormVotes(runs, runs[i].title) = most})].title

\* The title that low to high runs agree on: a majority, hence at most one.
Consensus(runs, low, high) ==
    LET agreed == {g \in Groups: GroupVotes(runs, g) \in low .. high} IN
    IF agreed = {} THEN None ELSE Representative(runs, CHOOSE g \in agreed: TRUE)

\* Tables have the same columns: the rows that enough runs agree on, less 40%.
MinRows(runs) ==
    LET agreed == {r.rows: r \in {s \in ToSet(runs): s.rows > 0 /\
                       Votes(runs, LAMBDA o: o.rows = s.rows) >= RequiredThreshold}}
    IN IF agreed = {} THEN 0 ELSE Max({2, (6 * Max(agreed)) \div 10})

\* Mutant: the version is written out, as the plan's example of a golden file has it.
FirstVersion(schema) == 1
SchemaVersion(schema) == schema

\* _derive_golden, but for the checksum; schema is the CURRENT_SCHEMA_VERSION that C2 imports.
Derive(docType, schema, runs) ==
    [schema_version |-> SchemaVersion(schema),
     min_blocks |-> Floor(runs),
     required |-> IF docType = "scientific_paper"
                  THEN Consensus(runs, RequiredThreshold, NRuns) ELSE None,
     deferred |-> IF docType = "scientific_paper"
                  THEN Consensus(runs, DeferredThreshold, RequiredThreshold - 1) ELSE None,
     headings |-> {h \in UNION {r.headings: r \in ToSet(runs)}:
                      Votes(runs, LAMBDA r: h \in r.headings) >= RequiredThreshold},
     min_rows |-> IF docType = "invoice" THEN MinRows(runs) ELSE 0]

---------------------------------------------------------------------------
(* Judging a run *)

TextFound(golden, run) == golden.headings \subseteq run.headings

\* C4 compares a title with ==, C3 with _norm_eq.
SameTitle(title, expected) == title = expected
NormEq(title, expected) == title # None /\ Norm[title] = Norm[expected]

\* What C3 and C4 have in common.
Structure(golden, run) ==
    /\ run.sound
    /\ TextFound(golden, run)
    /\ run.count >= golden.min_blocks
    /\ run.rows >= golden.min_rows

\* _evaluate_slot: the list of errors is empty; a deferred title only warns.
Accepted(golden, run) ==
    /\ Structure(golden, run)
    /\ golden.required # None => SameTitle(run.title, golden.required)
Regressed(golden, run) == golden.deferred # None /\ ~SameTitle(run.title, golden.deferred)

Verdict(golden, run) ==
    IF ~Accepted(golden, run) THEN "FAIL"
    ELSE IF Regressed(golden, run) THEN "WARN" ELSE "PASS"

\* test_real_doc, which looks at the version of the format as well.
TestPasses(schema, golden, run) ==
    /\ golden.schema_version = schema
    /\ Structure(golden, run)
    /\ golden.required # None => NormEq(run.title, golden.required)
=================================================================================

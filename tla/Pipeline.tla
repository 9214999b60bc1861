-------------------------------- MODULE Pipeline --------------------------------
(***************************************************************************)
(* The extraction graph of src/graph.py on the checkpointed thread of one  *)
(* document: the nodes as supersteps, the retry loop of the pioneer page,  *)
(* the fan-out to one worker per further page, the coverage audit, and     *)
(* what a failed node, a killed process, a resumed run and a fresh run on  *)
(* the same thread do to the shared state.                                 *)
(*                                                                         *)
(* The channels change only between supersteps, when the checkpointer has  *)
(* saved them; a killed run loses the tasks in progress, and keeps the     *)
(* writes of the tasks of the superstep that had finished.  LangGraph is   *)
(* outside the repository: next, writes, FanIn, Resume, Kill and Fail say  *)
(* what src/ relies on.                                                    *)
(***************************************************************************)
EXTENDS Coverage, GraphState

CONSTANTS
    MaxRetries,  \* VALIDATION_MAX_RETRIES
    MaxRuns,     \* bound on the runs started afresh on the thread
    Quality,     \* bound on the flaws of the blocks the model returns
    Ids          \* bound on the block_ids it chooses

ASSUME MaxRetriesAssumption == MaxRetries \in Nat \ {0}
ASSUME MaxRunsAssumption == MaxRuns \in Nat \ {0}
\* A block is "ok", complete but violating the schema ("invalid"), without type or id
\* ("incomplete"), or without a page number in a bbox ("nobbox"), and then on page 0.
ASSUME QualityAssumption ==
    "ok" \in Quality /\ Quality \subseteq {"ok", "invalid", "incomplete", "nobbox"}
\* A block has a block_id of its own, or the one that several calls have chosen.
ASSUME IdsAssumption == Ids # {} /\ Ids \subseteq {"own", "shared"}

VARIABLES
    running,      \* is astream() executing?
    next,         \* the node or nodes to execute, "end" when there is none
    writes,       \* what the finished workers of the superstep returned
    retry_count, last_validation_error, truncation_error,
    blocks,       \* extracted_flat_blocks
    warnings,     \* extraction_warnings
    usage_log,    \* the runs that have entries in usage_log
    tree,         \* the run that made hierarchical_document_tree, 0 for none
    outcome,      \* how astream() ended: what the caller gets
    run,          \* history: the number of the run
    cause         \* history: why the last pioneer attempt was not accepted

channels == <<retry_count, last_validation_error, truncation_error,
              blocks, warnings, usage_log, tree>>
vars == <<running, next, writes, channels, outcome, run, cause>>

Nodes == {"native_extractor", "classifier", "pioneer_parser", "retry_node",
          "burst_dispatcher", "parser_worker", "coverage_auditor", "hierarchy_node"}
Errors == {"none", "truncated", "empty", "schema"}
Kinds == {"pioneer", "page", "audit skipped", "coverage", "duplicate", "not verifiable",
          "not retried", "replaced", "relation", "dropped"}
NotYet == [blocks |-> <<>>, warned |-> FALSE, done |-> FALSE]

Block(page, about, quality, by, id) ==
    [page |-> page, about |-> about, quality |-> quality, id |-> id,
     by |-> by, run |-> run, try |-> retry_count]
BlockSet == [page: 0 .. PageCount, about: Pages, quality: Quality, id: Ids,
             by: Pages, run: 1 .. MaxRuns, try: 0 .. MaxRetries]

\* What one call for page p may answer: nothing, the page, another page's words
\* under its number, its words under another page's number, blocks the schema
\* rejects, or the page and a block of another page.
Replies(p) ==
    {<<>>}
      \cup {<<Block(p, a, "ok", p, i)>>: a \in Pages, i \in Ids}
      \cup {<<Block(l, p, "ok", p, i)>>: l \in Pages, i \in Ids}
      \cup {<<Block(IF q = "nobbox" THEN 0 ELSE p, p, q, p, i)>>: q \in Quality, i \in Ids}
      \cup {<<Block(p, p, "ok", p, i), Block(l, l, q, p, j)>>:
                l \in Pages \ {p}, q \in Quality \cap {"ok", "invalid"}, i \in Ids, j \in Ids}

\* SchemaRegistry().validate on a payload of blocks.
Valid(bs) == \A b \in ToSet(bs): b.quality = "ok"
NoBbox(bs) == \E b \in ToSet(bs): b.quality = "nobbox"

Warning(kind, page) == [kind |-> kind, page |-> page, run |-> run]

\* burst_worker_node: the blocks of the first attempt the schema accepts, or those
\* of the last attempt with a warning.
WorkerReturns(p) ==
    {[blocks |-> bs, warned |-> ~(bs # <<>> /\ Valid(bs)), done |-> TRUE]: bs \in Replies(p)}
\* Mutant: a worker warns of a page it has nothing of, not of one it has wrongly.
WorkerWarningsIfEmpty(p, w) ==
    IF w.warned /\ w.blocks = <<>> THEN {Warning("page", p)} ELSE {}
WorkerWarnings(p, w) == IF w.warned THEN {Warning("page", p)} ELSE {}

\* The channels hold what their reducers and nodes put there; in particular the
\* retries of page 1 never exceed VALIDATION_MAX_RETRIES, over all runs.
TypeOK ==
    /\ running \in BOOLEAN
    /\ next \in Nodes \cup {"end"}
    /\ writes \in [2 .. PageCount -> [blocks: Seq(BlockSet), warned: BOOLEAN, done: BOOLEAN]]
    /\ retry_count \in 0 .. MaxRetries
    /\ last_validation_error \in Errors
    /\ truncation_error \in BOOLEAN
    /\ blocks \in Seq(BlockSet)
    /\ warnings \subseteq [kind: Kinds, page: 0 .. PageCount, run: 1 .. MaxRuns]
    /\ usage_log \subseteq 1 .. MaxRuns
    /\ tree \in 0 .. MaxRuns
    /\ outcome \in {"none", "returned", "KeyError", "other error"}
    /\ running => outcome = "none"
    /\ run \in 0 .. MaxRuns
    /\ cause \in Errors

Init ==
    /\ running = FALSE /\ next = "end"
    /\ writes = [p \in 2 .. PageCount |-> NotYet]
    /\ retry_count = 0 /\ last_validation_error = "none" /\ truncation_error = FALSE
    /\ blocks = <<>> /\ warnings = {} /\ usage_log = {} /\ tree = 0
    /\ outcome = "none" /\ run = 0 /\ cause = "none"

\* A node has executed: the thread goes on to n; or astream() ends, and the thread
\* stays where it is.
Executing(n) == running /\ next = n
Goto(n) == next' = n /\ UNCHANGED <<running, outcome, run>>
Stop(how) ==
    /\ running' = FALSE /\ outcome' = how
    /\ UNCHANGED <<next, writes, channels, run, cause>>

---------------------------------------------------------------------------
(* Runs on the thread *)

\* astream({"file_path": ...}): whatever the thread was doing is forgotten, and the
\* channels keep their values until a node writes them.
Fresh ==
    /\ ~running /\ run < MaxRuns
    /\ running' = TRUE /\ next' = "native_extractor" /\ run' = run + 1 /\ outcome' = "none"
    /\ writes' = [p \in 2 .. PageCount |-> NotYet]
    /\ UNCHANGED <<channels, cause>>

\* Mutant: _resolve_input does not look at snapshot.next.
ResumeAny ==
    /\ ~running
    /\ running' = TRUE /\ outcome' = "none"
    /\ UNCHANGED <<next, writes, channels, run, cause>>

\* astream(None), only on a thread with something left to execute.
Resume ==
    /\ ~running /\ next # "end"
    /\ running' = TRUE /\ outcome' = "none"
    /\ UNCHANGED <<next, writes, channels, run, cause>>

\* The process dies.
Kill == running /\ Stop("none")

\* A call to the API or to the PDF reader raises in a node that makes one.
Fail ==
    /\ running
    /\ next \in {"native_extractor", "classifier", "pioneer_parser", "parser_worker",
                 "coverage_auditor", "hierarchy_node"}
    /\ Stop("other error")

---------------------------------------------------------------------------
(* Page 1 *)

\* Mutant: the extractor leaves the block buffer as the last run left it.
ExtractorKeepsBlocks == [kind |-> "append", new |-> <<>>]
ExtractorBlocks == Reset

NativeExtractor ==
    /\ Executing("native_extractor")
    /\ retry_count' = 0
    /\ last_validation_error' = "none"
    /\ blocks' = MergeFlatBlocks(blocks, ExtractorBlocks)
    /\ usage_log' = ResetUsage
    /\ warnings' = MergeWarnings(warnings, {})
    /\ cause' = "none"
    /\ Goto("classifier")
    /\ UNCHANGED <<writes, truncation_error, tree>>

Classifier ==
    /\ Executing("classifier")
    /\ usage_log' = MergeUsageLog(usage_log, {run})
    /\ Goto("pioneer_parser")
    /\ UNCHANGED <<writes, retry_count, last_validation_error, truncation_error,
                   blocks, warnings, tree, cause>>

\* pioneer_validation_route on the blocks numbered 1: why they are not accepted.
Rejection(bs) ==
    LET numbered == {b \in ToSet(bs): b.page = 1} IN
    IF numbered = {} THEN "empty"
    ELSE IF \A b \in numbered: b.quality = "ok" THEN "none" ELSE "schema"

\* The blocks and truncation detail of one attempt; a truncated one has no blocks.
Attempts == [reply: Replies(1), truncated: {FALSE}] \cup {[reply |-> <<>>, truncated |-> TRUE]}

\* Mutant: an attempt that is not truncated leaves the detail of an older one.
TruncationSticks(a) == a.truncated \/ truncation_error
Truncation(a) == a.truncated

\* Mutant: one retry too many.
RetryLeftInclusive == retry_count <= MaxRetries
RetryLeft == retry_count < MaxRetries

\* window_parser_node and the route behind it, which reads b["bbox"] of every block.
Pioneer ==
    /\ Executing("pioneer_parser")
    /\ \E a \in Attempts:
          LET merged == MergeFlatBlocks(blocks, Append_(a.reply)) IN
          /\ ~NoBbox(merged)
          /\ blocks' = merged
          /\ truncation_error' = Truncation(a)
          /\ cause' = IF a.truncated THEN "truncated" ELSE Rejection(merged)
          /\ IF Rejection(merged) # "none" /\ RetryLeft
             THEN Goto("retry_node")
             ELSE Goto("burst_dispatcher")
    /\ usage_log' = MergeUsageLog(usage_log, {run})
    /\ UNCHANGED <<writes, retry_count, last_validation_error, warnings, tree>>

\* A block without a bbox raises KeyError in the route: the task fails.
PioneerRaises ==
    /\ Executing("pioneer_parser")
    /\ \E a \in Attempts: NoBbox(MergeFlatBlocks(blocks, Append_(a.reply)))
    /\ Stop("KeyError")

\* Mutant: the retry does not count.
RetryUncounted == retry_count
RetryCounted == retry_count + 1

RetryNode ==
    /\ Executing("retry_node")
    /\ last_validation_error' = IF truncation_error THEN "truncated" ELSE Rejection(blocks)
    /\ retry_count' = RetryCounted
    /\ blocks' = MergeFlatBlocks(blocks, Reset)
    /\ Goto("pioneer_parser")
    /\ UNCHANGED <<writes, truncation_error, warnings, usage_log, tree, cause>>

---------------------------------------------------------------------------
(* The fan-out *)

\* Mutant: the warning needs one retry more than there can be.
DegradedBeyond == retry_count > MaxRetries
Degraded == retry_count >= MaxRetries

BurstDispatcher ==
    /\ Executing("burst_dispatcher")
    /\ warnings' = MergeWarnings(warnings, IF Degraded THEN {Warning("pioneer", 1)} ELSE {})
    /\ Goto(IF PageCount < 2 THEN "coverage_auditor" ELSE "parser_worker")
    /\ UNCHANGED <<writes, retry_count, last_validation_error, truncation_error,
                   blocks, usage_log, tree, cause>>

\* Workers finish in any order; each one's return is saved as it does.
WorkerReturn(p) ==
    /\ Executing("parser_worker")
    /\ ~writes[p].done
    /\ \E w \in WorkerReturns(p): writes' = [writes EXCEPT ![p] = w]
    /\ UNCHANGED <<running, next, channels, outcome, run, cause>>

\* The returns of the workers, merged in the order of the dispatch.
Merged[p \in Pages] ==
    IF p = 1 THEN blocks ELSE MergeFlatBlocks(Merged[p - 1], Append_(writes[p].blocks))

FanIn ==
    /\ Executing("parser_worker")
    /\ \A p \in DOMAIN writes: writes[p].done
    /\ blocks' = Merged[PageCount]
    /\ warnings' = MergeWarnings(warnings,
                       UNION {WorkerWarnings(p, writes[p]): p \in DOMAIN writes})
    /\ usage_log' = MergeUsageLog(usage_log, {run})
    /\ writes' = [p \in DOMAIN writes |-> NotYet]
    /\ Goto("coverage_auditor")
    /\ UNCHANGED <<retry_count, last_validation_error, truncation_error, tree, cause>>

---------------------------------------------------------------------------
(* The audit and the tree *)

\* The native layer cannot be read: the audit is skipped, never the run failed.
AuditSkipped ==
    /\ Executing("coverage_auditor")
    /\ warnings' = MergeWarnings(warnings, {Warning("audit skipped", 0)})
    /\ Goto("hierarchy_node")
    /\ UNCHANGED <<writes, retry_count, last_validation_error, truncation_error,
                   blocks, usage_log, tree, cause>>

\* Mutant: the final warnings are about the blocks before the retries.
AuditedBefore(replaced, new) == blocks
\* final_blocks, which the warnings are about.
AuditedAfter(replaced, new) ==
    ItemsAt(blocks, {i \in DOMAIN blocks: blocks[i].page \notin replaced}) \o new

AuditWarnings(final, replaced, flagged) ==
    LET considered == ToSet(Considered(flagged)) IN
    {Warning("coverage", p): p \in Uncovered(final)}
      \cup {Warning("duplicate", d[1]): d \in Duplicates(final)}
      \cup {Warning("not verifiable", p): p \in considered \ Legible}
      \cup {Warning("not retried", p): p \in ToSet(flagged) \ considered}
      \cup {Warning("replaced", p): p \in replaced}

\* The flagged pages are extracted again, one after the other, by the worker of
\* the fan-out; the reducer replaces the pages whose retry is kept.
Audit ==
    LET flagged == Flagged(blocks)
        retried == Retried(flagged)
    IN
    /\ Executing("coverage_auditor")
    /\ NoBbox(blocks) => Audited = {}
    /\ \E returns \in {[p \in retried |-> WorkerReturns(p)]}:
       \E w \in {v \in [retried -> UNION {returns[p]: p \in retried}]:
                    \A p \in retried: v[p] \in returns[p]}:
       \E replaced \in {{p \in retried: Keep(blocks, p, w[p].blocks)}}:
          LET kept == ItemsAt(flagged, {i \in DOMAIN flagged: flagged[i] \in replaced})
              new == FlattenSeq([i \in DOMAIN kept |-> OnPage(w[kept[i]].blocks, kept[i])])
          IN
          /\ blocks' = IF replaced = {} THEN blocks
                       ELSE MergeFlatBlocks(blocks, Replace(replaced, new))
          /\ warnings' = MergeWarnings(warnings,
                             AuditWarnings(AuditedAfter(replaced, new), replaced, flagged)
                               \cup UNION {WorkerWarnings(p, w[p]): p \in retried})
    /\ usage_log' = MergeUsageLog(usage_log, IF retried = {} THEN {} ELSE {run})
    /\ Goto("hierarchy_node")
    /\ UNCHANGED <<writes, retry_count, last_validation_error, truncation_error, tree, cause>>

\* A block without a bbox raises KeyError when the words of a page are looked up,
\* or, if it has enough text, when the pages are compared.
AuditRaises ==
    /\ Executing("coverage_auditor")
    /\ NoBbox(blocks)
    /\ Stop("KeyError")

\* The blocks with all the required fields, and those of them whose block_id an
\* earlier one has taken: what remains is the payload of the tree.
WellFormed(bs) == {i \in DOMAIN bs: bs[i].quality \in {"ok", "invalid"}}
Repeated(bs) ==
    {i \in WellFormed(bs):
        bs[i].id = "shared" /\ \E j \in WellFormed(bs): j < i /\ bs[j].id = "shared"}
Payload(bs) == ItemsAt(bs, WellFormed(bs) \ Repeated(bs))

\* A block that lacks a required field is dropped with a warning, one that repeats an
\* id without; the relations the API gives may need repair; at most one block needs
\* no call.
HierarchyNode ==
    /\ Executing("hierarchy_node")
    /\ \E repaired \in {{}, {Warning("relation", 0)}}:
          /\ Len(Payload(blocks)) <= 1 => repaired = {}
          /\ warnings' = MergeWarnings(warnings, repaired \cup
                 IF WellFormed(blocks) = DOMAIN blocks THEN {} ELSE {Warning("dropped", 0)})
    /\ usage_log' = MergeUsageLog(usage_log, IF Len(Payload(blocks)) > 1 THEN {run} ELSE {})
    /\ tree' = run
    /\ Goto("end")
    /\ UNCHANGED <<writes, retry_count, last_validation_error, truncation_error, blocks, cause>>

\* Nothing is left to execute.
Return == Executing("end") /\ Stop("returned")

---------------------------------------------------------------------------
Execute ==
    \/ NativeExtractor \/ Classifier \/ Pioneer \/ PioneerRaises \/ RetryNode
    \/ BurstDispatcher \/ (\E p \in 2 .. PageCount: WorkerReturn(p)) \/ FanIn
    \/ AuditSkipped \/ Audit \/ AuditRaises \/ HierarchyNode \/ Return

Next == Fresh \/ Resume \/ Kill \/ Fail \/ Execute

Spec == Init /\ [][Next]_vars

\* astream() keeps executing what is next: every call returns or raises.
FairSpec == Spec /\ WF_vars(Execute \/ Fail)

---------------------------------------------------------------------------
(* Properties *)

\* Nothing of an older run, or of a pioneer attempt that was rejected, is left in
\* the blocks or the usage once the thread is past the node that resets them,
\* wherever the older runs were interrupted (state.py None sentinel).
BufferIsOfThisRun ==
    next \notin {"native_extractor", "end"} \/ tree = run =>
        /\ \A b \in ToSet(blocks):
              b.run = run /\ (b.by = 1 => b.try = retry_count)
        /\ usage_log \subseteq {run}

\* What the retry tells the model is why the last attempt was rejected, never the
\* detail of an earlier one, and never that of an older run.
RetryDetailIsCurrent ==
    next = "pioneer_parser" => last_validation_error = cause

\* Page 1 does not degrade in silence: when the tree is made, its last attempt was accepted
\* or the dispatcher warned of it in this run (burst_dispatcher_node).
DegradedPioneerWarned ==
    tree = run /\ run > 0 => Warning("pioneer", 1) \in warnings \/ cause = "none"

\* Nor does another page: those whose blocks in the tree the schema rejects have a warning
\* of this run, whether the fan-out or the audit extracted them (burst_worker_node).
DegradedPagesWarned ==
    tree = run /\ run > 0 =>
        \A b \in ToSet(blocks):
            b.by > 1 /\ b.quality # "ok" => Warning("page", b.by) \in warnings

\* The audit's warnings fit the tree that is made after them: a page with a coverage
\* warning of this run has none of its words in the tree, and a page whose words are
\* missing from it has that warning, unless the hierarchy node has dropped the block
\* that carries them, with a warning or for its repeated block_id.
AuditTellsTheTruth ==
    tree = run /\ run > 0 /\ Warning("audit skipped", 0) \notin warnings =>
        \A p \in Audited:
            /\ Warning("coverage", p) \in warnings => Score(Payload(blocks), p) = 0
            /\ Score(Payload(blocks), p) = 0 =>
                  \/ Warning("coverage", p) \in warnings
                  \/ \E i \in DOMAIN blocks:
                        /\ blocks[i].page = p /\ blocks[i].about = p
                        /\ \/ i \in Repeated(blocks)
                           \/ i \notin WellFormed(blocks) /\ Warning("dropped", 0) \in warnings

\* The audit never loses a page that was covered (coverage_auditor_node "never
\* regress").
AuditNeverRegresses ==
    [][next = "coverage_auditor" =>
          \A p \in Audited: Score(blocks, p) = 1 => Score(blocks', p) = 1]_vars

\* A run ends, with a tree or an exception: the retry loop is bounded and every
\* fan-out is merged.
RunEnds == running ~> ~running

\* The thread behaves as the job service relies on: a fresh run drops what was pending,
\* a resumed one continues it, and astream() returns only when nothing is left, with
\* the tree of the run that began last (runner.py reads it from the final state).
Document == {"document"}
Phase == IF running THEN "executing" ELSE IF outcome = "returned" THEN "returned" ELSE "none"
Thread == INSTANCE GraphThread WITH
    Threads <- Document,
    Runs <- Document,
    Of <- [d \in Document |-> d],
    phase <- [d \in Document |-> Phase],
    pending <- [d \in Document |-> next # "end"]
IsAThread == Thread!Spec /\ [](outcome = "returned" => tree = run)

\* CHANGELOG.md: "usage_log had no fresh-run reset (blocks and warnings did)".
\* Violated: the empty list of the extractor resets nothing.
WarningsAreOfThisRun ==
    tree = run => \A w \in warnings: w.run = run

\* CHANGELOG.md A2: the filter "prevents a KeyError crash when the burst path returns
\* a structurally invalid block".  Violated: the audit looks into b["bbox"] first.
NoKeyError == outcome = "KeyError" => next # "coverage_auditor"
=================================================================================

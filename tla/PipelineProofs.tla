------------------------------ MODULE PipelineProofs ------------------------------
(***************************************************************************)
(* Theorems about Pipeline for every number of pages, retries and runs:    *)
(* the retry loop of the pioneer page, and the thread the job service      *)
(* relies on.  They need nothing of what the blocks of a page look like.   *)
(***************************************************************************)
EXTENDS Pipeline, TLAPS

\* What the retry loop leaves behind at each node it passes.
LoopInv ==
    /\ retry_count \in 0 .. MaxRetries
    /\ next \in {"classifier", "pioneer_parser"} => blocks = <<>> /\ last_validation_error = cause
    /\ next = "retry_node" =>
          /\ retry_count < MaxRetries
          /\ cause = IF truncation_error THEN "truncated" ELSE Rejection(blocks)
    /\ next = "burst_dispatcher" => cause = "none" \/ retry_count >= MaxRetries
    /\ next \in {"parser_worker", "coverage_auditor", "hierarchy_node", "end"} =>
          cause = "none" \/ Warning("pioneer", 1) \in warnings

\* Where the thread stands, and which run made the tree.
ThreadInv ==
    /\ running \in BOOLEAN
    /\ run \in Nat /\ tree \in 0 .. run
    /\ next = "end" <=> tree = run
    /\ outcome = "returned" => next = "end"

Inv == LoopInv /\ ThreadInv

USE MaxRetriesAssumption

LEMMA NothingIsEmpty == Rejection(<<>>) = "empty" /\ <<>> \o <<>> = <<>>
<1>1. ToSet(<<>>) = {}
  BY DEF ToSet
<1> QED BY <1>1 DEF Rejection

LEMMA AttemptsKnown ==
    \A a \in Attempts: a.truncated = FALSE \/ (a.truncated = TRUE /\ a.reply = <<>>)
<1> SUFFICES ASSUME NEW a \in Attempts
             PROVE  a.truncated = FALSE \/ (a.truncated = TRUE /\ a.reply = <<>>)
  OBVIOUS
<1> DEFINE R == Replies(1)
<1>1. a \in [reply: R, truncated: {FALSE}] \/ a = [reply |-> <<>>, truncated |-> TRUE]
  BY DEF Attempts
<1> HIDE DEF R
<1>2. CASE a \in [reply: R, truncated: {FALSE}]
  BY <1>2
<1>3. CASE a = [reply |-> <<>>, truncated |-> TRUE]
  BY <1>3
<1> QED BY <1>1, <1>2, <1>3

LEMMA InitInv == Init => Inv
<1> SUFFICES ASSUME Init PROVE Inv
  OBVIOUS
<1>1. LoopInv
  BY DEF Init, LoopInv
<1>2. running = FALSE /\ next = "end" /\ run = 0 /\ tree = 0 /\ outcome = "none"
  BY DEF Init
<1>3. ThreadInv
  <2>1. running \in BOOLEAN
    BY <1>2
  <2>2. run \in Nat /\ tree \in 0 .. run
    BY <1>2
  <2>3. next = "end" <=> tree = run
    BY <1>2
  <2>4. outcome = "returned" => next = "end"
    BY <1>2
  <2> QED BY <2>1, <2>2, <2>3, <2>4 DEF ThreadInv
<1> QED BY <1>1, <1>3 DEF Inv

\* The runs on the thread leave the channels as they are.
LEMMA RunsKeep == Inv /\ (Fresh \/ Resume \/ Kill \/ Fail \/ UNCHANGED vars) => Inv'
<1> SUFFICES ASSUME Inv, Fresh \/ Resume \/ Kill \/ Fail \/ UNCHANGED vars PROVE Inv'
  OBVIOUS
<1>1. UNCHANGED <<channels, cause>>
  BY DEF Fresh, Resume, Kill, Fail, Stop, vars
<1>2. CASE Fresh
  BY <1>1, <1>2 DEF Fresh, channels, Inv, LoopInv, ThreadInv
<1>3. CASE Resume \/ Kill \/ Fail \/ UNCHANGED vars
  <2>1. next' = next /\ run' = run
    BY <1>3 DEF Resume, Kill, Fail, Stop, vars
  <2>2. LoopInv'
    BY <1>1, <2>1 DEF channels, Inv, LoopInv, Warning, Rejection
  <2>3. ThreadInv'
    BY <1>1, <1>3, <2>1 DEF channels, Inv, ThreadInv, Resume, Kill, Fail, Stop, vars
  <2> QED BY <2>2, <2>3 DEF Inv
<1> QED BY <1>2, <1>3

LEMMA ExecuteKeeps == Inv /\ Execute => Inv'
<1> SUFFICES ASSUME Inv, Execute PROVE Inv'
  OBVIOUS
<1>1. CASE NativeExtractor
  BY <1>1 DEF NativeExtractor, Executing, Goto, Inv, LoopInv, ThreadInv, MergeFlatBlocks,
         ExtractorBlocks, Reset
<1>2. CASE Classifier
  BY <1>2 DEF Classifier, Executing, Goto, Inv, LoopInv, ThreadInv
<1>3. CASE Pioneer
  <2>1. PICK a \in Attempts:
          /\ blocks' = MergeFlatBlocks(blocks, Append_(a.reply))
          /\ truncation_error' = a.truncated
          /\ cause' = IF a.truncated THEN "truncated" ELSE Rejection(blocks')
          /\ IF Rejection(blocks') # "none" /\ retry_count < MaxRetries
             THEN Goto("retry_node")
             ELSE Goto("burst_dispatcher")
    BY <1>3 DEF Pioneer, Truncation, RetryLeft
  <2>2. a.truncated = FALSE \/ (a.truncated = TRUE /\ a.reply = <<>>)
    BY AttemptsKnown
  <2>3. MergeFlatBlocks(blocks, Append_(a.reply)) = blocks \o a.reply
    BY DEF MergeFlatBlocks, Append_
  <2>4. a.truncated => Rejection(blocks') = "empty"
    BY <1>3, <2>1, <2>2, <2>3, NothingIsEmpty DEF Pioneer, Executing, Inv, LoopInv
  <2>5. /\ next = "pioneer_parser" /\ retry_count' = retry_count /\ tree' = tree /\ running = TRUE
    BY <1>3 DEF Pioneer, Executing, Inv, ThreadInv
  <2>6. Rejection(blocks)' = Rejection(blocks')
    BY DEF Rejection
  <2>7. /\ next' \in {"retry_node", "burst_dispatcher"} /\ UNCHANGED <<running, outcome, run>>
        /\ next' = "retry_node" <=> Rejection(blocks') # "none" /\ retry_count < MaxRetries
    BY <2>1 DEF Goto
  <2>8. LoopInv'
    <3>1. retry_count' \in 0 .. MaxRetries
      BY <2>5 DEF Inv, LoopInv
    <3>2. next' = "retry_node" =>
             /\ retry_count' < MaxRetries
             /\ cause' = IF truncation_error' THEN "truncated" ELSE Rejection(blocks')
      BY <2>1, <2>5, <2>7
    <3>3. next' = "burst_dispatcher" => cause' = "none" \/ retry_count' >= MaxRetries
      BY <2>1, <2>2, <2>4, <2>5, <2>7, <3>1
    <3> QED BY <2>6, <2>7, <3>1, <3>2, <3>3 DEF LoopInv
  <2>9. ThreadInv'
    BY <2>5, <2>7 DEF Inv, ThreadInv
  <2> QED BY <2>8, <2>9 DEF Inv
<1>4. CASE RetryNode
  BY <1>4 DEF RetryNode, Executing, Goto, Inv, LoopInv, ThreadInv, MergeFlatBlocks, Reset, RetryCounted
<1>5. CASE BurstDispatcher
  BY <1>5 DEF BurstDispatcher, Executing, Goto, Inv, LoopInv, ThreadInv, MergeWarnings, Degraded, Warning
<1>6. CASE \E p \in 2 .. PageCount: WorkerReturn(p)
  BY <1>6 DEF WorkerReturn, Executing, Inv, LoopInv, ThreadInv, channels, Warning
<1>7. CASE FanIn
  BY <1>7 DEF FanIn, Executing, Goto, Inv, LoopInv, ThreadInv, MergeWarnings, Warning
<1>8. CASE AuditSkipped
  BY <1>8 DEF AuditSkipped, Executing, Goto, Inv, LoopInv, ThreadInv, MergeWarnings, Warning
<1>9. CASE Audit
  <2>1. /\ next = "coverage_auditor" /\ next' = "hierarchy_node" /\ \E new: warnings' = warnings \cup new
        /\ UNCHANGED <<running, outcome, run, retry_count, cause, tree>>
    BY <1>9 DEF Audit, Executing, Goto, MergeWarnings
  <2> QED BY <2>1 DEF Inv, LoopInv, ThreadInv, Warning
<1>10. CASE HierarchyNode
  BY <1>10 DEF HierarchyNode, Executing, Goto, Inv, LoopInv, ThreadInv, MergeWarnings, Warning
<1>11. CASE PioneerRaises \/ AuditRaises \/ Return
  BY <1>11 DEF PioneerRaises, AuditRaises, Return, Executing, Stop, channels, Inv, LoopInv, ThreadInv,
         Warning
<1> QED BY <1>1, <1>2, <1>3, <1>4, <1>5, <1>6, <1>7, <1>8, <1>9, <1>10, <1>11 DEF Execute

LEMMA AlwaysInv == Spec => []Inv
<1>1. Inv /\ [Next]_vars => Inv'
  BY RunsKeep, ExecuteKeeps DEF Next
<1> QED BY <1>1, InitInv, PTL DEF Spec

\* A retry is told why the last attempt was rejected, whatever runs were interrupted before.
THEOREM RetriesAreTold == Spec => []RetryDetailIsCurrent
<1>1. Inv => RetryDetailIsCurrent
  BY DEF Inv, LoopInv, RetryDetailIsCurrent
<1> QED BY <1>1, AlwaysInv, PTL

\* A tree whose first page was never accepted comes with the warning of its run.
THEOREM PioneerIsWarnedOf == Spec => []DegradedPioneerWarned
<1>1. Inv => DegradedPioneerWarned
  BY DEF Inv, LoopInv, ThreadInv, DegradedPioneerWarned
<1> QED BY <1>1, AlwaysInv, PTL

\* The retries of page 1 stay within VALIDATION_MAX_RETRIES, over all the runs of a thread.
THEOREM RetriesAreBounded == Spec => [](retry_count \in 0 .. MaxRetries)
<1>1. Inv => retry_count \in 0 .. MaxRetries
  BY DEF Inv, LoopInv
<1> QED BY <1>1, AlwaysInv, PTL

\* The nodes, one by one, make the thread the job service relies on.
THEOREM GraphIsAThread == Spec => IsAThread
<1> DEFINE d == "document"
<1>1. Init => Thread!Init
  BY DEF Init, Thread!Init, Phase
<1>2. Inv /\ [Next]_vars => [Thread!Next]_(Thread!vars)
  <2> SUFFICES ASSUME Inv, [Next]_vars PROVE [Thread!Next]_(Thread!vars)
    OBVIOUS
  <2>1. Document = {d}
    BY DEF Document
  <2>a. running \in BOOLEAN
    BY DEF Inv, ThreadInv
  <2>2. CASE Fresh
    <3>1. ~running /\ running' /\ next' # "end"
      BY <2>2 DEF Fresh
    <3>2. Phase # "executing" /\ Phase' = "executing"
      BY <3>1 DEF Phase
    <3>3. Thread!Begin(d)
      BY <2>1, <3>1, <3>2 DEF Thread!Begin, Thread!Free
    <3> QED BY <2>1, <3>3 DEF Thread!Next
  <2>3. CASE Resume
    <3>1. ~running /\ running' /\ next # "end" /\ next' = next
      BY <2>3 DEF Resume
    <3>2. Phase # "executing" /\ Phase' = "executing"
      BY <3>1 DEF Phase
    <3>3. Thread!Resume(d)
      BY <2>1, <3>1, <3>2 DEF Thread!Resume, Thread!Free
    <3> QED BY <2>1, <3>3 DEF Thread!Next
  <2>4. CASE Kill \/ Fail \/ PioneerRaises \/ AuditRaises
    <3>1. running /\ ~running' /\ outcome' # "returned" /\ next' = next
      BY <2>4 DEF Kill, Fail, PioneerRaises, AuditRaises, Executing, Stop
    <3>2. Phase = "executing" /\ Phase' = "none"
      BY <3>1 DEF Phase
    <3>3. Thread!Break(d)
      BY <2>1, <3>1, <3>2 DEF Thread!Break
    <3> QED BY <2>1, <3>3 DEF Thread!Next
  <2>5. CASE Return
    <3>1. running /\ ~running' /\ outcome' = "returned" /\ next = "end" /\ next' = next
      BY <2>5 DEF Return, Executing, Stop
    <3>2. Phase = "executing" /\ Phase' = "returned"
      BY <3>1 DEF Phase
    <3>3. Thread!Return(d)
      BY <2>1, <3>1, <3>2 DEF Thread!Return
    <3> QED BY <2>1, <3>3 DEF Thread!Next
  <2>6. CASE UNCHANGED vars \/ \E p \in 2 .. PageCount: WorkerReturn(p)
    <3>1. UNCHANGED <<running, outcome, next>>
      BY <2>6 DEF WorkerReturn, vars
    <3>2. Phase' = Phase
      BY <3>1 DEF Phase
    <3> QED BY <3>1, <3>2 DEF Thread!vars
  <2>7. CASE NativeExtractor \/ Classifier \/ Pioneer \/ RetryNode \/ BurstDispatcher \/ FanIn
             \/ AuditSkipped \/ Audit \/ HierarchyNode
    <3>1. running /\ UNCHANGED <<running, outcome>> /\ next # "end"
      BY <2>7 DEF NativeExtractor, Classifier, Pioneer, RetryNode, BurstDispatcher, FanIn,
             AuditSkipped, Audit, HierarchyNode, Executing, Goto
    <3>2. Phase = "executing" /\ Phase' = Phase
      BY <3>1 DEF Phase
    <3>3. Thread!Advance(d)
      <4>1. (next' # "end") \in BOOLEAN
        OBVIOUS
      <4> QED BY <2>1, <3>1, <3>2, <4>1 DEF Thread!Advance
    <3> QED BY <2>1, <3>3 DEF Thread!Next
  <2> QED BY <2>2, <2>3, <2>4, <2>5, <2>6, <2>7 DEF Next, Execute
<1>3. Inv => (outcome = "returned" => tree = run)
  BY DEF Inv, ThreadInv
<1> QED BY <1>1, <1>2, <1>3, AlwaysInv, PTL DEF Spec, IsAThread, Thread!Spec
=================================================================================

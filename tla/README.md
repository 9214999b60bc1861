# PDFScout in TLA+

PDFScout extracts the block structure of a PDF with a LangGraph pipeline whose nodes call a
language model, and serves it through a FastAPI job service (`api.py`) and a command line
(`main.py`); three scripts keep a corpus of real documents to judge it by. This directory models
the parts of it where the order of events, or a rule applied to many cases, decides what happens:
the job service, the extraction graph on a checkpointed thread, the calls its nodes make, the
reading order and the parent relation of the result, and the corpus.

Paths below are relative to the repository root.

## 1. The system

| Component | State | Operations | Status here |
|---|---|---|---|
| Job service: `api.py`, `src/api/jobs.py`, `src/api/runner.py`, `src/api/models.py` | dict `jobs`, table `jobs` of SQLite, `tmp/uploads/<hash>.pdf`, one task per run | POST /extract, GET and DELETE /jobs/{id}, `run_extraction`, `save`, `remove`, `init`, lifespan | modelled: `JobLifecycle`, `JobService` |
| Extraction graph: `src/graph.py`, `src/edges.py`, `extractor_node`, `classifier_node`, `retry_node` | the channels of `PDFParserState`, the checkpoint of the thread | one superstep per node, conditional edges, `Send` fan-out, fresh and resumed runs | modelled: `GraphThread`, `Pipeline` |
| Reducers: `src/state.py` | none of their own | `merge_flat_blocks`, `merge_warnings`, `merge_usage_log` | modelled: `GraphState` |
| Page workers: `src/nodes/worker_node.py` | locals of each task | `window_parser_node`, `burst_worker_node` and its attempts | modelled: `WorkerContract`, `ApiCalls`, `Pipeline` |
| API calls of all nodes | module-level semaphore bound to an event loop, attempt counters | `_get_semaphore`, the three `@retry` functions, cancellation | modelled: `ApiCalls` |
| Coverage auditor: `src/nodes/coverage_node.py` | none | flagging, retries, replacement, final warnings | partly: `Coverage`, `Pipeline` |
| Hierarchy node: `src/nodes/hierarchy_node.py` | none | field filter, deduplication, `geometric_pre_sorter`, parent relation and its repairs | modelled: `Hierarchy`; one superstep of `Pipeline` |
| LangGraph and its SQLite checkpointer | checkpoints by thread | `astream`, `aget_state` | external, from how `src/` uses it |
| Corpus scripts: `scripts/download_real_fixtures.py` (C1), `generate_real_ground_truth.py` (C2), `evaluate_real_docs.py` (C4), and `tests/integration/test_real_docs.py` (C3) | the PDF on disk, the manifest, the golden file | download, derive a golden file from several runs, judge a run | partly: `Golden`, `Corpus` |
| Schema registry, `schemas/` | none | `validate`, `get_schema_and_tool` | `validate` is `Valid`; the rest is data |
| CLI `main.py` | none | one fresh run | `Pipeline!Fresh` |
| Page counter, hashing, encoding, usage totals, tracing, other scripts and tests, docs site | - | - | not modelled: pure I/O or formatting |

How they interact. A POST hashes the file, claims `jobs[hash]`, saves the record, writes the
upload and spawns `run_extraction`. The run sets the status, saves it, asks the checkpointer
whether the thread of this hash was interrupted, streams the graph over the uploaded file, sets
the verdict, saves it and unlinks the upload. All coroutines share one event loop: they interleave
only at `await`, but there are several of them between any two related updates. The graph's nodes
return partial states which the reducers merge into channels that **outlive the run**: the thread
id is the hash of the document, so every run of a document starts from the channels the last one
left. (The API and the CLI keep their checkpoints in two databases: `Pipeline` is about the thread
in either.)

The nodes that call the language model share a process: the page workers of all runs hold slots of
one semaphore, created for an event loop and used by whichever loop runs. The corpus scripts share
three files and no lock, and the PDF behind a URL changes.

What is hard here: handlers that check a record, await, and write it; a dict and a table that are
updated at different moments; a verdict that is visible before it is saved and before the upload
is gone; kills between any two of these; a retry loop whose bound is compared in two places; resets
that must happen in every run and every retry; a fan-out interrupted in the middle; an audit that
replaces part of what it judged; a task cancelled in the moment it is handed a slot; an answer that
names blocks which are no longer there; coordinates at a threshold; a script killed between two
files that belong together. `PROJECT.json` lists each hazard at its line.

What makes each component correct:

* job service: one live run per document; an active job has a coroutine that will settle it; what
  a client polls follows queued, running, completed or failed; uploads are reclaimed; a completed
  job has its result;
* graph: retries are bounded and informed by the current error; the tree holds nothing of another
  run or attempt; degraded pages carry warnings; every run ends;
* API calls: no slot is lost, whoever raises or is cancelled; no task meets another loop's
  semaphore; paid calls are bounded; every task ends, with what the graph expects of it;
* auditor: its warnings fit the tree that is made after it, as far as the hierarchy node keeps what it
  judged; it never loses a covered page;
* hierarchy: one block per id; every parent is another block; each repair is told; the reading order
  keeps what `geometric_pre_sorter` promises;
* corpus: a golden file and a verdict are about the PDF they name; a golden file accepts the runs it
  came from.

## 2. Modules

| Module | Role |
|---|---|
| `JobLifecycle` | what a client is promised of each document: absent, queued, running, completed, failed, which changes it may see while the server is up, and what a boot shows it of the table written behind |
| `GraphThread` | what the service and the graph agree on about checkpointed threads and each of their runs: one run at a time begins or resumes a thread, and gets a return only when nothing is left |
| `JobService` | the handlers, runs, the two-layer store, uploads, restarts, faults; implements `JobLifecycle`, drives `GraphThread` |
| `Ranking` | sorting and filtering of lists, as operators that can be reasoned about: an item's place is the number of items before it |
| `GraphState` | the reducers, as operators |
| `Coverage` | the auditor's decisions over a list of blocks, as operators |
| `Pipeline` | the graph on one thread: extends `Coverage` and `GraphState`, implements `GraphThread` |
| `WorkerContract` | what the graph expects of a node that calls the model; `Pipeline` is written against it |
| `ApiCalls` | semaphore, retries, attempts, cancellation; implements `WorkerContract` |
| `Hierarchy` | filter, deduplication, reading order, parent relation |
| `Golden` | how runs become a golden file and how a run is judged, as operators |
| `Corpus` | the scripts on one slot: extends `Golden` |
| `JobServiceProofs`, `JobStoreProofs`, `PipelineProofs`, `PipelineBlockProofs`, `ApiCallsProofs`, `HierarchyProofs`, `CorpusProofs` | theorems |
| `RankingProofs` | lemmas about sorted, filtered and concatenated lists, cited by the others |
| `MCJobService`, `MCPipeline`, `MCApiCalls`, `MCHierarchy`, `MCCorpus` | instances for TLC |

The composition is by contracts. `JobService` does not contain the graph: `DrivesThreads` says that
its runs use each document's thread as `GraphThread` allows, and `IsAThread` that `Pipeline` is such
a thread. `Pipeline` does not contain the calls: it takes a worker's return from `WorkerReturns`,
and `KeepsContract` says that `ApiCalls` returns nothing else.

An operator whose comment starts with "Mutant:" is not part of a model: it is a plausible bug of
the definition that follows it, kept to show that the properties notice it.

### JobService and the code

One request is one operation `o`, with its own `pc[o]`: a POST with the run it may spawn, or a
DELETE. A record is identified by the request that created it, or by its document when a restart
loaded it, so that "the same key, another object" (`existing is not new_record`) is expressible.

An action is the code between two awaits. An await on the job store is two actions: the commit of
the statement in the database thread (`CommitSave`, `CommitRemove`) and the resumption of the
coroutine. What precedes the commit (`jobs[record.job_id] = record`, `jobs.pop`) is part of the
action before it, as in the code.

| Code | Actions |
|---|---|
| `extract`, active or ended job | `ExtractExisting` |
| `extract`, force on an ended job: `remove_job`, `setdefault` | `ExtractForce`, `CommitRemove`, `ExtractReplace` or `ExtractLostRace` |
| `extract`, unknown job | `ExtractNew` |
| `save_job(new_record)`, `write_bytes`, `create_task` | `CommitSave`, `ExtractWrite`, `ExtractSpawn` |
| `delete_job` | `DeleteRefused`, `DeleteEnded`, `CommitRemove`, `DeleteUnlink` |
| `run_extraction` | `RunStart`, `CommitSave`, `RunResolve`, `RunSuperstep`, `RunComplete` or `RunFail`, `CommitSave`, `RunClose` |
| process killed | `Kill` |
| shutdown: tasks cancelled, their `finally` executed | `Shutdown` |
| lifespan, `init` | `Boot` |
| statement or file write that raises | `ExtractFault`, `DeleteFault`, `RunStartFault`, `RunCompleteFault`, `RunFailFault` (in `FaultySpec`) |

The graph under a run is `Stages` supersteps, of which those in `ReadsFile` need the upload;
`next[p]` is the checkpoint's `snapshot.next`. A run may fail in every superstep. GET is `Reported`.

### JobLifecycle

`JobLifecycle` is a store that is written behind. Of each document it has the status a client sees,
the status in the table, and the statuses whose statement is still due. While the server is up a
client sees `Submit`, `Start`, `End` and `Remove` in that order and nothing else: a job that is
removed while it is active, or goes from completed to failed, fits no step. Each of them adds a
statement to `due`; `Persist` commits any of them, in any order, as the code's database threads may.
`Crash` empties what is in memory, and `Boot` shows what the table holds, with an active status
settled as failed. `ImplementsLifecycle` maps `stored` to the table and `due` to the statements that
coroutines await.

### Pipeline and the code

`next` is the node to execute, `writes` the returns of the workers that have finished in the
current superstep. A superstep is one action, except the fan-out: each worker's return is an action
of its own (`WorkerReturn`), in any order, and `FanIn` merges them in the order of the `Send` list.
A run that dies keeps the channels and `writes`, and loses what was executing; `Resume`
(`astream(None)`) continues, `Fresh` (`astream({"file_path": ...})`) starts at the first node with
the old channels.

A block has the page number the model gave it, the page its words really are from, its flaw, and
whether its block_id is its own or one that other blocks may have too. That is what the code's
decisions depend on: validation and routing on the flaw and the number, the audit on the number and
the words, the hierarchy node's filter and deduplication on the flaw and the id (`WellFormed`,
`Repeated`; `Payload` is what they leave). `run`, `cause` and the fields `run`, `try`, `by` of blocks
and warnings are history; no guard reads them.

The pioneer's edge function runs inside the pioneer's task, so `Pioneer` is the node and the route;
a block without a bbox makes the route raise and the task is lost (`PioneerRaises`). In the audit,
such a block raises when a page with an auditable text layer is looked up, or when it has enough
text to be compared (`AuditRaises`).

### GraphThread

`phase` says of each run whether it executes its thread, or has been returned to and not yet used
what it got; `pending` is `snapshot.next` being non-empty. In `JobService` a run executes from
`_resolve_input` to the end of the stream, and has been returned to while its completed verdict is
saved; in `Pipeline`, while `running`, and with the outcome "returned". `DrivesThreads` can fail if two
runs of one document overlap, if a run resumes a finished thread, or if it completes with something
left to execute: only `Return` leads to the phase "returned", and `Break`, an exception or a
cancellation, leads to none.

### ApiCalls and the code

A task is one execution of a node that calls the API. `EnterSlot` and `EnterQueue` are
`async with _get_semaphore()`: the check of the loop's `id()` and the acquisition are one step,
since there is no await between them. `address` is `id(loop)`: a new loop may get the address of
an older one unless something still refers to it, and a semaphore refers to its loop from the first
task that had to wait. The semaphore is asyncio's: waiters in order, a slot released is handed to the
first of them (`granted`) before that task resumes, a new task waits if anybody does, and a
cancelled waiter, handed a slot or not, leaves it to the next.

| Code | Actions |
|---|---|
| `_get_semaphore`, `async with` | `EnterSlot`, `EnterQueue`, `Resume` |
| `classifier_node`, `layout_hierarchy_agent_node` (no semaphore) | `EnterDirectly`, `CallerReturns` |
| `@retry` around the call | `CallFails`, `CallAgain`, `CallRaises` |
| what the other two do before their `@retry`: the key, the PDF, the sort | `Unprepared` |
| no tool call in the answer | `NoToolCall`; for the classifier, which raises inside its `@retry`, `CallFails` or `CallRaises` |
| `burst_worker_node`, attempts | `WorkerTriesAgain`, `WorkerReturns` |
| `window_parser_node` | `PioneerReturns` |
| end of the `async with` block | `GiveBack`, `HandOver`, `Dequeue`, `Quit`, parts of every ending |
| a sibling raised, or the run is cancelled | `Raise`, `Abandon`, `Cancel` |
| several `asyncio.run` in one process | `NewLoop` |

### Hierarchy and the code

`Prepare`, `Sort`, `Relate` are the stages of `layout_hierarchy_agent_node`, each with its exit by
exception. `SortKey` is the key tuple of `geometric_pre_sorter`: page, band, column bucket, top, and
id. The sorted list is the list of these keys in their order, since a key ends in the id of its
block. The fractions of the span are in hundredths, so that a comparison with `0.55 * span`, `0.11 *
span` or `0.05 * span` is one of integers wherever the two sides differ. Where they are equal, the
double product may be rounded to either side: the constants `FullUp`, `SlotUp` and `SlotDown` list
the spans where it is, and `IsFull` and `Bucket` read them (`Slips`: a block that starts where a
bucket does falls into the one before). MC instances list the spans of their pages, computed with
Python's own doubles; the product with 0.05 is never off where it is an integer. The answer of the
call is any list of relations over known and unknown names; `RelationMap`, `Orphans`, `SelfParents`
and `Missing` are the repairs in the code's order.

### Golden, Corpus and the code

`Golden` is `_derive_golden` with its thresholds, percentile and consensus, `_evaluate_slot`'s
comparison and `test_real_doc`'s. `Corpus` has one program counter per script; each of its steps is
one access to a shared file or one run of the pipeline. `Publish` is the world's, `Crash` kills one
script, `Clone` is a new checkout: the PDFs are not committed, the manifest and the golden files
are. `BumpSchema` is a developer's, between two starts of C2. What a run of the pipeline comes to is
any element of `Results`. C4 looks at the PDF twice: `EvaluateCheck` compares its checksum,
`EvaluateRun` is the pipeline that opens it again, perhaps after a C1 (`evaluate.read`).

## 3. Abstractions and bounds

* Each request is issued once and a run makes `Stages` = 3 supersteps in the safety runs: two
  that need the file, of which the second may be resumed, and a last one; the nodes between are
  alike for the service. In the liveness run it makes 1.
* Three requests on one document: two that contend and one that profits from the state they leave.
  Documents share no state except the two maps, which are keyed by the hash; the theorems hold for
  any number of documents and requests.
* Restarts are unbounded.
* A checkpoint is durable when its superstep ends. The checkpointer's own loss of a last, not yet
  written, checkpoint would let a run repeat a superstep, which `Fresh` and `Resume` cover only at
  the granularity of supersteps.
* Pipeline: `MaxRuns` bounds fresh runs (2 where runs follow each other), resumes are unbounded.
  `MaxRetries` = 3 is the value of `VALIDATION_MAX_RETRIES` in `pipeline_control`, 1 where the
  retry loop is not the question. `COVERAGE_RETRY_MAX_PAGES` is 2; in
  `pipeline_audit` `RetryPages` is 1, with two pages that may both be flagged, so that the cap bites.
* `Quality` bounds the flaws a reply may have, `Ids` the ids: all flaws in `pipeline_control`, all of
  both in `pipeline_audit`. One id to share is enough: a second one would be shared by other pages.
* A worker of `Pipeline` returns what `WorkerContract` allows in one step; its attempts are in
  `ApiCalls`.
* One block stands for all the text of a page: coverage is 0 or 1, and a page duplicates another
  one by sets of contents. Thresholds, figure pages, word matching and boilerplate that several
  pages share in part are not modelled.
* In `Pipeline` the hierarchy answer is reduced to whether it needed repair; answers are in
  `Hierarchy`.
* `ApiCalls`: three tasks of two runs, one slot, two attempts of two HTTP tries, two loops. One slot
  is the bound at which three tasks make a holder, a first and a second waiter, hence every way of
  handing a slot over; two loops are needed for a stale semaphore, and may share an address. The
  proofs are for any numbers. The retries which the SDK makes inside one call, its timeouts, and the
  length of the back-off are not modelled. The order in which a run starts its nodes is
  `Pipeline`'s: here any idle task of a run that is not being cancelled may start.
* `Hierarchy`: three blocks with twenty-four boxes each (six extents, four heights) on one page, for the
  order, and up to three blocks that share two ids and two pages, some incomplete, for the filter.
  Three blocks make a full-width block, what it separates and what introduces it; the boxes put
  widths, gaps and left edges on both sides of each threshold and on two of them, and tops exactly on
  a cut. Answers have at most three relations, enough for one forgotten, one repeated and one wrong
  name. Boxes are well shaped and coordinates are integers; the products with the fractions are
  rounded as the code rounds them. The usage entry of the call is left out.
* `Corpus`: one slot (slots share nothing but the manifest, which one process rewrites at a time),
  three versions of the PDF of which the second is no PDF, the default of three runs of C2, three
  results. A script does not overlap itself, C2 and C4 do not overlap each other, C1 overlaps both.
  A version is only replaced by a newer one, and the fallback URL serves the same document. A run
  reads one version. The format of golden files is bumped at most once (`MaxSchema` = 2), and not
  while C2 runs. A document has one title and one table. Left out: `--dry-run`,
  `min_blocks_override`, `skip_e2e_reason` of C3, the cut at ten fragments, the report.

## 4. Runs

| Run | Question | Result |
|---|---|---|
| `service_safety` | Do requests, runs, kills and shutdowns, interleaved at every await, keep one live run per document (`OneRunPerDocument`), an owner for each active job (`ActiveJobHasOwner`), the lifecycle a client is promised (`ImplementsLifecycle`, a refinement of `JobLifecycle`), the protocol of the graph's threads (`DrivesThreads`, a refinement of `GraphThread`), and a run, or the handler that spawns it, for each upload unless the process ended (`OnlyRestartsOrphanUploads`)? | holds |
| `service_liveness` | Does every active job settle (`JobSettles`)? | holds under `FairSpec` |
| `service_faults` | With failing statements and writes, does a completed job have its result, in memory and in the table (`CompletedHasResult`)? | holds |
| `pipeline_control` | Two runs on one thread, with kills, exceptions and resumes: bounded retries (`TypeOK`), no mixture of runs or attempts (`BufferIsOfThisRun`), a retry that is told the right error (`RetryDetailIsCurrent`), warnings for a degraded page 1 (`DegradedPioneerWarned`) and for degraded pages of workers (`DegradedPagesWarned`), an end (`RunEnds`), and a thread as the service expects it (`IsAThread`)? | holds |
| `pipeline_audit` | With its cost cap at work, does the audit never lose a covered page (`AuditNeverRegresses`), and do the coverage warnings fit the tree, also of blocks that lack fields or share ids (`AuditTellsTheTruth`)? | holds, but for blocks dropped for their id |
| `api_calls` | Do errors, cancellations and new loops leave the slots complete (`NoSlotLost`), every task on its own loop (`NoForeignLoop`), the paid calls bounded (`CallBudget`), the contract kept (`KeepsContract`, a refinement of `WorkerContract`), and every task with an end (`TasksEnd`)? | holds |
| `hierarchy` | Whatever the blocks and the answer: one block per id (`OneBlockPerId`), parents that exist (`ParentsResolve`), each change told (`RepairsAreTold`); a full-width block separates (`FullWidthSeparates`), its heading stays with it (`HeadingStaysWithBlock`), and units do not matter off the thresholds (`ScaleInvariant`)? | holds |
| `corpus` | Are golden files and verdicts about the PDF they name (`GoldenIsOfItsPdf`, `VerdictIsOfItsPdf`), does a download that succeeds leave the manifest right (`ManifestCatchesUp`), and does a golden file accept its own runs, also after the format was bumped (`GoldenAcceptsItsRuns`)? | holds |
| `service_resume` | Does a re-submission after a restart resume (docs/03-reference/02-api.md)? | **violated** |
| `service_stolen_upload` | Does a run find the upload its request wrote? | **violated** |
| `pipeline_stale_warnings` | Are the warnings reset by a fresh run (CHANGELOG)? | **violated** |
| `pipeline_key_error` | Is a block without a bbox kept from crashing the run (CHANGELOG)? | **violated** |

Deadlock is checked in the service and corpus runs, where a restart or a script is always possible
(`service_liveness` included). It is not checked where the system stops: a thread whose runs are
used up (`Pipeline`), tasks that have all ended on the last loop (`ApiCalls`), a node that has
returned (`Hierarchy`).

Six properties carry the limits of what the code promises. `FullWidthSeparates` exempts headings,
which are pulled down on purpose. `HeadingStaysWithBlock` is about the first full-width block of a
page, a heading that overlaps it, and body text that starts above it; two headings may compete.
`ScaleInvariant` asks for a page at least ten units wide, as a bucket is never narrower than one
unit (`max(span * 0.11, 1)`), and for blocks none of which is exactly as wide as the threshold or
starts exactly where a bucket does: there the order is a matter of rounding, and section 6 has a
page whose order changes. `AuditTellsTheTruth` allows a page to be missing from the tree if its
block was dropped after the audit, with a warning or for a repeated id; the second case is silent,
and in section 6. `VerdictIsOfItsPdf` holds if the PDF that C4 hashed is still there after the run;
section 6 tells of the run after which it is not. `GoldenAcceptsItsRuns` is about runs that are
sound and non-empty and whose table has no single row, with a number of runs all of which must agree
on a fact; section 6 has the cases it leaves out.

## 5. Fairness

* `JobService!FairSpec`: weak fairness of each operation's `Progress`. asyncio resumes every ready
  coroutine, and the database thread works through its queue, so each pending await returns or
  raises. Requests and restarts are not fair: clients need not come, servers need not die. A
  superstep is assumed to end; the graph's calls have client timeouts and a bounded number of
  attempts.
* `Pipeline!FairSpec`: weak fairness of executing what is next, or failing. `Fresh`, `Resume` and
  `Kill` are not fair. The retry loop is *not* assumed to end: its bound makes it end.
* `ApiCalls!FairSpec`: weak fairness of each task's `Work`, what happens to a task once it has
  entered. A call comes back or raises (the client has timeouts), a back-off ends, the event loop
  resumes every ready task. A waiter's own `Work` is disabled until it is handed a slot: that it gets
  one follows from the queue and from the others' ends. Entering, cancelling and new loops are not
  fair.

## 6. What the code does otherwise than it says

* **Re-submission does not resume.** `init()` marks an interrupted job failed, and a POST without
  force returns that record (api.py:116); with force the run starts afresh. The resuming branch of
  `_resolve_input` is reached only when the row is missing.
* **A run can unlink another run's upload.** The verdict is visible before `await save_job`, and the
  unlink comes after it (runner.py:64-73). A forced POST in between writes the same path.
* **Stale warnings.** `extraction_warnings: []` in `native_extractor_node` is no reset for
  `merge_warnings`, so a second run of a document reports the first run's warnings.
* **KeyError in the audit.** The audit indexes `b["bbox"]` before the hierarchy node filters the
  blocks that have none; the block is in the checkpoint, so a resumed run raises again.

Seen while modelling, and told here without a run of their own:

* **Content dropped without a warning.** The hierarchy node keeps the first block of an id
  (hierarchy_node.py:184-190), also when the copies are of two pages. The audit has counted the
  words of both before.
* **Empty warnings, invalid page.** `route_validation` looks at the pioneer's blocks of page 1
  (edges.py:11); blocks it numbers otherwise are validated by nobody and join the other pages.
* **Order depends on units, at a threshold.** `165 >= 0.55 * 300` is true and `495 >= 0.55 * 900` is
  false, so a page may be read in another order when its coordinates are tripled.
* **A verdict on another PDF.** C4 hashes the PDF and the pipeline opens it again
  (evaluate_real_docs.py:72, 81); a C1 in between is not noticed.
* **C4 accepts what C3 fails.** C3 asserts the golden file's `schema_version`, C4 does not look at it,
  and C2 without `--force` keeps a golden file of an old format. In the other direction C4 compares
  titles and metadata with `==` and C3 with `_norm_eq`, so C4 may fail what C3 passes.
* **A late DELETE statement removes a newer job's row.** `remove()` pops the record before it awaits
  the statement; a job created in between is forgotten by a kill, although CHANGELOG says that an
  interrupted job is reported as failed. From the other side, a DELETE answered before the last
  save of a run commits leaves the deleted row in the table.
* **False alarm.** With three retries used and the last one accepted, `burst_dispatcher_node`
  (graph.py:19) still warns that page 1 failed. `DegradedPioneerWarned` claims the other direction.
* A job-store error in `extract` or in the first save of a run leaves an active record with no run;
  an error in the save of the verdict turns a completed job into a failed one and may put an old
  record over a newer one.
* The semaphore does not cap the "total concurrent Anthropic API calls across all running jobs"
  (docs/03-reference/02-api.md:172-174): the classifier and hierarchy calls hold no slot.
* Parents are repaired one by one, so two blocks that are each other's parent stay so. An answer that
  names a block twice counts with its last relation.
* docs/02-concepts/01-architecture.md:128 says of a full-width block that "nothing below it may sort
  before it". The block opens a band and is ordered by column inside it: where it starts right of the
  margin, a narrow block to its left sorts before it from anywhere below. `FullWidthSeparates` claims
  the other side: what is above sorts before. The docstring of `geometric_pre_sorter` says that a
  heading and the block it introduces stay adjacent; a heading whose left edge is in a later column
  bucket than the block's sorts after it, and other blocks of the band may come between.
  `HeadingStaysWithBlock` claims what is left: no body text from above does.
* An invoice whose table has one row gets a `min_rows` of 2, and a run without blocks a floor of 1:
  such runs fail their own golden file. A golden file with a null `pdf_sha256` is checked against
  any PDF. C2 stamps the checksum it read at its start; a C1 that replaces the PDF during the runs
  makes a golden file that C4 refuses, as it should, unless the server goes back to the old PDF.

## 7. Proofs

Every theorem is for all values of the constants that satisfy the named assumptions of its module;
TLC evaluates the assumptions on every instance.

### JobServiceProofs

For every set of requests and documents, every assignment of one to the other and every number of
supersteps: `TypeCorrect`, `NoDuplicateRun`, `ActiveJobsAreOwned`, `UploadsHaveRuns`
(`OnlyRestartsOrphanUploads`), `Refinement` (`ImplementsLifecycle`) and `ThreadsDriven`
(`DrivesThreads`).

`OneRunPerDocument` and `ActiveJobHasOwner` are not inductive: nothing in them says which record a
request holds after it has let go of the event loop. `IInv` adds three facts. `OwnerInv`: whoever
owes a job its next status is the very record stored under the document, in the status its `pc`
implies; two owners of one document would then be the same record. `RunRecordInv`: a run writes to
the record of its own request, which holds because the claim cannot be removed while it is owned.
`StoreInv`: a stored record was created for this document and its request is still owning or past
its verdict, or a boot loaded it and it has ended. `DownInv`: nothing is under way while the server
is down. The step lemmas go action by action (`RequestIInv`, `ProgressIInv`, `StopIInv`, `BootIInv`).
`InterruptedRow` is the fact about `init()` that a boot needs.

The refinements use the same invariant. Each step changes what is reported of one document at most
and of the statements that are due for it (`Becomes`, `DueSame`, `DueMore`, `DueLess`), and is a
Submit, Start, End, Remove or Persist of it or a stutter (`RequestImplements`,
`ProgressImplements`); what ends the process is the lifecycle's Crash (`StopImplements`), and a boot
its Boot (`BootImplements`), because what `init()` does to a row is `Settled`. A run begins or
resumes a thread that no other run executes because the owner of a document is unique, which is
`NoDuplicateRun` again.

### JobStoreProofs

`CompletedJobsHaveResults`: `FaultySpec => []CompletedHasResult`. Ownership is lost when a statement
raises, so the invariant is not `IInv`: it says of every record and every row, reachable or not,
that it does not say "completed" without a result, and that a run past its start has a record.

### PipelineProofs

For every number of pages, retries and runs: `RetriesAreTold` (`RetryDetailIsCurrent`),
`PioneerIsWarnedOf` (`DegradedPioneerWarned`), `RetriesAreBounded`, `GraphIsAThread` (`IsAThread`).
`LoopInv` says what holds at each node of the retry loop (what is in the buffer before the pioneer,
why the loop is at the retry node, why it left), `ThreadInv` that the tree is the current run's exactly
when nothing is left. `RetryDetailIsCurrent` alone says nothing at the nodes where the detail is made.

### ApiCallsProofs

For every number of tasks, runs, slots, attempts, tries and loops: `SlotsAreKept` (`NoSlotLost`),
`SemaphoreOfThisLoop` (`NoForeignLoop`), `TasksKeepContract` (`KeepsContract`, the refinement of
`WorkerContract`), `CallsAreBounded` (`CallBudget`), `ApiTypeCorrect` (`TypeOK`). `SemaphoreInv` adds to
the count of the slots that the queue holds waiting page tasks, each once (else a slot is handed to
nobody, or twice), that an outdated semaphore has neither holders nor waiters, and that a semaphore
in use is bound to the running loop if to any: an older loop's address can come back only when the
semaphore never bound itself. `EndInv` says that a task is open until it has ended and then as its
node promises. `CallInv` counts calls against the two counters; the bound on their product is
`ProductGrows`.

### RankingProofs

The models sort and filter with `Ranking`, not with recursion or with the sorting operators of the
community modules, so that the result has properties a proof can use: `RankedList` (each member once,
in order), `AscendingList`, `ItemsAtList` (a filtered list has the items at the positions, and no
others), `RankedAlike` (two sets whose orders correspond are listed alike), `MinMax`, `FiniteImage`, and
for `FlattenSeq` of the community modules `FlattenedSeq` (it has the items of all the lists). The two
that need induction (`SetInduction`, `ConcatenationExists`) take it from the well-foundedness of `<` on
the naturals, applied to the set of counterexamples.

### PipelineBlockProofs

For every number of pages, retries and runs, every text layer and every cap of the audit:
`TypeCorrect` (`TypeOK`), `NothingStaleIsMerged` (`BufferIsOfThisRun`), `PagesAreWarnedOf`
(`DegradedPagesWarned`), `AuditIsTruthful` (`AuditTellsTheTruth`) and `AuditOnlyImproves`
(`AuditNeverRegresses`), from `LoopInv` and `ThreadInv` of `PipelineProofs` and `BlockInv`, which adds

* `WritesInv`: what a worker has returned is of its page and of this run, and what is bad in it is
  warned of. It survives kills, since the pending writes do; `FanIn` merges nothing else.
* `BadBlocksInv`: until the fan-out there are only blocks of page 1, and from then on a bad block of
  another page has its warning. Without the first half the dispatch could carry an old worker's block
  past the fan-in.
* `AuditInv`: no warning is of a later run, the audit alone warns of coverage, and what it says is
  true of the blocks it leaves. `AuditTellsTheTruth` is not inductive without the first two: a
  fresh run starts with the warnings of all the earlier ones.
* `DropsInv`: at the end, all blocks are well formed or a drop is warned of. With `PayloadScores` (what
  the tree lacks, the blocks lack or the hierarchy node has dropped) it carries what the audit says of
  the blocks over to the tree.

The audit is one lemma, `AuditStep`: it replaces the blocks of some uncovered pages by blocks of the
same pages, and judges the list it leaves. That it judges this list and not another (the same
blocks, concatenated in another order) is `MergedBlocks` and the fact that a score depends on the
set of the blocks only.

### HierarchyProofs

For every list of blocks, of any length and coordinates, and every answer: `TypeCorrect` (`TypeOK`),
`EachIdOnce` (`OneBlockPerId`), `FullWidthBlocksSeparate` (`FullWidthSeparates`), `HeadingsStay`
(`HeadingStaysWithBlock`), `OrderIsScaleFree` (`ScaleInvariant`), `ParentsAreBlocks` (`ParentsResolve`)
and `ChangesAreTold` (`RepairsAreTold`).

`StageInv` is what the stages hand on. `OneBlockPerId` says nothing before the relations are asked
for; what makes it hold is that the blocks to be sorted have distinct ids (`FirstsKeepEachId`: the
least position of an id is kept, and no other), for a set of keys has as many members as there
are ids only then. The order is proved in three steps: keys are tuples of integers, also where the
page is narrow (`SortKeysAreKeys`: a bucket has a width), they are ordered one after another
(`KeysAreOrdered`), and one block reads before another exactly if its key is less (`SortedIds`). The
two theorems about bands are then about two keys each: `BandsAreNumbered` (a cut between two heights
puts them into different bands) and `BandOfBlock` (the band of a heading is that of the first
full-width block it introduces). `ScaledOrder` has the order of a page in other units for every
factor, and any lists of the spans that are rounded: each comparison, the bands and the quotient of
the bucket keep their value, as no block lies where rounding decides (`Clear`, `ScalesDivisor`).

The edges rest on lemmas about `Repaired` alone (`RepairedResolves`, `RepairedOrTold`), carried to the
state by the two steps that make a tree.

### CorpusProofs

For every number of versions, runs and results: `TypeCorrect`, `StampsAreTrue` (`GoldenIsOfItsPdf`),
`VerdictsAreTrue` (`VerdictIsOfItsPdf`), `DownloadsAreRecorded` (`ManifestCatchesUp`) and
`OwnRunsAreAccepted` (`GoldenAcceptsItsRuns`).

Versions only grow, and that carries the first proofs: nothing is newer than what the URL serves
(`NoneNewer`) or than the PDF on disk (`DiskNewest`), and C2's stamp is no newer than what its runs
read (`StampedBefore`). A stamp that equals the PDF on disk is therefore squeezed from both sides.
`EvaluatorInv` squeezes C4's run in the same way: it has read what was hashed or something newer, and
nothing newer than what is on disk.
Without that assumption the theorem is false (section 6).

The golden file accepts its runs because each of its facts is below, or in, what every run came to:
the floor is at most the count of every run that has a block, whatever the percentile
(`FloorIsLow`), headings and rows that all runs agree on are in each of them (`HeadingsAreInAll`,
`RowsAreReached`), and a title on which all agree, up to its form, is each one's (`TitleIsOfAll`).
`AgreedByAll` is why the property asks for all votes: only then does a count of votes say something
of every single run. `WrittenInv` ties the file to the runs at the moment it is written.

### Only model-checked

`JobSettles`, `RunEnds` and `TasksEnd`: liveness under fairness is out of the prover's reach. Their
safety halves are proved: `ActiveJobsAreOwned`, `RetriesAreBounded`, `SlotsAreKept` and
`CallsAreBounded` say that what they wait for can not be lost, and is bounded. The four runs that
expect a violation show states that the code reaches, which needs no proof. Every other property
of a run is a theorem.

## 8. What is left

Modelled and checked: every component above that changes state. Proved: every safety property and
every refinement that a run checks. Left, in
the order of what it would add:

1. `Coverage` with fractions, thresholds and figure pages, where a better score and a flag are no
   longer the same question.
2. The paid calls of a whole document: the product of `CallBudget`, the retries of the pioneer and
   those of the audit, with the number of pages.
3. Several slots of the corpus under one manifest, where a C1 that dies has recorded none of
   them.
4. A checkpointer that loses its last write.

Not modelled, and why: PDF reading, hashing and encoding, tracing and usage totals (pure I/O and
sums); prompts and schemas (data); docs, workflows and the remaining tests and scripts (no part of
the running system).

## 9. Running

In this directory, `tlc -config <run>.cfg <module>.tla` with the pairs listed in `PROJECT.json`, and
`tlapm <module>.tla` for the eight modules whose names end in `Proofs`. Every run ends within about
two and a half minutes on two cores.

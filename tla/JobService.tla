------------------------------- MODULE JobService -------------------------------
(***************************************************************************)
(* The extraction job service: the handlers of api.py, the background task *)
(* of src/api/runner.py and the two-layer job store of src/api/jobs.py (a  *)
(* dict in memory, a table in SQLite), running on one asyncio event loop.  *)
(*                                                                         *)
(* A coroutine runs without interruption from one await to the next, so an *)
(* action is what happens between two awaits.  An await on the job store   *)
(* is two actions: the commit of the statement by the database thread and, *)
(* later, the resumption of the coroutine.                                 *)
(*                                                                         *)
(* An operation o is one request: POST /extract, with the run it may spawn,*)
(* or DELETE /jobs/{id}.  A record created by o has identity o; a record   *)
(* that a restart loads for document p has identity p.                     *)
(***************************************************************************)
EXTENDS Naturals

CONSTANTS
    Ops,        \* the requests clients may issue, each of them once
    Pdfs,       \* documents: a job id is the hash of its PDF
    Target,     \* the document each request is about
    Stages,     \* supersteps of one run of the graph
    ReadsFile,  \* the supersteps that open the uploaded file
    None        \* no record

ASSUME OpsAssumption == Ops \cap Pdfs = {}
ASSUME NoneAssumption == None \notin Ops \cup Pdfs
ASSUME TargetAssumption == Target \in [Ops -> Pdfs]
ASSUME StagesAssumption == Stages \in Nat \ {0} /\ ReadsFile \subseteq 1 .. Stages

VARIABLES
    jobs,    \* the dict `jobs`: document -> record or None
    rec,     \* the JobRecord objects, by identity; NoRow before creation
    db,      \* the SQLite table `jobs`: document -> row or NoRow
    upload,  \* does tmp/uploads/<job_id>.pdf exist?
    next,    \* snapshot.next of the checkpointed thread; 0 when it is empty
    pc,      \* where each operation stands
    force,   \* the `force` parameter of each POST
    job,     \* the local `job` of each run: the record it writes to
    at,      \* the superstep each streaming run executes next
    up       \* is the server running?

vars == <<jobs, rec, db, upload, next, pc, force, job, at, up>>

RecIds == Ops \cup Pdfs
Active == {"queued", "running"}
Terminal == {"completed", "failed"}

Row == [status: Active \cup Terminal,
        result: BOOLEAN,
        error: {"none", "exception", "restart"}]
NoRow == [status |-> "absent", result |-> FALSE, error |-> "none"]
Queued == [status |-> "queued", result |-> FALSE, error |-> "none"]

PostSteps == {"removing", "removed", "saving", "saved", "written"}
DeleteSteps == {"deleting", "deleted"}
InTry == {"started", "streaming", "completing", "failing", "closing"}
RunSteps == {"scheduled", "starting"} \cup InTry
InFlight == PostSteps \cup DeleteSteps \cup RunSteps

\* Coroutines that owe the job its next status: the handler that created the
\* record until it spawned the run, then the run until it set the verdict.
Owning == {"saving", "saved", "written", "scheduled", "starting", "started", "streaming"}

\* Every variable holds what the code can put there: a record only for the request that
\* made it, and a superstep reached only as far as the graph has any.
TypeOK ==
    /\ jobs \in [Pdfs -> RecIds \cup {None}]
    /\ rec \in [RecIds -> Row \cup {NoRow}]
    /\ db \in [Pdfs -> Row \cup {NoRow}]
    /\ upload \in [Pdfs -> BOOLEAN]
    /\ next \in [Pdfs -> 0 .. Stages]
    /\ pc \in [Ops -> {"idle", "over"} \cup InFlight]
    /\ force \in [Ops -> BOOLEAN]
    /\ job \in [Ops -> RecIds \cup {None}]
    /\ at \in [Ops -> 0 .. Stages + 1]
    /\ up \in BOOLEAN

\* The tables are empty, and the server has not been started.
Init ==
    /\ jobs = [p \in Pdfs |-> None]
    /\ rec = [r \in RecIds |-> NoRow]
    /\ db = [p \in Pdfs |-> NoRow]
    /\ upload = [p \in Pdfs |-> FALSE]
    /\ next = [p \in Pdfs |-> 0]
    /\ pc = [o \in Ops |-> "idle"]
    /\ force = [o \in Ops |-> FALSE]
    /\ job = [o \in Ops |-> None]
    /\ at = [o \in Ops |-> 0]
    /\ up = FALSE

Doc(o) == Target[o]
Goto(o, l) == pc' = [pc EXCEPT ![o] = l]
\* What GET /jobs/{job_id} reports for p.
Reported(p) == IF jobs[p] = None THEN "absent" ELSE rec[jobs[p]].status

\* Mutant: only queued jobs are protected from removal.
RemovableUnlessQueued(p) == Reported(p) \in Terminal \cup {"running"}
Removable(p) == Reported(p) \in Terminal

---------------------------------------------------------------------------
(* POST /extract *)

\* The job is active (202 with its record, or 409 under force), or it has ended
\* and is not to be re-run: the request leaves everything as it is.
ExtractExisting(o, f) ==
    /\ pc[o] = "idle"
    /\ Reported(Doc(o)) \in Active \/ (Reported(Doc(o)) \in Terminal /\ ~f)
    /\ Goto(o, "over")
    /\ UNCHANGED <<jobs, rec, db, upload, next, force, job, at, up>>

\* force on an ended job: drop it from memory, then await the DELETE statement.
ExtractForce(o) ==
    /\ pc[o] = "idle"
    /\ Removable(Doc(o))
    /\ jobs' = [jobs EXCEPT ![Doc(o)] = None]
    /\ force' = [force EXCEPT ![o] = TRUE]
    /\ Goto(o, "removing")
    /\ UNCHANGED <<rec, db, upload, next, job, at, up>>

\* Mutant: jobs[job_id] = new_record in place of jobs.setdefault().
UnclaimedOrRemoved(o) == pc[o] = "removed" \/ jobs[Doc(o)] = None
Unclaimed(o) == jobs[Doc(o)] = None

\* jobs.setdefault() claims the document: no await separates it from the
\* checks before it, except for a forced request, which awaited the removal.
Claim(o) ==
    /\ Unclaimed(o)
    /\ rec' = [rec EXCEPT ![o] = Queued]
    /\ jobs' = [jobs EXCEPT ![Doc(o)] = o]
    /\ Goto(o, "saving")
    /\ UNCHANGED <<db, upload, next, job, at, up>>

ExtractNew(o, f) ==
    /\ pc[o] = "idle"
    /\ Claim(o)
    /\ force' = [force EXCEPT ![o] = f]

ExtractReplace(o) ==
    /\ pc[o] = "removed"
    /\ Claim(o)
    /\ UNCHANGED force

\* Another request claimed the document while this one awaited the removal.
ExtractLostRace(o) ==
    /\ pc[o] = "removed"
    /\ jobs[Doc(o)] # None
    /\ Goto(o, "over")
    /\ UNCHANGED <<jobs, rec, db, upload, next, force, job, at, up>>

\* The upload is written by a thread.
ExtractWrite(o) ==
    /\ pc[o] = "saved"
    /\ upload' = [upload EXCEPT ![Doc(o)] = TRUE]
    /\ Goto(o, "written")
    /\ UNCHANGED <<jobs, rec, db, next, force, job, at, up>>

\* Later the handler resumes, spawns the run and answers.
ExtractSpawn(o) ==
    /\ pc[o] = "written"
    /\ Goto(o, "scheduled")
    /\ UNCHANGED <<jobs, rec, db, upload, next, force, job, at, up>>

---------------------------------------------------------------------------
(* DELETE /jobs/{job_id} *)

\* 404 for an unknown job, 409 for an active one.
DeleteRefused(o) ==
    /\ pc[o] = "idle"
    /\ Reported(Doc(o)) \notin Terminal
    /\ Goto(o, "over")
    /\ UNCHANGED <<jobs, rec, db, upload, next, force, job, at, up>>

DeleteEnded(o) ==
    /\ pc[o] = "idle"
    /\ Removable(Doc(o))
    /\ jobs' = [jobs EXCEPT ![Doc(o)] = None]
    /\ Goto(o, "deleting")
    /\ UNCHANGED <<rec, db, upload, next, force, job, at, up>>

DeleteUnlink(o) ==
    /\ pc[o] = "deleted"
    /\ upload' = [upload EXCEPT ![Doc(o)] = FALSE]
    /\ Goto(o, "over")
    /\ UNCHANGED <<jobs, rec, db, next, force, job, at, up>>

---------------------------------------------------------------------------
(* The background run *)

RunStart(o) ==
    LET r == jobs[Doc(o)] IN
    /\ pc[o] = "scheduled"
    /\ r # None
    /\ job' = [job EXCEPT ![o] = r]
    /\ rec' = [rec EXCEPT ![r].status = "running"]
    /\ Goto(o, "starting")
    /\ UNCHANGED <<jobs, db, upload, next, force, at, up>>

\* Mutant: a finished thread is resumed too.
FirstSuperstepResumed(o) == IF force[o] THEN 1 ELSE next[Doc(o)]
\* _resolve_input: continue the interrupted thread, or start it afresh.
FirstSuperstep(o) == IF force[o] \/ next[Doc(o)] = 0 THEN 1 ELSE next[Doc(o)]

RunResolve(o) ==
    /\ pc[o] = "started"
    /\ at' = [at EXCEPT ![o] = FirstSuperstep(o)]
    /\ next' = [next EXCEPT ![Doc(o)] = FirstSuperstep(o)]
    /\ Goto(o, "streaming")
    /\ UNCHANGED <<jobs, rec, db, upload, force, job, up>>

\* Mutant: the thread never reports that nothing is left to execute.
SuperstepAfterAny(k) == k + 1
SuperstepAfter(k) == IF k = Stages THEN 0 ELSE k + 1

\* One superstep of the graph, checkpointed with the one to execute after it.
RunSuperstep(o) ==
    /\ pc[o] = "streaming"
    /\ at[o] <= Stages
    /\ at[o] \in ReadsFile => upload[Doc(o)]
    /\ at' = [at EXCEPT ![o] = @ + 1]
    /\ next' = [next EXCEPT ![Doc(o)] = SuperstepAfter(at[o])]
    /\ UNCHANGED <<jobs, rec, db, upload, pc, force, job, up>>

\* Mutant: the verdict is set without the result.
RunCompleteBare(o) ==
    /\ pc[o] = "streaming"
    /\ at[o] = Stages + 1
    /\ rec' = [rec EXCEPT ![job[o]].status = "completed"]
    /\ Goto(o, "completing")
    /\ UNCHANGED <<jobs, db, upload, next, force, job, at, up>>

\* save() first sets the entry of the dict to the record, then awaits the upsert.
RunComplete(o) ==
    /\ pc[o] = "streaming"
    /\ at[o] = Stages + 1
    /\ rec' = [rec EXCEPT ![job[o]].status = "completed", ![job[o]].result = TRUE]
    /\ jobs' = [jobs EXCEPT ![Doc(o)] = job[o]]
    /\ Goto(o, "completing")
    /\ UNCHANGED <<db, upload, next, force, job, at, up>>

\* Mutant: no except clause.
RunFailUncaught(o) ==
    /\ pc[o] \in {"started", "streaming"}
    /\ Goto(o, "closing")
    /\ UNCHANGED <<jobs, rec, db, upload, next, force, job, at, up>>

\* The except clause: an API error, a missing file, an encrypted document...
\* A failure after the last superstep finds the result already assigned.
RunFail(o) ==
    /\ pc[o] \in {"started", "streaming"}
    /\ \E result \in {FALSE, pc[o] = "streaming" /\ at[o] = Stages + 1}:
           rec' = [rec EXCEPT ![job[o]] =
                      [status |-> "failed", result |-> result, error |-> "exception"]]
    /\ jobs' = [jobs EXCEPT ![Doc(o)] = job[o]]
    /\ Goto(o, "failing")
    /\ UNCHANGED <<db, upload, next, force, job, at, up>>

\* Mutant: the file is unlinked only when the verdict is "completed".
RunCloseCompleted(o) ==
    /\ pc[o] = "closing"
    /\ upload' = [upload EXCEPT ![Doc(o)] = @ /\ rec[job[o]].status # "completed"]
    /\ Goto(o, "over")
    /\ UNCHANGED <<jobs, rec, db, next, force, job, at, up>>

\* The finally clause.
RunClose(o) ==
    /\ pc[o] = "closing"
    /\ upload' = [upload EXCEPT ![Doc(o)] = FALSE]
    /\ Goto(o, "over")
    /\ UNCHANGED <<jobs, rec, db, next, force, job, at, up>>

---------------------------------------------------------------------------
(* The database thread *)

Removing == {"removing", "deleting"}
Saving == {"saving", "starting", "completing", "failing"}
AfterCommit == [removing |-> "removed", deleting |-> "deleted",
                saving |-> "saved", starting |-> "started",
                completing |-> "closing", failing |-> "closing"]

\* The record that the statement awaited by o is about.
SavedRecord(o) == rec[IF pc[o] = "saving" THEN o ELSE job[o]]

CommitRemove(o) ==
    /\ pc[o] \in Removing
    /\ db' = [db EXCEPT ![Doc(o)] = NoRow]
    /\ Goto(o, AfterCommit[pc[o]])
    /\ UNCHANGED <<jobs, rec, upload, next, force, job, at, up>>

CommitSave(o) ==
    /\ pc[o] \in Saving
    /\ db' = [db EXCEPT ![Doc(o)] = SavedRecord(o)]
    /\ Goto(o, AfterCommit[pc[o]])
    /\ UNCHANGED <<jobs, rec, upload, next, force, job, at, up>>

---------------------------------------------------------------------------
(* The server stops and starts *)

\* Mutant: the UPDATE of init() misses the queued jobs.
InterruptedRunning(row) ==
    IF row.status = "running"
    THEN [row EXCEPT !.status = "failed", !.error = "restart"]
    ELSE row

\* jobs.init(): a row still active was interrupted.
Interrupted(row) ==
    IF row.status \in Active
    THEN [row EXCEPT !.status = "failed", !.error = "restart"]
    ELSE row

\* A kill leaves the uploads; a cancellation of the tasks runs their finally
\* clauses.  Nothing else of the process survives.
Stop(unlinked) ==
    /\ up
    /\ up' = FALSE
    /\ jobs' = [p \in Pdfs |-> None]
    /\ rec' = [r \in RecIds |-> NoRow]
    /\ upload' = [p \in Pdfs |-> upload[p] /\ p \notin unlinked]
    /\ pc' = [o \in Ops |-> IF pc[o] \in InFlight THEN "over" ELSE pc[o]]
    /\ UNCHANGED <<db, next, force, job, at>>

Kill == Stop({})
Shutdown == Stop({Doc(o) : o \in {q \in Ops : pc[q] \in InTry}})

\* The lifespan awaits jobs.init() before a request is admitted.
Boot ==
    /\ ~up
    /\ up' = TRUE
    /\ db' = [p \in Pdfs |-> Interrupted(db[p])]
    /\ jobs' = [p \in Pdfs |-> IF db[p] = NoRow THEN None ELSE p]
    /\ rec' = [r \in RecIds |-> IF r \in Pdfs THEN Interrupted(db[r]) ELSE NoRow]
    /\ UNCHANGED <<upload, next, pc, force, job, at>>

---------------------------------------------------------------------------
Request(o) ==
    /\ up
    /\ \/ \E f \in BOOLEAN: ExtractExisting(o, f) \/ ExtractNew(o, f)
       \/ ExtractForce(o)
       \/ DeleteRefused(o)
       \/ DeleteEnded(o)

\* What the event loop and the database thread do once a request is in.
Progress(o) ==
    \/ ExtractReplace(o) \/ ExtractLostRace(o) \/ ExtractWrite(o) \/ ExtractSpawn(o)
    \/ DeleteUnlink(o)
    \/ RunStart(o) \/ RunResolve(o) \/ RunSuperstep(o)
    \/ RunComplete(o) \/ RunFail(o) \/ RunClose(o)
    \/ CommitRemove(o) \/ CommitSave(o)

Steady == \E o \in Ops: Request(o) \/ Progress(o)

Next == Steady \/ Kill \/ Shutdown \/ Boot

Spec == Init /\ [][Next]_vars

\* Every ready coroutine is resumed, and every statement, superstep and write
\* comes back or raises.
FairSpec == Spec /\ \A o \in Ops: WF_vars(Progress(o))

---------------------------------------------------------------------------
(* Failures of the job store or of the disk: the statement raises in the  *)
(* coroutine that awaits it, with nothing committed.                      *)

\* extract has no handler of its own: 500, memory keeps what it holds, and a write
\* that raises may have created the file.
ExtractFault(o) ==
    /\ pc[o] \in {"removing", "saving", "saved"}
    /\ \E created \in {FALSE, pc[o] = "saved"}:
          upload' = [upload EXCEPT ![Doc(o)] = @ \/ created]
    /\ Goto(o, "over")
    /\ UNCHANGED <<jobs, rec, db, next, force, job, at, up>>

DeleteFault(o) ==
    /\ pc[o] = "deleting"
    /\ Goto(o, "over")
    /\ UNCHANGED <<jobs, rec, db, upload, next, force, job, at, up>>

\* jobs[job_id] raises KeyError, or the first save(), which precedes the try.
RunStartFault(o) ==
    /\ pc[o] = "starting" \/ (pc[o] = "scheduled" /\ jobs[Doc(o)] = None)
    /\ Goto(o, "over")
    /\ UNCHANGED <<jobs, rec, db, upload, next, force, job, at, up>>

\* The save() of the verdict is inside the try: the except clause overrules it.
RunCompleteFault(o) ==
    /\ pc[o] = "completing"
    /\ rec' = [rec EXCEPT ![job[o]].status = "failed", ![job[o]].error = "exception"]
    /\ jobs' = [jobs EXCEPT ![Doc(o)] = job[o]]
    /\ Goto(o, "failing")
    /\ UNCHANGED <<db, upload, next, force, job, at, up>>

RunFailFault(o) ==
    /\ pc[o] = "failing"
    /\ Goto(o, "closing")
    /\ UNCHANGED <<jobs, rec, db, upload, next, force, job, at, up>>

Fault(o) ==
    \/ ExtractFault(o) \/ DeleteFault(o)
    \/ RunStartFault(o) \/ RunCompleteFault(o) \/ RunFailFault(o)

FaultyNext == Next \/ \E o \in Ops: Fault(o)

FaultySpec == Init /\ [][FaultyNext]_vars

---------------------------------------------------------------------------
(* Properties *)

\* At most one coroutine at a time answers for the next status of a document's
\* job, whatever requests, removals and restarts interleave: no document has two
\* live runs (02-api.md "without starting a duplicate pipeline run").
OneRunPerDocument ==
    \A o1, o2 \in Ops:
        pc[o1] \in Owning /\ pc[o2] \in Owning /\ Doc(o1) = Doc(o2) => o1 = o2

\* A job reported as queued or running is one that some coroutine is working on,
\* and the record the client polls is the very object that coroutine writes to.
\* A live run always has its record in the store, in the status it has reached:
\* the lookup jobs[job_id] at the start of the run never misses.
ActiveJobHasOwner ==
    /\ \A o \in Ops: pc[o] \in Owning =>
          /\ jobs[Doc(o)] = o
          /\ rec[o].status =
                IF pc[o] \in {"saving", "saved", "written", "scheduled"} THEN "queued" ELSE "running"
    /\ \A p \in Pdfs: Reported(p) \in Active =>
          \E o \in Ops: pc[o] \in Owning /\ Doc(o) = p

\* The service keeps the promise of JobLifecycle for every document, whatever requests,
\* statements, crashes and boots interleave: an active job is never removed, a job goes
\* through its statuses in order, and a boot shows what was stored, with no job active.
DueStatus(o) == IF pc[o] \in Removing THEN "absent" ELSE SavedRecord(o).status
Lifecycle == INSTANCE JobLifecycle WITH
    status <- [p \in Pdfs |-> Reported(p)],
    stored <- [p \in Pdfs |-> db[p].status],
    due <- [p \in Pdfs |->
               {DueStatus(o): o \in {q \in Ops: Doc(q) = p /\ pc[q] \in Removing \cup Saving}}]
ImplementsLifecycle == Lifecycle!Spec

\* A polled job ends: every queued or running job is eventually reported as
\* completed or failed, or is removed afterwards (api.py extract: "Poll ...
\* until status is completed or failed").
JobSettles == \A p \in Pdfs: (Reported(p) \in Active) ~> (Reported(p) \notin Active)

\* Only the end of the process leaves an upload behind: no other step, of the handler
\* between its write and the run it spawns or of any run, ends with a file on disk that
\* no run's finally clause will unlink, whoever wrote it (runner.py finally).
Orphan(p) ==
    upload[p] /\ ~ \E o \in Ops: Doc(o) = p /\ pc[o] \in RunSteps \cup {"written"}
OnlyRestartsOrphanUploads ==
    [][(\E p \in Pdfs: ~Orphan(p) /\ Orphan(p)') => Kill \/ Shutdown]_vars

\* The service drives the thread of each document as GraphThread demands: one run
\* at a time, resumed only when something is pending, and reported as completed only
\* when nothing is.
Threads == INSTANCE GraphThread WITH
    Threads <- Pdfs,
    Runs <- Ops,
    Of <- Target,
    phase <- [o \in Ops |-> CASE pc[o] = "streaming" -> "executing"
                              [] pc[o] = "completing" -> "returned"
                              [] OTHER -> "none"],
    pending <- [p \in Pdfs |-> next[p] # 0]
DrivesThreads == Threads!Spec

\* A completed job has its result, in memory and in the table, whatever save
\* fails and wherever a restart strikes.
CompletedHasResult ==
    /\ \A p \in Pdfs: Reported(p) = "completed" => rec[jobs[p]].result
    /\ \A p \in Pdfs: db[p].status = "completed" => db[p].result

\* 02-api.md: "if the server was restarted mid-extraction, re-submitting the same
\* PDF automatically resumes from the last checkpoint".  Violated: the record that
\* the restart marked failed is returned and no run starts.
ResubmissionResumes ==
    [][\A o \in Ops:
          LET p == Doc(o) IN
          ExtractExisting(o, FALSE) =>
              ~ (Reported(p) = "failed" /\ rec[jobs[p]].error = "restart" /\ next[p] # 0)]_vars

\* plans/20260530_2112-fastapi-interface.md: "There is now exactly one finally
\* block responsible for deleting the temp file": a run finds the upload its
\* request wrote.  Violated: a job is reported as ended before its run has
\* unlinked the file, and by then the file may be the next run's.
UploadBelongsToRun ==
    \A o \in Ops:
        /\ pc[o] \in {"scheduled", "starting", "started"} => upload[Doc(o)]
        /\ pc[o] = "streaming" /\ at[o] \in ReadsFile => upload[Doc(o)]
=================================================================================

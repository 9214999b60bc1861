------------------------------- MODULE GraphThread -------------------------------
(***************************************************************************)
(* What the job service and the extraction graph agree on about the        *)
(* checkpointed threads: a thread is a document's, one run at a time       *)
(* executes it, a run starts it afresh or resumes what an earlier one left *)
(* pending, and astream() returns to a run only when nothing is left to    *)
(* execute.  Pipeline implements this for one thread, node by node;        *)
(* JobService relies on it for each document, and takes a run for complete *)
(* only when astream() has returned to it.                                 *)
(***************************************************************************)
CONSTANTS
    Threads,
    Runs,
    Of        \* the thread of each run

VARIABLES
    phase,    \* has the run called astream(), and has that returned to it?
    pending   \* has the thread something left to execute?

vars == <<phase, pending>>

\* A run is outside astream(), in it, or past its return.
TypeOK ==
    /\ phase \in [Runs -> {"none", "executing", "returned"}]
    /\ pending \in [Threads -> BOOLEAN]

Init ==
    /\ phase = [r \in Runs |-> "none"]
    /\ pending = [t \in Threads |-> FALSE]

\* No run executes the thread of r.
Free(r) == \A q \in Runs: Of[q] = Of[r] => phase[q] # "executing"

\* astream({"file_path": ...}): whatever was pending is dropped.
Begin(r) ==
    /\ Free(r)
    /\ phase' = [phase EXCEPT ![r] = "executing"]
    /\ pending' = [pending EXCEPT ![Of[r]] = TRUE]

\* astream(None)
Resume(r) ==
    /\ Free(r) /\ pending[Of[r]]
    /\ phase' = [phase EXCEPT ![r] = "executing"]
    /\ UNCHANGED pending

Advance(r) ==
    /\ phase[r] = "executing" /\ pending[Of[r]]
    /\ \E left \in BOOLEAN: pending' = [pending EXCEPT ![Of[r]] = left]
    /\ UNCHANGED phase

Return(r) ==
    /\ phase[r] = "executing" /\ ~pending[Of[r]]
    /\ phase' = [phase EXCEPT ![r] = "returned"]
    /\ UNCHANGED pending

\* An exception, or the cancellation of the run: what was pending stays so.
Break(r) ==
    /\ phase[r] = "executing"
    /\ phase' = [phase EXCEPT ![r] = "none"]
    /\ UNCHANGED pending

\* The run has used what astream() returned, and is over.
Close(r) ==
    /\ phase[r] = "returned"
    /\ phase' = [phase EXCEPT ![r] = "none"]
    /\ UNCHANGED pending

\* The process ends.
Crash ==
    /\ phase' = [r \in Runs |-> "none"]
    /\ UNCHANGED pending

Next ==
    \/ \E r \in Runs:
          Begin(r) \/ Resume(r) \/ Advance(r) \/ Return(r) \/ Break(r) \/ Close(r)
    \/ Crash

Spec == Init /\ [][Next]_vars
=================================================================================

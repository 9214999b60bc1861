--------------------------------- MODULE ApiCalls ---------------------------------
(***************************************************************************)
(* The calls to the language model: the module-level semaphore of          *)
(* src/nodes/worker_node.py, the three functions that retry a call, and    *)
(* the attempts a page worker makes inside its slot.                       *)
(*                                                                         *)
(* A task is one execution of a node that calls the API.  Page tasks (the  *)
(* pioneer and the workers) hold a slot of the semaphore from before their *)
(* first call until they end; the classifier and the hierarchy agent hold  *)
(* none.  Tasks of a run whose sibling raised are cancelled, as are those  *)
(* of a run that is shut down.  asyncio is outside the repository: the     *)
(* semaphore queues its waiters, hands a released slot to the first, and   *)
(* is bound to the event loop in which a task first had to wait.           *)
(***************************************************************************)
EXTENDS Naturals, Sequences, FiniteSets

CONSTANTS
    Tasks,        \* executions of nodes
    Jobs,         \* runs of the graph
    Job,          \* the run each task belongs to
    Nodes,        \* the kinds of node each task may execute
    Limit,        \* CONCURRENCY_LIMIT
    MaxAttempts,  \* VALIDATION_MAX_RETRIES
    HttpTries,    \* HTTP_MAX_RETRIES
    MaxLoops      \* bound on the calls of asyncio.run()

ASSUME JobAssumption == Job \in [Tasks -> Jobs] /\ IsFiniteSet(Tasks)
ASSUME NodesAssumption ==
    Nodes \in [Tasks -> SUBSET {"pioneer", "worker", "classifier", "hierarchy"}]
ASSUME LimitAssumption == Limit \in Nat \ {0}
ASSUME TriesAssumption == MaxAttempts \in Nat \ {0} /\ HttpTries \in Nat \ {0}
ASSUME LoopAssumption == MaxLoops \in Nat

VARIABLES
    loop,      \* the number of the running event loop
    address,   \* its id(): addresses are numbered as they are first used
    semLoop,   \* _semaphore_loop_id, 0 before there is one
    bound,     \* the loop the semaphore is bound to, 0 for none
    value,     \* the free slots of the semaphore
    queue,     \* the tasks that wait for a slot, in order
    pc, kind,  \* where each task stands, and what it executes
    attempt,   \* the validation attempt it makes
    tries,     \* the HTTP tries of that attempt
    calls,     \* history: the calls it has made
    end,       \* how it ended
    doomed     \* runs whose remaining tasks are being cancelled

semaphore == <<semLoop, bound, value, queue>>
progress == <<attempt, tries, calls>>
vars == <<loop, address, semaphore, pc, kind, progress, end, doomed>>

Contract == INSTANCE WorkerContract
Paged == Contract!Paged
Ended(how) == Contract!Ended(how)

\* A released slot is handed to a waiter before that task resumes: from then on it holds it.
Holding == {"granted", "calling", "backoff"}
InFlight == {"waiting"} \cup Holding
Holders == {t \in Tasks: kind[t] \in Paged /\ pc[t] \in Holding}

\* Counters stay within their limits and a task is where its history allows.
TypeOK ==
    /\ loop \in 0 .. MaxLoops /\ bound \in 0 .. MaxLoops
    /\ address \in 0 .. MaxLoops /\ semLoop \in 0 .. MaxLoops
    /\ value \in 0 .. Limit
    /\ queue \in Seq(Tasks)
    /\ pc \in [Tasks -> {"idle", "ended"} \cup InFlight]
    /\ kind \in [Tasks -> Contract!Kinds \cup {"none"}]
    /\ attempt \in [Tasks -> 1 .. MaxAttempts]
    /\ tries \in [Tasks -> 1 .. HttpTries]
    /\ calls \in [Tasks -> Nat]
    /\ \A t \in Tasks: end[t].how \in {"open", "raised", "cancelled", "returned", "RuntimeError"}
    /\ doomed \subseteq Jobs

Init ==
    /\ loop = 0 /\ address = 0
    /\ semLoop = 0 /\ bound = 0 /\ value = Limit /\ queue = <<>>
    /\ pc = [t \in Tasks |-> "idle"] /\ kind = [t \in Tasks |-> "none"]
    /\ attempt = [t \in Tasks |-> 1] /\ tries = [t \in Tasks |-> 1]
    /\ calls = [t \in Tasks |-> 0]
    /\ end = [t \in Tasks |-> Contract!Open]
    /\ doomed = {}

---------------------------------------------------------------------------
(* Event loops *)

\* asyncio.run() when no task is left, for new runs of new nodes.  A new loop object may live where an older one
\* did, unless that one is still referred to: a semaphore refers to the loop it is bound to.
NewLoop ==
    /\ loop < MaxLoops
    /\ \A t \in Tasks: pc[t] \notin InFlight
    /\ loop' = loop + 1
    /\ \E a \in 1 .. loop + 1:
          /\ bound # 0 => a # semLoop
          /\ address' = a
    /\ pc' = [t \in Tasks |-> "idle"] /\ kind' = [t \in Tasks |-> "none"]
    /\ end' = [t \in Tasks |-> Contract!Open]
    /\ doomed' = {}
    /\ UNCHANGED <<semaphore, progress>>

\* A run is given up from outside: the server shuts down, the script is interrupted.
Abandon(j) ==
    /\ j \notin doomed
    /\ doomed' = doomed \cup {j}
    /\ UNCHANGED <<loop, address, semaphore, pc, kind, progress, end>>

---------------------------------------------------------------------------
(* Entering *)

\* Mutant: the semaphore is created once and for all.
OutdatedOnce == semLoop = 0
Outdated == semLoop # address

\* _get_semaphore(): a new one for a new loop.
Free == IF Outdated THEN Limit ELSE value
BoundTo == IF Outdated THEN 0 ELSE bound

Becomes(t, k) ==
    /\ loop > 0 /\ kind[t] = "none" /\ Job[t] \notin doomed
    /\ kind' = [kind EXCEPT ![t] = k]

\* async with _get_semaphore(), with a slot free and nobody waiting.
EnterSlot(t, k) ==
    /\ k \in Paged
    /\ Becomes(t, k)
    /\ Free > 0 /\ queue = <<>>
    /\ semLoop' = address /\ value' = Free - 1 /\ bound' = BoundTo
    /\ pc' = [pc EXCEPT ![t] = "calling"]
    /\ calls' = [calls EXCEPT ![t] = 1]
    /\ UNCHANGED <<loop, address, queue, attempt, tries, end, doomed>>

\* To wait, a task makes a future: that binds the semaphore to the loop, or raises
\* RuntimeError when it is bound to another one.
EnterQueue(t, k) ==
    /\ k \in Paged
    /\ Becomes(t, k)
    /\ Free = 0 \/ queue # <<>>
    /\ semLoop' = address /\ value' = Free
    /\ IF BoundTo \in {0, loop}
       THEN /\ bound' = loop
            /\ queue' = Append(queue, t)
            /\ pc' = [pc EXCEPT ![t] = "waiting"]
            /\ UNCHANGED <<end, doomed>>
       ELSE /\ bound' = BoundTo
            /\ queue' = queue
            /\ pc' = [pc EXCEPT ![t] = "ended"]
            /\ end' = [end EXCEPT ![t] = Ended("RuntimeError")]
            /\ doomed' = doomed \cup {Job[t]}
    /\ UNCHANGED <<loop, address, progress>>

\* The classifier and the hierarchy agent call without a slot.
EnterDirectly(t, k) ==
    /\ k \in {"classifier", "hierarchy"}
    /\ Becomes(t, k)
    /\ pc' = [pc EXCEPT ![t] = "calling"]
    /\ calls' = [calls EXCEPT ![t] = 1]
    /\ UNCHANGED <<loop, address, semaphore, attempt, tries, end, doomed>>

\* A task that was handed a slot resumes.
Resume(t) ==
    /\ pc[t] = "granted"
    /\ pc' = [pc EXCEPT ![t] = "calling"]
    /\ calls' = [calls EXCEPT ![t] = 1]
    /\ UNCHANGED <<loop, address, semaphore, kind, attempt, tries, end, doomed>>

---------------------------------------------------------------------------
(* Leaving: the end of the async with block *)

GiveBack(t) ==
    /\ t \in Holders /\ queue = <<>>
    /\ value' = value + 1
    /\ pc' = [pc EXCEPT ![t] = "ended"]
    /\ queue' = queue

HandOver(t) ==
    /\ t \in Holders /\ queue # <<>>
    /\ pc' = [pc EXCEPT ![t] = "ended", ![Head(queue)] = "granted"]
    /\ queue' = Tail(queue)
    /\ value' = value

\* A waiter leaves the queue.
Dequeue(t) ==
    /\ \E i \in 1 .. Len(queue):
          /\ queue[i] = t
          /\ queue' = [j \in 1 .. Len(queue) - 1 |-> IF j < i THEN queue[j] ELSE queue[j + 1]]
    /\ pc' = [pc EXCEPT ![t] = "ended"]
    /\ value' = value

\* A task that is neither a holder nor a waiter.
Quit(t) ==
    /\ t \notin Holders /\ pc[t] # "waiting"
    /\ pc' = [pc EXCEPT ![t] = "ended"]
    /\ UNCHANGED <<value, queue>>

Leave(t) == GiveBack(t) \/ HandOver(t) \/ Dequeue(t) \/ Quit(t)

\* The locals of the task go with it.
Forget(t) ==
    /\ attempt' = [attempt EXCEPT ![t] = 1]
    /\ tries' = [tries EXCEPT ![t] = 1]
    /\ calls' = [calls EXCEPT ![t] = 0]

Finish(t, e) ==
    /\ Leave(t) /\ Forget(t)
    /\ end' = [end EXCEPT ![t] = e]
    /\ UNCHANGED <<loop, address, semLoop, bound, kind>>

\* Mutant: the slot is released on return only.
RaiseHoldingSlot(t) ==
    /\ end' = [end EXCEPT ![t] = Ended("raised")]
    /\ doomed' = doomed \cup {Job[t]}
    /\ pc' = [pc EXCEPT ![t] = "ended"]
    /\ Forget(t)
    /\ UNCHANGED <<loop, address, semaphore, kind>>

\* The exception ends the superstep: the siblings of the task are to be cancelled.
Raise(t) ==
    /\ Finish(t, Ended("raised"))
    /\ doomed' = doomed \cup {Job[t]}

Return(t, blocks, flagged) ==
    /\ Finish(t, Contract!Returned(blocks, flagged))
    /\ doomed' = doomed

\* CancelledError, wherever the task awaits.
Cancel(t) ==
    /\ pc[t] \in InFlight /\ Job[t] \in doomed
    /\ Finish(t, Ended("cancelled"))
    /\ doomed' = doomed

---------------------------------------------------------------------------
(* One call and its retries *)

\* Mutant: stop_after_attempt counts the retries.
TriesLeftInclusive(t) == tries[t] <= HttpTries
TriesLeft(t) == tries[t] < HttpTries

\* The page tasks retry transient errors only, the other two whatever is raised.
Retried(t, error) == kind[t] \notin Paged \/ error = "transient"

CallFails(t, error) ==
    /\ pc[t] = "calling"
    /\ Retried(t, error) /\ TriesLeft(t)
    /\ pc' = [pc EXCEPT ![t] = "backoff"]
    /\ UNCHANGED <<loop, address, semaphore, kind, progress, end, doomed>>

CallRaises(t, error) ==
    /\ pc[t] = "calling"
    /\ ~(Retried(t, error) /\ TriesLeft(t))
    /\ Raise(t)

\* The classifier and the hierarchy agent read the key and the PDF, or sort the blocks,
\* before the function that is retried.
Unprepared(t) ==
    /\ pc[t] = "calling" /\ kind[t] \notin Paged /\ calls[t] = 1
    /\ Raise(t)

CallAgain(t) ==
    /\ pc[t] = "backoff"
    /\ tries' = [tries EXCEPT ![t] = @ + 1]
    /\ calls' = [calls EXCEPT ![t] = @ + 1]
    /\ pc' = [pc EXCEPT ![t] = "calling"]
    /\ UNCHANGED <<loop, address, semaphore, kind, attempt, end, doomed>>

---------------------------------------------------------------------------
(* What a task makes of an answer *)

\* An answer has no tool call, or was cut off, or has the blocks of the page.
Replies == {"none", "truncated"} \cup Contract!Blocks
BlocksOf(reply) == IF reply = "truncated" THEN "empty" ELSE reply

\* The error is raised inside the retried function by the classifier only.
NoToolCall(t) ==
    /\ pc[t] = "calling" /\ kind[t] # "classifier"
    /\ Raise(t)

\* burst_worker_node: anything but valid blocks is asked for once more.
WorkerTriesAgain(t, reply) ==
    /\ pc[t] = "calling" /\ kind[t] = "worker"
    /\ reply \notin {"none", "valid"}
    /\ attempt[t] < MaxAttempts
    /\ attempt' = [attempt EXCEPT ![t] = @ + 1]
    /\ tries' = [tries EXCEPT ![t] = 1]
    /\ calls' = [calls EXCEPT ![t] = @ + 1]
    /\ UNCHANGED <<loop, address, semaphore, pc, kind, end, doomed>>

\* Mutant: the warning of the last attempt is tied to a schema error.
FlaggedInvalid(reply) == reply = "invalid"
Flagged(reply) == reply # "valid"

WorkerReturns(t, reply) ==
    /\ pc[t] = "calling" /\ kind[t] = "worker"
    /\ reply = "valid" \/ (reply # "none" /\ attempt[t] = MaxAttempts)
    /\ Return(t, BlocksOf(reply), Flagged(reply))

\* window_parser_node: one attempt, the route judges it.
PioneerReturns(t, reply) ==
    /\ pc[t] = "calling" /\ kind[t] = "pioneer"
    /\ reply # "none"
    /\ Return(t, BlocksOf(reply), reply = "truncated")

CallerReturns(t) ==
    /\ pc[t] = "calling" /\ kind[t] \notin Paged
    /\ Return(t, "valid", FALSE)

---------------------------------------------------------------------------
Enter(t) ==
    \E k \in Nodes[t]: EnterSlot(t, k) \/ EnterQueue(t, k) \/ EnterDirectly(t, k)

\* What the event loop and the API do with a task once it has entered.
Work(t) ==
    \/ Resume(t) \/ Cancel(t)
    \/ \E error \in {"transient", "other"}: CallFails(t, error) \/ CallRaises(t, error)
    \/ Unprepared(t) \/ CallAgain(t)
    \/ NoToolCall(t) \/ CallerReturns(t)
    \/ \E reply \in Replies:
          WorkerTriesAgain(t, reply) \/ WorkerReturns(t, reply) \/ PioneerReturns(t, reply)

Next ==
    \/ NewLoop
    \/ \E j \in Jobs: Abandon(j)
    \/ \E t \in Tasks: Enter(t) \/ Work(t)

Spec == Init /\ [][Next]_vars

\* Every call comes back or raises, and every ready task is resumed.
FairSpec == Spec /\ \A t \in Tasks: WF_vars(Work(t))

---------------------------------------------------------------------------
(* Properties *)

\* The slots are neither lost nor multiplied, by exceptions, cancellations of tasks that
\* hold or wait for one, or a change of loop: at most Limit page tasks call at a time,
\* and nobody waits while a slot is free (worker_node.py "async with _get_semaphore()").
NoSlotLost ==
    /\ Cardinality(Holders) = IF Outdated THEN 0 ELSE Limit - value
    /\ queue # <<>> => value = 0 /\ ~Outdated

\* No task meets a semaphore that is bound to the event loop of an earlier
\* asyncio.run(), even when a loop object is allocated at an old address
\* (_get_semaphore docstring).
NoForeignLoop == \A t \in Tasks: end[t] # Ended("RuntimeError")

\* The paid calls of a task are bounded by the two retry loops, one inside the other.
CallBudget ==
    \A t \in Tasks: calls[t] <= (IF kind[t] = "worker" THEN MaxAttempts ELSE 1) * HttpTries

\* The tasks return to the graph what it expects of them.
KeepsContract == Contract!Spec

\* Every task that has started ends, however many wait before it.
TasksEnd == \A t \in Tasks: pc[t] \in InFlight ~> pc[t] = "ended"
=================================================================================

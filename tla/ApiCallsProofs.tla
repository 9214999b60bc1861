------------------------------ MODULE ApiCallsProofs ------------------------------
(***************************************************************************)
(* Theorems about ApiCalls for every number of tasks, runs, slots and      *)
(* retries: the slots of the semaphore, the event loop it is bound to, the *)
(* calls a task may make, and that a task ends as its node promises.       *)
(***************************************************************************)
EXTENDS ApiCalls, TLAPS, FiniteSetTheorems, SequenceTheorems

Places == {"idle", "ended", "waiting", "granted", "calling", "backoff"}

ShapeOK ==
    /\ loop \in 0 .. MaxLoops /\ bound \in 0 .. MaxLoops
    /\ address \in 0 .. MaxLoops /\ semLoop \in 0 .. MaxLoops
    /\ value \in 0 .. Limit
    /\ pc \in [Tasks -> Places]
    /\ kind \in [Tasks -> Contract!Kinds \cup {"none"}]

\* The queue holds page tasks that wait, each of them once.
QueueInv ==
    /\ queue \in Seq(Tasks)
    /\ \A i \in 1 .. Len(queue): pc[queue[i]] = "waiting" /\ kind[queue[i]] \in Paged
    /\ \A i, j \in 1 .. Len(queue): queue[i] = queue[j] => i = j

\* Every slot is free or held; nobody holds or awaits one of a semaphore of an older loop.
SlotInv ==
    /\ Cardinality(Holders) = Limit - value
    /\ queue # <<>> => value = 0
    /\ Outdated => Holders = {} /\ queue = <<>>

\* The semaphore in use is bound to the running loop, if to any.
LoopInv == ~Outdated /\ bound # 0 => bound = loop

\* A task has a kind once it has started.
KindInv == \A t \in Tasks: kind[t] = "none" <=> pc[t] = "idle"

SemaphoreInv == ShapeOK /\ QueueInv /\ SlotInv /\ LoopInv /\ KindInv

USE JobAssumption, LimitAssumption, TriesAssumption, LoopAssumption

LEMMA KindsKnown ==
    /\ Paged = {"pioneer", "worker"}
    /\ Contract!Kinds = {"pioneer", "worker", "classifier", "hierarchy"}
  BY DEF Paged, Contract!Paged, Contract!Kinds

LEMMA HoldersFinite == IsFiniteSet(Holders) /\ Cardinality(Holders) \in Nat
<1>1. Holders \in SUBSET Tasks
  BY DEF Holders
<1>2. IsFiniteSet(Holders)
  BY <1>1, FS_Subset
<1> QED BY <1>2, FS_CardinalityType

LEMMA InitSemaphore == Init => SemaphoreInv
<1> SUFFICES ASSUME Init PROVE SemaphoreInv
  OBVIOUS
<1>1. ShapeOK /\ KindInv
  BY DEF Init, ShapeOK, KindInv, Places
<1>2. QueueInv
  BY EmptySeq DEF Init, QueueInv
<1>3. Holders = {}
  BY DEF Init, Holders, Holding
<1>4. SlotInv /\ LoopInv
  BY <1>3, FS_EmptySet DEF Init, SlotInv, LoopInv, Outdated
<1> QED BY <1>1, <1>2, <1>4 DEF SemaphoreInv

\* A step that leaves the semaphore alone, and whose tasks hold and await what they did.
LEMMA KeepSlots ==
    ASSUME SemaphoreInv, UNCHANGED <<loop, address, semaphore>>,
           pc' \in [Tasks -> Places], kind' \in [Tasks -> Contract!Kinds \cup {"none"}],
           KindInv', Holders' = Holders,
           \A t \in Tasks: pc[t] = "waiting" => pc'[t] = "waiting" /\ kind'[t] = kind[t]
    PROVE  SemaphoreInv'
<1>1. ShapeOK'
  BY DEF SemaphoreInv, ShapeOK, semaphore
<1>2. QueueInv'
  <2>1. queue' = queue /\ queue \in Seq(Tasks)
    BY DEF semaphore, SemaphoreInv, QueueInv
  <2>2. \A i \in 1 .. Len(queue): queue[i] \in Tasks
    BY <2>1, ElementOfSeq
  <2> QED BY <2>1, <2>2 DEF SemaphoreInv, QueueInv
<1>3. SlotInv' /\ LoopInv'
  BY DEF SemaphoreInv, SlotInv, LoopInv, Outdated, semaphore
<1> QED BY <1>1, <1>2, <1>3 DEF SemaphoreInv

---------------------------------------------------------------------------
(* Entering *)

LEMMA EnterSlotInv ==
    ASSUME SemaphoreInv, NEW t \in Tasks, NEW k, EnterSlot(t, k)
    PROVE  SemaphoreInv'
<1>1. /\ k \in Paged /\ k \in Contract!Kinds /\ k # "none" /\ kind[t] = "none" /\ pc[t] = "idle"
      /\ kind' = [kind EXCEPT ![t] = k] /\ pc' = [pc EXCEPT ![t] = "calling"]
      /\ queue = <<>> /\ queue' = queue /\ Free \in 1 .. Limit /\ value' = Free - 1
      /\ semLoop' = address' /\ bound' = BoundTo /\ loop' = loop /\ address' = address
  BY KindsKnown DEF EnterSlot, Becomes, SemaphoreInv, KindInv, ShapeOK, Free
<1>2. ShapeOK' /\ KindInv'
  BY <1>1 DEF SemaphoreInv, ShapeOK, KindInv, Places, BoundTo
<1>3. QueueInv'
  BY <1>1, EmptySeq DEF SemaphoreInv, QueueInv
<1>4. Holders' = Holders \cup {t} /\ t \notin Holders
  BY <1>1, KindsKnown DEF SemaphoreInv, ShapeOK, Holders, Holding
<1>5. Cardinality(Holders) = Limit - Free
  <2>1. CASE Outdated
    <3>1. Holders = {} /\ Free = Limit
      BY <2>1 DEF SemaphoreInv, SlotInv, Free
    <3>2. Cardinality(Holders) = 0
      BY <3>1, FS_EmptySet
    <3> QED BY <3>1, <3>2
  <2>2. CASE ~Outdated
    BY <2>2 DEF SemaphoreInv, SlotInv, Free
  <2> QED BY <2>1, <2>2
<1>6. Cardinality(Holders') = Cardinality(Holders) + 1
  BY <1>4, HoldersFinite, FS_AddElement
<1>7. SlotInv'
  BY <1>1, <1>5, <1>6 DEF SlotInv, Outdated
<1>8. LoopInv'
  BY <1>1 DEF SemaphoreInv, LoopInv, Outdated, BoundTo
<1> QED BY <1>2, <1>3, <1>7, <1>8 DEF SemaphoreInv

\* The semaphore a task is about to wait for is never bound to another loop.
LEMMA NoOtherLoop == SemaphoreInv => BoundTo \in {0, loop}
  BY DEF SemaphoreInv, LoopInv, BoundTo

LEMMA EnterQueueInv ==
    ASSUME SemaphoreInv, NEW t \in Tasks, NEW k, EnterQueue(t, k)
    PROVE  SemaphoreInv'
<1>1. /\ k \in Paged /\ k \in Contract!Kinds /\ k # "none" /\ kind[t] = "none" /\ pc[t] = "idle"
      /\ kind' = [kind EXCEPT ![t] = k] /\ pc' = [pc EXCEPT ![t] = "waiting"]
      /\ queue' = Append(queue, t) /\ value' = Free /\ (Free = 0 \/ queue # <<>>)
      /\ semLoop' = address' /\ bound' = loop /\ loop' = loop /\ address' = address
  BY KindsKnown, NoOtherLoop DEF EnterQueue, Becomes, SemaphoreInv, KindInv
<1>2. ~Outdated /\ value = 0 /\ Free = 0
  BY <1>1 DEF SemaphoreInv, SlotInv, Free
<1>3. ShapeOK' /\ KindInv'
  BY <1>1, <1>2 DEF SemaphoreInv, ShapeOK, KindInv, Places
<1>4. QueueInv'
  <2>1. /\ queue \in Seq(Tasks) /\ queue' \in Seq(Tasks) /\ Len(queue) \in Nat
        /\ Len(queue') = Len(queue) + 1
        /\ \A i \in 1 .. Len(queue): queue'[i] = queue[i] /\ queue[i] \in Tasks
        /\ queue'[Len(queue) + 1] = t
    BY <1>1, AppendProperties, LenProperties, ElementOfSeq DEF SemaphoreInv, QueueInv
  <2>2. \A i \in 1 .. Len(queue): queue[i] # t
    BY <1>1, <2>1 DEF SemaphoreInv, QueueInv
  <2>3. \A i \in 1 .. Len(queue'): pc'[queue'[i]] = "waiting" /\ kind'[queue'[i]] \in Paged
    BY <1>1, <2>1, <2>2 DEF SemaphoreInv, QueueInv, ShapeOK
  <2>4. \A i, j \in 1 .. Len(queue'): queue'[i] = queue'[j] => i = j
    BY <2>1, <2>2 DEF SemaphoreInv, QueueInv
  <2> QED BY <2>1, <2>3, <2>4 DEF QueueInv
<1>5. Holders' = Holders
  BY <1>1 DEF SemaphoreInv, ShapeOK, Holders, Holding
<1>6. SlotInv' /\ LoopInv'
  BY <1>1, <1>2, <1>5 DEF SemaphoreInv, SlotInv, LoopInv, Outdated
<1> QED BY <1>3, <1>4, <1>6 DEF SemaphoreInv

---------------------------------------------------------------------------
(* Leaving *)

\* A slot goes back to the semaphore, or on to the first task that waits; a waiter leaves
\* the queue as the others have it.
LEMMA LeaveInv ==
    ASSUME SemaphoreInv, NEW t \in Tasks, pc[t] # "idle", Leave(t),
           UNCHANGED <<loop, address, semLoop, bound, kind>>
    PROVE  SemaphoreInv'
<1>a. /\ queue \in Seq(Tasks) /\ Len(queue) \in Nat /\ kind[t] # "none"
      /\ \A i \in 1 .. Len(queue): queue[i] \in Tasks
  BY LenProperties, ElementOfSeq DEF SemaphoreInv, QueueInv, KindInv
<1>1. CASE GiveBack(t)
  <2>1. /\ t \in Holders /\ queue = <<>> /\ value' = value + 1
        /\ pc' = [pc EXCEPT ![t] = "ended"] /\ queue' = queue
    BY <1>1 DEF GiveBack
  <2>2. Holders' = Holders \ {t}
    BY <2>1 DEF SemaphoreInv, ShapeOK, Holders, Holding
  <2>3. Cardinality(Holders') = Cardinality(Holders) - 1
    BY <2>1, <2>2, HoldersFinite, FS_RemoveElement
  <2>4. Cardinality(Holders') \in Nat
    BY <2>2, HoldersFinite, FS_RemoveElement, FS_CardinalityType
  <2>5. ShapeOK' /\ KindInv'
    BY <1>a, <2>1, <2>3, <2>4 DEF SemaphoreInv, ShapeOK, KindInv, SlotInv, Places
  <2>6. QueueInv'
    BY <2>1, EmptySeq DEF SemaphoreInv, QueueInv
  <2>7. SlotInv' /\ LoopInv'
    BY <2>1, <2>2, <2>3 DEF SemaphoreInv, SlotInv, LoopInv, Outdated, ShapeOK
  <2> QED BY <2>5, <2>6, <2>7 DEF SemaphoreInv
<1>2. CASE HandOver(t)
  <2> DEFINE h == Head(queue)
  <2>1. /\ t \in Holders /\ queue # <<>> /\ value' = value
        /\ pc' = [pc EXCEPT ![t] = "ended", ![h] = "granted"] /\ queue' = Tail(queue)
    BY <1>2 DEF HandOver
  <2>2. /\ Len(queue) \in Nat \ {0} /\ h = queue[1] /\ h \in Tasks
        /\ queue' \in Seq(Tasks) /\ Len(queue') = Len(queue) - 1
        /\ \A i \in 1 .. Len(queue'): queue'[i] = queue[i + 1]
    BY <1>a, <2>1, EmptySeq, HeadTailProperties
  <2>3. /\ pc[h] = "waiting" /\ kind[h] \in Paged /\ h # t /\ h \notin Holders
    BY <2>1, <2>2 DEF SemaphoreInv, QueueInv, Holders, Holding
  <2> HIDE DEF h
  <2>4. Holders' = (Holders \ {t}) \cup {h}
    BY <2>1, <2>2, <2>3 DEF SemaphoreInv, ShapeOK, Holders, Holding
  <2>5. Cardinality(Holders') = Cardinality(Holders)
    <3>1. IsFiniteSet(Holders \ {t}) /\ Cardinality(Holders \ {t}) = Cardinality(Holders) - 1
      BY <2>1, HoldersFinite, FS_RemoveElement
    <3>2. Cardinality((Holders \ {t}) \cup {h}) = Cardinality(Holders \ {t}) + 1
      BY <2>3, <3>1, FS_AddElement
    <3> QED BY <2>4, <3>1, <3>2, HoldersFinite
  <2>6. ShapeOK' /\ KindInv'
    BY <1>a, <2>1, <2>2, <2>3 DEF SemaphoreInv, ShapeOK, KindInv, Places
  <2>7. QueueInv'
    <3>1. \A i \in 1 .. Len(queue'): i + 1 \in 1 .. Len(queue) /\ i + 1 # 1
      BY <2>2
    <3>2. \A i \in 1 .. Len(queue'): queue'[i] # h /\ queue'[i] # t
      BY <1>a, <2>1, <2>2, <3>1 DEF SemaphoreInv, QueueInv, Holders, Holding
    <3>3. \A i \in 1 .. Len(queue'): pc'[queue'[i]] = "waiting" /\ kind'[queue'[i]] \in Paged
      BY <1>a, <2>1, <2>2, <3>1, <3>2 DEF SemaphoreInv, QueueInv, ShapeOK
    <3>4. \A i, j \in 1 .. Len(queue'): queue'[i] = queue'[j] => i = j
      BY <2>2, <3>1 DEF SemaphoreInv, QueueInv
    <3> QED BY <2>2, <3>3, <3>4 DEF QueueInv
  <2>8. SlotInv' /\ LoopInv'
    BY <2>1, <2>5 DEF SemaphoreInv, SlotInv, LoopInv, Outdated
  <2> QED BY <2>6, <2>7, <2>8 DEF SemaphoreInv
<1>3. CASE Dequeue(t)
  <2>1. PICK i \in 1 .. Len(queue):
          /\ queue[i] = t
          /\ queue' = [j \in 1 .. Len(queue) - 1 |-> IF j < i THEN queue[j] ELSE queue[j + 1]]
    BY <1>3 DEF Dequeue
  <2>2. pc' = [pc EXCEPT ![t] = "ended"] /\ value' = value /\ pc[t] = "waiting"
    BY <1>3, <2>1 DEF Dequeue, SemaphoreInv, QueueInv
  <2> DEFINE old(j) == IF j < i THEN j ELSE j + 1
  <2>3. \A j \in 1 .. Len(queue) - 1:
           old(j) \in 1 .. Len(queue) /\ old(j) # i /\ queue'[j] = queue[old(j)]
    BY <1>a, <2>1
  <2>4. queue' \in Seq(Tasks) /\ Len(queue') = Len(queue) - 1
    <3>1. Len(queue) - 1 \in Nat
      BY <1>a
    <3>2. queue' \in [1 .. Len(queue) - 1 -> Tasks]
      BY <1>a, <2>1
    <3> QED BY <3>1, <3>2
  <2>5. \A j, k \in 1 .. Len(queue) - 1: old(j) = old(k) => j = k
    BY <1>a
  <2> HIDE DEF old
  <2>6. \A j \in 1 .. Len(queue'): queue'[j] # t /\ queue'[j] \in Tasks
    BY <1>a, <2>1, <2>3, <2>4 DEF SemaphoreInv, QueueInv
  <2>7. QueueInv'
    <3>1. \A j \in 1 .. Len(queue'): pc'[queue'[j]] = "waiting" /\ kind'[queue'[j]] \in Paged
      BY <2>2, <2>3, <2>4, <2>6 DEF SemaphoreInv, QueueInv, ShapeOK
    <3>2. \A j, k \in 1 .. Len(queue'): queue'[j] = queue'[k] => j = k
      BY <2>3, <2>4, <2>5 DEF SemaphoreInv, QueueInv
    <3> QED BY <2>4, <3>1, <3>2 DEF QueueInv
  <2>8. Holders' = Holders
    BY <2>2 DEF SemaphoreInv, ShapeOK, Holders, Holding
  <2>9. ShapeOK' /\ KindInv'
    BY <1>a, <2>2 DEF SemaphoreInv, ShapeOK, KindInv, Places
  <2>10. queue # <<>>
    BY <1>a, <2>1, EmptySeq
  <2>11. SlotInv' /\ LoopInv'
    BY <2>2, <2>8, <2>10 DEF SemaphoreInv, SlotInv, LoopInv, Outdated
  <2> QED BY <2>7, <2>9, <2>11 DEF SemaphoreInv
<1>4. CASE Quit(t)
  <2>1. pc' = [pc EXCEPT ![t] = "ended"] /\ t \notin Holders /\ pc[t] # "waiting"
    BY <1>4 DEF Quit
  <2>2. Holders' = Holders
    BY <2>1 DEF SemaphoreInv, ShapeOK, Holders, Holding
  <2>3. pc' \in [Tasks -> Places] /\ KindInv'
    BY <1>a, <2>1 DEF SemaphoreInv, ShapeOK, KindInv, Places
  <2> QED BY <1>4, <2>1, <2>2, <2>3, KeepSlots DEF Quit, semaphore, SemaphoreInv, ShapeOK
<1> QED BY <1>1, <1>2, <1>3, <1>4 DEF Leave

---------------------------------------------------------------------------
(* Steps, and the semaphore *)

\* However a task ends, it leaves as its node promises.
LEMMA EndsAsPromised ==
    ASSUME NEW t \in Tasks,
           \/ Cancel(t) \/ Unprepared(t) \/ NoToolCall(t) \/ CallerReturns(t)
           \/ \E error \in {"transient", "other"}: CallRaises(t, error)
           \/ \E reply \in Replies: WorkerReturns(t, reply) \/ PioneerReturns(t, reply)
    PROVE  /\ pc[t] \in InFlight
           /\ \E e \in {Ended("raised"), Ended("cancelled")} \cup Contract!Returns(kind[t]): Finish(t, e)
<1>1. CASE Cancel(t)
  BY <1>1 DEF Cancel
<1>2. CASE \/ Unprepared(t) \/ NoToolCall(t)
           \/ \E error \in {"transient", "other"}: CallRaises(t, error)
  BY <1>2 DEF Unprepared, NoToolCall, CallRaises, Raise, InFlight, Holding
<1>3. CASE CallerReturns(t)
  BY <1>3, KindsKnown DEF CallerReturns, Return, InFlight, Holding, Contract!Returns
<1>4. ASSUME NEW reply \in Replies, WorkerReturns(t, reply)
      PROVE  pc[t] \in InFlight /\ \E e \in Contract!Returns(kind[t]): Finish(t, e)
  <2>1. BlocksOf(reply) \in Contract!Blocks /\ (Flagged(reply) <=> BlocksOf(reply) # "valid")
    BY <1>4 DEF WorkerReturns, Replies, BlocksOf, Flagged, Contract!Blocks
  <2>2. Contract!Returned(BlocksOf(reply), Flagged(reply)) \in Contract!Returns(kind[t])
    BY <1>4, <2>1 DEF WorkerReturns, Contract!Returns, Flagged, BlocksOf, Replies, Contract!Blocks
  <2> QED BY <1>4, <2>2 DEF WorkerReturns, Return, InFlight, Holding
<1>5. ASSUME NEW reply \in Replies, PioneerReturns(t, reply)
      PROVE  pc[t] \in InFlight /\ \E e \in Contract!Returns(kind[t]): Finish(t, e)
  <2>1. \/ reply = "truncated" /\ BlocksOf(reply) = "empty"
        \/ reply # "truncated" /\ BlocksOf(reply) \in Contract!Blocks
    BY <1>5 DEF PioneerReturns, Replies, BlocksOf
  <2>2. Contract!Returned(BlocksOf(reply), reply = "truncated") \in Contract!Returns(kind[t])
    BY <1>5, <2>1 DEF PioneerReturns, Contract!Returns
  <2> QED BY <1>5, <2>2 DEF PioneerReturns, Return, InFlight, Holding
<1> QED BY <1>1, <1>2, <1>3, <1>4, <1>5

\* The steps between the first call of a task and its end.
Goes(t) ==
    \/ Resume(t) \/ CallAgain(t)
    \/ \E error \in {"transient", "other"}: CallFails(t, error)
    \/ \E reply \in Replies: WorkerTriesAgain(t, reply)

Ends(t) ==
    /\ pc[t] \in InFlight
    /\ \E e \in {Ended("raised"), Ended("cancelled")} \cup Contract!Returns(kind[t]): Finish(t, e)

LEMMA WorkCases == ASSUME NEW t \in Tasks, Work(t) PROVE Goes(t) \/ Ends(t)
  BY EndsAsPromised DEF Work, Goes, Ends

LEMMA GoesInv ==
    ASSUME SemaphoreInv, NEW t \in Tasks, Goes(t)
    PROVE  SemaphoreInv'
<1>1. /\ UNCHANGED <<loop, address, semaphore, kind>>
      /\ pc[t] \in Holding /\ \E p \in Holding: pc' = [pc EXCEPT ![t] = p]
  BY DEF Goes, Resume, CallAgain, CallFails, WorkerTriesAgain, Holding, SemaphoreInv, ShapeOK
<1>2. PICK p \in Holding: pc' = [pc EXCEPT ![t] = p]
  BY <1>1
<1>3. pc' \in [Tasks -> Places] /\ KindInv'
  BY <1>1, <1>2 DEF SemaphoreInv, ShapeOK, KindInv, Places, Holding
<1>4. Holders' = Holders
  BY <1>1, <1>2 DEF SemaphoreInv, ShapeOK, Holders
<1>5. kind' \in [Tasks -> Contract!Kinds \cup {"none"}]
  BY <1>1 DEF SemaphoreInv, ShapeOK
<1>6. \A u \in Tasks: pc[u] = "waiting" => pc'[u] = "waiting" /\ kind'[u] = kind[u]
  BY <1>1, <1>2 DEF SemaphoreInv, ShapeOK, Holding
<1> QED BY <1>1, <1>3, <1>4, <1>5, <1>6, KeepSlots

LEMMA NewLoopInv == SemaphoreInv /\ NewLoop => SemaphoreInv'
<1> SUFFICES ASSUME SemaphoreInv, NewLoop PROVE SemaphoreInv'
  OBVIOUS
<1>1. PICK a \in 1 .. loop + 1: (bound # 0 => a # semLoop) /\ address' = a
  BY DEF NewLoop
<1>2. Holders = {} /\ Holders' = {}
  BY KindsKnown DEF NewLoop, Holders, InFlight
<1>3. queue = <<>> /\ queue' = queue
  <2>1. Len(queue) \in Nat /\ \A i \in 1 .. Len(queue): queue[i] \in Tasks
    BY LenProperties, ElementOfSeq DEF SemaphoreInv, QueueInv
  <2>2. ~ 1 \in 1 .. Len(queue)
    BY <2>1 DEF NewLoop, InFlight, SemaphoreInv, QueueInv
  <2> QED BY <2>1, <2>2, EmptySeq DEF NewLoop, semaphore, SemaphoreInv, QueueInv
<1>4. Cardinality(Holders) = 0 /\ Cardinality(Holders') = 0
  BY <1>2, FS_EmptySet
<1>5. ShapeOK' /\ KindInv'
  BY <1>1 DEF NewLoop, semaphore, SemaphoreInv, ShapeOK, KindInv, Places
<1>6. QueueInv'
  BY <1>3, EmptySeq DEF QueueInv
<1>7. SlotInv'
  BY <1>2, <1>3, <1>4 DEF SemaphoreInv, SlotInv, NewLoop, semaphore
<1>8. LoopInv'
  BY <1>1 DEF LoopInv, Outdated, NewLoop, semaphore
<1> QED BY <1>5, <1>6, <1>7, <1>8 DEF SemaphoreInv

LEMMA EnterDirectlyInv ==
    ASSUME SemaphoreInv, NEW t \in Tasks, NEW k, EnterDirectly(t, k)
    PROVE  SemaphoreInv'
<1>1. /\ k \in Contract!Kinds /\ k \notin Paged /\ k # "none" /\ kind[t] = "none" /\ pc[t] = "idle"
      /\ kind' = [kind EXCEPT ![t] = k] /\ pc' = [pc EXCEPT ![t] = "calling"]
      /\ UNCHANGED <<loop, address, semaphore>>
  BY KindsKnown DEF EnterDirectly, Becomes, SemaphoreInv, KindInv
<1>2. pc' \in [Tasks -> Places] /\ kind' \in [Tasks -> Contract!Kinds \cup {"none"}] /\ KindInv'
  BY <1>1 DEF SemaphoreInv, ShapeOK, KindInv, Places
<1>3. Holders' = Holders
  BY <1>1, KindsKnown DEF SemaphoreInv, ShapeOK, Holders, Holding
<1>4. \A u \in Tasks: pc[u] = "waiting" => pc'[u] = "waiting" /\ kind'[u] = kind[u]
  BY <1>1 DEF SemaphoreInv, ShapeOK
<1> QED BY <1>1, <1>2, <1>3, <1>4, KeepSlots

LEMMA NextSemaphore == SemaphoreInv /\ [Next]_vars => SemaphoreInv'
<1> SUFFICES ASSUME SemaphoreInv, [Next]_vars PROVE SemaphoreInv'
  OBVIOUS
<1>1. CASE NewLoop
  BY <1>1, NewLoopInv
<1>2. CASE UNCHANGED vars \/ \E j \in Jobs: Abandon(j)
  <2>1. UNCHANGED <<loop, address, semLoop, bound, value, queue, pc, kind>>
    BY <1>2 DEF vars, Abandon, semaphore
  <2>2. ShapeOK' /\ QueueInv' /\ KindInv'
    BY <2>1 DEF SemaphoreInv, ShapeOK, QueueInv, KindInv
  <2>3. SlotInv' /\ LoopInv'
    BY <2>1 DEF SemaphoreInv, SlotInv, LoopInv, Outdated, Holders
  <2> QED BY <2>2, <2>3 DEF SemaphoreInv
<1>3. ASSUME NEW t \in Tasks, Enter(t) PROVE SemaphoreInv'
  BY <1>3, EnterSlotInv, EnterQueueInv, EnterDirectlyInv DEF Enter
<1>4. ASSUME NEW t \in Tasks, Work(t) PROVE SemaphoreInv'
  <2>1. CASE Goes(t)
    BY <2>1, GoesInv
  <2>2. CASE Ends(t)
    BY <2>2, LeaveInv DEF Ends, Finish, InFlight, Holding
  <2> QED BY <1>4, <2>1, <2>2, WorkCases
<1> QED BY <1>1, <1>2, <1>3, <1>4 DEF Next

LEMMA AlwaysSemaphore == Spec => []SemaphoreInv
  BY InitSemaphore, NextSemaphore, PTL DEF Spec

\* No exception, cancellation or change of loop loses a slot or lets one task too many call.
THEOREM SlotsAreKept == Spec => []NoSlotLost
<1>1. SemaphoreInv => NoSlotLost
  <2> SUFFICES ASSUME SemaphoreInv PROVE NoSlotLost
    OBVIOUS
  <2>1. CASE Outdated
    <3>1. Holders = {} /\ queue = <<>>
      BY <2>1 DEF SemaphoreInv, SlotInv
    <3> QED BY <2>1, <3>1, FS_EmptySet DEF NoSlotLost
  <2>2. CASE ~Outdated
    BY <2>2 DEF SemaphoreInv, SlotInv, NoSlotLost
  <2> QED BY <2>1, <2>2
<1> QED BY <1>1, AlwaysSemaphore, PTL

---------------------------------------------------------------------------
(* How tasks end *)

Answers == {Ended("raised"), Ended("cancelled")} \cup UNION {Contract!Returns(k): k \in Contract!Kinds}

\* A task has an answer when it has ended, and only then.
EndInv ==
    /\ end \in [Tasks -> Answers \cup {Contract!Open}]
    /\ \A t \in Tasks: end[t] = Contract!Open <=> pc[t] # "ended"

LEMMA AnswersAreClosed ==
    \A a \in Answers: /\ a # Contract!Open /\ a # Ended("RuntimeError")
                      /\ a.how \in {"raised", "cancelled", "returned"}
  BY DEF Answers, Contract!Returns, Contract!Kinds, Contract!Paged, Contract!Returned, Ended,
         Contract!Ended, Contract!Open

\* To end, a task gives its own answer; the task it hands its slot to goes on.
LEMMA EndsStep ==
    ASSUME SemaphoreInv, NEW t \in Tasks, Ends(t)
    PROVE  /\ \E e \in {Ended("raised"), Ended("cancelled")} \cup Contract!Returns(kind[t]):
                  end' = [end EXCEPT ![t] = e]
           /\ kind' = kind /\ kind[t] \in Contract!Kinds /\ pc[t] # "ended" /\ pc'[t] = "ended"
           /\ \A u \in Tasks \ {t}: \/ pc'[u] = pc[u]
                                    \/ pc[u] = "waiting" /\ pc'[u] = "granted"
<1>1. PICK e \in {Ended("raised"), Ended("cancelled")} \cup Contract!Returns(kind[t]): Finish(t, e)
  BY DEF Ends
<1>2. pc[t] # "ended" /\ pc[t] # "idle" /\ kind[t] \in Contract!Kinds
  BY DEF Ends, InFlight, Holding, SemaphoreInv, KindInv, ShapeOK
<1>3. pc'[t] = "ended" /\ \A u \in Tasks \ {t}: \/ pc'[u] = pc[u]
                                                \/ pc[u] = "waiting" /\ pc'[u] = "granted"
  <2>1. CASE HandOver(t)
    <3> DEFINE h == Head(queue)
    <3>1. t \in Holders /\ queue # <<>> /\ pc' = [pc EXCEPT ![t] = "ended", ![h] = "granted"]
      BY <2>1 DEF HandOver
    <3>2. h = queue[1] /\ 1 \in 1 .. Len(queue)
      BY <3>1, EmptySeq, HeadTailProperties, LenProperties DEF SemaphoreInv, QueueInv
    <3>3. pc[h] = "waiting"
      BY <3>2 DEF SemaphoreInv, QueueInv
    <3>4. h # t
      BY <3>1, <3>3 DEF Holders, Holding
    <3> HIDE DEF h
    <3> QED BY <3>1, <3>3, <3>4 DEF SemaphoreInv, ShapeOK
  <2>2. CASE GiveBack(t) \/ Dequeue(t) \/ Quit(t)
    BY <2>2 DEF GiveBack, Dequeue, Quit, SemaphoreInv, ShapeOK
  <2> QED BY <1>1, <2>1, <2>2 DEF Finish, Leave
<1> QED BY <1>1, <1>2, <1>3 DEF Finish

LEMMA EnterStep ==
    ASSUME SemaphoreInv, NEW t \in Tasks, Enter(t)
    PROVE  /\ kind[t] = "none" /\ (\E k \in Contract!Kinds: kind' = [kind EXCEPT ![t] = k])
           /\ pc[t] = "idle" /\ (\E p \in {"calling", "waiting"}: pc' = [pc EXCEPT ![t] = p])
           /\ end' = end
<1>1. PICK k \in Nodes[t]: EnterSlot(t, k) \/ EnterQueue(t, k) \/ EnterDirectly(t, k)
  BY DEF Enter
<1>2. k \in Contract!Kinds
  BY <1>1, KindsKnown DEF EnterSlot, EnterQueue, EnterDirectly
<1> QED
  BY <1>1, <1>2, NoOtherLoop DEF EnterSlot, EnterQueue, EnterDirectly, Becomes, SemaphoreInv, KindInv

LEMMA GoesStep ==
    ASSUME SemaphoreInv, NEW t \in Tasks, Goes(t)
    PROVE  /\ kind' = kind /\ end' = end
           /\ pc[t] \in Holding /\ (\E p \in {"calling", "backoff"}: pc' = [pc EXCEPT ![t] = p])
  BY DEF Goes, Resume, CallAgain, CallFails, WorkerTriesAgain, Holding, SemaphoreInv, ShapeOK

LEMMA NextEnd == SemaphoreInv /\ EndInv /\ [Next]_vars => EndInv'
<1> SUFFICES ASSUME SemaphoreInv, EndInv, [Next]_vars PROVE EndInv'
  OBVIOUS
<1>1. CASE NewLoop
  BY <1>1 DEF NewLoop, EndInv
<1>2. CASE UNCHANGED vars \/ \E j \in Jobs: Abandon(j)
  BY <1>2 DEF vars, Abandon, EndInv
<1>3. ASSUME NEW t \in Tasks, Enter(t) PROVE EndInv'
  BY <1>3, EnterStep DEF EndInv, SemaphoreInv, ShapeOK
<1>4. ASSUME NEW t \in Tasks, Goes(t) PROVE EndInv'
  BY <1>4, GoesStep DEF EndInv, SemaphoreInv, ShapeOK, Holding
<1>5. ASSUME NEW t \in Tasks, Ends(t) PROVE EndInv'
  <2>1. PICK e \in {Ended("raised"), Ended("cancelled")} \cup Contract!Returns(kind[t]):
                end' = [end EXCEPT ![t] = e]
    BY <1>5, EndsStep
  <2>2. e \in Answers /\ e # Contract!Open
    BY <1>5, EndsStep, AnswersAreClosed DEF Answers
  <2>3. \A u \in Tasks: end'[u] = IF u = t THEN e ELSE end[u]
    BY <2>1 DEF EndInv
  <2>4. ASSUME NEW u \in Tasks PROVE end'[u] = Contract!Open <=> pc'[u] # "ended"
    BY <1>5, <2>2, <2>3, EndsStep DEF EndInv
  <2> QED BY <2>1, <2>2, <2>4 DEF EndInv
<1> QED BY <1>1, <1>2, <1>3, <1>4, <1>5, WorkCases DEF Next

LEMMA AlwaysEnd == Spec => [](SemaphoreInv /\ EndInv)
<1>1. Init => EndInv
  BY DEF Init, EndInv
<1> QED BY <1>1, InitSemaphore, NextSemaphore, NextEnd, PTL DEF Spec

\* No task of any run meets a semaphore bound to an earlier event loop.
THEOREM SemaphoreOfThisLoop == Spec => []NoForeignLoop
<1>1. EndInv => NoForeignLoop
  <2>1. Contract!Open # Ended("RuntimeError")
    BY DEF Contract!Open, Ended, Contract!Ended
  <2> QED BY <2>1, AnswersAreClosed DEF EndInv, NoForeignLoop
<1> QED BY <1>1, AlwaysEnd, PTL

\* A task ends once, as the graph expects of its node: the flag of a worker's answer tells
\* whether the schema accepts its blocks, whatever was retried, cancelled or queued.
THEOREM TasksKeepContract == Spec => KeepsContract
<1>1. Init => Contract!Init
  BY DEF Init, Contract!Init
<1>2. SemaphoreInv /\ EndInv /\ [Next]_vars => [Contract!Next]_(Contract!vars)
  <2> SUFFICES ASSUME SemaphoreInv, EndInv, [Next]_vars PROVE [Contract!Next]_(Contract!vars)
    OBVIOUS
  <2>1. CASE NewLoop
    <3>1. \A t \in Tasks: kind[t] = "none" \/ end[t] # Contract!Open
      BY <2>1 DEF NewLoop, InFlight, Holding, SemaphoreInv, ShapeOK, Places, KindInv, EndInv
    <3> QED BY <2>1, <3>1 DEF NewLoop, Contract!Renew, Contract!Init, Contract!Next
  <2>2. CASE UNCHANGED vars \/ \E j \in Jobs: Abandon(j)
    BY <2>2 DEF vars, Abandon, Contract!vars
  <2>3. ASSUME NEW t \in Tasks, Enter(t) PROVE Contract!Next
    BY <2>3, EnterStep DEF Contract!Next, Contract!Start
  <2>4. ASSUME NEW t \in Tasks, Goes(t) PROVE UNCHANGED Contract!vars
    BY <2>4, GoesStep DEF Contract!vars
  <2>5. ASSUME NEW t \in Tasks, Ends(t) PROVE Contract!Next
    <3>1. kind[t] # "none" /\ end[t] = Contract!Open
      BY <2>5, EndsStep, KindsKnown DEF EndInv
    <3>2. Contract!Finish(t)
      BY <2>5, <3>1, EndsStep DEF Contract!Finish, Ended
    <3> QED BY <3>2 DEF Contract!Next
  <2> QED BY <2>1, <2>2, <2>3, <2>4, <2>5, WorkCases DEF Next
<1> QED BY <1>1, <1>2, AlwaysEnd, PTL DEF Spec, KeepsContract, Contract!Spec

---------------------------------------------------------------------------
(* The calls of a task *)

\* A task that has not called yet, or calls no more, counts nothing; each attempt before
\* the present one made at most HttpTries calls.
CallInv ==
    /\ attempt \in [Tasks -> 1 .. MaxAttempts]
    /\ tries \in [Tasks -> 1 .. HttpTries]
    /\ calls \in [Tasks -> Nat]
    /\ \A t \in Tasks:
          /\ pc[t] \notin {"calling", "backoff"} => attempt[t] = 1 /\ tries[t] = 1 /\ calls[t] = 0
          /\ pc[t] = "backoff" => tries[t] < HttpTries
          /\ kind[t] # "worker" => attempt[t] = 1
          /\ calls[t] <= (attempt[t] - 1) * HttpTries + tries[t]

LEMMA NextCalls == SemaphoreInv /\ CallInv /\ [Next]_vars => CallInv'
<1> SUFFICES ASSUME SemaphoreInv, CallInv, [Next]_vars PROVE CallInv'
  OBVIOUS
<1>1. CASE NewLoop
  BY <1>1 DEF NewLoop, progress, CallInv, InFlight, Holding, SemaphoreInv, ShapeOK
<1>2. CASE UNCHANGED vars \/ \E j \in Jobs: Abandon(j)
  BY <1>2 DEF vars, progress, Abandon, CallInv
<1>3. ASSUME NEW t \in Tasks, Enter(t) PROVE CallInv'
  <2>1. /\ attempt' = attempt /\ tries' = tries /\ attempt[t] = 1 /\ tries[t] = 1 /\ calls[t] = 0
        /\ \/ pc' = [pc EXCEPT ![t] = "calling"] /\ calls' = [calls EXCEPT ![t] = 1]
           \/ pc' = [pc EXCEPT ![t] = "waiting"] /\ calls' = calls
    BY <1>3, EnterStep, NoOtherLoop
       DEF Enter, EnterSlot, EnterQueue, EnterDirectly, progress, CallInv
  <2>2. \E k \in Contract!Kinds: kind' = [kind EXCEPT ![t] = k]
    BY <1>3, EnterStep
  <2>3. (attempt[t] - 1) * HttpTries + tries[t] = 1
    BY <2>1
  <2>4. calls' \in [Tasks -> Nat] /\ calls'[t] <= 1 /\ \A u \in Tasks \ {t}: calls'[u] = calls[u]
    <3>1. calls \in [Tasks -> Nat]
      BY DEF CallInv
    <3> QED BY <2>1, <3>1
  <2>5. \A u \in Tasks: calls'[u] <= (attempt'[u] - 1) * HttpTries + tries'[u]
    BY <2>1, <2>3, <2>4 DEF CallInv
  <2>6. ASSUME NEW u \in Tasks
        PROVE  /\ pc'[u] \notin {"calling", "backoff"}
                   => attempt'[u] = 1 /\ tries'[u] = 1 /\ calls'[u] = 0
               /\ pc'[u] = "backoff" => tries'[u] < HttpTries
               /\ kind'[u] # "worker" => attempt'[u] = 1
    BY <2>1, <2>2 DEF CallInv, SemaphoreInv, ShapeOK
  <2> QED BY <2>1, <2>4, <2>5, <2>6 DEF CallInv
<1>4. ASSUME NEW t \in Tasks, Resume(t) PROVE CallInv'
  BY <1>4 DEF Resume, CallInv, SemaphoreInv, ShapeOK
<1>5. ASSUME NEW t \in Tasks, CallAgain(t) PROVE CallInv'
  BY <1>5 DEF CallAgain, CallInv, SemaphoreInv, ShapeOK
<1>6. ASSUME NEW t \in Tasks, NEW error, CallFails(t, error) PROVE CallInv'
  BY <1>6 DEF CallFails, TriesLeft, progress, CallInv, SemaphoreInv, ShapeOK
<1>7. ASSUME NEW t \in Tasks, NEW reply, WorkerTriesAgain(t, reply) PROVE CallInv'
  <2>1. /\ pc' = pc /\ kind' = kind /\ pc[t] = "calling" /\ kind[t] = "worker"
        /\ attempt' = [attempt EXCEPT ![t] = @ + 1] /\ attempt[t] < MaxAttempts
        /\ tries' = [tries EXCEPT ![t] = 1] /\ calls' = [calls EXCEPT ![t] = @ + 1]
    BY <1>7 DEF WorkerTriesAgain
  <2>2. calls[t] + 1 <= ((attempt[t] + 1) - 1) * HttpTries + 1
    <3>1. /\ attempt[t] \in Nat /\ tries[t] <= HttpTries /\ tries[t] \in Nat /\ calls[t] \in Nat
          /\ calls[t] <= (attempt[t] - 1) * HttpTries + tries[t] /\ HttpTries \in Nat
      BY DEF CallInv
    <3>2. (attempt[t] - 1) * HttpTries + HttpTries = ((attempt[t] + 1) - 1) * HttpTries
      BY <3>1
    <3>3. (attempt[t] - 1) * HttpTries \in Int
      BY <3>1
    <3> QED BY <3>1, <3>2, <3>3
  <2> QED BY <2>1, <2>2 DEF CallInv, SemaphoreInv, ShapeOK
<1>8. ASSUME NEW t \in Tasks, Ends(t) PROVE CallInv'
  <2>1. /\ attempt' = [attempt EXCEPT ![t] = 1] /\ tries' = [tries EXCEPT ![t] = 1]
        /\ calls' = [calls EXCEPT ![t] = 0]
    BY <1>8 DEF Ends, Finish, Forget
  <2> QED BY <1>8, <2>1, EndsStep DEF CallInv
<1> QED BY <1>1, <1>2, <1>3, <1>4, <1>5, <1>6, <1>7, <1>8, WorkCases DEF Next, Goes

LEMMA AlwaysCalls == Spec => [](SemaphoreInv /\ CallInv)
<1>1. Init => CallInv
  BY DEF Init, CallInv
<1> QED BY <1>1, InitSemaphore, NextSemaphore, NextCalls, PTL DEF Spec

LEMMA ProductGrows == \A m, n, h \in Nat: m <= n => m * h <= n * h
  OBVIOUS

\* A worker calls at most VALIDATION_MAX_RETRIES * HTTP_MAX_RETRIES times, another node
\* HTTP_MAX_RETRIES times.
THEOREM CallsAreBounded == Spec => []CallBudget
<1>1. SemaphoreInv /\ CallInv => CallBudget
  <2> SUFFICES ASSUME CallInv, NEW t \in Tasks
               PROVE  calls[t] <= (IF kind[t] = "worker" THEN MaxAttempts ELSE 1) * HttpTries
    BY DEF CallBudget
  <2>1. /\ attempt[t] \in 1 .. MaxAttempts /\ tries[t] \in 1 .. HttpTries /\ calls[t] \in Nat
        /\ calls[t] <= (attempt[t] - 1) * HttpTries + tries[t]
        /\ kind[t] # "worker" => attempt[t] = 1
    BY DEF CallInv
  <2>2. calls[t] <= attempt[t] * HttpTries
    <3>1. (attempt[t] - 1) * HttpTries + HttpTries = attempt[t] * HttpTries
      BY <2>1
    <3>2. (attempt[t] - 1) * HttpTries \in Int
      BY <2>1
    <3> QED BY <2>1, <3>1, <3>2
  <2>3. attempt[t] * HttpTries <= MaxAttempts * HttpTries
    BY <2>1, ProductGrows
  <2>4. attempt[t] * HttpTries \in Int /\ MaxAttempts * HttpTries \in Int
    BY <2>1
  <2> QED BY <2>1, <2>2, <2>3, <2>4
<1> QED BY <1>1, AlwaysCalls, PTL

\* Only runs are given up.
DoomedOK == doomed \subseteq Jobs

\* The state stays in range.
THEOREM ApiTypeCorrect == Spec => []TypeOK
<1>1. SemaphoreInv /\ EndInv /\ CallInv /\ DoomedOK => TypeOK
  <2> SUFFICES ASSUME SemaphoreInv, EndInv, CallInv, DoomedOK PROVE TypeOK
    OBVIOUS
  <2>1. \A t \in Tasks: end[t].how \in {"open", "raised", "cancelled", "returned", "RuntimeError"}
    <3>1. Contract!Open.how = "open"
      BY DEF Contract!Open, Contract!Ended
    <3> QED BY <3>1, AnswersAreClosed DEF EndInv
  <2> QED BY <2>1 DEF DoomedOK, TypeOK, SemaphoreInv, ShapeOK, QueueInv, CallInv, InFlight, Holding, Places
<1>2. Init => DoomedOK
  BY DEF DoomedOK, Init
<1>3. DoomedOK /\ [Next]_vars => DoomedOK'
  <2> SUFFICES ASSUME DoomedOK, [Next]_vars PROVE DoomedOK'
    OBVIOUS
  <2>1. CASE NewLoop \/ UNCHANGED vars \/ \E j \in Jobs: Abandon(j)
    BY <2>1 DEF DoomedOK, NewLoop, vars, Abandon
  <2>2. ASSUME NEW t \in Tasks, Enter(t) PROVE DoomedOK'
    BY <2>2 DEF DoomedOK, Enter, EnterSlot, EnterQueue, EnterDirectly
  <2>3. ASSUME NEW t \in Tasks, Work(t) PROVE DoomedOK'
    <3>1. doomed' = doomed \/ doomed' = doomed \cup {Job[t]}
      BY <2>3 DEF Work, Resume, Cancel, CallFails, CallRaises, CallAgain, Unprepared,
             NoToolCall, CallerReturns,
             WorkerTriesAgain, WorkerReturns, PioneerReturns, Raise, Return
    <3> QED BY <3>1 DEF DoomedOK
  <2> QED BY <2>1, <2>2, <2>3 DEF Next
<1> QED BY <1>1, <1>2, <1>3, AlwaysEnd, AlwaysCalls, PTL DEF Spec
=================================================================================

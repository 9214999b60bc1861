---------------------------- MODULE JobServiceProofs ----------------------------
(***************************************************************************)
(* Theorems about JobService for every set of requests and documents and   *)
(* every number of supersteps: the safety of the job store, and that the   *)
(* service implements JobLifecycle.  They are about Spec: the failing      *)
(* statements of FaultySpec are outside them, and one of those is enough   *)
(* to put an old record back over the record of a newer run.               *)
(***************************************************************************)
EXTENDS JobService, TLAPS

\* Every run writes to the record its own request created.
RunRecordInv ==
    \A o \in Ops: pc[o] \in RunSteps \ {"scheduled"} => job[o] = o

\* Whoever owes the job its next status is the one whose record is stored.
OwnerInv ==
    \A o \in Ops: pc[o] \in Owning =>
        /\ jobs[Doc(o)] = o
        /\ rec[o].status =
              IF pc[o] \in {"saving", "saved", "written", "scheduled"} THEN "queued" ELSE "running"

\* A stored record is either one that its request has created for this very
\* document, or one that a restart has loaded, and then it has ended.
StoreInv ==
    \A p \in Pdfs: jobs[p] # None =>
        LET r == jobs[p] IN
        /\ rec[r] \in Row
        /\ r \in Ops =>
              /\ Doc(r) = p
              /\ pc[r] \in Owning \cup {"completing", "failing", "closing", "over"}
        /\ r \in Pdfs => r = p
        /\ rec[r].status \in Active => r \in Ops /\ pc[r] \in Owning

\* Nothing is in flight while the server is down.
DownInv == ~up => \A o \in Ops: pc[o] \in {"idle", "over"}

IInv == TypeOK /\ RunRecordInv /\ OwnerInv /\ StoreInv /\ DownInv

---------------------------------------------------------------------------

USE OpsAssumption, NoneAssumption, TargetAssumption, StagesAssumption

\* A new service has no record and owes no job anything.
LEMMA InitIInv == Init => IInv
<1> SUFFICES ASSUME Init PROVE IInv
  OBVIOUS
<1>1. TypeOK
  <2>1. rec \in [RecIds -> Row \cup {NoRow}] /\ db \in [Pdfs -> Row \cup {NoRow}]
    BY DEF Init
  <2>2. next \in [Pdfs -> 0 .. Stages] /\ at \in [Ops -> 0 .. Stages + 1]
    BY StagesAssumption DEF Init
  <2>3. /\ jobs \in [Pdfs -> RecIds \cup {None}] /\ job \in [Ops -> RecIds \cup {None}]
        /\ pc \in [Ops -> {"idle", "over"} \cup InFlight]
    BY DEF Init
  <2>4. upload \in [Pdfs -> BOOLEAN] /\ force \in [Ops -> BOOLEAN] /\ up \in BOOLEAN
    BY DEF Init
  <2> QED BY <2>1, <2>2, <2>3, <2>4 DEF TypeOK
<1>2. \A o \in Ops: pc[o] = "idle"
  BY DEF Init
<1>3. RunRecordInv /\ OwnerInv /\ DownInv
  BY <1>2 DEF RunRecordInv, OwnerInv, DownInv, RunSteps, InTry, Owning
<1>4. StoreInv
  BY DEF Init, StoreInv
<1> QED BY <1>1, <1>3, <1>4 DEF IInv

\* What init() makes of a row: the row of an ended job, or still no row.
LEMMA InterruptedRow ==
  /\ \A row \in Row: Interrupted(row) \in Row /\ Interrupted(row).status \notin Active
  /\ Interrupted(NoRow) = NoRow
  /\ NoRow \notin Row /\ NoRow.status \notin Active
<1>1. ASSUME NEW row \in Row
      PROVE  Interrupted(row) \in Row /\ Interrupted(row).status \notin Active
  <2>1. CASE row.status \in Active
    BY <2>1 DEF Interrupted, Row, Active, Terminal
  <2>2. CASE row.status \notin Active
    BY <2>2 DEF Interrupted
  <2> QED BY <2>1, <2>2
<1>2. Interrupted(NoRow) = NoRow /\ NoRow \notin Row /\ NoRow.status \notin Active
  BY DEF Interrupted, Row, NoRow, Active, Terminal
<1> QED BY <1>1, <1>2

\* The end of the process, whatever uploads it unlinks, leaves nothing in flight and
\* nothing in memory.
LEMMA StopIInv ==
  ASSUME IInv, NEW S, Stop(S)
  PROVE  IInv'
<1>1. TypeOK'
  BY DEF IInv, TypeOK, Stop, RecIds
<1>2. \A o \in Ops: pc'[o] \in {"idle", "over"}
  BY DEF IInv, TypeOK, Stop
<1>3. RunRecordInv' /\ OwnerInv' /\ DownInv'
  BY <1>2 DEF RunRecordInv, OwnerInv, DownInv, RunSteps, InTry, Owning
<1>4. StoreInv'
  BY DEF StoreInv, Stop
<1> QED BY <1>1, <1>3, <1>4 DEF IInv

\* A boot finds nothing in flight and loads only ended records.
LEMMA BootIInv ==
  ASSUME IInv, Boot
  PROVE  IInv'
<1>1. \A p \in Pdfs: Interrupted(db[p]) \in Row \cup {NoRow}
                     /\ Interrupted(db[p]).status \notin Active
                     /\ (db[p] # NoRow => Interrupted(db[p]) \in Row)
  <2> SUFFICES ASSUME NEW p \in Pdfs
               PROVE  /\ Interrupted(db[p]) \in Row \cup {NoRow}
                      /\ Interrupted(db[p]).status \notin Active
                      /\ db[p] # NoRow => Interrupted(db[p]) \in Row
    OBVIOUS
  <2>1. db[p] \in Row \cup {NoRow}
    BY DEF IInv, TypeOK
  <2> QED BY <2>1, InterruptedRow
<1>2. TypeOK'
  BY <1>1 DEF IInv, TypeOK, Boot, RecIds, NoRow
<1>3. \A o \in Ops: pc'[o] \in {"idle", "over"}
  BY DEF IInv, DownInv, Boot
<1>4. RunRecordInv' /\ OwnerInv' /\ DownInv'
  BY <1>3 DEF RunRecordInv, OwnerInv, DownInv, RunSteps, InTry, Owning
<1>5. StoreInv'
  BY <1>1, <1>3 DEF IInv, TypeOK, StoreInv, Boot, RecIds, Owning
<1> QED BY <1>2, <1>4, <1>5 DEF IInv

\* One step of a request keeps the invariant.
LEMMA RequestIInv ==
  ASSUME IInv, NEW o \in Ops, Request(o)
  PROVE  IInv'
<1> USE DEF IInv, Goto, Doc, RecIds
<1>t. TypeOK /\ Target[o] \in Pdfs /\ up = TRUE /\ up' = TRUE /\ DownInv'
  BY DEF TypeOK, DownInv, Request, ExtractExisting, ExtractNew, Claim, ExtractForce,
        DeleteRefused, DeleteEnded
<1>1. ASSUME NEW f \in BOOLEAN, ExtractExisting(o, f)
      PROVE  IInv'
  BY <1>1, <1>t DEF ExtractExisting, TypeOK, RunRecordInv, OwnerInv, StoreInv, RunSteps, InTry, Owning
<1>2. ASSUME NEW f \in BOOLEAN, ExtractNew(o, f)
      PROVE  IInv'
  <2> USE <1>2, <1>t DEF ExtractNew, Claim, Unclaimed
  <2>1. Queued \in Row /\ Queued.status = "queued"
    BY DEF Queued, Row, Active
  <2>2. TypeOK'
    BY <2>1 DEF TypeOK, InFlight, PostSteps
  <2>3. RunRecordInv'
    BY DEF TypeOK, RunRecordInv, RunSteps, InTry
  <2>4. OwnerInv'
    BY <2>1 DEF TypeOK, OwnerInv, Owning
  <2>5. StoreInv'
    BY <2>1 DEF TypeOK, StoreInv, Owning
  <2> QED BY <2>2, <2>3, <2>4, <2>5
<1>3. CASE ExtractForce(o)
  BY <1>3, <1>t DEF ExtractForce, TypeOK, RunRecordInv, OwnerInv, StoreInv, RunSteps, InTry, Owning, Removable, Reported, Terminal, InFlight, PostSteps
<1>4. CASE DeleteRefused(o)
  BY <1>4, <1>t DEF DeleteRefused, TypeOK, RunRecordInv, OwnerInv, StoreInv, RunSteps, InTry, Owning
<1>5. CASE DeleteEnded(o)
  BY <1>5, <1>t DEF DeleteEnded, TypeOK, RunRecordInv, OwnerInv, StoreInv, RunSteps, InTry, Owning, Removable, Reported, Terminal, InFlight, DeleteSteps
<1> QED BY <1>1, <1>2, <1>3, <1>4, <1>5 DEF Request

\* One step of a run, or of the rest of a request, keeps the invariant.
LEMMA ProgressIInv ==
  ASSUME IInv, NEW o \in Ops, Progress(o)
  PROVE  IInv'
<1> USE DEF IInv, Goto, Doc, RecIds
<1>t. TypeOK /\ Target[o] \in Pdfs /\ up = TRUE /\ up' = TRUE /\ DownInv'
  <2>1. up = TRUE
    BY DEF TypeOK, DownInv, Progress, ExtractReplace, ExtractLostRace, ExtractWrite, ExtractSpawn,
          DeleteUnlink, RunStart, RunResolve, RunSuperstep, RunComplete, RunFail, RunClose,
          CommitRemove, CommitSave, Removing, Saving
  <2>2. up' = up
    BY DEF Progress, ExtractReplace, Claim, ExtractLostRace, ExtractWrite, ExtractSpawn,
          DeleteUnlink, RunStart, RunResolve, RunSuperstep, RunComplete, RunFail, RunClose,
          CommitRemove, CommitSave
  <2> QED BY <2>1, <2>2 DEF DownInv
<1>1. CASE ExtractReplace(o)
  <2> USE <1>1, <1>t DEF ExtractReplace, Claim, Unclaimed
  <2>1. Queued \in Row /\ Queued.status = "queued"
    BY DEF Queued, Row, Active
  <2>2. TypeOK'
    BY <2>1 DEF TypeOK, InFlight, PostSteps
  <2>3. RunRecordInv'
    BY DEF TypeOK, RunRecordInv, RunSteps, InTry
  <2>4. OwnerInv'
    BY <2>1 DEF TypeOK, OwnerInv, Owning
  <2>5. StoreInv'
    BY <2>1 DEF TypeOK, StoreInv, Owning
  <2> QED BY <2>2, <2>3, <2>4, <2>5
<1>2. CASE ExtractLostRace(o)
  BY <1>2, <1>t DEF ExtractLostRace, TypeOK, RunRecordInv, OwnerInv, StoreInv, RunSteps, InTry, Owning
<1>3. CASE ExtractWrite(o)
  BY <1>3, <1>t DEF ExtractWrite, TypeOK, RunRecordInv, OwnerInv, StoreInv, RunSteps, InTry, Owning,
       InFlight, PostSteps
<1>13. CASE ExtractSpawn(o)
  BY <1>13, <1>t DEF ExtractSpawn, TypeOK, RunRecordInv, OwnerInv, StoreInv, RunSteps, InTry, Owning,
       InFlight
<1>4. CASE DeleteUnlink(o)
  BY <1>4, <1>t DEF DeleteUnlink, TypeOK, RunRecordInv, OwnerInv, StoreInv, RunSteps, InTry, Owning
<1>5. CASE RunStart(o)
  <2> USE <1>5, <1>t DEF RunStart
  <2>1. jobs[Doc(o)] = o /\ rec[o] \in Row
    BY DEF OwnerInv, Owning, StoreInv
  <2>2. [rec[o] EXCEPT !.status = "running"] \in Row
    BY <2>1 DEF Row, Active
  <2>3. TypeOK'
    BY <2>1, <2>2 DEF TypeOK, InFlight, RunSteps
  <2>4. RunRecordInv'
    BY <2>1 DEF TypeOK, RunRecordInv, RunSteps, InTry
  <2>5. OwnerInv'
    BY <2>1, <2>2 DEF TypeOK, OwnerInv, Owning, Row
  <2>6. StoreInv'
    BY <2>1, <2>2 DEF TypeOK, StoreInv, Owning
  <2> QED BY <2>3, <2>4, <2>5, <2>6
<1>6. CASE RunResolve(o)
  BY <1>6, <1>t DEF RunResolve, FirstSuperstep, TypeOK, RunRecordInv, OwnerInv, StoreInv, RunSteps, InTry, Owning, InFlight
<1>7. CASE RunSuperstep(o)
  BY <1>7, <1>t DEF RunSuperstep, SuperstepAfter, TypeOK, RunRecordInv, OwnerInv, StoreInv
<1>8. CASE RunComplete(o)
  <2> USE <1>8, <1>t DEF RunComplete
  <2>1. jobs[Doc(o)] = o /\ job[o] = o /\ rec[o] \in Row
    BY DEF OwnerInv, Owning, StoreInv, RunRecordInv, RunSteps, InTry
  <2>2. rec'[o] \in Row /\ rec'[o].status = "completed"
    BY <2>1 DEF TypeOK, Row, Terminal
  <2>3. TypeOK'
    BY <2>1, <2>2 DEF TypeOK, InFlight, RunSteps, InTry
  <2>4. RunRecordInv'
    BY <2>1 DEF TypeOK, RunRecordInv, RunSteps, InTry
  <2>5. OwnerInv'
    BY <2>1, <2>2 DEF TypeOK, OwnerInv, Owning
  <2>6. StoreInv'
    BY <2>1, <2>2 DEF TypeOK, StoreInv, Owning, Active
  <2> QED BY <2>3, <2>4, <2>5, <2>6
<1>9. CASE RunFail(o)
  <2> USE <1>9, <1>t DEF RunFail
  <2>1. jobs[Doc(o)] = o /\ job[o] = o /\ rec[o] \in Row
    BY DEF OwnerInv, Owning, StoreInv, RunRecordInv, RunSteps, InTry
  <2>2. PICK result \in BOOLEAN:
          rec' = [rec EXCEPT ![o] =
                     [status |-> "failed", result |-> result, error |-> "exception"]]
    BY <2>1 DEF TypeOK
  <2>3. rec'[o] \in Row /\ rec'[o].status = "failed"
    BY <2>1, <2>2 DEF TypeOK, Row, Terminal
  <2>4. TypeOK'
    BY <2>1, <2>2, <2>3 DEF TypeOK, InFlight, RunSteps, InTry
  <2>5. RunRecordInv'
    BY <2>1 DEF TypeOK, RunRecordInv, RunSteps, InTry
  <2>6. OwnerInv'
    BY <2>1, <2>2, <2>3 DEF TypeOK, OwnerInv, Owning
  <2>7. StoreInv'
    BY <2>1, <2>2, <2>3 DEF TypeOK, StoreInv, Owning, Active
  <2> QED BY <2>4, <2>5, <2>6, <2>7
<1>10. CASE RunClose(o)
  BY <1>10, <1>t DEF RunClose, TypeOK, RunRecordInv, OwnerInv, StoreInv, RunSteps, InTry, Owning
<1>11. CASE CommitRemove(o)
  BY <1>11, <1>t DEF CommitRemove, AfterCommit, Removing, TypeOK, RunRecordInv, OwnerInv, StoreInv, RunSteps, InTry, Owning, InFlight, PostSteps, DeleteSteps
<1>12. CASE CommitSave(o)
  BY <1>12, <1>t DEF CommitSave, AfterCommit, Saving, SavedRecord, TypeOK, RunRecordInv, OwnerInv, StoreInv, RunSteps, InTry, Owning, InFlight, PostSteps
<1> QED BY <1>1, <1>2, <1>3, <1>4, <1>5, <1>6, <1>7, <1>8, <1>9, <1>10, <1>11, <1>12,
           <1>13 DEF Progress

THEOREM InductiveInvariant == Spec => []IInv
<1>1. IInv /\ [Next]_vars => IInv'
  <2> SUFFICES ASSUME IInv, [Next]_vars
               PROVE  IInv'
    OBVIOUS
  <2>1. CASE UNCHANGED vars
    BY <2>1 DEF vars, IInv, TypeOK, RunRecordInv, OwnerInv, StoreInv, DownInv
  <2>2. CASE Steady
    BY <2>2, RequestIInv, ProgressIInv DEF Steady
  <2>3. CASE Kill \/ Shutdown
    BY <2>3, StopIInv DEF Kill, Shutdown
  <2>4. CASE Boot
    BY <2>4, BootIInv
  <2> QED BY <2>1, <2>2, <2>3, <2>4 DEF Next
<1> QED BY InitIInv, <1>1, PTL DEF Spec

---------------------------------------------------------------------------
(* The properties of the safety run *)

\* Every variable stays in its type, for any number of requests and restarts.
THEOREM TypeCorrect == Spec => []TypeOK
<1>1. IInv => TypeOK
  BY DEF IInv
<1> QED BY <1>1, InductiveInvariant, PTL

\* No document ever has two live runs: two coroutines that owe its job the next
\* status would both be the one record the store holds.
THEOREM NoDuplicateRun == Spec => []OneRunPerDocument
<1>1. IInv => OneRunPerDocument
  BY DEF IInv, OwnerInv, OneRunPerDocument
<1> QED BY <1>1, InductiveInvariant, PTL

\* An active job always has the coroutine that will settle it, writing to the
\* very record a client polls.
THEOREM ActiveJobsAreOwned == Spec => []ActiveJobHasOwner
<1>1. IInv => ActiveJobHasOwner
  BY DEF IInv, OwnerInv, StoreInv, ActiveJobHasOwner, Reported, Active
<1> QED BY <1>1, InductiveInvariant, PTL

---------------------------------------------------------------------------
(* Implementation of JobLifecycle *)

view == [p \in Pdfs |-> Reported(p)]
stored == [p \in Pdfs |-> db[p].status]
\* The requests whose statement about p has not committed.
Waiting(p) == {q \in Ops: Doc(q) = p /\ pc[q] \in Removing \cup Saving}
due == [p \in Pdfs |-> {DueStatus(o): o \in Waiting(p)}]

lifecycleVars == <<view, stored, due, up>>

\* A new service has reported and stored nothing.
LEMMA InitImplements == Init => Lifecycle!Init
  BY DEF Init, Lifecycle!Init, Reported, NoRow, Removing, Saving

\* A step of o that changes no record a statement of another request is about.
OnlyOf(o) ==
    /\ pc' = [pc EXCEPT ![o] = pc'[o]]
    /\ \A q \in Ops \ {o}: pc[q] \in Removing \cup Saving => DueStatus(q)' = DueStatus(q)

\* The record a statement is about is its request's own.
LEMMA OwnStatement ==
  ASSUME IInv, NEW o \in Ops, pc[o] \in Saving
  PROVE  SavedRecord(o) = rec[o]
  BY DEF IInv, RunRecordInv, SavedRecord, Saving, RunSteps, InTry

\* A step of o that touches its own record only.
LEMMA TouchesOwn ==
  ASSUME IInv, NEW o \in Ops, pc' = [pc EXCEPT ![o] = pc'[o]],
         \A r \in RecIds \ {o}: rec'[r] = rec[r],
         \A q \in Ops \ {o}: job'[q] = job[q]
  PROVE  OnlyOf(o)
<1> SUFFICES ASSUME NEW q \in Ops \ {o}, pc[q] \in Removing \cup Saving
             PROVE  DueStatus(q)' = DueStatus(q)
  BY DEF OnlyOf
<1>1. pc'[q] = pc[q]
  BY DEF IInv, TypeOK
<1>2. CASE pc[q] \in Removing
  BY <1>1, <1>2 DEF DueStatus
<1>3. CASE pc[q] \in Saving
  <2>1. pc[q] # "saving" => job[q] = q
    BY <1>3 DEF IInv, RunRecordInv, Saving, RunSteps, InTry
  <2>2. SavedRecord(q) = rec[q] /\ SavedRecord(q)' = rec'[q]
    BY <1>1, <2>1 DEF SavedRecord
  <2> QED BY <1>1, <2>2 DEF DueStatus, RecIds
<1> QED BY <1>2, <1>3

\* What a step of o does to the statements due.
LEMMA DueSame ==
  ASSUME IInv, NEW o \in Ops, OnlyOf(o),
         pc[o] \notin Removing \cup Saving, pc'[o] \notin Removing \cup Saving
  PROVE  due' = due
<1>1. \A p \in Pdfs: Waiting(p)' = Waiting(p)
  BY DEF OnlyOf, Waiting, IInv, TypeOK, Doc
<1>2. \A p \in Pdfs: \A q \in Waiting(p): DueStatus(q)' = DueStatus(q)
  BY DEF OnlyOf, Waiting
<1> QED BY <1>1, <1>2 DEF due

LEMMA DueMore ==
  ASSUME IInv, NEW o \in Ops, OnlyOf(o),
         pc[o] \notin Removing \cup Saving, pc'[o] \in Removing \cup Saving
  PROVE  due' = [due EXCEPT ![Doc(o)] = @ \cup {DueStatus(o)'}]
<1>t. Doc(o) \in Pdfs
  BY DEF Doc
<1>1. \A p \in Pdfs: Waiting(p)' = IF p = Doc(o) THEN Waiting(p) \cup {o} ELSE Waiting(p)
  BY DEF OnlyOf, Waiting, IInv, TypeOK, Doc
<1>2. \A p \in Pdfs: \A q \in Waiting(p): q \in Ops /\ DueStatus(q)' = DueStatus(q)
  BY DEF OnlyOf, Waiting
<1>3. ASSUME NEW p \in Pdfs
      PROVE  {DueStatus(q)': q \in Waiting(p)'}
                = IF p = Doc(o) THEN {DueStatus(q): q \in Waiting(p)} \cup {DueStatus(o)'}
                                ELSE {DueStatus(q): q \in Waiting(p)}
  BY <1>1, <1>2
<1> QED BY <1>t, <1>3 DEF due

LEMMA DueLess ==
  ASSUME IInv, NEW o \in Ops, OnlyOf(o),
         pc[o] \in Removing \cup Saving, pc'[o] \notin Removing \cup Saving
  PROVE  /\ DueStatus(o) \in due[Doc(o)]
         /\ due' \in {due, [due EXCEPT ![Doc(o)] = @ \ {DueStatus(o)}]}
<1>t. Doc(o) \in Pdfs /\ o \in Waiting(Doc(o))
  BY DEF Doc, Waiting
<1>1. \A p \in Pdfs: Waiting(p)' = Waiting(p) \ {o}
  BY DEF OnlyOf, Waiting, IInv, TypeOK, Doc
<1>2. \A p \in Pdfs: \A q \in Waiting(p) \ {o}: DueStatus(q)' = DueStatus(q)
  BY DEF OnlyOf, Waiting
<1>3. \A p \in Pdfs: due'[p] = {DueStatus(q): q \in Waiting(p) \ {o}}
  BY <1>1, <1>2 DEF due
<1>4. \A p \in Pdfs \ {Doc(o)}: due'[p] = due[p]
  <2>1. \A p \in Pdfs \ {Doc(o)}: o \notin Waiting(p)
    BY DEF Waiting
  <2>2. \A p \in Pdfs \ {Doc(o)}: Waiting(p) \ {o} = Waiting(p)
    BY <2>1
  <2> QED BY <1>3, <2>2 DEF due
<1>5. due'[Doc(o)] \in {due[Doc(o)], due[Doc(o)] \ {DueStatus(o)}}
  <2>1. CASE \E q \in Waiting(Doc(o)) \ {o}: DueStatus(q) = DueStatus(o)
    BY <1>t, <1>3, <2>1 DEF due
  <2>2. CASE ~ \E q \in Waiting(Doc(o)) \ {o}: DueStatus(q) = DueStatus(o)
    <3> DEFINE D == {DueStatus(q): q \in Waiting(Doc(o))}
               E == {DueStatus(q): q \in Waiting(Doc(o)) \ {o}}
    <3>1. E = D \ {DueStatus(o)}
      BY <1>t, <2>2
    <3>2. due[Doc(o)] = D /\ due'[Doc(o)] = E
      BY <1>t, <1>3 DEF due
    <3> QED BY <3>1, <3>2
  <2> QED BY <2>1, <2>2
<1>6. due = [p \in Pdfs |-> due[p]] /\ due' = [p \in Pdfs |-> due'[p]]
  BY DEF due
<1> QED BY <1>t, <1>4, <1>5, <1>6 DEF due

\* A step of o that shows the job of its document in status st, and issues the
\* statement that says so.
LEMMA Becomes ==
  ASSUME IInv, NEW o \in Ops, OnlyOf(o), up = TRUE, up' = TRUE, db' = db,
         pc[o] \notin Removing \cup Saving, pc'[o] \in Removing \cup Saving,
         NEW st, DueStatus(o)' = st, Reported(Doc(o))' = st,
         \A p \in Pdfs \ {Doc(o)}: Reported(p)' = Reported(p)
  PROVE  Lifecycle!Become(Doc(o), st)
<1>1. due' = [due EXCEPT ![Doc(o)] = @ \cup {st}]
  BY DueMore
<1>2. view' = [view EXCEPT ![Doc(o)] = st]
  BY DEF view
<1>3. stored' = stored
  BY DEF stored
<1> QED BY <1>1, <1>2, <1>3 DEF Lifecycle!Become, view, stored, due, Waiting

\* A step of o that neither shows anything nor issues a statement.
LEMMA Unseen ==
  ASSUME IInv, NEW o \in Ops, up' = up, db' = db, rec' = rec, job' = job, jobs' = jobs,
         pc' = [pc EXCEPT ![o] = pc'[o]],
         pc[o] \notin Removing \cup Saving, pc'[o] \notin Removing \cup Saving
  PROVE  UNCHANGED lifecycleVars
<1>1. OnlyOf(o)
  BY TouchesOwn
<1>2. due' = due
  BY <1>1, DueSame
<1> QED BY <1>2 DEF lifecycleVars, view, stored, Reported

\* The end of the process: nothing is reported or due, and the table is as it was.
LEMMA StopImplements ==
  ASSUME IInv, NEW S, Stop(S)
  PROVE  Lifecycle!Crash
<1>1. \A o \in Ops: pc'[o] \in {"idle", "over"}
  BY DEF IInv, TypeOK, Stop
<1>2. view' = [p \in Pdfs |-> "absent"] /\ stored' = stored
  BY DEF view, stored, Stop, Reported
<1>3. \A p \in Pdfs: Waiting(p)' = {}
  BY <1>1 DEF Waiting, Removing, Saving
<1>4. due' = [p \in Pdfs |-> {}]
  BY <1>3 DEF due
<1> QED BY <1>2, <1>4 DEF Lifecycle!Crash, view, stored, due, Waiting, Stop

\* A boot: what is reported is what was stored, with the active jobs failed.
LEMMA BootImplements ==
  ASSUME IInv, Boot
  PROVE  Lifecycle!Boot
<1>1. \A p \in Pdfs: db[p] \in Row \cup {NoRow}
  BY DEF IInv, TypeOK
<1>2. \A p \in Pdfs: Interrupted(db[p]).status = Lifecycle!Settled(db[p].status)
  BY <1>1 DEF Interrupted, Lifecycle!Settled, Lifecycle!Active, Active, Row, NoRow
<1>3. stored' = [p \in Pdfs |-> Lifecycle!Settled(stored[p])]
  BY <1>2 DEF stored, Boot
<1>4. ASSUME NEW p \in Pdfs
      PROVE  Reported(p)' = db'[p].status
  <2>1. CASE db[p] = NoRow
    BY <2>1, InterruptedRow DEF Reported, Boot, NoRow
  <2>2. CASE db[p] # NoRow
    BY <2>2, NoneAssumption DEF Reported, Boot, RecIds
  <2> QED BY <2>1, <2>2
<1>5. view' = stored'
  BY <1>4 DEF view, stored
<1>6. \A p \in Pdfs: Waiting(p) = {} /\ Waiting(p)' = {}
  BY DEF IInv, DownInv, Boot, Waiting, Removing, Saving
<1>7. due' = due
  BY <1>6 DEF due
<1> QED BY <1>3, <1>5, <1>7 DEF Lifecycle!Boot, view, stored, due, Waiting, Boot

\* A request is a Submit, a Remove, or nothing.
LEMMA RequestImplements ==
  ASSUME IInv, NEW o \in Ops, Request(o)
  PROVE  Lifecycle!Next \/ UNCHANGED lifecycleVars
<1>t. /\ TypeOK /\ StoreInv /\ Doc(o) \in Pdfs
      /\ up = TRUE /\ up' = TRUE /\ db' = db /\ pc[o] = "idle"
      /\ pc' = [pc EXCEPT ![o] = pc'[o]]
      /\ pc[o] \notin Removing \cup Saving
  BY DEF IInv, TypeOK, Doc, Request, ExtractExisting, ExtractNew, Claim, ExtractForce, DeleteRefused,
         DeleteEnded, Goto, Removing, Saving
<1>1. ASSUME NEW f \in BOOLEAN, ExtractExisting(o, f)
      PROVE  UNCHANGED lifecycleVars
  <2>1. pc'[o] \notin Removing \cup Saving
    BY <1>1, <1>t DEF ExtractExisting, Goto, TypeOK, Removing, Saving
  <2> QED BY <1>1, <1>t, <2>1, Unseen DEF ExtractExisting
<1>2. ASSUME NEW f \in BOOLEAN, ExtractNew(o, f)
      PROVE  Lifecycle!Submit(Doc(o))
  <2>1. Reported(Doc(o)) = "absent" /\ Reported(Doc(o))' = "queued"
    BY <1>2, <1>t DEF ExtractNew, Claim, Unclaimed, Reported, TypeOK, RecIds, Queued
  <2>2. \A p \in Pdfs \ {Doc(o)}: Reported(p)' = Reported(p)
    BY <1>2, <1>t DEF ExtractNew, Claim, Reported, TypeOK, StoreInv, RecIds, Owning
  <2>3. OnlyOf(o)
    BY <1>2, <1>t, TouchesOwn DEF ExtractNew, Claim, TypeOK
  <2>4. pc'[o] \in Removing \cup Saving /\ DueStatus(o)' = "queued"
    BY <1>2, <1>t DEF ExtractNew, Claim, Goto, TypeOK, DueStatus, SavedRecord, Removing, Saving, RecIds, Queued
  <2>5. Lifecycle!Become(Doc(o), "queued")
    BY <1>t, <2>1, <2>2, <2>3, <2>4, Becomes
  <2> QED BY <2>1, <2>5, <1>t DEF Lifecycle!Submit
<1>3. CASE ExtractForce(o) \/ DeleteEnded(o)
  <2>1. Reported(Doc(o)) \in Terminal /\ Reported(Doc(o))' = "absent"
    BY <1>3, <1>t DEF ExtractForce, DeleteEnded, Removable, Reported, TypeOK
  <2>2. \A p \in Pdfs \ {Doc(o)}: Reported(p)' = Reported(p)
    BY <1>3, <1>t DEF ExtractForce, DeleteEnded, Reported, TypeOK
  <2>3. OnlyOf(o)
    BY <1>3, <1>t, TouchesOwn DEF ExtractForce, DeleteEnded
  <2>4. pc'[o] \in Removing \cup Saving /\ DueStatus(o)' = "absent"
    BY <1>3, <1>t DEF ExtractForce, DeleteEnded, Goto, TypeOK, DueStatus, Removing
  <2>5. Lifecycle!Become(Doc(o), "absent")
    BY <1>t, <2>1, <2>2, <2>3, <2>4, Becomes
  <2>6. Lifecycle!Remove(Doc(o))
    BY <2>1, <2>5, <1>t DEF Lifecycle!Remove, Lifecycle!Terminal, Terminal
  <2> QED BY <2>6, <1>t DEF Lifecycle!Next
<1>4. CASE DeleteRefused(o)
  <2>1. pc'[o] \notin Removing \cup Saving
    BY <1>4, <1>t DEF DeleteRefused, Goto, TypeOK, Removing, Saving
  <2> QED BY <1>4, <1>t, <2>1, Unseen DEF DeleteRefused
<1> QED BY <1>1, <1>2, <1>3, <1>4, <1>t DEF Request, Lifecycle!Next

\* A run shows a client a Start and then an End, a statement that commits is a
\* Persist, and the other steps are nothing.
LEMMA ProgressImplements ==
  ASSUME IInv, NEW o \in Ops, Progress(o)
  PROVE  Lifecycle!Next \/ UNCHANGED lifecycleVars
<1>t. /\ TypeOK /\ StoreInv /\ OwnerInv /\ RunRecordInv /\ Doc(o) \in Pdfs /\ o \in RecIds
      /\ up = TRUE /\ up' = TRUE
      /\ pc' = [pc EXCEPT ![o] = pc'[o]]
  <2>1. up' = up /\ pc[o] \notin {"idle", "over"}
    BY DEF Progress, ExtractReplace, Claim, ExtractLostRace, ExtractWrite, ExtractSpawn, DeleteUnlink,
          RunStart, RunResolve, RunSuperstep, RunComplete, RunFail, RunClose, CommitRemove, CommitSave,
          Removing, Saving
  <2>2. pc' = [pc EXCEPT ![o] = pc'[o]]
    BY DEF IInv, TypeOK, Progress, ExtractReplace, Claim, ExtractLostRace, ExtractWrite, ExtractSpawn,
          DeleteUnlink, RunStart, RunResolve, RunSuperstep, RunComplete, RunFail, RunClose, CommitRemove,
          CommitSave, Goto
  <2> QED BY <2>1, <2>2 DEF IInv, DownInv, TypeOK, Doc, RecIds
<1>1. CASE \/ ExtractLostRace(o) \/ ExtractWrite(o) \/ ExtractSpawn(o) \/ DeleteUnlink(o)
           \/ RunResolve(o) \/ RunSuperstep(o) \/ RunClose(o)
  <2>1. /\ db' = db /\ rec' = rec /\ job' = job /\ jobs' = jobs
        /\ pc[o] \notin Removing \cup Saving /\ pc'[o] \notin Removing \cup Saving
    BY <1>1, <1>t DEF ExtractLostRace, ExtractWrite, ExtractSpawn, DeleteUnlink, RunResolve,
          RunSuperstep, RunClose, Goto, TypeOK, Removing, Saving
  <2> QED BY <1>t, <2>1, Unseen
<1>2. CASE ExtractReplace(o)
  <2>1. Reported(Doc(o)) = "absent" /\ Reported(Doc(o))' = "queued"
    BY <1>2, <1>t DEF ExtractReplace, Claim, Unclaimed, Reported, TypeOK, RecIds, Queued
  <2>2. \A p \in Pdfs \ {Doc(o)}: Reported(p)' = Reported(p)
    BY <1>2, <1>t DEF ExtractReplace, Claim, Reported, TypeOK, StoreInv, RecIds, Owning
  <2>3. OnlyOf(o)
    BY <1>2, <1>t, TouchesOwn DEF ExtractReplace, Claim, TypeOK
  <2>4. /\ pc[o] \notin Removing \cup Saving /\ pc'[o] \in Removing \cup Saving
        /\ DueStatus(o)' = "queued" /\ db' = db
    BY <1>2, <1>t DEF ExtractReplace, Claim, Goto, TypeOK, DueStatus, SavedRecord, Removing, Saving, Queued
  <2>5. Lifecycle!Become(Doc(o), "queued")
    BY <1>t, <2>1, <2>2, <2>3, <2>4, Becomes
  <2> QED BY <2>1, <2>5, <1>t DEF Lifecycle!Submit, Lifecycle!Next
<1>3. CASE RunStart(o)
  <2>1. jobs[Doc(o)] = o /\ rec[o] \in Row /\ rec[o].status = "queued"
    BY <1>3, <1>t DEF RunStart, OwnerInv, Owning, StoreInv
  <2>2. rec'[o].status = "running" /\ job'[o] = o /\ pc'[o] = "starting"
    BY <1>3, <2>1, <1>t DEF RunStart, TypeOK, RecIds, Row, Goto
  <2>3. Reported(Doc(o)) = "queued" /\ Reported(Doc(o))' = "running"
    BY <1>3, <1>t, <2>1, <2>2, NoneAssumption DEF RunStart, Reported, TypeOK
  <2>4. \A p \in Pdfs \ {Doc(o)}: Reported(p)' = Reported(p)
    BY <1>3, <1>t, <2>1 DEF RunStart, Reported, TypeOK, StoreInv, RecIds
  <2>5. OnlyOf(o)
    BY <1>3, <1>t, <2>1, TouchesOwn DEF RunStart, TypeOK
  <2>6. /\ pc[o] \notin Removing \cup Saving /\ pc'[o] \in Removing \cup Saving
        /\ DueStatus(o)' = "running" /\ db' = db
    BY <1>3, <2>2 DEF RunStart, DueStatus, SavedRecord, Removing, Saving
  <2>7. Lifecycle!Become(Doc(o), "running")
    BY <1>t, <2>3, <2>4, <2>5, <2>6, Becomes
  <2> QED BY <2>3, <2>7, <1>t DEF Lifecycle!Start, Lifecycle!Next
<1>4. CASE RunComplete(o) \/ RunFail(o)
  <2>1. jobs[Doc(o)] = o /\ job[o] = o /\ rec[o] \in Row /\ rec[o].status = "running"
    BY <1>4, <1>t DEF RunComplete, RunFail, OwnerInv, Owning, StoreInv, RunRecordInv, RunSteps, InTry
  <2>2. PICK st \in Terminal:
          /\ rec'[o].status = st /\ pc'[o] \in {"completing", "failing"}
          /\ \A r \in RecIds \ {o}: rec'[r] = rec[r]
    <3>1. CASE RunComplete(o)
      BY <3>1, <2>1, <1>t DEF RunComplete, TypeOK, Row, Terminal, Goto
    <3>2. CASE RunFail(o)
      BY <3>2, <2>1, <1>t DEF RunFail, TypeOK, Terminal, Goto
    <3> QED BY <1>4, <3>1, <3>2
  <2>3. /\ jobs' = jobs /\ job' = job /\ db' = db
        /\ pc[o] \notin Removing \cup Saving /\ pc'[o] \in Removing \cup Saving
    BY <1>4, <1>t, <2>1, <2>2 DEF RunComplete, RunFail, TypeOK, Removing, Saving
  <2>4. Reported(Doc(o)) = "running" /\ Reported(Doc(o))' = st
    BY <1>t, <2>1, <2>2, <2>3, NoneAssumption DEF Reported
  <2>5. \A p \in Pdfs \ {Doc(o)}: Reported(p)' = Reported(p)
    BY <1>t, <2>1, <2>2, <2>3 DEF Reported, TypeOK, StoreInv
  <2>6. OnlyOf(o)
    BY <1>t, <2>2, <2>3, TouchesOwn
  <2>7. DueStatus(o)' = st
    BY <2>1, <2>2, <2>3 DEF DueStatus, SavedRecord, Removing
  <2>8. Lifecycle!Become(Doc(o), st)
    BY <1>t, <2>3, <2>4, <2>5, <2>6, <2>7, Becomes
  <2>9. Lifecycle!End(Doc(o))
    BY <2>2, <2>4, <2>8, <1>t DEF Lifecycle!End, Lifecycle!Terminal, Terminal
  <2> QED BY <2>9, <1>t DEF Lifecycle!Next
<1>5. CASE CommitRemove(o) \/ CommitSave(o)
  <2>1. /\ rec' = rec /\ job' = job /\ jobs' = jobs
        /\ pc[o] \in Removing \cup Saving /\ pc'[o] \notin Removing \cup Saving
    BY <1>5, <1>t DEF CommitRemove, CommitSave, Goto, AfterCommit, TypeOK, Removing, Saving
  <2>2. OnlyOf(o)
    BY <1>t, <2>1, TouchesOwn
  <2>3. /\ DueStatus(o) \in due[Doc(o)]
        /\ due' \in {due, [due EXCEPT ![Doc(o)] = @ \ {DueStatus(o)}]}
    BY <2>1, <2>2, DueLess
  <2>4. \E row: db' = [db EXCEPT ![Doc(o)] = row] /\ row.status = DueStatus(o)
    <3>1. CASE CommitRemove(o)
      <4>1. db' = [db EXCEPT ![Doc(o)] = NoRow] /\ DueStatus(o) = "absent"
        BY <3>1 DEF CommitRemove, DueStatus
      <4>2. NoRow.status = "absent"
        BY DEF NoRow
      <4> QED BY <4>1, <4>2
    <3>2. CASE CommitSave(o)
      <4>1. db' = [db EXCEPT ![Doc(o)] = SavedRecord(o)] /\ DueStatus(o) = SavedRecord(o).status
        BY <3>2 DEF CommitSave, DueStatus, Removing, Saving
      <4> QED BY <4>1
    <3> QED BY <1>5, <3>1, <3>2
  <2>5. stored' = [stored EXCEPT ![Doc(o)] = DueStatus(o)]
    BY <1>t, <2>4 DEF stored, TypeOK
  <2>6. view' = view
    BY <2>1 DEF view, Reported
  <2>7. Lifecycle!Persist(Doc(o))
    BY <1>t, <2>3, <2>5, <2>6 DEF Lifecycle!Persist, view, stored, due, Waiting
  <2> QED BY <2>7, <1>t DEF Lifecycle!Next
<1> QED BY <1>1, <1>2, <1>3, <1>4, <1>5 DEF Progress

\* What a client sees of any document, and what the table holds of it, is a behaviour
\* of JobLifecycle.
THEOREM Refinement == Spec => ImplementsLifecycle
<1>1. IInv /\ [Next]_vars => [Lifecycle!Next]_lifecycleVars
  <2> SUFFICES ASSUME IInv, [Next]_vars
               PROVE  Lifecycle!Next \/ UNCHANGED lifecycleVars
    OBVIOUS
  <2>1. CASE UNCHANGED vars
    BY <2>1 DEF vars, lifecycleVars, view, stored, due, Waiting, DueStatus, SavedRecord, Reported, Doc
  <2>2. CASE Steady
    BY <2>2, RequestImplements, ProgressImplements DEF Steady
  <2>3. CASE Kill \/ Shutdown
    BY <2>3, StopImplements DEF Kill, Shutdown, Lifecycle!Next
  <2>4. CASE Boot
    BY <2>4, BootImplements DEF Lifecycle!Next
  <2> QED BY <2>1, <2>2, <2>3, <2>4 DEF Next
<1> QED
  BY InitImplements, InductiveInvariant, <1>1, PTL
  DEF Spec, ImplementsLifecycle, Lifecycle!Spec, Lifecycle!vars, lifecycleVars, view, stored, due, Waiting

---------------------------------------------------------------------------
(* The uploads *)

\* Only a kill or a shutdown leaves a file that no run's finally clause will
\* unlink; a request that loses a race or a run that fails never does.
THEOREM UploadsHaveRuns == Spec => OnlyRestartsOrphanUploads
<1>1. TypeOK /\ [Next]_vars
        => [(\E p \in Pdfs: ~Orphan(p) /\ Orphan(p)') => Kill \/ Shutdown]_vars
  <2> SUFFICES ASSUME TypeOK, Steady \/ Boot, NEW p \in Pdfs, Orphan(p)'
               PROVE  Orphan(p)
    BY DEF Next
  <2> USE DEF Orphan
  <2>0. CASE Boot
    BY <2>0 DEF Boot
  <2>1. CASE Steady
   <3>1. PICK o \in Ops: Request(o) \/ Progress(o)
    BY <2>1 DEF Steady
   <3>2. CASE Request(o)
    BY <3>1, <3>2 DEF TypeOK, Request, ExtractExisting, ExtractNew, Claim, ExtractForce,
          DeleteRefused, DeleteEnded, Goto, RunSteps, InTry
   <3>3. CASE Progress(o)
    BY <3>1, <3>3 DEF TypeOK, Progress, ExtractReplace, Claim, ExtractLostRace, ExtractWrite,
          ExtractSpawn, DeleteUnlink, RunStart, RunResolve, RunSuperstep, RunComplete, RunFail,
          RunClose, CommitRemove, CommitSave, AfterCommit, Removing, Saving, Goto, RunSteps, InTry
   <3> QED BY <3>1, <3>2, <3>3
  <2> QED BY <2>0, <2>1
<1> QED BY <1>1, TypeCorrect, PTL DEF Spec, OnlyRestartsOrphanUploads


---------------------------------------------------------------------------
(* The threads of the graph *)

phase == [o \in Ops |-> CASE pc[o] = "streaming" -> "executing"
                          [] pc[o] = "completing" -> "returned"
                          [] OTHER -> "none"]
pending == [p \in Pdfs |-> next[p] # 0]

\* A streaming run is where the checkpoint says: nothing else moves its thread.
ThreadInv ==
    \A o \in Ops: pc[o] = "streaming" =>
        at[o] = IF next[Doc(o)] = 0 THEN Stages + 1 ELSE next[Doc(o)]

\* Holds initially, as no run streams.
LEMMA InitThread == Init => ThreadInv /\ Threads!Init
BY DEF Init, ThreadInv, Threads!Init

\* The phases after a step of one run.
LEMMA PhaseStep ==
    ASSUME TypeOK, NEW o \in Ops, NEW l, pc' = [pc EXCEPT ![o] = l]
    PROVE  /\ l = "streaming" => phase' = [phase EXCEPT ![o] = "executing"]
           /\ l = "completing" => phase' = [phase EXCEPT ![o] = "returned"]
           /\ l \notin {"streaming", "completing"} => phase' = [phase EXCEPT ![o] = "none"]
<1>1. pc'[o] = l /\ \A q \in Ops \ {o}: pc'[q] = pc[q]
  BY DEF TypeOK
<1> QED BY <1>1 DEF phase

\* A step that neither moves the thread nor takes its run into or out of astream(),
\* or past its verdict.
LEMMA ThreadUntouched ==
    ASSUME TypeOK, ThreadInv, NEW o \in Ops, next' = next, at' = at,
           pc' = [pc EXCEPT ![o] = pc'[o]],
           pc[o] \notin {"streaming", "completing"}, pc'[o] \notin {"streaming", "completing"}
    PROVE  ThreadInv' /\ phase' = phase /\ pending' = pending
<1>1. \A q \in Ops: /\ (pc[q] = "streaming") <=> (pc'[q] = "streaming")
                    /\ (pc[q] = "completing") <=> (pc'[q] = "completing")
  BY DEF TypeOK
<1> QED BY <1>1 DEF ThreadInv, phase, pending, Doc

\* The only streaming run of its document.
LEMMA SoleStreamer ==
    ASSUME IInv, NEW o \in Ops, pc[o] \in Owning
    PROVE  \A q \in Ops: q # o /\ Doc(q) = Doc(o) => pc[q] # "streaming"
BY DEF IInv, OwnerInv, Owning

LEMMA ResolveThread ==
    ASSUME IInv, ThreadInv, NEW o \in Ops, RunResolve(o)
    PROVE  ThreadInv' /\ (Threads!Begin(o) \/ Threads!Resume(o))
<1> USE DEF RunResolve, FirstSuperstep, Goto
<1>t. TypeOK /\ Doc(o) \in Pdfs
  BY TargetAssumption DEF IInv, Doc
<1>1. \A q \in Ops: q # o /\ Doc(q) = Doc(o) => pc[q] # "streaming"
  BY SoleStreamer DEF Owning
<1>2. Threads!Free(o)
  BY <1>1 DEF Threads!Free, Doc
<1>3. phase' = [phase EXCEPT ![o] = "executing"]
  BY <1>t, PhaseStep
<1>4. ThreadInv'
  BY <1>t, <1>1, StagesAssumption DEF ThreadInv, TypeOK, Doc
<1>5. CASE force[o] \/ next[Doc(o)] = 0
  <2>0. next' = [next EXCEPT ![Doc(o)] = 1]
    BY <1>5
  <2>1. pending' = [pending EXCEPT ![Doc(o)] = TRUE]
    <3>1. \A p \in Pdfs: (next'[p] # 0) <=> (p = Doc(o) \/ next[p] # 0)
      BY <2>0, <1>t DEF TypeOK
    <3> QED BY <3>1, <1>t DEF pending
  <2> QED BY <1>2, <1>3, <1>4, <2>1 DEF Threads!Begin, phase, pending, Doc
<1>6. CASE ~(force[o] \/ next[Doc(o)] = 0)
  <2>1. pending' = pending /\ pending[Doc(o)]
    BY <1>6, <1>t DEF pending, TypeOK
  <2> QED BY <1>2, <1>3, <1>4, <2>1 DEF Threads!Resume, phase, pending, Doc
<1> QED BY <1>5, <1>6

LEMMA SuperstepThread ==
    ASSUME IInv, ThreadInv, NEW o \in Ops, RunSuperstep(o)
    PROVE  ThreadInv' /\ Threads!Advance(o)
<1> USE DEF RunSuperstep
<1>t. TypeOK /\ Doc(o) \in Pdfs
  BY TargetAssumption DEF IInv, Doc
<1>1. \A q \in Ops: q # o /\ Doc(q) = Doc(o) => pc[q] # "streaming"
  BY SoleStreamer DEF Owning
<1>2. next[Doc(o)] # 0 /\ next[Doc(o)] = at[o]
  BY <1>t, StagesAssumption DEF ThreadInv, TypeOK
<1>3. ThreadInv'
  BY <1>t, <1>1, <1>2, StagesAssumption DEF ThreadInv, TypeOK, SuperstepAfter, Doc
<1>4. pending' = [pending EXCEPT ![Doc(o)] = SuperstepAfter(at[o]) # 0]
  BY <1>t DEF pending, TypeOK
<1>5. phase' = phase /\ phase[o] = "executing" /\ pending[Doc(o)]
  BY <1>t, <1>2 DEF phase, pending
<1> QED BY <1>3, <1>4, <1>5 DEF Threads!Advance, phase, pending, Doc

\* The verdict "completed" is set where astream() has returned, with nothing left
\* pending; "failed" may come at any point.
LEMMA LeaveThread ==
    ASSUME IInv, ThreadInv, NEW o \in Ops, pc[o] = "streaming",
           RunComplete(o) \/ RunFail(o)
    PROVE  ThreadInv' /\ (Threads!Return(o) \/ Threads!Break(o))
<1>t. TypeOK /\ Doc(o) \in Pdfs
  BY TargetAssumption DEF IInv, Doc
<1>1. next' = next /\ at' = at /\ pc' = [pc EXCEPT ![o] = pc'[o]] /\ pc'[o] # "streaming"
  BY <1>t DEF RunComplete, RunFail, Goto, TypeOK
<1>2. ThreadInv' /\ pending' = pending
  BY <1>t, <1>1 DEF ThreadInv, pending, TypeOK, Doc
<1>3. phase[o] = "executing"
  BY DEF phase
<1>4. CASE RunComplete(o)
  <2>1. phase' = [phase EXCEPT ![o] = "returned"]
    BY <1>4, <1>t, PhaseStep DEF RunComplete, Goto
  <2>2. ~pending[Doc(o)]
    <3>1. at[o] = Stages + 1 /\ next[Doc(o)] \in 0 .. Stages
      BY <1>4, <1>t DEF RunComplete, TypeOK
    <3>2. next[Doc(o)] = 0
      BY <3>1, StagesAssumption DEF ThreadInv
    <3> QED BY <1>t, <3>2 DEF pending
  <2> QED BY <1>2, <1>3, <2>1, <2>2 DEF Threads!Return, phase, pending, Doc
<1>5. CASE RunFail(o)
  <2>1. phase' = [phase EXCEPT ![o] = "none"]
    <3>1. pc' = [pc EXCEPT ![o] = "failing"] /\ "failing" \notin {"streaming", "completing"}
      BY <1>5 DEF RunFail, Goto
    <3> QED BY <3>1, <1>t, PhaseStep
  <2> QED BY <1>2, <1>3, <2>1 DEF Threads!Break, phase, pending
<1> QED BY <1>4, <1>5

\* The run that returned is over with its last statement.
LEMMA CloseThread ==
    ASSUME IInv, ThreadInv, NEW o \in Ops, pc[o] = "completing", CommitSave(o)
    PROVE  ThreadInv' /\ Threads!Close(o)
<1>t. TypeOK
  BY DEF IInv
<1>1. next' = next /\ at' = at /\ pc' = [pc EXCEPT ![o] = "closing"]
  BY <1>t DEF CommitSave, Goto, AfterCommit
<1>2. ThreadInv' /\ pending' = pending
  BY <1>t, <1>1 DEF ThreadInv, pending, TypeOK, Doc
<1>3. phase' = [phase EXCEPT ![o] = "none"] /\ phase[o] = "returned"
  <2>1. "closing" \notin {"streaming", "completing"}
    OBVIOUS
  <2>2. phase' = [phase EXCEPT ![o] = "none"]
    BY <1>t, <1>1, <2>1, PhaseStep
  <2>3. phase[o] = "returned"
    BY DEF phase
  <2> QED BY <2>2, <2>3
<1> QED BY <1>2, <1>3 DEF Threads!Close, phase, pending

LEMMA StepThread ==
    ASSUME IInv, ThreadInv, [Next]_vars
    PROVE  ThreadInv' /\ [Threads!Next]_<<phase, pending>>
<1>t. TypeOK /\ \A o \in Ops: Doc(o) \in Pdfs
  BY TargetAssumption DEF IInv, Doc
<1>1. CASE UNCHANGED vars \/ Boot
  BY <1>1 DEF vars, Boot, ThreadInv, phase, pending, Doc
<1>2. CASE Kill \/ Shutdown
  <2>1. (\A o \in Ops: pc'[o] \notin {"streaming", "completing"}) /\ next' = next
    BY <1>2, <1>t DEF Kill, Shutdown, Stop, TypeOK, InFlight, RunSteps, InTry
  <2>2. phase' = [o \in Ops |-> "none"] /\ pending' = pending
    BY <2>1 DEF phase, pending
  <2> QED BY <2>1, <2>2 DEF ThreadInv, Threads!Next, Threads!Crash, phase, pending
<1>3. ASSUME NEW o \in Ops, Request(o)
      PROVE  ThreadInv' /\ [Threads!Next]_<<phase, pending>>
  <2>1. /\ next' = next /\ at' = at /\ pc' = [pc EXCEPT ![o] = pc'[o]]
        /\ pc[o] \notin {"streaming", "completing"} /\ pc'[o] \notin {"streaming", "completing"}
    BY <1>3, <1>t DEF Request, ExtractExisting, ExtractNew, Claim, ExtractForce,
         DeleteRefused, DeleteEnded, Goto, TypeOK
  <2> QED BY <2>1, <1>t, ThreadUntouched
<1>4. ASSUME NEW o \in Ops, Progress(o)
      PROVE  ThreadInv' /\ [Threads!Next]_<<phase, pending>>
  <2>1. CASE RunResolve(o)
    BY <2>1, <1>t, ResolveThread DEF Threads!Next
  <2>2. CASE RunSuperstep(o)
    BY <2>2, <1>t, SuperstepThread DEF Threads!Next
  <2>3. CASE pc[o] = "streaming" /\ (RunComplete(o) \/ RunFail(o))
    BY <2>3, <1>t, LeaveThread DEF Threads!Next
  <2>4. CASE pc[o] = "completing"
    <3>1. CommitSave(o)
      BY <1>4, <2>4 DEF Progress, ExtractReplace, ExtractLostRace, ExtractWrite, ExtractSpawn,
           DeleteUnlink, RunStart, RunResolve, RunSuperstep, RunComplete, RunFail, RunClose,
           CommitRemove, Removing
    <3> QED BY <2>4, <3>1, CloseThread DEF Threads!Next
  <2>5. CASE pc[o] \notin {"streaming", "completing"} /\ ~RunResolve(o)
    <3>1. /\ next' = next /\ at' = at /\ pc' = [pc EXCEPT ![o] = pc'[o]]
          /\ pc'[o] \notin {"streaming", "completing"}
      BY <1>4, <2>5, <1>t DEF Progress, ExtractReplace, Claim, ExtractLostRace, ExtractWrite,
           ExtractSpawn, DeleteUnlink, RunStart, RunSuperstep, RunComplete, RunFail, RunClose,
           CommitRemove, CommitSave, AfterCommit, Removing, Saving, Goto, TypeOK
    <3> QED BY <3>1, <2>5, <1>t, ThreadUntouched
  <2> QED
    BY <1>4, <2>1, <2>2, <2>3, <2>4, <2>5
    DEF Progress, ExtractReplace, Claim, ExtractLostRace, ExtractWrite, ExtractSpawn, DeleteUnlink,
        RunStart, RunClose, CommitRemove, CommitSave, Removing, Saving
<1> QED BY <1>1, <1>2, <1>3, <1>4 DEF Next, Steady

\* The service runs each document's thread as GraphThread demands: never two runs
\* at once, a resumption only of what is pending, and a verdict "completed" only for
\* a run whose astream() returned with nothing pending.
THEOREM ThreadsDriven == Spec => DrivesThreads
<1>1. Spec => []ThreadInv
  BY InitThread, InductiveInvariant, StepThread, PTL DEF Spec
<1>2. Init => Threads!Init
  BY InitThread
<1>3. IInv /\ ThreadInv /\ [Next]_vars => [Threads!Next]_<<phase, pending>>
  BY StepThread
<1> QED
  BY <1>1, <1>2, <1>3, InductiveInvariant, PTL
  DEF Spec, DrivesThreads, Threads!Spec, Threads!vars, phase, pending

=================================================================================

------------------------------ MODULE JobStoreProofs ------------------------------
(***************************************************************************)
(* Theorems about JobService under faults of the job store: a statement or *)
(* a write may raise at any await.  Ownership is lost then (a run may die  *)
(* before it set a status), so the invariant is about the records alone.   *)
(***************************************************************************)
EXTENDS JobService, TLAPS

\* A run past its start has a record to write to.
RunHasRecord ==
    \A o \in Ops: pc[o] \in RunSteps \ {"scheduled"} => job[o] # None

\* No record and no row says "completed" without the result.
Whole(row) == row.status = "completed" => row.result
RecordsWhole ==
    /\ \A r \in RecIds: Whole(rec[r])
    /\ \A p \in Pdfs: Whole(db[p])

FaultInv == TypeOK /\ RunHasRecord /\ RecordsWhole

LEMMA InitFaultInv == Init => FaultInv
<1> SUFFICES ASSUME Init PROVE FaultInv
  OBVIOUS
<1>1. TypeOK
  <2>1. rec \in [RecIds -> Row \cup {NoRow}] /\ db \in [Pdfs -> Row \cup {NoRow}]
    BY DEF Init
  <2>2. next \in [Pdfs -> 0 .. Stages] /\ at \in [Ops -> 0 .. Stages + 1]
    BY StagesAssumption DEF Init
  <2>3. /\ jobs \in [Pdfs -> RecIds \cup {None}] /\ job \in [Ops -> RecIds \cup {None}]
        /\ pc \in [Ops -> {"idle", "over"} \cup InFlight]
    BY DEF Init
  <2>4. upload \in [Pdfs -> BOOLEAN] /\ force \in [Ops -> BOOLEAN] /\ up \in BOOLEAN
    BY DEF Init
  <2> QED BY <2>1, <2>2, <2>3, <2>4 DEF TypeOK
<1> QED BY <1>1 DEF Init, FaultInv, RunHasRecord, RecordsWhole, Whole, NoRow, RunSteps, InTry, RecIds

\* What each assignment of the run or of init() makes of a record.
LEMMA SetRow ==
    ASSUME NEW row \in Row \cup {NoRow}
    PROVE  /\ [row EXCEPT !.status = "running"] \in Row
           /\ Whole([row EXCEPT !.status = "running"])
           /\ [row EXCEPT !.status = "completed", !.result = TRUE] \in Row
           /\ Whole([row EXCEPT !.status = "completed", !.result = TRUE])
           /\ [row EXCEPT !.status = "failed", !.error = "exception"] \in Row
           /\ Whole([row EXCEPT !.status = "failed", !.error = "exception"])
           /\ [row EXCEPT !.status = "failed", !.error = "restart"] \in Row
           /\ Whole([row EXCEPT !.status = "failed", !.error = "restart"])
<1>1. CASE row \in Row
  <2>1. [row EXCEPT !.status = "running"] \in Row /\ Whole([row EXCEPT !.status = "running"])
    BY <1>1 DEF Row, Whole, Active, Terminal
  <2>2. /\ [row EXCEPT !.status = "completed", !.result = TRUE] \in Row
        /\ Whole([row EXCEPT !.status = "completed", !.result = TRUE])
    BY <1>1 DEF Row, Whole, Active, Terminal
  <2>3. /\ [row EXCEPT !.status = "failed", !.error = "exception"] \in Row
        /\ Whole([row EXCEPT !.status = "failed", !.error = "exception"])
    BY <1>1 DEF Row, Whole, Active, Terminal
  <2>4. /\ [row EXCEPT !.status = "failed", !.error = "restart"] \in Row
        /\ Whole([row EXCEPT !.status = "failed", !.error = "restart"])
    BY <1>1 DEF Row, Whole, Active, Terminal
  <2> QED BY <2>1, <2>2, <2>3, <2>4
<1>2. CASE row = NoRow
  BY <1>2 DEF NoRow, Row, Whole, Active, Terminal
<1> QED BY <1>1, <1>2

LEMMA RequestFaultInv ==
    ASSUME FaultInv, NEW o \in Ops, Request(o)
    PROVE  FaultInv'
<1>t. TypeOK /\ Doc(o) \in Pdfs /\ o \in RecIds /\ Queued \in Row /\ Whole(Queued)
  BY TargetAssumption DEF FaultInv, Doc, RecIds, Queued, Row, Whole, Active, Terminal
<1>1. CASE \E f \in BOOLEAN: ExtractExisting(o, f)
  BY <1>1, <1>t DEF ExtractExisting, FaultInv, TypeOK, RunHasRecord, RecordsWhole, Goto,
       RunSteps, InTry
<1>2. CASE \E f \in BOOLEAN: ExtractNew(o, f)
  BY <1>2, <1>t DEF ExtractNew, Claim, FaultInv, TypeOK, RunHasRecord, RecordsWhole, Goto,
       InFlight, PostSteps, RunSteps, InTry
<1>3. CASE ExtractForce(o)
  BY <1>3, <1>t DEF ExtractForce, FaultInv, TypeOK, RunHasRecord, RecordsWhole, Goto,
       InFlight, PostSteps, RunSteps, InTry
<1>4. CASE DeleteRefused(o)
  BY <1>4, <1>t DEF DeleteRefused, FaultInv, TypeOK, RunHasRecord, RecordsWhole, Goto,
       RunSteps, InTry
<1>5. CASE DeleteEnded(o)
  BY <1>5, <1>t DEF DeleteEnded, FaultInv, TypeOK, RunHasRecord, RecordsWhole, Goto,
       InFlight, DeleteSteps, RunSteps, InTry
<1> QED BY <1>1, <1>2, <1>3, <1>4, <1>5 DEF Request

\* A step that writes one record r, keeping it whole, and a run's pc.
LEMMA OneRecord ==
    ASSUME FaultInv, NEW o \in Ops, NEW r \in RecIds, NEW row \in Row, Whole(row),
           rec' = [rec EXCEPT ![r] = row], jobs' \in [Pdfs -> RecIds \cup {None}],
           job' = [job EXCEPT ![o] = r], NEW l \in RunSteps, Goto(o, l),
           UNCHANGED <<db, upload, next, force, at, up>>
    PROVE  FaultInv'
<1>1. TypeOK'
  BY DEF FaultInv, TypeOK, Goto, InFlight
<1>2. RunHasRecord'
  BY NoneAssumption DEF FaultInv, TypeOK, RunHasRecord, Goto, RecIds
<1>3. RecordsWhole'
  BY DEF FaultInv, TypeOK, RecordsWhole
<1> QED BY <1>1, <1>2, <1>3 DEF FaultInv

LEMMA ProgressFaultInv ==
    ASSUME FaultInv, NEW o \in Ops, Progress(o)
    PROVE  FaultInv'
<1>t. /\ TypeOK /\ Doc(o) \in Pdfs /\ o \in RecIds /\ Queued \in Row /\ Whole(Queued)
      /\ pc[o] \in RunSteps \ {"scheduled"} => job[o] \in RecIds
  BY TargetAssumption
  DEF FaultInv, TypeOK, RunHasRecord, Doc, RecIds, Queued, Row, Whole, Active, Terminal
<1>1. CASE ExtractReplace(o)
  BY <1>1, <1>t DEF ExtractReplace, Claim, FaultInv, TypeOK, RunHasRecord, RecordsWhole, Goto,
       InFlight, PostSteps, RunSteps, InTry
<1>2. CASE ExtractLostRace(o) \/ ExtractWrite(o) \/ DeleteUnlink(o) \/ RunClose(o)
  BY <1>2, <1>t DEF ExtractLostRace, ExtractWrite, DeleteUnlink, RunClose, FaultInv, TypeOK,
       RunHasRecord, RecordsWhole, Goto, InFlight, PostSteps, RunSteps, InTry
<1>10. CASE ExtractSpawn(o)
  BY <1>10, <1>t DEF ExtractSpawn, FaultInv, TypeOK, RunHasRecord, RecordsWhole, Goto, InFlight,
       RunSteps, InTry
<1>3. CASE RunStart(o)
  <2>1. PICK r \in RecIds: r = jobs[Doc(o)] /\ rec[r] \in Row \cup {NoRow}
    BY <1>3, <1>t DEF RunStart, TypeOK
  <2>2. rec' = [rec EXCEPT ![r] = [rec[r] EXCEPT !.status = "running"]]
    BY <1>3, <2>1 DEF RunStart
  <2> QED BY <1>3, <1>t, <2>1, <2>2, SetRow, OneRecord DEF RunStart, RunSteps, TypeOK
<1>4. CASE RunResolve(o)
  BY <1>4, <1>t, StagesAssumption DEF RunResolve, FirstSuperstep, FaultInv, TypeOK, RunHasRecord, RecordsWhole,
       Goto, InFlight, RunSteps, InTry
<1>5. CASE RunSuperstep(o)
  BY <1>5, <1>t, StagesAssumption DEF RunSuperstep, SuperstepAfter, FaultInv, TypeOK,
       RunHasRecord, RecordsWhole
<1>6. CASE RunComplete(o)
  <2>1. job[o] \in RecIds /\ rec[job[o]] \in Row \cup {NoRow}
    BY <1>6, <1>t DEF RunComplete, TypeOK, RunSteps, InTry
  <2>2. rec' = [rec EXCEPT ![job[o]] =
                   [rec[job[o]] EXCEPT !.status = "completed", !.result = TRUE]]
    BY <1>6, <2>1, <1>t DEF RunComplete, TypeOK
  <2>3. jobs' \in [Pdfs -> RecIds \cup {None}] /\ job' = [job EXCEPT ![o] = job[o]]
    BY <1>6, <2>1, <1>t DEF RunComplete, TypeOK
  <2> QED BY <1>6, <1>t, <2>1, <2>2, <2>3, SetRow, OneRecord DEF RunComplete, RunSteps, InTry
<1>7. CASE RunFail(o)
  <2>1. job[o] \in RecIds
    BY <1>7, <1>t DEF RunFail, RunSteps, InTry
  <2>2. PICK row \in Row: rec' = [rec EXCEPT ![job[o]] = row] /\ Whole(row)
    <3>1. PICK result \in BOOLEAN:
             rec' = [rec EXCEPT ![job[o]] =
                        [status |-> "failed", result |-> result, error |-> "exception"]]
      BY <1>7 DEF RunFail
    <3>2. [status |-> "failed", result |-> result, error |-> "exception"] \in Row
      BY DEF Row, Terminal
    <3> QED BY <3>1, <3>2 DEF Whole
  <2>3. jobs' \in [Pdfs -> RecIds \cup {None}] /\ job' = [job EXCEPT ![o] = job[o]]
    BY <1>7, <2>1, <1>t DEF RunFail, TypeOK
  <2> QED BY <1>7, <1>t, <2>1, <2>2, <2>3, OneRecord DEF RunFail, RunSteps, InTry
<1>8. CASE CommitRemove(o)
  BY <1>8, <1>t DEF CommitRemove, AfterCommit, Removing, FaultInv, TypeOK, RunHasRecord, RecordsWhole,
       Goto, InFlight, PostSteps, DeleteSteps, RunSteps, InTry, Whole, NoRow
<1>9. CASE CommitSave(o)
  BY <1>9, <1>t DEF CommitSave, AfterCommit, Saving, SavedRecord, FaultInv, TypeOK, RunHasRecord, RecordsWhole,
       Goto, InFlight, PostSteps, RunSteps, InTry, Whole
<1> QED BY <1>1, <1>2, <1>3, <1>4, <1>5, <1>6, <1>7, <1>8, <1>9, <1>10 DEF Progress

LEMMA StopFaultInv ==
    ASSUME FaultInv, NEW unlinked, Stop(unlinked)
    PROVE  FaultInv'
<1>1. TypeOK'
  BY DEF FaultInv, TypeOK, Stop, RecIds, InFlight, RunSteps, InTry
<1>2. RunHasRecord'
  BY DEF FaultInv, TypeOK, RunHasRecord, Stop, InFlight, RunSteps, InTry
<1>3. RecordsWhole'
  BY DEF FaultInv, RecordsWhole, Stop, Whole, NoRow
<1> QED BY <1>1, <1>2, <1>3 DEF FaultInv

LEMMA BootFaultInv ==
    ASSUME FaultInv, Boot
    PROVE  FaultInv'
<1>1. \A row \in Row \cup {NoRow}:
        Interrupted(row) \in Row \cup {NoRow} /\ (Whole(row) => Whole(Interrupted(row)))
  BY SetRow DEF Interrupted
<1>2. TypeOK'
  BY <1>1 DEF FaultInv, TypeOK, Boot, RecIds
<1>3. RunHasRecord'
  BY DEF FaultInv, RunHasRecord, Boot
<1>4. RecordsWhole'
  BY <1>1 DEF FaultInv, TypeOK, RecordsWhole, Boot, RecIds, Whole, NoRow
<1> QED BY <1>2, <1>3, <1>4 DEF FaultInv

LEMMA FaultFaultInv ==
    ASSUME FaultInv, NEW o \in Ops, Fault(o)
    PROVE  FaultInv'
<1>t. /\ TypeOK /\ Doc(o) \in Pdfs
      /\ pc[o] \in RunSteps \ {"scheduled"} => job[o] \in RecIds
  BY TargetAssumption DEF FaultInv, TypeOK, RunHasRecord, Doc
<1>1. CASE ExtractFault(o) \/ DeleteFault(o) \/ RunStartFault(o) \/ RunFailFault(o)
  BY <1>1, <1>t DEF ExtractFault, DeleteFault, RunStartFault, RunFailFault, FaultInv, TypeOK,
       RunHasRecord, RecordsWhole, Goto, InFlight, RunSteps, InTry
<1>2. CASE RunCompleteFault(o)
  <2>1. job[o] \in RecIds /\ rec[job[o]] \in Row \cup {NoRow}
    BY <1>2, <1>t DEF RunCompleteFault, TypeOK, RunSteps, InTry
  <2>2. rec' = [rec EXCEPT ![job[o]] =
                   [rec[job[o]] EXCEPT !.status = "failed", !.error = "exception"]]
    BY <1>2, <2>1, <1>t DEF RunCompleteFault, TypeOK
  <2>3. jobs' \in [Pdfs -> RecIds \cup {None}] /\ job' = [job EXCEPT ![o] = job[o]]
    BY <1>2, <2>1, <1>t DEF RunCompleteFault, TypeOK
  <2> QED BY <1>2, <1>t, <2>1, <2>2, <2>3, SetRow, OneRecord DEF RunCompleteFault, RunSteps, InTry
<1> QED BY <1>1, <1>2 DEF Fault

\* A job reported or stored as completed has its result, whatever statement or
\* write raises and wherever the server is restarted.
THEOREM CompletedJobsHaveResults == FaultySpec => []CompletedHasResult
<1>1. FaultInv /\ [FaultyNext]_vars => FaultInv'
  <2> SUFFICES ASSUME FaultInv, [FaultyNext]_vars
               PROVE  FaultInv'
    OBVIOUS
  <2>1. CASE UNCHANGED vars
    BY <2>1 DEF vars, FaultInv, TypeOK, RunHasRecord, RecordsWhole
  <2>2. CASE Steady
    BY <2>2, RequestFaultInv, ProgressFaultInv DEF Steady
  <2>3. CASE Kill \/ Shutdown
    BY <2>3, StopFaultInv DEF Kill, Shutdown
  <2>5. CASE Boot
    BY <2>5, BootFaultInv
  <2>4. CASE \E o \in Ops: Fault(o)
    BY <2>4, FaultFaultInv
  <2> QED BY <2>1, <2>2, <2>3, <2>4, <2>5 DEF FaultyNext, Next
<1>2. FaultInv => CompletedHasResult
  BY DEF FaultInv, TypeOK, RecordsWhole, Whole, CompletedHasResult, Reported
<1> QED BY InitFaultInv, <1>1, <1>2, PTL DEF FaultySpec
=================================================================================

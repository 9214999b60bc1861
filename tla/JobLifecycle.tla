------------------------------ MODULE JobLifecycle ------------------------------
(***************************************************************************)
(* What the extraction service promises a client that polls one document   *)
(* (api.py GET /jobs/{job_id}): a document has no job, or one job that     *)
(* goes queued -> running -> completed | failed, and only a job that has   *)
(* ended can go away while the server is up.                               *)
(*                                                                         *)
(* Each change is also to be written to the table, by a statement that may *)
(* be overtaken by later ones; a crash loses those still due.  After a     *)
(* boot a client sees what the table holds and nothing else, except that a *)
(* job stored as active is reported as failed.                             *)
(***************************************************************************)
CONSTANT Pdfs

VARIABLES
    status,   \* what GET /jobs/{job_id} reports, "absent" being a 404
    stored,   \* the status of the row in the table
    due,      \* the statuses whose statement has not committed yet
    up        \* is the server running?

vars == <<status, stored, due, up>>

Active == {"queued", "running"}
Terminal == {"completed", "failed"}
Status == {"absent"} \cup Active \cup Terminal

\* A job, in memory or in the table, is unknown or has a status of JobRecord.
TypeOK ==
    /\ status \in [Pdfs -> Status]
    /\ stored \in [Pdfs -> Status]
    /\ due \in [Pdfs -> SUBSET Status]
    /\ up \in BOOLEAN

Init ==
    /\ status = [p \in Pdfs |-> "absent"]
    /\ stored = [p \in Pdfs |-> "absent"]
    /\ due = [p \in Pdfs |-> {}]
    /\ up = FALSE

\* The job of p goes to status st, and a statement that says so is issued.
Become(p, st) ==
    /\ up
    /\ status' = [status EXCEPT ![p] = st]
    /\ due' = [due EXCEPT ![p] = @ \cup {st}]
    /\ UNCHANGED <<stored, up>>

Submit(p) == status[p] = "absent" /\ Become(p, "queued")

Start(p) == status[p] = "queued" /\ Become(p, "running")

End(p) == status[p] = "running" /\ \E verdict \in Terminal: Become(p, verdict)

Remove(p) == status[p] \in Terminal /\ Become(p, "absent")

\* A statement commits; another one that says the same may still be due.
Persist(p) ==
    /\ \E st \in due[p]:
          /\ stored' = [stored EXCEPT ![p] = st]
          /\ due' \in {due, [due EXCEPT ![p] = @ \ {st}]}
    /\ UNCHANGED <<status, up>>

Crash ==
    /\ up
    /\ up' = FALSE
    /\ status' = [p \in Pdfs |-> "absent"]
    /\ due' = [p \in Pdfs |-> {}]
    /\ UNCHANGED stored

Settled(st) == IF st \in Active THEN "failed" ELSE st

Boot ==
    /\ ~up
    /\ up' = TRUE
    /\ stored' = [p \in Pdfs |-> Settled(stored[p])]
    /\ status' = stored'
    /\ UNCHANGED due

Next ==
    \/ \E p \in Pdfs: Submit(p) \/ Start(p) \/ End(p) \/ Remove(p) \/ Persist(p)
    \/ Crash \/ Boot

Spec == Init /\ [][Next]_vars
=================================================================================

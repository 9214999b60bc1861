------------------------------ MODULE WorkerContract ------------------------------
(***************************************************************************)
(* What the graph expects of a node that calls the language model: it ends *)
(* once, by raising, by being cancelled, or with an answer.  A worker of   *)
(* the fan-out flags its blocks with a warning exactly when the schema     *)
(* does not accept them; the pioneer flags only an answer that was cut     *)
(* off, and then returns no blocks.  Pipeline is written against this      *)
(* (WorkerReturns, Attempts); ApiCalls implements it.                      *)
(***************************************************************************)
CONSTANT Tasks

VARIABLES
    kind,   \* what each task executes, "none" before it starts
    end     \* how it ended

vars == <<kind, end>>

Paged == {"pioneer", "worker"}
Kinds == Paged \cup {"classifier", "hierarchy"}

Blocks == {"valid", "invalid", "empty"}
Ended(how) == [how |-> how, blocks |-> "empty", flagged |-> FALSE]
Open == Ended("open")
Returned(blocks, flagged) == [how |-> "returned", blocks |-> blocks, flagged |-> flagged]

Returns(k) ==
    CASE k = "worker" -> {Returned(b, b # "valid"): b \in Blocks}
      [] k = "pioneer" -> {Returned(b, FALSE): b \in Blocks} \cup {Returned("empty", TRUE)}
      [] OTHER -> {Returned("valid", FALSE)}

Init ==
    /\ kind = [t \in Tasks |-> "none"]
    /\ end = [t \in Tasks |-> Open]

Start(t) ==
    /\ kind[t] = "none"
    /\ \E k \in Kinds: kind' = [kind EXCEPT ![t] = k]
    /\ end' = end

Finish(t) ==
    /\ kind[t] # "none" /\ end[t] = Open
    /\ \E e \in {Ended("raised"), Ended("cancelled")} \cup Returns(kind[t]):
          end' = [end EXCEPT ![t] = e]
    /\ kind' = kind

\* All have ended: the tasks of later runs take their names.
Renew ==
    /\ \A t \in Tasks: kind[t] = "none" \/ end[t] # Open
    /\ Init'

Next == Renew \/ \E t \in Tasks: Start(t) \/ Finish(t)

Spec == Init /\ [][Next]_vars
=================================================================================

-------------------------------- MODULE MCApiCalls --------------------------------
(* Instances of ApiCalls for TLC. *)
EXTENDS ApiCalls

CONSTANTS t1, t2, t3, j1, j2

\* Two runs side by side: two nodes of the one, one node of the other.
TwoRuns == [t \in Tasks |-> IF t = t3 THEN j2 ELSE j1]
AnyNode ==
    [t \in Tasks |-> CASE t = t1 -> {"worker", "classifier"}
                       [] t = t2 -> {"worker", "pioneer"}
                       [] t = t3 -> {"worker", "hierarchy"}]
=================================================================================

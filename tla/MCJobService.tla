------------------------------ MODULE MCJobService ------------------------------
(* Instances of JobService for TLC. *)
EXTENDS JobService, TLC

CONSTANTS o1, o2, o3, p1

\* All requests are about one document: the contention the handlers arbitrate.
OneDocument == [o \in Ops |-> p1]

\* The supersteps that open the upload, collapsed: native_extractor, then the
\* nodes from the classifier to the page workers.  The last one stands for the
\* audit, which tolerates a missing file, and the hierarchy, which needs none.
First == {1}
FirstTwo == {1, 2}

Requests == Permutations(Ops)
=================================================================================

--------------------------- MODULE MCActionExecution ---------------------------
(***************************************************************************)
(* Small instances of ActionExecution for TLC.                             *)
(***************************************************************************)
EXTENDS ActionExecution, TLC

\* Every execution is requested for the same recommendation.
OneAction == [e \in Execution |-> CHOOSE a \in Action : TRUE]

\* Requests in flight and approvers are interchangeable.
Symmetry == Permutations(Worker) \cup Permutations(Approver)
=============================================================================

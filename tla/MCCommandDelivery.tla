--------------------------- MODULE MCCommandDelivery ---------------------------
(***************************************************************************)
(* Small instances of CommandDelivery for TLC.                             *)
(***************************************************************************)
EXTENDS CommandDelivery, TLC

\* Every execution is dispatched over the same channel.
ToGateway == [e \in Execution |-> "simulated_gateway"]
ToSimulator == [e \in Execution |-> "simulator"]

\* Slots are not interchangeable: a new message is given the first free one.
Symmetry == Permutations(Operator)
=============================================================================

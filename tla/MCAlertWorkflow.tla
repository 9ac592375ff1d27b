---------------------------- MODULE MCAlertWorkflow ----------------------------
(* Instances of AlertWorkflow: an auto-resolvable type and one that is not. *)
EXTENDS AlertWorkflow, TLC

OfflineAndGenerator == <<"DEVICE_OFFLINE", "GENERATOR_WHILE_GRID_AVAILABLE">>
Offline == <<"DEVICE_OFFLINE">>

\* Events are told apart by nothing but the requests that carry them.
Symmetry == Permutations(Event)

OfflineResolves == {"DEVICE_OFFLINE"}
=============================================================================

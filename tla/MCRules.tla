-------------------------------- MODULE MCRules --------------------------------
(* Instances of Rules for TLC. *)
EXTENDS Rules, TLC

E(device, time, kw, running) ==
    [device |-> device, site |-> "s", time |-> time, kw |-> kw, running |-> running,
     grid |-> TRUE, anomaly |-> FALSE]

\* A generator that starts, stops and starts again, and once more a day later;
\* a meter of the same site.
Events == {E("generator", 600, 60, TRUE), E("generator", 610, None, FALSE),
           E("generator", 700, 20, TRUE), E("generator", 2050, 80, TRUE),
           E("meter", 605, 65, FALSE)}

Patches == {[rule |-> "excessive_start_stop_cycling", limit |-> 2],
            [rule |-> "excessive_start_stop_cycling", enabled |-> FALSE]}

Enabled == {"avoidable_peak_event", "excessive_start_stop_cycling", "telemetry_gap"}

Symmetry == Permutations(Request)
=============================================================================

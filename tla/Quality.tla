-------------------------------- MODULE Quality --------------------------------
(***************************************************************************)
(* How a telemetry message is decoded and judged.                          *)
(*                                                                         *)
(* Ingestion and the preview share one synchronous call: a decoder is      *)
(* chosen, the payload becomes a reading, and the reading is judged by     *)
(* itself and by the one decoded before it for its device, which it then   *)
(* replaces in memory, whether it is stored later or not.  What is stored, *)
(* is stored later; a re-evaluation reads the stored event, judges it      *)
(* without a predecessor and writes it back.                               *)
(*                                                                         *)
(* Readings are in canonical units (kW, kWh, V, A, Hz, percent of power    *)
(* factor) and in minutes.  The quality metrics only count verdicts and    *)
(* are left out; whether a reading is a duplicate is decided in Ingestion, *)
(* and here either may be the case.                                        *)
(***************************************************************************)
EXTENDS Integers, FiniteSets

CONSTANTS
    Device,
    Message,     \* what arrives, any number of times
    Request,     \* the requests of a behaviour; one that stores an event
                 \* lends it its name
    None,        \* undefined
    MaxRestarts  \* bound: how often the process ends

VARIABLES
    latest,   \* memory: latestByDevice, the reading decoded last
    archive,  \* memory: the parse status of each raw event
    stored,   \* table normalized_telemetry_events: reading and verdict
    handler,  \* what each request does next
    seen,     \* history: the counters decoded since a drop was noticed last
    restarts  \* history: how often the process ended

memory == <<latest, archive, seen>>
vars == <<memory, stored, handler, restarts>>

-----------------------------------------------------------------------------
Metric == Int \cup {None}
Phases == [1 .. 3 -> Metric]
Reading == [device: Device, time: Nat, received: Nat, kw: Metric, kwhTotal: Metric,
            voltage: Phases, current: Phases, frequency: Metric, powerFactor: Metric]

Decoder == {"acme", "satec", "forwarded"}

\* What the payload looks like, which decoder the envelope asks for, whether
\* its numbers and times can be read, and when the gateway forwarded it.
Envelope == [format: Decoder \cup {"other"}, hint: Decoder \cup {"none"}, sound: BOOLEAN,
             reading: Reading, published: Nat]


-----------------------------------------------------------------------------
(* Decoding. *)

Unsupported == "unsupported"

\* A hint that names a decoder wins, even when the payload is of another kind.
Resolve(m) ==
    IF m.hint # "none" THEN m.hint
    ELSE IF m.format \in Decoder THEN m.format ELSE Unsupported

\* A frequency or a power factor that is the number 0 is taken as missing (only
\* the text "0" would be read as 0).
NonZero(v) == IF v = 0 THEN None ELSE v

DecodedAcme(m) ==
    [m.reading EXCEPT !.frequency = NonZero(@), !.powerFactor = NonZero(@)]

\* A forwarded message counts as received when the gateway published it.
DecodedForwarded(m) == [DecodedAcme(m) EXCEPT !.received = m.published]

\* Channels the map of codes does not know are skipped; a 0 stays a 0.
DecodedSatec(m) == m.reading

Decoded(m) == CASE m.format = "satec" -> DecodedSatec(m)
                [] m.format = "forwarded" -> DecodedForwarded(m)
                [] OTHER -> DecodedAcme(m)

Measured(phases) == {n \in 1 .. 3 : phases[n] # None}

HasMetric(x) == \/ x.kw # None \/ x.kwhTotal # None
                \/ Measured(x.voltage) # {} \/ Measured(x.current) # {}
                \/ x.frequency # None \/ x.powerFactor # None

Decodes(m) == Resolve(m) = m.format /\ m.sound /\ HasMetric(Decoded(m))

-----------------------------------------------------------------------------
(* The verdict. *)

Abs(n) == IF n < 0 THEN -n ELSE n

Outside(v, low, high) == v # None /\ (v < low \/ v > high)
SomeMissing(phases) == Cardinality(Measured(phases)) \in {1, 2}
SomeOutside(phases, low, high) == \E n \in 1 .. 3 : Outside(phases[n], low, high)

Drift(x) == Abs(x.received - x.time)

\* What a reading shows by itself.
Shows(x, flag) ==
    \/ flag = "kw_missing" /\ x.kw = None
    \/ flag = "negative_kw_sign_inversion" /\ x.kw # None /\ x.kw < 0
    \/ flag = "negative_energy_counter" /\ x.kwhTotal # None /\ x.kwhTotal < 0
    \/ flag = "missing_phase_voltage" /\ SomeMissing(x.voltage)
    \/ flag = "missing_phase_current" /\ SomeMissing(x.current)
    \/ flag = "voltage_out_of_range" /\ SomeOutside(x.voltage, 150, 260)
    \/ flag = "current_out_of_range" /\ SomeOutside(x.current, 0, 1200)
    \/ /\ flag = "current_kw_mismatch"
       /\ x.kw # None /\ Measured(x.current) = 1 .. 3
       /\ LET sum == x.current[1] + x.current[2] + x.current[3]
          IN  sum > 0 /\ 10 * x.kw > 6 * sum
    \/ flag = "frequency_out_of_range" /\ Outside(x.frequency, 45, 55)
    \/ flag = "power_factor_out_of_range" /\ Outside(x.powerFactor, -100, 100)
    \/ flag = "timestamp_drift_critical" /\ Drift(x) > 15
    \/ flag = "timestamp_drift_warning" /\ Drift(x) > 3 /\ Drift(x) <= 15

\* What it shows beside the one before it.
Contrasts(x, before, flag) ==
    \/ flag = "retrograde_meter_timestamp" /\ x.time < before.time
    \/ /\ flag = "counter_reset_or_rollover"
       /\ x.kwhTotal # None /\ before.kwhTotal # None /\ x.kwhTotal < before.kwhTotal
    \/ /\ flag = "flatline_candidate"
       /\ x.kw # None /\ x.kw = before.kw
       /\ Abs(x.time - before.time) \in 1 .. 30
    \/ /\ flag = "frequency_drift"
       /\ x.frequency # None /\ before.frequency # None
       /\ Abs(x.frequency - before.frequency) > 2

\* The points each flag costs.
Costs35 == {"negative_kw_sign_inversion", "negative_energy_counter",
            "timestamp_drift_critical"}
Costs25 == {"voltage_out_of_range", "retrograde_meter_timestamp",
            "counter_reset_or_rollover"}
Costs20 == {"current_out_of_range"}
Costs15 == {"kw_missing", "current_kw_mismatch", "frequency_out_of_range"}
Costs10 == {"missing_phase_voltage", "missing_phase_current",
            "power_factor_out_of_range", "timestamp_drift_warning"}
Costs8 == {"flatline_candidate", "frequency_drift"}

Flag == Costs35 \cup Costs25 \cup Costs20 \cup Costs15 \cup Costs10 \cup Costs8

HistoryFlag == {"retrograde_meter_timestamp", "counter_reset_or_rollover",
                "flatline_candidate", "frequency_drift"}

Severe == {"timestamp_drift_critical", "negative_kw_sign_inversion",
           "negative_energy_counter", "counter_reset_or_rollover",
           "voltage_out_of_range", "current_out_of_range"}

Flags(x, before) ==
    {f \in Flag : Shows(x, f) \/ (before # None /\ Contrasts(x, before, f))}

Lost(flags) ==
    LET n(costs) == Cardinality(flags \cap costs)
    IN  35 * n(Costs35) + 25 * n(Costs25) + 20 * n(Costs20)
          + 15 * n(Costs15) + 10 * n(Costs10) + 8 * n(Costs8)

Status == {"good", "suspicious", "bad"}

StatusOf(flags) == IF flags \cap Severe # {} THEN "bad"
                   ELSE IF flags # {} THEN "suspicious" ELSE "good"

\* Plausible bug: the score is not kept from going below 0.
ScoreMutant(flags) == 100 - Lost(flags)
Score(flags) == IF Lost(flags) > 100 THEN 0 ELSE 100 - Lost(flags)

Verdict(x, before) ==
    LET flags == Flags(x, before)
    IN  [flags |-> flags, status |-> StatusOf(flags), score |-> Score(flags)]

VerdictType == [flags: SUBSET Flag, status: Status, score: 0 .. 100]

-----------------------------------------------------------------------------
Event == [reading: Reading, quality: VerdictType]

ASSUME MessageAssumption ==
    Message \subseteq Envelope /\ None \notin Int \cup Reading \cup Event
ASSUME BoundAssumption == MaxRestarts \in Nat

HandlerState ==
         [pc: {"new", "done"}]
    \cup [pc: {"save"}, event: Event]
    \cup [pc: {"reevaluate"}, of: Request, event: Event]

TypeOK ==
    /\ latest \in [Device -> Reading \cup {None}]
    /\ archive \in [Request -> {"none", "success", "failed"}]
    /\ stored \in [Request -> Event \cup {None}]
    /\ handler \in [Request -> HandlerState]
    /\ seen \in [Device -> SUBSET Int]
    /\ restarts \in 0 .. MaxRestarts

NoReading == [d \in Device |-> None]
NoRawEvent == [r \in Request |-> "none"]
NoCounter == [d \in Device |-> {}]

Init ==
    /\ latest = NoReading /\ archive = NoRawEvent /\ seen = NoCounter
    /\ stored = [r \in Request |-> None]
    /\ handler = [r \in Request |-> [pc |-> "new"]]
    /\ restarts = 0

Goto(r, state) == handler' = [handler EXCEPT ![r] = state]

SeenAfter(x, flags) ==
    IF x.kwhTotal = None THEN {}
    ELSE IF "counter_reset_or_rollover" \in flags THEN {x.kwhTotal}
    ELSE seen[x.device] \cup {x.kwhTotal}

\* Plausible bug: a late reading does not become the one that is remembered.
RemembersMutant(x) ==
    latest' = [latest EXCEPT ![x.device] = IF @ # None /\ @.time > x.time THEN @ ELSE x]
Remembers(x) == latest' = [latest EXCEPT ![x.device] = x]

\* evaluate: judge and remember.
Evaluate(x, verdict) ==
    /\ verdict = Verdict(x, latest[x.device])
    /\ Remembers(x)
    /\ seen' = [seen EXCEPT ![x.device] = SeenAfter(x, verdict.flags)]

Archive(r, status) == archive' = [archive EXCEPT ![r] = status]

\* decodePreview of a message that can be read; next is what its caller does.
Decode(r, m, next) ==
    /\ handler[r].pc = "new"
    /\ Decodes(m)
    /\ LET x == Decoded(m)
           verdict == Verdict(x, latest[x.device])
       IN  /\ Evaluate(x, verdict)
           /\ Goto(r, IF next = "done" THEN [pc |-> "done"]
                      ELSE [pc |-> "save", event |-> [reading |-> x, quality |-> verdict]])
    /\ Archive(r, "success")
    /\ UNCHANGED <<stored, restarts>>

\* The preview route answers, and so does ingestion for a canonical duplicate.
PreviewOrDuplicate(r, m) == Decode(r, m, "done")

\* Ingestion of a reading it has not had before.
Accept(r, m) == Decode(r, m, "save")

\* No decoder reads it: the raw event is kept as failed, nothing is judged.
Refuse(r, m) ==
    /\ handler[r].pc = "new"
    /\ ~Decodes(m)
    /\ Archive(r, "failed")
    /\ Goto(r, [pc |-> "done"])
    /\ UNCHANGED <<latest, seen, stored, restarts>>

SaveEvent(r) ==
    /\ handler[r].pc = "save"
    /\ stored' = [stored EXCEPT ![r] = handler[r].event]
    /\ Goto(r, [pc |-> "done"])
    /\ UNCHANGED <<memory, restarts>>

-----------------------------------------------------------------------------
(* POST /quality/re-evaluate/:eventId. *)

FindEvent(r, e) ==
    /\ handler[r].pc = "new"
    /\ stored[e] # None
    /\ Goto(r, [pc |-> "reevaluate", of |-> e, event |-> stored[e]])
    /\ UNCHANGED <<memory, stored, restarts>>

\* Plausible bug: it is judged beside the reading decoded last.
ReevaluatedMutant(x) == Verdict(x, latest[x.device])
Reevaluated(x) == Verdict(x, None)

SaveReevaluated(r) ==
    LET h == handler[r] IN
    /\ h.pc = "reevaluate"
    /\ stored' = [stored EXCEPT ![h.of] = [reading |-> h.event.reading,
                                           quality |-> Reevaluated(h.event.reading)]]
    /\ Goto(r, [pc |-> "done"])
    /\ UNCHANGED <<memory, restarts>>

\* The process ends, and with it the memory and the requests in flight.
Restart ==
    /\ restarts < MaxRestarts
    /\ restarts' = restarts + 1
    /\ latest' = NoReading /\ archive' = NoRawEvent /\ seen' = NoCounter
    /\ handler' = [r \in Request |-> IF handler[r].pc = "new" THEN handler[r]
                                     ELSE [pc |-> "done"]]
    /\ UNCHANGED stored

Next ==
    \/ Restart
    \/ \E r \in Request :
         \/ \E m \in Message : PreviewOrDuplicate(r, m) \/ Accept(r, m) \/ Refuse(r, m)
         \/ SaveEvent(r)
         \/ \E e \in Request : FindEvent(r, e)
         \/ SaveReevaluated(r)

Spec == Init /\ [][Next]_vars

-----------------------------------------------------------------------------
(* Properties *)

\* No fall of an energy counter goes unnoticed: since the last reading that was
\* flagged for it, no reading of the device counted more than the one decoded
\* last, however late, repeated or previewed readings came in between.  Only a
\* reading without a counter, or the end of the process, hides what came before
\* (telemetry-quality.service.ts:36-37 and 129-136).
CounterDropsNoticed ==
    \A d \in Device : \A c \in seen[d] :
        latest[d] # None /\ latest[d].kwhTotal # None /\ c <= latest[d].kwhTotal

Rank == [good |-> 2, suspicious |-> 1, bad |-> 0]

\* A re-evaluation can only forget: it drops flags, none but those that compare
\* with a predecessor, and makes no status or score worse.  An event never
\* turns bad, and its own defects never disappear, however many re-evaluations
\* of it overlap and whatever was decoded since (quality.ts:19-28).
ReevaluationOnlyForgets ==
    [][\A e \in Request :
        stored[e] # None /\ stored'[e] # stored[e] =>
            LET old == stored[e].quality
                new == stored'[e].quality
            IN  /\ new.flags \subseteq old.flags
                /\ old.flags \ new.flags \subseteq HistoryFlag
                /\ Rank[new.status] >= Rank[old.status]
                /\ new.score >= old.score]_vars
================================================================================

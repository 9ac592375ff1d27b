--------------------------------- MODULE Rules ---------------------------------
(***************************************************************************)
(* What the rules make of a stored telemetry event, and the                *)
(* recommendations that follow.                                            *)
(*                                                                         *)
(* A request reads the enabled rules, takes the runtime state (previous    *)
(* event of the device, peak of the site's day, generator starts) from     *)
(* maps in memory, saves one trace per rule, and only then brings the maps *)
(* up to date; each matched trace inserts or refreshes a recommendation.   *)
(* Every awaited statement is a step, so requests, operators who patch     *)
(* rules and operators who decide on recommendations interleave between    *)
(* them.  No route catches what the statements throw: an error ends the    *)
(* process and empties the maps.                                           *)
(*                                                                         *)
(* Hours and factors of the thresholds have their default values; severity *)
(* of a rule, the texts, scores and savings of a root cause are data.      *)
(***************************************************************************)
EXTENDS Naturals, Sequences, FiniteSets

CONSTANTS
    Event,          \* the events that may arrive
    Request,        \* the requests of a behaviour; each lends its event its id
    Operator,       \* the operator requests of a behaviour
    Patch,          \* the patches of a rule they send
    EnabledAtStart, \* the rules operators left enabled before
    None,
    MaxInFlight,    \* how many events are evaluated at once
    MaxRestarts     \* bound: how often the process ends

\* The rules in the order the table is read: by category, then by name.
RuleOrder == <<"after_hours_baseload_waste", "avoidable_peak_event",
               "abnormal_runtime_drift", "voltage_current_anomaly",
               "excessive_start_stop_cycling", "generator_inefficient_runtime",
               "low_load_generator", "schedule_misalignment", "telemetry_gap">>

Rule == {RuleOrder[i] : i \in 1 .. 9}

ASSUME EventAssumption ==
    /\ None \notin Event \cup Request \cup Nat
    /\ \A e \in Event : /\ e.time \in Nat /\ e.kw \in Nat \cup {None}
                        /\ {e.running, e.grid, e.anomaly} \subseteq BOOLEAN
ASSUME PatchAssumption ==
    \A p \in Patch : /\ p.rule \in Rule
                     /\ \/ DOMAIN p = {"rule", "enabled"} /\ p.enabled \in BOOLEAN
                        \/ DOMAIN p = {"rule", "limit"} /\ p.limit \in Nat
ASSUME BoundAssumption ==
    /\ EnabledAtStart \subseteq Rule /\ IsFiniteSet(Request)
    /\ MaxInFlight \in Nat \ {0} /\ MaxRestarts \in Nat

VARIABLES
    config,          \* table rules_config
    trace,           \* table rule_execution_traces
    recommendation,  \* table recommendations, by recommendation_key
    previous,        \* memory: previousEventByDevice
    peak,            \* memory: dailyPeakBySiteDay
    starts,          \* memory: generatorStartHistoryByDevice
    claimed,         \* memory: the readings ingestion answers as duplicates
    handler,         \* what each request that brings an event does next
    desk,            \* what each operator request does next
    updates,         \* history: the events that updated the maps, in order
    written,         \* history: the last match and decision of each key
    restarts         \* history: how often the process ended

tables == <<config, trace, recommendation>>
memory == <<previous, peak, starts, claimed>>
vars == <<tables, memory, handler, desk, updates, written, restarts>>

-----------------------------------------------------------------------------
Device == {e.device : e \in Event}
Site == {e.site : e \in Event}

Day(e) == e.time \div 1440
Hour(e) == (e.time \div 60) % 24
SiteDay == {<<e.site, Day(e)>> : e \in Event}

Key == Rule \X Site \X Device

\* The recommendation key of a rule that matched an event.
KeyOf(rule, e) == <<rule, e.site, e.device>>

\* An event without a power reading counts as zero.
Kw(e) == IF e.kw = None THEN 0 ELSE e.kw

Config == [enabled: BOOLEAN, limit: Nat]

\* The threshold that patches change; two of the rules have none.
DefaultLimit == [rule \in Rule |->
    CASE rule = "after_hours_baseload_waste" -> 5
      [] rule = "schedule_misalignment" -> 8
      [] rule = "avoidable_peak_event" -> 50
      [] rule = "low_load_generator" -> 10
      [] rule = "excessive_start_stop_cycling" -> 3
      [] rule = "telemetry_gap" -> 30
      [] rule = "abnormal_runtime_drift" -> 25
      [] OTHER -> 0]

Advisory == {"low_load_generator", "voltage_current_anomaly",
             "telemetry_gap", "abnormal_runtime_drift"}

Decision == {"approve", "reject", "resolve"}

Trace == [event: Request, rule: Rule, matched: BOOLEAN]

Recommendation ==
    [event: Request, status: {"open", "approved", "rejected", "resolved"},
     approval: {"not_required", "pending", "approved", "rejected"}]

\* The absence of a row is not a row.
ASSUME NoneAssumption == None \notin Decision /\ None \notin Recommendation

HandlerState ==
         [pc: {"new", "lost"}]
    \cup [pc: {"done"}, event: Event]
    \cup [pc: {"rules"}, event: Event]
    \cup [pc: {"context"}, event: Event, rules: SUBSET Rule, limit: [Rule -> Nat]]
    \cup [pc: {"trace"}, event: Event, rules: SUBSET Rule, limit: [Rule -> Nat],
          previous: Event \cup {None}, peak: Nat, starts: SUBSET Event,
          todo: SUBSET Rule, matched: SUBSET Rule]
    \cup [pc: {"recommend"}, event: Event, rules: SUBSET Rule, todo: SUBSET Rule]

DeskState ==
         [pc: {"new", "done", "lost"}]
    \cup [pc: {"patch"}, patch: Patch, row: Config]
    \cup [pc: {"decide"}, key: Key, decision: Decision, row: Recommendation]

TypeOK ==
    /\ config \in [Rule -> Config]
    /\ trace \subseteq Trace
    /\ recommendation \in [Key -> Recommendation \cup {None}]
    /\ previous \in [Device -> Event \cup {None}]
    /\ peak \in [SiteDay -> Nat]
    /\ starts \in [Device -> SUBSET Event]
    /\ claimed \subseteq Event
    /\ handler \in [Request -> HandlerState]
    /\ desk \in [Operator -> DeskState]
    /\ updates \in Seq(Event)
    /\ written \in [Key -> [event: Request \cup {None}, decision: Decision \cup {None}]]
    /\ restarts \in 0 .. MaxRestarts

\* The maps of a new process.
EmptyMaps ==
    /\ previous = [d \in Device |-> None]
    /\ peak = [s \in SiteDay |-> 0]
    /\ starts = [d \in Device |-> {}]
    /\ claimed = {} /\ updates = <<>>

Init ==
    /\ config = [rule \in Rule |->
                    [enabled |-> rule \in EnabledAtStart, limit |-> DefaultLimit[rule]]]
    /\ trace = {}
    /\ recommendation = [k \in Key |-> None]
    /\ EmptyMaps
    /\ handler = [r \in Request |-> [pc |-> "new"]]
    /\ desk = [o \in Operator |-> [pc |-> "new"]]
    /\ written = [k \in Key |-> [event |-> None, decision |-> None]]
    /\ restarts = 0

-----------------------------------------------------------------------------
(* Judging one event: evaluateTelemetry. *)

InFlight == {r \in Request : handler[r].pc \notin {"new", "done", "lost"}}

\* Ingestion has claimed the reading and stored the event.
Arrive(r, e) ==
    /\ handler[r].pc = "new" /\ Cardinality(InFlight) < MaxInFlight
    /\ e \notin claimed
    /\ claimed' = claimed \cup {e}
    /\ handler' = [handler EXCEPT ![r] = [pc |-> "rules", event |-> e]]
    /\ UNCHANGED <<tables, previous, peak, starts, desk, updates, written, restarts>>

ReadRules(r) ==
    /\ handler[r].pc = "rules"
    /\ handler' = [handler EXCEPT ![r] =
           [pc |-> "context", event |-> handler[r].event,
            rules |-> {rule \in Rule : config[rule].enabled},
            limit |-> [rule \in Rule |-> config[rule].limit]]]
    /\ UNCHANGED <<tables, memory, desk, updates, written, restarts>>

\* The starts of the device in the 24 hours before the event.
RecentStarts(e) == {s \in starts[e.device] : e.time <= s.time + 1440}

\* Rules are judged, and matches recommended, in the order of the table.
First(rules) == RuleOrder[CHOOSE i \in 1 .. 9 :
    RuleOrder[i] \in rules /\ \A j \in 1 .. i - 1 : RuleOrder[j] \notin rules]

\* Plausible bug: what is enabled is looked up again.
BuildContextMutant(r) ==
    LET h == handler[r] e == h.event IN
    /\ h.pc = "context"
    /\ handler' = [handler EXCEPT ![r] =
           [pc |-> "trace", event |-> e, rules |-> h.rules, limit |-> h.limit,
            previous |-> previous[e.device], peak |-> peak[<<e.site, Day(e)>>],
            starts |-> RecentStarts(e), matched |-> {},
            todo |-> {rule \in Rule : config[rule].enabled}]]
    /\ UNCHANGED <<tables, memory, desk, updates, written, restarts>>

BuildContext(r) ==
    LET h == handler[r] e == h.event IN
    /\ h.pc = "context"
    /\ handler' = [handler EXCEPT ![r] =
           [pc |-> "trace", event |-> e, rules |-> h.rules, limit |-> h.limit,
            previous |-> previous[e.device], peak |-> peak[<<e.site, Day(e)>>],
            starts |-> RecentStarts(e), todo |-> h.rules, matched |-> {}]]
    /\ UNCHANGED <<tables, memory, desk, updates, written, restarts>>

WasRunning(previousEvent) == previousEvent # None /\ previousEvent.running

\* Does the rule match the event of h, given the context h has read?
Matches(rule, h) ==
    LET e == h.event kw == Kw(e) limit == h.limit[rule] before == h.previous IN
    \/ /\ rule = "after_hours_baseload_waste"
       /\ (Hour(e) >= 22 \/ Hour(e) < 6) /\ kw >= limit
    \/ /\ rule = "schedule_misalignment"
       /\ (Hour(e) < 6 \/ Hour(e) >= 21) /\ kw >= limit
    \/ /\ rule = "avoidable_peak_event"
       /\ kw >= limit /\ (h.peak > 0 => 100 * kw >= 115 * h.peak)
    \/ rule = "generator_inefficient_runtime" /\ e.running /\ e.grid
    \/ rule = "low_load_generator" /\ e.running /\ kw < limit
    \/ /\ rule = "excessive_start_stop_cycling"
       /\ LET now == IF e.running /\ ~WasRunning(before) THEN 1 ELSE 0
          IN  Cardinality(h.starts) + now >= limit
    \/ rule = "voltage_current_anomaly" /\ e.anomaly
    \/ rule = "telemetry_gap" /\ before # None /\ e.time > before.time + limit
    \/ /\ rule = "abnormal_runtime_drift"
       /\ WasRunning(before) /\ e.running
       /\ LET was == IF before.kw = None THEN kw ELSE before.kw
          IN  kw >= was + limit \/ was >= kw + limit

TraceRow(r, rule, matched) == [event |-> r, rule |-> rule, matched |-> matched]

\* Plausible bug: the traces of a rule that did not match are not told apart.
SaveTraceMutant(r) ==
    LET h == handler[r] rule == First(h.todo) matched == Matches(rule, h) IN
    /\ h.pc = "trace" /\ h.todo # {}
    /\ trace' = trace \cup {TraceRow(r, rule, matched)}
    /\ handler' = [handler EXCEPT ![r].todo = @ \ {rule},
                                  ![r].matched = @ \cup {rule}]
    /\ UNCHANGED <<config, recommendation, memory, desk, updates, written, restarts>>

SaveTrace(r) ==
    LET h == handler[r] rule == First(h.todo) matched == Matches(rule, h) IN
    /\ h.pc = "trace" /\ h.todo # {}
    /\ trace' = trace \cup {TraceRow(r, rule, matched)}
    /\ handler' = [handler EXCEPT ![r].todo = @ \ {rule},
                                  ![r].matched = IF matched THEN @ \cup {rule} ELSE @]
    /\ UNCHANGED <<config, recommendation, memory, desk, updates, written, restarts>>

\* Plausible bug: the state is brought up to date from the context, which was
\* read before the traces were saved.
MapsAfterMutant(h) ==
    LET e == h.event day == <<e.site, Day(e)>> IN
    /\ peak' = [peak EXCEPT ![day] = IF Kw(e) > h.peak THEN Kw(e) ELSE @]
    /\ starts' = [starts EXCEPT ![e.device] =
           h.starts \cup (IF e.running /\ ~WasRunning(h.previous) THEN {e} ELSE {})]
    /\ previous' = [previous EXCEPT ![e.device] = e]

\* updateRuntimeState reads the maps again.
MapsAfter(h) ==
    LET e == h.event day == <<e.site, Day(e)>> IN
    /\ peak' = [peak EXCEPT ![day] = IF Kw(e) > @ THEN Kw(e) ELSE @]
    /\ starts' = [starts EXCEPT ![e.device] =
           RecentStarts(e) \cup
           (IF e.running /\ ~WasRunning(previous[e.device]) THEN {e} ELSE {})]
    /\ previous' = [previous EXCEPT ![e.device] = e]

UpdateRuntimeState(r) ==
    LET h == handler[r] IN
    /\ h.pc = "trace" /\ h.todo = {}
    /\ MapsAfter(h)
    /\ updates' = Append(updates, h.event)
    /\ handler' = [handler EXCEPT ![r] = [pc |-> "recommend", event |-> h.event,
                                          rules |-> h.rules, todo |-> h.matched]]
    /\ UNCHANGED <<tables, claimed, desk, written, restarts>>

-----------------------------------------------------------------------------
(* Recommendations of the matched rules: generateFromRuleTraces. *)

\* Plausible bug: the approval is the mode of the recommendation.
NewRecommendationMutant(r, rule) ==
    [event |-> r, status |-> "open",
     approval |-> IF rule \in Advisory THEN "advisory" ELSE "pending"]

NewRecommendation(r, rule) ==
    [event |-> r, status |-> "open",
     approval |-> IF rule \in Advisory THEN "not_required" ELSE "pending"]

\* Plausible bug: the conflict clause also sets status and approval_status.
RefreshedMutant(row, new) == new

\* ON CONFLICT (recommendation_key) DO UPDATE
Refreshed(row, new) == [row EXCEPT !.event = new.event]

Upsert(r) ==
    LET h == handler[r] rule == First(h.todo)
        key == KeyOf(rule, h.event)
        new == NewRecommendation(r, rule)
    IN
    /\ h.pc = "recommend" /\ h.todo # {}
    /\ recommendation' = [recommendation EXCEPT ![key] =
           IF @ = None THEN new ELSE Refreshed(@, new)]
    /\ written' = [written EXCEPT ![key].event = r]
    /\ handler' = [handler EXCEPT ![r].todo = @ \ {rule}]
    /\ UNCHANGED <<config, trace, memory, desk, updates, restarts>>

\* The alert workflow runs next (module AlertWorkflow); nothing of it comes
\* back to the rules.
Answer(r) ==
    /\ handler[r].pc = "recommend" /\ handler[r].todo = {}
    /\ handler' = [handler EXCEPT ![r] = [pc |-> "done", event |-> handler[r].event]]
    /\ UNCHANGED <<tables, memory, desk, updates, written, restarts>>

-----------------------------------------------------------------------------
(* Operators: PATCH /rules/:ruleId and POST /recommendations/:id/<decision>. *)

ReadRule(o, patch) ==
    /\ desk[o].pc = "new"
    /\ desk' = [desk EXCEPT ![o] =
           [pc |-> "patch", patch |-> patch, row |-> config[patch.rule]]]
    /\ UNCHANGED <<tables, memory, handler, updates, written, restarts>>

\* The fields a patch leaves out are written back as they were read.
Merged(row, patch) ==
    [enabled |-> IF "enabled" \in DOMAIN patch THEN patch.enabled ELSE row.enabled,
     limit |-> IF "limit" \in DOMAIN patch THEN patch.limit ELSE row.limit]

WriteRule(o) ==
    LET d == desk[o] IN
    /\ d.pc = "patch"
    /\ config' = [config EXCEPT ![d.patch.rule] = Merged(d.row, d.patch)]
    /\ desk' = [desk EXCEPT ![o] = [pc |-> "done"]]
    /\ UNCHANGED <<trace, recommendation, memory, handler, updates, written, restarts>>

ReadRecommendation(o, key, decision) ==
    /\ desk[o].pc = "new"
    /\ recommendation[key] # None
    /\ desk' = [desk EXCEPT ![o] =
           [pc |-> "decide", key |-> key, decision |-> decision,
            row |-> recommendation[key]]]
    /\ UNCHANGED <<tables, memory, handler, updates, written, restarts>>

Decided(row, decision) ==
    CASE decision = "approve" -> [row EXCEPT !.status = "approved", !.approval = "approved"]
      [] decision = "reject" -> [row EXCEPT !.status = "rejected", !.approval = "rejected"]
      [] decision = "resolve" -> [row EXCEPT !.status = "resolved"]

\* Plausible bug: the row is written back as it was read.
DecisionOnMutant(stored, row, decision) == Decided(row, decision)

\* The statement sets status and approval, computed from the row that was read.
DecisionOn(stored, row, decision) ==
    LET next == Decided(row, decision)
    IN  [stored EXCEPT !.status = next.status, !.approval = next.approval]

WriteDecision(o) ==
    LET d == desk[o] IN
    /\ d.pc = "decide"
    /\ recommendation' = [recommendation EXCEPT ![d.key] = DecisionOn(@, d.row, d.decision)]
    /\ written' = [written EXCEPT ![d.key].decision = d.decision]
    /\ desk' = [desk EXCEPT ![o] = [pc |-> "done"]]
    /\ UNCHANGED <<config, trace, memory, handler, updates, restarts>>

-----------------------------------------------------------------------------
(* The process. *)

Ended(state) == IF state.pc \in {"new", "done"} THEN state ELSE [pc |-> "lost"]

\* A new process starts with empty maps; ensureDefaults leaves the rows of the
\* rules as they are.
Restart ==
    /\ previous' = [d \in Device |-> None]
    /\ peak' = [s \in SiteDay |-> 0]
    /\ starts' = [d \in Device |-> {}]
    /\ claimed' = {} /\ updates' = <<>>
    /\ handler' = [r \in Request |-> Ended(handler[r])]
    /\ desk' = [o \in Operator |-> Ended(desk[o])]
    /\ UNCHANGED tables

\* A statement of a request in flight throws.
ProcessEnds ==
    /\ restarts < MaxRestarts
    /\ InFlight # {} \/ \E o \in Operator : desk[o].pc \notin {"new", "done", "lost"}
    /\ Restart
    /\ restarts' = restarts + 1
    /\ UNCHANGED written

Judge(r) ==
    \/ \E e \in Event : Arrive(r, e)
    \/ ReadRules(r) \/ BuildContext(r) \/ SaveTrace(r) \/ UpdateRuntimeState(r)
    \/ Upsert(r) \/ Answer(r)

PatchRule(o) == (\E patch \in Patch : ReadRule(o, patch)) \/ WriteRule(o)

Decide(o) ==
    \/ \E key \in Key, decision \in Decision : ReadRecommendation(o, key, decision)
    \/ WriteDecision(o)

Next ==
    \/ \E r \in Request : Judge(r)
    \/ \E o \in Operator : PatchRule(o) \/ Decide(o)
    \/ ProcessEnds

Spec == Init /\ [][Next]_vars

-----------------------------------------------------------------------------
(* Properties. *)

Of(d) == {i \in DOMAIN updates : updates[i].device = d}

\* The generator of the device went from off to on with the i-th update.
Began(i) ==
    LET d == updates[i].device before == {j \in Of(d) : j < i} IN
    /\ updates[i].running
    /\ \A j \in before : (\A k \in before : k <= j) => ~updates[j].running

\* No update since has come from more than a day later.
StillCounted(i) ==
    \A j \in Of(updates[i].device) :
        j > i => updates[j].time <= updates[i].time + 1440

\* The maps summarise all events judged since the process started, in the order
\* they were judged: the previous event is the last one of its device, the peak
\* the highest load of the site's day, and the starts are exactly the
\* transitions from off to on of the last 24 hours, each counted once, although
\* overlapping requests have read the maps before either brought them up to
\* date (rules-engine.service.ts:109-128).
MapsSummarise ==
    /\ \A d \in Device :
        /\ (previous[d] = None) <=> (Of(d) = {})
        /\ \A i \in Of(d) : (\A j \in Of(d) : j <= i) => previous[d] = updates[i]
        /\ starts[d] = {updates[i] : i \in {j \in Of(d) : Began(j) /\ StillCounted(j)}}
    /\ \A s \in SiteDay :
        LET loads == {Kw(updates[i]) : i \in {j \in DOMAIN updates :
                                                <<updates[j].site, Day(updates[j])>> = s}}
        IN  /\ \A load \in loads : load <= peak[s]
            /\ peak[s] \in loads \cup {0}

TracesOf(r) == {t \in trace : t.event = r}

\* An event is judged once by every rule that was enabled when its request read
\* the rules, and by no other, whatever operators patch while the traces are
\* being saved (rules-engine.service.ts:48-74).
JudgedByOneReading == \A r \in Request :
    handler[r].pc \in {"trace", "recommend"} =>
        /\ {t.rule : t \in TracesOf(r)} =
               IF handler[r].pc = "trace" THEN handler[r].rules \ handler[r].todo
                                          ELSE handler[r].rules
        /\ \A t, u \in TracesOf(r) : t.rule = u.rule => t = u

\* A recommendation rests on a saved trace of its rule that matched; and a
\* request that was answered has left a recommendation for every rule its event
\* matched, however it overlapped with other requests and whatever the process
\* lost (ingestion.ts:44-63, recommendation-engine.service.ts:33-78).
RecommendedIffMatched ==
    /\ \A k \in Key : recommendation[k] # None =>
        TraceRow(recommendation[k].event, k[1], TRUE) \in trace
    /\ \A r \in Request : handler[r].pc = "done" =>
        \A t \in TracesOf(r) : t.matched =>
            recommendation[KeyOf(t.rule, handler[r].event)] # None

StatusOf(decision) ==
    CASE decision = "approve" -> "approved" [] decision = "reject" -> "rejected"
      [] decision = "resolve" -> "resolved" [] OTHER -> "open"

\* A recommendation shows its last match and the last decision on it: a match
\* that falls between the reading and the writing of a decision is not taken
\* back, and a match never reopens what an operator has decided
\* (postgres-recommendation.repository.ts:72-94 and 211-235).
MatchesAndDecisionsKept == \A k \in Key :
    recommendation[k] # None =>
        /\ recommendation[k].event = written[k].event
        /\ recommendation[k].status = StatusOf(written[k].decision)

=============================================================================

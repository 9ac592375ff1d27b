------------------------------- MODULE Monitoring -------------------------------
(***************************************************************************)
(* The operations side of the backend: alert policies over the health of   *)
(* gateways and queues, the events they open and resolve, and runbooks.    *)
(*                                                                         *)
(* Nothing runs by itself.  An evaluation is a request: it collects the    *)
(* signals one statement after the other, lists the policies, and then     *)
(* looks for the open event of each policy before it opens or resolves     *)
(* one.  Requests interleave between their statements.  No route catches   *)
(* what a statement throws: the rejected handler ends the process, and     *)
(* with it every request in flight.                                        *)
(*                                                                         *)
(* A policy is named by the signal it watches; the defaults, which are all *)
(* there are, watch one signal each.  Rows of dispatches, dead letters and *)
(* incidents belong to CommandDelivery and change here at any time.        *)
(***************************************************************************)
EXTENDS Naturals, Sequences, FiniteSets

CONSTANTS
    Agent,         \* the gateways
    Policy,        \* the policies, by the name of their signal
    Overview,      \* the watched signals getOverview collects, in its order
    DefaultLimit,  \* the threshold each policy starts with
    Limit,         \* the thresholds PATCH sets
    ListLimit,     \* how many rows listIncidents and listDeadLetters return
    Request,       \* requests in flight at once
    Execution,     \* identifiers of runbook executions
    StaleAfter,    \* age at which a gateway is stale, in ticks
    OfflineAfter,  \* and offline
    Never,         \* the age of a gateway that was never seen
    MaxCount,      \* bound: rows behind a signal
    MaxChanges,    \* bound: heartbeats, changes of rows and patches in a behaviour
    MaxRestarts    \* bound: how often the process ends

Listed == {"openIncidentCount", "deadLetterCount"}
Collected == {Overview[n] : n \in 1 .. Len(Overview)}

ASSUME PolicyAssumption ==
    /\ Policy # {}
    /\ Overview \in Seq(Policy) /\ Overview # <<>>
    /\ DefaultLimit \in [Policy -> Nat] /\ Limit \subseteq Nat
    /\ ListLimit \in Nat \ {0}
ASSUME AgentAssumption ==
    /\ IsFiniteSet(Agent)
    /\ Never \notin Nat /\ StaleAfter \in Nat /\ OfflineAfter \in Nat
    /\ StaleAfter < OfflineAfter
ASSUME RequestAssumption == IsFiniteSet(Request)
ASSUME BoundAssumption ==
    MaxCount \in Nat /\ MaxChanges \in Nat /\ MaxRestarts \in Nat

VARIABLES
    age,        \* time since the last heartbeat of each gateway
    count,      \* the rows behind each signal but that of the gateways
    policy,     \* table observability_alert_policies
    open,       \* open rows of observability_alert_events, by policy
    ensured,    \* memory: defaultsEnsured of the alerting service
    execution,  \* table sre_runbook_executions
    swept,      \* the executions whose sweep came to its end
    captured,   \* the executions whose snapshot is stored
    handler,    \* what each request does next
    orphaned,   \* history: the executions the process ended under
    changes,    \* history: how many changes there were but the passing of time
    restarts    \* history: how often the process ended

world == <<age, count, changes>>
runbooks == <<execution, swept, captured, orphaned>>
vars == <<world, policy, open, ensured, runbooks, handler, restarts>>

-----------------------------------------------------------------------------
Age == 0 .. OfflineAfter + 1

Health(a) ==
    IF age[a] = Never            THEN "never_seen"
    ELSE IF age[a] > OfflineAfter THEN "offline"
    ELSE IF age[a] > StaleAfter   THEN "stale"
    ELSE "online"

Offline == {a \in Agent : Health(a) = "offline"}

\* What the world is like, and what a statement of the overview returns of it.
Actual(p) == IF p = "offlineGatewayCount" THEN Cardinality(Offline) ELSE count[p]

Reading(p) == IF p \in Listed /\ Actual(p) > ListLimit THEN ListLimit ELSE Actual(p)

\* Every default compares with >=, and no patch changes that.
CompareMutant(value, threshold) == value > threshold
Compare(value, threshold) == value >= threshold

RunbookKey == {"retry-stuck-dispatches", "capture-observability", "retry-and-capture"}

Sweeps == {"retry-stuck-dispatches", "retry-and-capture"}
Captures == {"capture-observability", "retry-and-capture"}

Row == [stored: BOOLEAN, enabled: BOOLEAN, threshold: Nat]
Patch == [enabled: BOOLEAN] \cup [threshold: Limit]
PatchTask == [kind: {"patch"}, policy: Policy, set: Patch]
Task == [kind: {"evaluate"}] \cup PatchTask

ExecutionRow == [status: {"absent", "running", "completed"}, key: RunbookKey \cup {"none"}]

HandlerState ==
         [pc: {"idle"}]
    \cup [pc: {"ensure"}, todo: SUBSET Policy, task: Task]
    \cup [pc: {"read"}, next: 1 .. Len(Overview), got: [Policy -> Nat]]
    \cup [pc: {"list"}, got: [Policy -> Nat]]
    \cup [pc: {"find"}, todo: SUBSET Policy, breached: SUBSET Policy]
    \cup [pc: {"create", "resolve"}, policy: Policy,
          todo: SUBSET Policy, breached: SUBSET Policy]
    \cup [pc: {"getPolicy"}, task: PatchTask]
    \cup [pc: {"setPolicy"}, task: PatchTask, row: Row]
    \cup [pc: {"sweep", "capture", "complete"}, execution: Execution]

TypeOK ==
    /\ age \in [Agent -> Age \cup {Never}]
    /\ count \in [Policy -> Nat]
    /\ policy \in [Policy -> Row]
    /\ open \in [Policy -> Nat]
    /\ ensured \in BOOLEAN
    /\ execution \in [Execution -> ExecutionRow]
    /\ swept \subseteq Execution /\ captured \subseteq Execution
    /\ handler \in [Request -> HandlerState]
    /\ orphaned \subseteq Execution
    /\ changes \in 0 .. MaxChanges /\ restarts \in 0 .. MaxRestarts

Idle == [pc |-> "idle"]

Init ==
    /\ age = [a \in Agent |-> Never]
    /\ count = [p \in Policy |-> 0]
    /\ policy = [p \in Policy |-> [stored |-> FALSE, enabled |-> TRUE,
                                   threshold |-> DefaultLimit[p]]]
    /\ open = [p \in Policy |-> 0]
    /\ ensured = FALSE
    /\ execution = [x \in Execution |-> [status |-> "absent", key |-> "none"]]
    /\ swept = {} /\ captured = {} /\ orphaned = {}
    /\ handler = [r \in Request |-> Idle]
    /\ changes = 0 /\ restarts = 0

-----------------------------------------------------------------------------
(* The world the signals are about. *)

Change == changes < MaxChanges /\ changes' = changes + 1

Heartbeat(a) ==
    /\ Change
    /\ age' = [age EXCEPT ![a] = 0]
    /\ UNCHANGED <<count, policy, open, ensured, runbooks, handler, restarts>>

\* Beyond the last threshold one age is like another.
TimePasses ==
    /\ age' = [a \in Agent |->
                  IF age[a] # Never /\ age[a] <= OfflineAfter THEN age[a] + 1 ELSE age[a]]
    /\ UNCHANGED <<count, changes, policy, open, ensured, runbooks, handler, restarts>>

\* Dispatches, dead letters, incidents and messages come and go.
RowsChange(p, n) ==
    /\ p # "offlineGatewayCount" /\ n # count[p]
    /\ Change
    /\ count' = [count EXCEPT ![p] = n]
    /\ UNCHANGED <<age, policy, open, ensured, runbooks, handler, restarts>>

-----------------------------------------------------------------------------
(* ensureDefaults, before an evaluation or a patch. *)

Goto(r, state) == handler' = [handler EXCEPT ![r] = state]

StartReading == [pc |-> "read", next |-> 1, got |-> [p \in Policy |-> 0]]

Begin(task) == IF task.kind = "evaluate" THEN StartReading
                                         ELSE [pc |-> "getPolicy", task |-> task]

Ensure(r, task) ==
    /\ handler[r].pc = "idle"
    /\ Goto(r, IF ensured THEN Begin(task)
               ELSE [pc |-> "ensure", todo |-> Policy, task |-> task])

\* ON CONFLICT DO NOTHING: a stored row stays as it is.  The order of the
\* inserts makes no difference.
EnsurePolicy(r, p) ==
    LET h == handler[r] IN
    /\ h.pc = "ensure" /\ p \in h.todo
    /\ policy' = [policy EXCEPT ![p].stored = TRUE]
    /\ IF h.todo = {p} THEN Goto(r, Begin(h.task)) /\ ensured' = TRUE
       ELSE /\ Goto(r, [pc |-> "ensure", todo |-> h.todo \ {p}, task |-> h.task])
            /\ UNCHANGED ensured
    /\ UNCHANGED <<world, open, runbooks, restarts>>

-----------------------------------------------------------------------------
(* POST /telemetry-alerts/evaluate. *)

StartEvaluation(r) ==
    /\ Ensure(r, [kind |-> "evaluate"])
    /\ UNCHANGED <<world, policy, open, ensured, runbooks, restarts>>

\* A signal the overview does not collect keeps the value 0 (?? 0).
ReadSignal(r) ==
    LET h == handler[r]
        got == [h.got EXCEPT ![Overview[h.next]] = Reading(Overview[h.next])]
    IN
    /\ h.pc = "read"
    /\ Goto(r, IF h.next < Len(Overview)
               THEN [pc |-> "read", next |-> h.next + 1, got |-> got]
               ELSE [pc |-> "list", got |-> got])
    /\ UNCHANGED <<world, policy, open, ensured, runbooks, restarts>>

\* The next policy, in any order: the list is sorted by severities that
\* operators change.
Continue(r, todo, breached) ==
    Goto(r, IF todo = {} THEN Idle
            ELSE [pc |-> "find", todo |-> todo, breached |-> breached])

ListPolicies(r) ==
    LET h == handler[r]
        enabled == {p \in Policy : policy[p].stored /\ policy[p].enabled}
    IN
    /\ h.pc = "list"
    /\ Continue(r, enabled,
                {p \in enabled : Compare(h.got[p], policy[p].threshold)})
    /\ UNCHANGED <<world, policy, open, ensured, runbooks, restarts>>

At(h, pc, p) == [pc |-> pc, policy |-> p, todo |-> h.todo \ {p}, breached |-> h.breached]

\* Plausible bug: a breach opens an event whether or not one is open.
GetOpenEventMutant(r, p) ==
    LET h == handler[r] IN
    /\ h.pc = "find" /\ p \in h.todo
    /\ IF p \in h.breached THEN Goto(r, At(h, "create", p))
       ELSE IF open[p] > 0 THEN Goto(r, At(h, "resolve", p))
       ELSE Continue(r, h.todo \ {p}, h.breached)
    /\ UNCHANGED <<world, policy, open, ensured, runbooks, restarts>>

GetOpenEvent(r, p) ==
    LET h == handler[r] IN
    /\ h.pc = "find" /\ p \in h.todo
    /\ IF p \in h.breached /\ open[p] = 0 THEN Goto(r, At(h, "create", p))
       ELSE IF p \notin h.breached /\ open[p] > 0 THEN Goto(r, At(h, "resolve", p))
       ELSE Continue(r, h.todo \ {p}, h.breached)
    /\ UNCHANGED <<world, policy, open, ensured, runbooks, restarts>>

CreateAlertEvent(r) ==
    LET h == handler[r] IN
    /\ h.pc = "create"
    /\ open' = [open EXCEPT ![h.policy] = @ + 1]
    /\ Continue(r, h.todo, h.breached)
    /\ UNCHANGED <<world, policy, ensured, runbooks, restarts>>

\* All of them, however many were opened by evaluations that overlapped.
ResolveOpenEvents(r) ==
    LET h == handler[r] IN
    /\ h.pc = "resolve"
    /\ open' = [open EXCEPT ![h.policy] = 0]
    /\ Continue(r, h.todo, h.breached)
    /\ UNCHANGED <<world, policy, ensured, runbooks, restarts>>

-----------------------------------------------------------------------------
(* PATCH /telemetry-alerts/policies: read the row, then write all of it. *)

StartPatch(r, p, set) ==
    /\ Change
    /\ Ensure(r, [kind |-> "patch", policy |-> p, set |-> set])
    /\ UNCHANGED <<age, count, policy, open, ensured, runbooks, restarts>>

GetPolicy(r) ==
    LET h == handler[r] IN
    /\ h.pc = "getPolicy"
    /\ Goto(r, [pc |-> "setPolicy", task |-> h.task, row |-> policy[h.task.policy]])
    /\ UNCHANGED <<world, policy, open, ensured, runbooks, restarts>>

\* Plausible bug: the row is replaced by the patch instead of merged with it.
MergedMutant(row, set) == set
Merged(row, set) ==
    [c \in DOMAIN row |-> IF c \in DOMAIN set THEN set[c] ELSE row[c]]

UpdatePolicy(r) ==
    LET h == handler[r] IN
    /\ h.pc = "setPolicy"
    /\ policy' = [policy EXCEPT ![h.task.policy] = Merged(h.row, h.task.set)]
    /\ Goto(r, Idle)
    /\ UNCHANGED <<world, open, ensured, runbooks, restarts>>

-----------------------------------------------------------------------------
(* POST /sre/runbooks/:runbookKey/execute. *)

CreateExecution(r, x, key) ==
    /\ handler[r].pc = "idle"
    /\ execution[x].status = "absent"
    /\ execution' = [execution EXCEPT ![x] = [status |-> "running", key |-> key]]
    /\ Goto(r, [pc |-> IF key \in Sweeps THEN "sweep" ELSE "capture", execution |-> x])
    /\ UNCHANGED <<world, policy, open, ensured, swept, captured, orphaned, restarts>>

\* Plausible bug: what a sweep is followed by is forgotten.
AfterSweepMutant(key) == "complete"
AfterSweep(key) == IF key \in Captures THEN "capture" ELSE "complete"

\* runRetrySweep as a whole: CommandDelivery has its steps, and what it does to
\* the rows behind the signals is among the changes of the world.
RetrySweep(r) ==
    LET x == handler[r].execution IN
    /\ handler[r].pc = "sweep"
    /\ swept' = swept \cup {x}
    /\ Goto(r, [pc |-> AfterSweep(execution[x].key), execution |-> x])
    /\ UNCHANGED <<world, policy, open, ensured, execution, captured, orphaned, restarts>>

\* captureSnapshot: its counts are data that nothing here reads.
CaptureSnapshot(r) ==
    LET x == handler[r].execution IN
    /\ handler[r].pc = "capture"
    /\ captured' = captured \cup {x}
    /\ Goto(r, [pc |-> "complete", execution |-> x])
    /\ UNCHANGED <<world, policy, open, ensured, execution, swept, orphaned, restarts>>

CompleteExecution(r) ==
    LET x == handler[r].execution IN
    /\ handler[r].pc = "complete"
    /\ execution' = [execution EXCEPT ![x].status = "completed"]
    /\ Goto(r, Idle)
    /\ UNCHANGED <<world, policy, open, ensured, swept, captured, orphaned, restarts>>

-----------------------------------------------------------------------------
RunbookStep == {"sweep", "capture", "complete"}
Carried == {handler[r].execution : r \in {s \in Request : handler[s].pc \in RunbookStep}}

\* A statement threw, or the server was stopped.
Restart ==
    /\ restarts < MaxRestarts
    /\ restarts' = restarts + 1
    /\ handler' = [r \in Request |-> Idle]
    /\ ensured' = FALSE
    /\ orphaned' = orphaned \cup Carried
    /\ UNCHANGED <<world, policy, open, execution, swept, captured>>

World ==
    \/ \E a \in Agent : Heartbeat(a)
    \/ TimePasses
    \/ \E p \in Policy, n \in 0 .. MaxCount : RowsChange(p, n)

\* The next statement of a request in flight.
Proceed(r) ==
    \/ \E p \in Policy : EnsurePolicy(r, p) \/ GetOpenEvent(r, p)
    \/ ReadSignal(r) \/ ListPolicies(r) \/ CreateAlertEvent(r) \/ ResolveOpenEvents(r)
    \/ GetPolicy(r) \/ UpdatePolicy(r)
    \/ RetrySweep(r) \/ CaptureSnapshot(r) \/ CompleteExecution(r)

Next ==
    \/ World \/ Restart
    \/ \E r \in Request :
         \/ StartEvaluation(r)
         \/ \E p \in Policy, set \in Patch : StartPatch(r, p, set)
         \/ \E x \in Execution, key \in RunbookKey : CreateExecution(r, x, key)
         \/ Proceed(r)

Spec == Init /\ [][Next]_vars

\* Statements return.  That anybody asks for an evaluation is no part of it:
\* the properties that need one say so.
FairSpec == Spec /\ \A r \in Request : WF_vars(Proceed(r))

-----------------------------------------------------------------------------
(* Properties *)

\* Overlapping evaluations may each open an event for a policy before one sees
\* the event of the other, but however they interleave with resolutions no
\* policy has more open events than there are evaluations at once: one, when
\* they do not overlap (alerting.service.ts:63-81; no index forbids a second).
DuplicatesBounded == \A p \in Policy : open[p] <= Cardinality(Request)

\* A runbook is shown as running only while a request works on it, or when the
\* process ended under it (nothing ever marks it as failed), and as completed
\* only when everything it stands for was done (sre-runbook.service.ts:45-66).
RunbooksAccounted ==
    \A x \in Execution :
        LET row == execution[x] IN
        /\ row.status = "running" => x \in Carried \cup orphaned
        /\ row.status = "completed" =>
             /\ row.key \in Sweeps => x \in swept
             /\ row.key \in Captures => x \in captured

Watches(p) == policy[p].stored /\ policy[p].enabled
Breached(p) == Actual(p) >= policy[p].threshold

\* A threshold beyond the rows a list returns is never reached by its length.
Reachable(p) == p \in Listed => policy[p].threshold <= ListLimit

KeepsBeingEvaluated == []<><<\E r \in Request : StartEvaluation(r)>>_vars

Opens(p) == <>[](Watches(p) /\ Breached(p) /\ Reachable(p)) => <>[](open[p] > 0)
Resolves(p) == <>[](Watches(p) /\ ~Breached(p)) => <>[](open[p] = 0)

\* If evaluations keep being asked for, the events come to agree with the
\* world: a breach of a collected signal that lasts has an open event for
\* good, and one that is over has none, whatever overlapping evaluations with
\* older readings, patches and restarts left behind (alerting.service.ts:51-92).
AlertsSettle ==
    KeepsBeingEvaluated => \A p \in Collected : Opens(p) /\ Resolves(p)

\* default-alert-policies.ts:47: a policy "Triggers when too many dispatches are
\* waiting for retry", and each of the others when its own signal is high.
PoliciesTrigger == KeepsBeingEvaluated => \A p \in Policy : Opens(p)
=============================================================================

# FloWiser verification

TLA+ specifications of the FloWiser backend (`src/FloWiser/backend`), their TLC
runs, and TLAPS proofs. FloWiser takes telemetry of generators and meters,
judges it, raises alerts and recommendations, and sends approved actions back to
gateways at the sites. The backend is one Express 4 process on Node 20 beside a
PostgreSQL database.

What makes it hard is the same everywhere: a request is a row of awaited
statements without a transaction around them, requests interleave between any
two statements, and an error that a route does not catch is an unhandled
rejection, which ends a Node 20 process and with it every other request in
flight. The database is written by single statements, so every statement is
atomic and nothing larger is. The modules are built on this: **one action per
awaited statement, one handler state per request in flight, and an action by
which the process ends.**

## 1. Inventory

| Component | State | Operations | Talks to | Hard behaviour | What makes it correct |
|---|---|---|---|---|---|
| Controls: `modules/controls`, `routes/controls.ts` | `action_executions`, approvals, guardrail outcomes, policies (tables) | request an execution, add an approval, complete, patch a policy | reads and resolves recommendations; commands dispatch what it releases | approvals are counted, the threshold is read and the row is written in separate statements; the write puts back a whole row | nothing is released below its quorum or against its guardrails; a closed gate stays closed; outcome and status agree |
| Commands, broker, gateway, operations: `modules/commands`, `broker`, `gateway`, `operations` | dispatches, broker messages, dead letters, incidents (tables) | dispatch, publish, pull, report, retry, sweep, dead-letter | closes executions of the controls | lost publications, claims and responses; retries beside late reports; crash between two statements | commands do not pile up, always reach an agent or are closed; executions close on evidence only |
| Alerts and issues: `modules/alerts`, `routes/issues.ts` | alerts, issues, open counts (tables) | handle an event, acknowledge, assign, transition | fed by ingestion; counts are shown in the state rows | find-then-create without a lock; a unique index on active alerts; suppression windows; healing | alerts are the symptoms of the last event that came alone; issues follow alerts; notifications keep the suppression window |
| Registry: `modules/registry` | tenants, branches, sites, assets, devices, bindings (memory) | create, import in bulk, bind, remap, unbind | none | imports and remaps that stop half-way (all its calls are synchronous) | the hierarchy agrees; bindings are exclusive, located, and their history stays |
| Ingestion: `modules/ingestion`, `routes/ingestion.ts` | claims, last sequence and time, dead letters (memory) | process an envelope | stores, then rules, recommendations, alerts | claims in memory before rows in tables; process end | what is answered as duplicate is stored; findings complete |
| Storage: `modules/storage` | raw and canonical events, state rows, rollups (tables) | persist, persist a re-evaluation | called by ingestion and quality | eight statements that may stop anywhere | rollups nest, count stored readings only; state rows point to stored events |
| Rules: `modules/rules`, `routes/rules.ts` | rule rows, traces (tables); previous event, peak of the day, generator starts (memory) | evaluate an event, patch a rule | between storage and recommendations | maps are read, traces are awaited, maps are written | maps summarise the past; each enabled rule judges once |
| Recommendations: `modules/recommendations`, `routes/recommendations.ts` | recommendations (table) | upsert from matched traces, approve, reject, resolve | written by rules, operators and controls | decisions read, then write; matches refresh the row meanwhile | neither matches nor decisions are lost |
| Quality: `modules/quality`, `routes/quality.ts` | the last event decoded per device, metrics (memory) | judge an event, re-evaluate a stored one | called by decoding; re-evaluation writes through storage | every decoded message, previews and replays included, becomes the predecessor of the next; a re-evaluation reads, judges and writes while others do | no fall of an energy counter passes unnoticed; a re-evaluation only forgets, and does not count again |
| Decoders, normalization, telemetry decode, raw archive in memory: `modules/decoders`, `normalization`, `telemetry`, `raw-events` | a record per raw message (memory) | choose a decoder, decode, archive | ingestion and the preview route call it, it calls quality | a hint wins over the payload; a preview leaves traces in the history | what is decoded is a reading the verdict can rest on |
| Alert policies, observability: `modules/telemetry-infra`, `observability`, `routes/telemetry-alerts.ts` | policies, their events, snapshots (tables); whether the defaults are there (memory) | evaluate, patch a policy, capture a snapshot | reads gateways, dispatches, incidents, dead letters, messages | signals are collected one statement after the other; read-then-create of open events; read-then-write of a policy | duplicates are bounded; open events come to agree with the world |
| Runbooks: `modules/sre`, `routes/sre.ts` | runbook executions (table) | execute a runbook | runs the retry sweep, captures a snapshot | three statements, and nothing marks a failure | running has a request or lost it; completed means done |
| Gateway heartbeats and health: `modules/gateway`, `operations` | last heartbeat per gateway (table) | heartbeat, health | read by the overview | age of a heartbeat against two thresholds | an offline gateway leads to an event |
| State engine, dashboard: `modules/state`, `routes/state.ts`, `dashboard.ts` | none; ages at query time | list, summarise | reads storage | thresholds | data |
| Reporting, field verification, experience, access | rows nobody else reads; audit log | insert, aggregate | reads all | none | data |
| Platform wiring, migrations, front end, schemas, infrastructure | - | - | - | - | - |

`PROJECT.json` lists the files of each component and how much of it is modelled.

## 2. Plan

Written so far, in this order, the most consequential first:

1. `ApprovalGate` (abstract) and `ActionExecution`, which implements it.
2. `CommandDelivery`: what happens to a released execution.
3. `AlertWorkflow`: alerts and issues of one device.
4. `Registry`: hierarchy and bindings.
5. `Ingestion`: deduplication, storage, rollups, re-evaluation.
6. `Rules`: rules engine and recommendations.

7. `Monitoring`: gateways, alert policies and their events, runbooks.
8. `Quality`: decoding, verdicts and the history they are judged by.

Left, in this order:

1. An abstract `Outbox` (a command is waiting, with an agent, or reported) that
   `CommandDelivery` implements.
2. External telemetry (profiles and deliveries) and reports, should they come to
   decide anything.

`ActionExecution` and `CommandDelivery` share the status of an execution and
`Rules` and `ActionExecution` the row of a recommendation; `Monitoring` counts rows
of `CommandDelivery`, and `Ingestion` stores what `Quality` judged. Each takes the steps
of the other as steps of its environment (`ControlsStep`, `Decide`,
`Downstream`, `RowsChange`), which lets each be checked and proved on its own.

## 3. Modules

Every module begins with what it abstracts. `PROJECT.json` maps each definition
to the lines it stands for. Names are those of the source where there is one:
actions are named for the method or the statement, variables for tables or maps.
`\* Mutant` and `\* Plausible bug` mark definitions used only to make sure that
a property can fail.

**ApprovalGate** promises what operators rely on: an execution is requested,
waits with a quorum, is released when distinct approvers reach the quorum, is
finished once released, or is closed at once.

**ActionExecution** has the tables `execution`, `approval`, `policy` and
`recommendation` and one handler per request in flight. `requestExecution` is
`RequestExecution`, `EvaluateGuardrails`, `ReadThreshold`,
`CreateExecutionRequest`; `addApproval` is `AddApproval`, `CreateApproval`,
`ListApprovals`, `CheckThreshold`, `ReadForUpdate`, `PromoteToReady`; and so on,
one action per storage call. The history variable `bar` is the lowest threshold
in force since the request. Guardrails other than the decision on the
recommendation are one nondeterministic verdict. The constant `Gated` is the set
of recommendations that require approval: the mode is a function of the rule,
and the rule is part of the key of the row, so it never changes.

**CommandDelivery** has dispatches, broker messages (a fixed number of slots, a
slot is reused when its message is closed; slots and operators are finitely
many), dead letters and the status of the
execution. `Tick` stands for five minutes; a dispatch is `ahead`, `due` or
`overdue`. Claiming is the two stages PostgreSQL gives the statement: candidates
chosen, then rows updated. The channel decides the number of attempts: three for
the gateway, one for the simulator. The sweep is a handler with the list it read
at its start.

**AlertWorkflow** has alerts and issues of one device with one key per type, and
`openCount`, the number of open issues the state rows show. One action per
statement; `Restart` after a statement that throws. `BuildOrder` is the order in
which `buildCandidates` tests the types; a request keeps in `todo` the places of
the candidates it has not come to, and works on the `First` of them
(`Candidate`). There are as many rows as the constants `Alert` and `Issue` have
members, the issues finitely many. There is no clock: the time of an
event is `receivedAt`, which the caller or the forwarding gateway supplies, so
`Process` takes any time up to `MaxTime`, earlier than the last one too. `Window`
is the suppression window in the same unit. Two history variables say what the
properties need of the past: `latest`, the last event to start and whether it was
`alone`; and `rung`, the time an alert was last notified for by an event no other
overlapped.

**Registry** has six maps and no interleaving: the services are synchronous. An
import carries out one record per step, which no other request can observe, so
that the prefix of a rejected import is a state of its own.

**Ingestion** does `process` in one step (it is synchronous) and every statement
of `persistProcessedTelemetry` as a step, interleaved with other requests and
with re-evaluations. `Granularities` gives the order of the four rollups. The
dead-letter stage `processing` is never reached: both errors that decoding
throws are recognised as decode errors.

**Rules** goes on where `Ingestion` ends with `Downstream`: `ReadRules`,
`BuildContext`, one `SaveTrace` per enabled rule in the order of the table,
`UpdateRuntimeState` (synchronous, on the maps as they are then), one `Upsert`
per matched trace. `Matches` holds the nine evaluators. Beside it operators
patch rules (`ReadRule`, `WriteRule`) and decide (`ReadRecommendation`,
`WriteDecision`). History: `updates`, the events in the order they reached the
maps, and `written`, the last match and decision of each recommendation.

**Monitoring** has the age of the last heartbeat of each gateway, the number of
rows behind every other signal, the policies, the number of open events of each,
and runbook executions. A policy is named by its signal. `StartEvaluation`,
`EnsurePolicy`, `ReadSignal` (one statement of `getOverview` each),
`ListPolicies`, `GetOpenEvent`, `CreateAlertEvent` and `ResolveOpenEvents` are an
evaluation; `StartPatch`, `GetPolicy`, `UpdatePolicy` a patch; `CreateExecution`,
`RetrySweep`, `CaptureSnapshot`, `CompleteExecution` a runbook. The constant
`Overview` lists the signals the overview has; what it lacks is read as 0.

**Quality** has the reading decoded last per device (`latest`), the parse status
of raw events, and stored events with their verdicts. Decoding and judging are
one synchronous step (`Decode`), storing is another, and a re-evaluation is two
(`FindEvent`, `SaveReevaluated`). `Shows` and `Contrasts` are the sixteen flags, by
a reading itself and beside its predecessor. The history variable `seen` has the
counters decoded since the last flagged fall.

## 4. Runs

| Run | Expected | Instance | What it shows |
|---|---|---|---|
| `ActionExecution_safety` | pass | 1 execution, 2 requests in flight, 2 approvers, thresholds 0 to 2, storage may fail | quorum, outcome against status, implements `ApprovalGate` |
| `CommandDelivery_safety` | pass | 1 dispatch to the simulator (one attempt), 3 message slots, 1 agent reporting on anything, 2 operators | at most as many copies as concurrent retries; an execution is executed on evidence that the simulator carried out a dispatch (a simulation is none) or an agent reported a success, and fails on a dead letter |
| `CommandDelivery_liveness` | pass | 1 dispatch to the gateway, 2 slots, 1 agent reporting on anything, 1 operator, 1 failing call or restart | every dispatch reaches an agent or is closed; a failed one is taken up; over the gateway an execution is executed on a recorded success only |
| `CommandDelivery_unready` | violation | gateway, no failures | a manual retry publishes a dispatch whose execution was never ready |
| `AlertWorkflow_sequential` | pass | 4 events one at a time, 2 types, 1 operator, no failures | issues follow alerts through every sequence of symptoms, recoveries and operator steps |
| `AlertWorkflow_overlap` | pass | 3 events with times 1 or 2 in any order, a window of 1, 2 at a time, 1 type, 1 operator, 1 failure | alerts follow an event that came alone, suppression is honoured, duplicates bounded, the open count is zero or right |
| `Registry_safety` | pass | 2 of each record, 2 bindings, imports that stop half-way | hierarchy, exclusiveness, periods, history |
| `Ingestion_safety` | pass | 3 requests, 2 at a time, over 6 messages with replays and gaps, 1 process end | claims, rollups, samples, state rows, findings |
| `Rules_safety` | pass | 3 events of 5, 2 at a time, 3 rules, 1 operator request, 1 process end | maps, traces, recommendations, decisions |
| `Monitoring_alerts` | pass | 1 gateway, 2 policies (offline gateways; dead letters behind a list of one row), 2 requests, 1 runbook, 2 changes, 1 process end | duplicates bounded, runbooks accounted for, open events settle |
| `Monitoring_retries` | violation | 1 request, the policy on scheduled retries | that policy never opens an event |
| `Quality_safety` | pass | 4 requests over 6 messages of all formats, 1 process end | counter falls noticed, re-evaluation only forgets |

**Bounds.** Every interference here is between two requests (a read by one
falls between two statements of the other), so two at a time reach it; a third
event, message or request is there where it takes a third to observe the damage
(a third event after two that overlapped, a third slot for a second retry; in
`AlertWorkflow_sequential` a fourth, for a symptom that goes, returns and goes
again). One
failure or one process end reaches each gap between two statements; what
follows it is the behaviour of a fresh process on the same tables. One
execution, dispatch or device suffices where no statement relates two of them.
The messages of `MCIngestion` have a replay under another identifier, a reading
without a sequence number, one without power, a gap in the sequence, and cross
the 5-minute and the hour boundary. The events of `MCRules` start a generator
three times, the last more than 24 hours after the first, so that the history of
starts is pruned. The messages of `MCQuality` have a late one, one without a
counter, a fall below everything seen, and a hint of the wrong decoder; four
requests are needed for a fall after a late reading and a re-evaluation beside
it. In `Monitoring_alerts` the limit of the list is 1 and thresholds are 1 and 2, so
that a threshold is met exactly and lies beyond the limit; changes are bounded,
so the world comes to rest, which is what the liveness property is about.
`listAgents` returns at most 100 rows; `Monitoring` leaves that limit out, which
its one gateway never reaches and an installation with more would. In
`AlertWorkflow_overlap` times and the window are chosen so that an event may lie
within, at the end of and before the window of another. `CopiesBounded` is about
copies that still wait; what the agents hold already, and two pulls that claim the
same message, it does not count. Deadlock is checked where it is meaningful; the runs that turn
it off have finite inputs, which run out.

The route that takes results accepts any dispatch from any agent: `ReportAny`
says whether agents make use of that. It is what reopens a simulated dispatch and
lets a sweep dead-letter it. The violation run does without it.

**Fairness** (`CommandDelivery!FairSpec`). Weak fairness of `Continue` (a
request in flight executes its next statement) and of `Tick` (time passes): the
event loop and the clock. Strong fairness of `PullDispatches` (agents keep
polling) and of `RunRetrySweep`. Nothing in the backend schedules the sweep: it
runs when `POST /operations/retries/run` or a runbook calls it, so the liveness
properties say what holds **if operators keep running it**. Strong fairness is
needed because a poll or a sweep is only possible while its agent or operator
has no other request in flight. Dispatching, reporting and failing are not fair.

`Monitoring!FairSpec` assumes only that a request in flight executes its next
statement. Nothing schedules evaluations, so that they keep being asked for is
the antecedent of `AlertsSettle` (`KeepsBeingEvaluated`) and not an assumption of
the specification; heartbeats, time, patches and restarts are free.

## 5. Divergences

Two runs show where the code does something else than it says; `PROJECT.json`
quotes the lines.

- *Retry of the unready.* `retryDispatch` refuses only succeeded and
  dead-lettered dispatches: a plan or a blocked dispatch is published.
- *Scheduled retries.* `default-alert-policies.ts:47` has a policy on
  `retryScheduledCount`; `getOverview` returns no such count
  (`observability.service.ts:55-66`), and `alerting.service.ts:61` reads what is
  not there as 0.

Three others contradict a line of the repository and are part of the models,
without a run:

- *Two persons.* `execution-guardrail.service.ts:42` warns that two distinct
  approvals are required; `action-execution.service.ts:110` compares with
  `minExecutionApprovals` alone, so one may do.
- *Attempts.* Claiming a message increments `claim_count` of the message, never
  `attempt_count` of the dispatch, so a gateway dispatch is never exhausted and
  never dead-lettered by the sweep
  (`tests/gateway-operations.service.test.ts:100` says it is).
- *Refused remap.* `remapBinding` stores the old binding as ended
  (`registry.service.ts:260`) before the new asset is checked: a refused remap
  leaves the device without a binding.

More was met while modelling, and nothing in the repository says otherwise: two completions of one
execution may both pass the ready check and the second overwrites the first;
resolving a recommendation writes back the approval it read and may undo a
rejection; a late report is overwritten by a retry; the back-off is stored and
not waited for (a claim does not look at `next_attempt_at`); projections set the number of open issues to zero; an assignment
may reopen a resolved issue; the end of a suppression window follows `receivedAt`,
so an event with an earlier time moves it back and the alert rings again sooner;
the window is stored before the notification is sent, so one that is lost to a
restart is not repeated within it; an alert that is resolved and raised again is
a new row and rings each time; two events that overlap may both notify; two pulls
at once may claim one message; device, site and branch rows may show different
events, and a re-evaluation moves them back; a rule that matches again refreshes
a recommendation and leaves it rejected or resolved; two patches of one rule that
overlap lose one of the two, and so do two patches of an alert policy; a runbook
whose sweep throws is shown as running for ever; a preview or a duplicate may
absorb the flag of a fallen counter, which the stored events then do not show; a
wrong decoder hint makes a readable payload fail; a frequency or power factor
sent as the number 0 is dropped; a forwarded message counts as received when the
gateway says it published it. The stores that are maps in memory are lost with
the process, as `docs/engineering/clean-state-checkpoint.md` acknowledges.

One assumption is made throughout: rows come back from the driver in the shape
the code goes on to use. Several repositories hand columns of type `TIMESTAMPTZ`
or `BIGINT` to string or number schemas, and no type parser is configured; the
modules model the use the source makes of them.

## 6. Proofs

The proofs hold for every value of the constants under the named assumptions of
each module, which TLC evaluates on every run.

**`ActionExecution_proofs`**: `TypeCorrect`, `QuorumHolds`
(`ReleasedHasQuorum`), `OutcomeHolds` (`OutcomeMatchesStatus`) and
`GateImplemented` (`ImplementsGate`). The quorum is not inductive: a handler that
is about to promote an execution has counted approvals and read a threshold some
statements ago. `QuorumInv` adds what the handlers hold: a list of approvals read
earlier is contained in the table (approvals are never deleted), and a threshold
read earlier is at least `bar`, the lowest in force since. So a stale count is
too low, never too high. The refinement of `ApprovalGate` rests on the same
invariant: initial states map to initial states, and each action to the step of
the gate that its write is, or to a stutter.

**`CommandDelivery_proofs`**: `DeliveryTypeCorrect` (`TypeOK`), `EvidenceHolds`
(`OutcomeHasEvidence`) and `CopiesHold` (`CopiesBounded`). `DeliveryInv` is `TypeOK`
with `Grounded` for each request: between its statements a request holds
dispatches that exist; a request past the insertion of a dead letter finds it
there; one that goes on after a successful report has its receipt in the table;
and one about to close an execution holds the evidence (`Proven`): a receipt, a
dispatch the simulator carried out (`Simulated`), or a dead letter. Rows of
dispatches with their attempts, receipts and dead letters are never taken back
(`Grows`), so what one
request has grounded no other can unground. `CopiesHold` carries the
precondition `failures = 0`: withdrawing is a statement of its own, and if it
throws, what is left of the earlier copy stays. The run of `CopiesBounded` has
`MaxFailures = 0` for the same reason. Its invariant `RoomLeft` counts copies that
wait together with requests that are past the withdrawal and about to publish.

**`AlertWorkflow_proofs`**. For any number of overlapping requests:
`AlertsTypeCorrect`, `AlertsReferHolds`, `CountHolds` (`CountIsZeroOrRight`),
`DuplicatesHold` (`DuplicateIssuesBounded`), `TelemetryFollowed`
(`AlertsFollowTelemetry`) and `SuppressionHolds` (`SuppressionHonoured`). `AlertInv`
says of every request what the row it read some statements ago still has: its
key, and that it is in use; whatever is written back is an alert of the same key,
and an insertion beside an active one is refused by the index. The number of
open issues rests on `CountPending`: whenever it may be wrong, a request is still
to count. Duplicates rest on `DuplicatesCounted`: the open issues of a key and the
requests about to open one are together no more than requests in flight.

`TelemetryFollowed` and `SuppressionHolds` speak of events that no other
overlapped, after any overlaps before. Such an event knows at each of its
statements which of its candidates are active already, which alerts are still to
be resolved, and when its window was read (`Follows`); as soon as another event
starts, nothing more is said of it. `rung` is set only when no other event is in
flight, so nobody then holds a copy of the row from before; whatever overlaps
later reads, and writes, an end of the window that is late enough (`WindowsFit`,
`Waits`), unless its time is the earlier one, and that is when `rung` forgets the
notification.

Under `MaxInFlight = 1`, which is how its run is set up: `IssuesFollow`
(`IssuesFollowAlerts`). This is the case of a device that waits for the answer
before it sends again; with `MaxInFlight = 2` TLC finds it violated, because two
events that overlap open an issue each and the alert refers to one of them.
Operators remain free to interleave.

**`Registry_proofs`**: `InvHolds` with `Inv` = `TypeOK`, `HierarchyConsistent`,
`BindingsLocated`, `BindingExclusive`; then `RegistryTypeCorrect`,
`HierarchyHolds`, `BindingsExclusiveHold`, `HistoryHolds` and `PeriodsHold`.
`BindingsLocated` is what exclusiveness rests on: the code looks for the active
bindings of an asset among those of one site only, which suffices because a
binding lies where its asset lies and assets never move. `PeriodsHold` adds that
no binding of the server's own time lies in the future.

**`Ingestion_proofs`**: `TypeCorrect`, `ClaimsHold` (`ClaimedIsStored`),
`ShownHolds` (`ShownIsStored`), `FindingsHold` (`FindingsAreComplete`),
`SamplesHold` (`SamplesHaveEvents`), `ReadingsHold` (`ReadingsCountOnce`) and
`NestedHolds` (`RollupsNested`).

- `ClaimInv` says for every claim which request holds it or which row it has
  become, and for every request that its raw payload and event are stored by the
  time it is about to refer to them.
- `Latest`: what is remembered is a number that was accepted and none accepted is
  greater. The comparison with it then decides the same as a comparison with all.
- `SamplesInv`: a bucket has at most as many samples as there are stored events
  that are not still `Waiting` to be counted there, and exactly as many until the
  process first ends.
- `TakenInv`: until then accepted messages and the requests that store them
  correspond one to one, so counting readings and counting events agree.
- `NestedInv`: a wider bucket and the requests `Between` the two rollups are
  together no more than the sum of the finer buckets. It rests on the arithmetic
  of `BucketStart`, and on what one more sample does to a sum.

**Sums.** `SumFunctionOnSet` of the community modules is a recursive function on
subsets. `SetInduction` states induction over finite sets for a *set* of subsets
instead of an operator (the minimal element of the subsets left over, by
well-foundedness of strict inclusion), which the provers can instantiate; with it
`SumView`, `SumSame` and `SumOneMore` say what the sum is and how it changes.

**`Rules_proofs`**: `RulesTypeCorrect`, `JudgedHolds` (`JudgedByOneReading`),
`RecommendedHolds` (`RecommendedIffMatched`), `KeptHolds`
(`MatchesAndDecisionsKept`) and `SummaryHolds` (`MapsSummarise`). `TraceInv` relates a request to its traces at each
point: which rules it is done with have exactly one trace each, and a match is
still to be recommended or has its row; it is needed because a request that is
answered no longer says which rules it read. `RowsInv` relates rows to the last
write, and says that a row that is not there has not been decided on. `DeskInv`
(a decision under way is about a row that exists) is where "rows are never
deleted" enters; the type invariant rests on it. `MapsInv` adds to `MapsSummarise` that a
device with a previous event has a last update (`LastKept`), without which the
property does not say whether the device was running when the next one comes.

**`Monitoring_proofs`**: `TypeCorrect`, `DuplicatesAreBounded`
(`DuplicatesBounded`) and `RunbooksAreAccounted` (`RunbooksAccounted`). That no
policy has more open events than requests is not inductive: evaluations that
have found none are about to create one each. `PromisesBounded` bounds the sum of
the open events and those about to be created by the number of requests: creating
turns one into the other, and a request decides to create only while none is open. `RunbookInv` says for each request at a runbook what its execution row
looks like and what was done for it by then.

**`Quality_proofs`**: `QualityTypeCorrect`, `CounterDropsAreNoticed`
(`CounterDropsNoticed`) and `ReevaluationForgets` (`ReevaluationOnlyForgets`). The
first rests on what is remembered being replaced by every reading, late ones
too. The last needs that the verdict of every event, stored or about to be, is
that of its reading beside some predecessor or none, and lemmas on the lists of
points: fewer flags never cost more.

**Model-checked only.** Liveness under fairness (`ReachesAgent`,
`FailedIsTakenUp`, `AlertsSettle`), which is out of this prover's reach. Every
other property of a passing run is stated by a theorem: as it stands, or, where
the text above says so, under the precondition of its run (`MaxInFlight = 1`,
`failures = 0`).

## 7. Not modelled

- Wording, scores, savings, health scores, sums and averages of rollups: data
  that no statement branches on.
- Read routes: they change nothing.
- Freshness of devices and sites: two thresholds on an age, computed when read;
  nothing depends on it.
- Profiles and deliveries of external telemetry, the counters of the quality
  metrics and the counts in snapshots: rows and numbers nobody decides on.
- Reporting, field verification, experience, access, front end: they read what
  the modelled parts write or keep rows nobody else reads.
- Two processes on one database: the maps of one process make the deployment a
  single process, and the modules say so.
- Several statements of the database at once: each is atomic, except the claim
  of broker messages, which PostgreSQL evaluates in two stages and which is
  modelled so.

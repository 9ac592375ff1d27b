--------------------------- MODULE Monitoring_proofs ---------------------------
(***************************************************************************)
(* Proofs about Monitoring: how many events of a policy can be open, and   *)
(* what the rows of runbook executions stand for, for any gateways,        *)
(* policies, thresholds, requests and bounds.                              *)
(***************************************************************************)
EXTENDS Monitoring, FiniteSetTheorems, TLAPS

\* What a record of HandlerState with a given pc looks like.
LEMMA HandlerShape ==
    ASSUME NEW h \in HandlerState
    PROVE  /\ h.pc = "ensure" => h.todo \subseteq Policy /\ h.task \in Task
           /\ h.pc = "read" => /\ h.next \in 1 .. Len(Overview)
                               /\ h.got \in [Policy -> Nat]
           /\ h.pc = "list" => h.got \in [Policy -> Nat]
           /\ h.pc = "find" => h.todo \subseteq Policy /\ h.breached \subseteq Policy
           /\ h.pc \in {"create", "resolve"} =>
                h.policy \in Policy /\ h.todo \subseteq Policy /\ h.breached \subseteq Policy
           /\ h.pc = "getPolicy" => h.task \in PatchTask
           /\ h.pc = "setPolicy" => h.task \in PatchTask /\ h.row \in Row
           /\ h.pc \in RunbookStep => h.execution \in Execution
BY DEF HandlerState, RunbookStep

\* The records a handler can be set to.
LEMMA MakeHandler ==
    /\ Idle \in HandlerState
    /\ \A todo \in SUBSET Policy, task \in Task :
          [pc |-> "ensure", todo |-> todo, task |-> task] \in HandlerState
    /\ \A n \in 1 .. Len(Overview), got \in [Policy -> Nat] :
          [pc |-> "read", next |-> n, got |-> got] \in HandlerState
    /\ \A got \in [Policy -> Nat] : [pc |-> "list", got |-> got] \in HandlerState
    /\ \A todo, breached \in SUBSET Policy :
          [pc |-> "find", todo |-> todo, breached |-> breached] \in HandlerState
    /\ \A pc \in {"create", "resolve"}, p \in Policy, todo, breached \in SUBSET Policy :
          [pc |-> pc, policy |-> p, todo |-> todo, breached |-> breached] \in HandlerState
    /\ \A task \in PatchTask : [pc |-> "getPolicy", task |-> task] \in HandlerState
    /\ \A task \in PatchTask, row \in Row :
          [pc |-> "setPolicy", task |-> task, row |-> row] \in HandlerState
    /\ \A pc \in RunbookStep, x \in Execution :
          [pc |-> pc, execution |-> x] \in HandlerState
BY DEF HandlerState, RunbookStep, Idle

LEMMA BeginTyped ==
    ASSUME NEW task \in Task
    PROVE  Begin(task) \in HandlerState
<1>1. 1 \in 1 .. Len(Overview)
  BY PolicyAssumption
<1>2. [p \in Policy |-> 0] \in [Policy -> Nat]
  OBVIOUS
<1>3. task.kind # "evaluate" => task \in PatchTask
  BY DEF Task
<1> QED BY <1>1, <1>2, <1>3, MakeHandler DEF Begin, StartReading

LEMMA CollectedPolicy ==
    ASSUME NEW n \in 1 .. Len(Overview)
    PROVE  Overview[n] \in Policy
BY PolicyAssumption

\* What a statement of the overview returns is a number.
LEMMA ReadingIsNat ==
    ASSUME TypeOK, NEW p \in Policy
    PROVE  Reading(p) \in Nat
<1>1. IsFiniteSet(Offline)
  BY AgentAssumption, FS_Subset DEF Offline
<1>2. Cardinality(Offline) \in Nat
  BY <1>1, FS_CardinalityType
<1>3. count[p] \in Nat
  BY DEF TypeOK
<1> QED BY <1>2, <1>3, PolicyAssumption DEF Reading, Actual

\* Merging a patch into a row gives a row.
LEMMA MergedIsRow ==
    ASSUME NEW row \in Row, NEW set \in Patch
    PROVE  Merged(row, set) \in Row
<1>1. DOMAIN row = {"stored", "enabled", "threshold"}
  BY DEF Row
<1>2. CASE set \in [enabled : BOOLEAN]
  <2>1. DOMAIN set = {"enabled"} /\ set.enabled \in BOOLEAN
    BY <1>2
  <2>2. Merged(row, set) =
          [stored |-> row.stored, enabled |-> set.enabled, threshold |-> row.threshold]
    BY <1>1, <2>1 DEF Merged
  <2> QED BY <2>1, <2>2 DEF Row
<1>3. CASE set \in [threshold : Limit]
  <2>1. DOMAIN set = {"threshold"} /\ set.threshold \in Nat
    BY <1>3, PolicyAssumption
  <2>2. Merged(row, set) =
          [stored |-> row.stored, enabled |-> row.enabled, threshold |-> set.threshold]
    BY <1>1, <2>1 DEF Merged
  <2> QED BY <2>1, <2>2 DEF Row
<1> QED BY <1>2, <1>3 DEF Patch

-----------------------------------------------------------------------------
(* Type correctness *)

LEMMA InitTyped == Init => TypeOK
<1> SUFFICES ASSUME Init PROVE TypeOK
  OBVIOUS
<1>1. age \in [Agent -> Age \cup {Never}]
  BY DEF Init
<1>2. policy \in [Policy -> Row]
  BY PolicyAssumption DEF Init, Row
<1>3. handler \in [Request -> HandlerState]
  BY MakeHandler DEF Init
<1>4. execution \in [Execution -> ExecutionRow]
  BY DEF Init, ExecutionRow
<1>5. count \in [Policy -> Nat] /\ open \in [Policy -> Nat]
  BY DEF Init
<1>6. changes \in 0 .. MaxChanges /\ restarts \in 0 .. MaxRestarts
  BY BoundAssumption DEF Init
<1> QED BY <1>1, <1>2, <1>3, <1>4, <1>5, <1>6 DEF Init, TypeOK

\* Setting one handler to a record of the type keeps the type of all.
LEMMA GotoTyped ==
    ASSUME TypeOK, NEW r \in Request, NEW s \in HandlerState, Goto(r, s)
    PROVE  handler' \in [Request -> HandlerState]
BY DEF TypeOK, Goto

LEMMA ContinueTyped ==
    ASSUME TypeOK, NEW r \in Request,
           NEW todo \in SUBSET Policy, NEW breached \in SUBSET Policy,
           Continue(r, todo, breached)
    PROVE  handler' \in [Request -> HandlerState]
BY GotoTyped, MakeHandler DEF Continue

LEMMA EnsureTyped ==
    ASSUME TypeOK, NEW r \in Request, NEW task \in Task, Ensure(r, task)
    PROVE  handler' \in [Request -> HandlerState]
<1>1. [pc |-> "ensure", todo |-> Policy, task |-> task] \in HandlerState
  BY MakeHandler
<1> QED BY <1>1, BeginTyped, GotoTyped DEF Ensure

LEMMA ChangeTyped ==
    ASSUME TypeOK, Change
    PROVE  changes' \in 0 .. MaxChanges
BY BoundAssumption DEF TypeOK, Change

LEMMA WorldTyped ==
    ASSUME TypeOK, World
    PROVE  TypeOK'
<1>1. ASSUME NEW a \in Agent, Heartbeat(a) PROVE TypeOK'
  <2>1. age' \in [Agent -> Age \cup {Never}]
    BY <1>1, AgentAssumption DEF Heartbeat, TypeOK, Age
  <2> QED BY <1>1, <2>1, ChangeTyped DEF Heartbeat, TypeOK, runbooks
<1>2. ASSUME TimePasses PROVE TypeOK'
  <2>1. ASSUME NEW a \in Agent, age[a] # Never, age[a] <= OfflineAfter
        PROVE  age[a] + 1 \in Age
    BY <2>1, AgentAssumption DEF TypeOK, Age
  <2>2. age' \in [Agent -> Age \cup {Never}]
    BY <1>2, <2>1 DEF TimePasses, TypeOK
  <2> QED BY <1>2, <2>2 DEF TimePasses, TypeOK, runbooks
<1>3. ASSUME NEW p \in Policy, NEW n \in 0 .. MaxCount, RowsChange(p, n) PROVE TypeOK'
  <2>1. count' \in [Policy -> Nat]
    BY <1>3, BoundAssumption DEF RowsChange, TypeOK
  <2> QED BY <1>3, <2>1, ChangeTyped DEF RowsChange, TypeOK, runbooks
<1> QED BY <1>1, <1>2, <1>3 DEF World

LEMMA EvaluateTyped ==
    ASSUME TypeOK, NEW r \in Request,
           \/ StartEvaluation(r)
           \/ \E p \in Policy : EnsurePolicy(r, p) \/ GetOpenEvent(r, p)
           \/ ReadSignal(r) \/ ListPolicies(r)
           \/ CreateAlertEvent(r) \/ ResolveOpenEvents(r)
    PROVE  TypeOK'
<1> DEFINE h == handler[r]
<1>0. h \in HandlerState
  BY DEF TypeOK
<1>1. CASE StartEvaluation(r)
  <2>1. [kind |-> "evaluate"] \in Task
    BY DEF Task
  <2>2. handler' \in [Request -> HandlerState]
    BY <1>1, <2>1, EnsureTyped DEF StartEvaluation
  <2> QED BY <1>1, <2>2 DEF StartEvaluation, TypeOK, world, runbooks
<1>2. ASSUME NEW p \in Policy, EnsurePolicy(r, p) PROVE TypeOK'
  <2>1. h.todo \subseteq Policy /\ h.task \in Task
    BY <1>0, <1>2, HandlerShape DEF EnsurePolicy
  <2>2. [pc |-> "ensure", todo |-> h.todo \ {p}, task |-> h.task] \in HandlerState
    BY <2>1, MakeHandler
  <2>3. handler' \in [Request -> HandlerState]
    BY <1>2, <2>1, <2>2, BeginTyped, GotoTyped DEF EnsurePolicy
  <2>4. policy' \in [Policy -> Row]
    <3>1. ASSUME NEW row \in Row PROVE [row EXCEPT !.stored = TRUE] \in Row
      BY DEF Row
    <3> QED BY <1>2, <3>1 DEF EnsurePolicy, TypeOK
  <2>5. ensured' \in BOOLEAN
    BY <1>2 DEF EnsurePolicy, TypeOK
  <2> QED BY <1>2, <2>3, <2>4, <2>5 DEF EnsurePolicy, TypeOK, world, runbooks
<1>3. CASE ReadSignal(r)
  <2> DEFINE k == h.next
             got == [h.got EXCEPT ![Overview[k]] = Reading(Overview[k])]
  <2>1. k \in 1 .. Len(Overview) /\ h.got \in [Policy -> Nat]
    BY <1>0, <1>3, HandlerShape DEF ReadSignal
  <2>2. got \in [Policy -> Nat]
    BY <2>1, CollectedPolicy, ReadingIsNat
  <2>3. k < Len(Overview) => k + 1 \in 1 .. Len(Overview)
    <3>1. Len(Overview) \in Nat
      BY PolicyAssumption
    <3>2. \A i \in 1 .. Len(Overview) : i < Len(Overview) => i + 1 \in 1 .. Len(Overview)
      BY <3>1
    <3> QED BY <2>1, <3>2
  <2> HIDE DEF got
  <2>4. [pc |-> "list", got |-> got] \in HandlerState
    BY <2>2, MakeHandler
  <2>5. k < Len(Overview) => [pc |-> "read", next |-> k + 1, got |-> got] \in HandlerState
    BY <2>2, <2>3, MakeHandler
  <2>6. Goto(r, IF k < Len(Overview) THEN [pc |-> "read", next |-> k + 1, got |-> got]
                ELSE [pc |-> "list", got |-> got])
    BY <1>3 DEF ReadSignal, got
  <2>7. handler' \in [Request -> HandlerState]
    BY <2>4, <2>5, <2>6, GotoTyped
  <2> QED BY <1>3, <2>7 DEF ReadSignal, TypeOK, world, runbooks
<1>4. CASE ListPolicies(r)
  <2>1. handler' \in [Request -> HandlerState]
    BY <1>4, ContinueTyped DEF ListPolicies
  <2> QED BY <1>4, <2>1 DEF ListPolicies, TypeOK, world, runbooks
<1>5. ASSUME NEW p \in Policy, GetOpenEvent(r, p) PROVE TypeOK'
  <2>1. h.todo \ {p} \in SUBSET Policy /\ h.breached \in SUBSET Policy
    BY <1>0, <1>5, HandlerShape DEF GetOpenEvent
  <2>2. At(h, "create", p) \in HandlerState /\ At(h, "resolve", p) \in HandlerState
    BY <2>1, MakeHandler DEF At
  <2>3. handler' \in [Request -> HandlerState]
    BY <1>5, <2>1, <2>2, GotoTyped, ContinueTyped DEF GetOpenEvent
  <2> QED BY <1>5, <2>3 DEF GetOpenEvent, TypeOK, world, runbooks
<1>6. CASE CreateAlertEvent(r)
  <2>1. /\ h.policy \in Policy
        /\ h.todo \in SUBSET Policy /\ h.breached \in SUBSET Policy
    BY <1>0, <1>6, HandlerShape DEF CreateAlertEvent
  <2>2. handler' \in [Request -> HandlerState]
    BY <1>6, <2>1, ContinueTyped DEF CreateAlertEvent
  <2>3. open' \in [Policy -> Nat]
    BY <1>6, <2>1 DEF CreateAlertEvent, TypeOK
  <2> QED BY <1>6, <2>2, <2>3 DEF CreateAlertEvent, TypeOK, world, runbooks
<1>7. CASE ResolveOpenEvents(r)
  <2>1. /\ h.policy \in Policy
        /\ h.todo \in SUBSET Policy /\ h.breached \in SUBSET Policy
    BY <1>0, <1>7, HandlerShape DEF ResolveOpenEvents
  <2>2. handler' \in [Request -> HandlerState]
    BY <1>7, <2>1, ContinueTyped DEF ResolveOpenEvents
  <2>3. open' \in [Policy -> Nat]
    BY <1>7, <2>1 DEF ResolveOpenEvents, TypeOK
  <2> QED BY <1>7, <2>2, <2>3 DEF ResolveOpenEvents, TypeOK, world, runbooks
<1> QED BY <1>1, <1>2, <1>3, <1>4, <1>5, <1>6, <1>7

LEMMA PatchTyped ==
    ASSUME TypeOK, NEW r \in Request,
           \/ \E p \in Policy, set \in Patch : StartPatch(r, p, set)
           \/ GetPolicy(r) \/ UpdatePolicy(r)
    PROVE  TypeOK'
<1> DEFINE h == handler[r]
<1>0. h \in HandlerState
  BY DEF TypeOK
<1>1. ASSUME NEW p \in Policy, NEW set \in Patch, StartPatch(r, p, set) PROVE TypeOK'
  <2>1. [kind |-> "patch", policy |-> p, set |-> set] \in Task
    BY DEF Task, PatchTask
  <2>2. handler' \in [Request -> HandlerState]
    BY <1>1, <2>1, EnsureTyped DEF StartPatch
  <2> QED BY <1>1, <2>2, ChangeTyped DEF StartPatch, TypeOK, runbooks
<1>2. CASE GetPolicy(r)
  <2>1. h.task \in PatchTask
    BY <1>0, <1>2, HandlerShape DEF GetPolicy
  <2>2. policy[h.task.policy] \in Row
    BY <2>1 DEF TypeOK, PatchTask
  <2>3. [pc |-> "setPolicy", task |-> h.task, row |-> policy[h.task.policy]]
            \in HandlerState
    BY <2>1, <2>2, MakeHandler
  <2>4. handler' \in [Request -> HandlerState]
    BY <1>2, <2>3, GotoTyped DEF GetPolicy
  <2> QED BY <1>2, <2>4 DEF GetPolicy, TypeOK, world, runbooks
<1>3. CASE UpdatePolicy(r)
  <2>1. h.task \in PatchTask /\ h.row \in Row
    BY <1>0, <1>3, HandlerShape DEF UpdatePolicy
  <2>2. Merged(h.row, h.task.set) \in Row
    BY <2>1, MergedIsRow DEF PatchTask
  <2>3. policy' \in [Policy -> Row]
    BY <1>3, <2>2 DEF UpdatePolicy, TypeOK
  <2>4. handler' \in [Request -> HandlerState]
    BY <1>3, MakeHandler, GotoTyped DEF UpdatePolicy
  <2> QED BY <1>3, <2>3, <2>4 DEF UpdatePolicy, TypeOK, world, runbooks
<1> QED BY <1>1, <1>2, <1>3

LEMMA RunbookTyped ==
    ASSUME TypeOK, NEW r \in Request,
           \/ \E x \in Execution, key \in RunbookKey : CreateExecution(r, x, key)
           \/ RetrySweep(r) \/ CaptureSnapshot(r) \/ CompleteExecution(r)
    PROVE  TypeOK'
<1> DEFINE x == handler[r].execution
<1>0. handler[r].pc \in RunbookStep => x \in Execution
  BY HandlerShape DEF TypeOK
<1>1. ASSUME NEW y \in Execution, NEW key \in RunbookKey, CreateExecution(r, y, key)
      PROVE  TypeOK'
  <2>1. [pc |-> IF key \in Sweeps THEN "sweep" ELSE "capture", execution |-> y]
            \in HandlerState
    BY MakeHandler DEF RunbookStep
  <2>2. handler' \in [Request -> HandlerState]
    BY <1>1, <2>1, GotoTyped DEF CreateExecution
  <2>3. [status |-> "running", key |-> key] \in ExecutionRow
    BY DEF ExecutionRow
  <2>4. execution' \in [Execution -> ExecutionRow]
    BY <1>1, <2>3 DEF CreateExecution, TypeOK
  <2> QED BY <1>1, <2>2, <2>4 DEF CreateExecution, TypeOK, world
<1>2. CASE RetrySweep(r)
  <2>1. x \in Execution
    BY <1>0, <1>2 DEF RetrySweep, RunbookStep
  <2>2. [pc |-> AfterSweep(execution[x].key), execution |-> x] \in HandlerState
    BY <2>1, MakeHandler DEF AfterSweep, RunbookStep
  <2>3. handler' \in [Request -> HandlerState]
    BY <1>2, <2>2, GotoTyped DEF RetrySweep
  <2> QED BY <1>2, <2>1, <2>3 DEF RetrySweep, TypeOK, world
<1>3. CASE CaptureSnapshot(r)
  <2>1. x \in Execution
    BY <1>0, <1>3 DEF CaptureSnapshot, RunbookStep
  <2>2. [pc |-> "complete", execution |-> x] \in HandlerState
    BY <2>1, MakeHandler DEF RunbookStep
  <2>3. handler' \in [Request -> HandlerState]
    BY <1>3, <2>2, GotoTyped DEF CaptureSnapshot
  <2> QED BY <1>3, <2>1, <2>3 DEF CaptureSnapshot, TypeOK, world
<1>4. CASE CompleteExecution(r)
  <2>1. handler' \in [Request -> HandlerState]
    BY <1>4, MakeHandler, GotoTyped DEF CompleteExecution
  <2>2. ASSUME NEW row \in ExecutionRow
        PROVE  [row EXCEPT !.status = "completed"] \in ExecutionRow
    BY DEF ExecutionRow
  <2>3. execution' \in [Execution -> ExecutionRow]
    BY <1>4, <2>2 DEF CompleteExecution, TypeOK
  <2> QED BY <1>4, <2>1, <2>3 DEF CompleteExecution, TypeOK, world
<1> QED BY <1>1, <1>2, <1>3, <1>4

LEMMA RestartTyped ==
    ASSUME TypeOK, Restart
    PROVE  TypeOK'
<1>1. handler' \in [Request -> HandlerState]
  BY MakeHandler DEF Restart
<1>2. restarts' \in 0 .. MaxRestarts
  BY BoundAssumption DEF Restart, TypeOK
<1>3. Carried \subseteq Execution
  BY HandlerShape DEF TypeOK, Carried
<1>4. orphaned' \subseteq Execution
  BY <1>3 DEF Restart, TypeOK
<1> QED BY <1>1, <1>2, <1>4 DEF Restart, TypeOK, world

LEMMA StepTyped ==
    ASSUME TypeOK, [Next]_vars
    PROVE  TypeOK'
<1>1. CASE UNCHANGED vars
  BY <1>1 DEF TypeOK, vars, world, runbooks
<1>2. CASE World
  BY <1>2, WorldTyped
<1>3. CASE Restart
  BY <1>3, RestartTyped
<1>4. ASSUME NEW r \in Request,
             \/ StartEvaluation(r)
             \/ \E p \in Policy, set \in Patch : StartPatch(r, p, set)
             \/ \E x \in Execution, key \in RunbookKey : CreateExecution(r, x, key)
             \/ Proceed(r)
      PROVE  TypeOK'
  BY <1>4, EvaluateTyped, PatchTyped, RunbookTyped DEF Proceed
<1> QED BY <1>1, <1>2, <1>3, <1>4 DEF Next

\* The state keeps its types: merged rows are rows, and what a request holds
\* between two statements is of the shape its next statement expects.
THEOREM TypeCorrect == Spec => []TypeOK
BY InitTyped, StepTyped, PTL DEF Spec

-----------------------------------------------------------------------------
(* How many events of a policy are open *)

\* The requests that found no open event of p and are about to create one.
Creating(p) == {r \in Request : handler[r].pc = "create" /\ handler[r].policy = p}

\* A request decides to create an event only while none is open, and what was
\* decided counts with what is open until all of it is resolved.
PromisesBounded ==
    \A p \in Policy : open[p] + Cardinality(Creating(p)) <= Cardinality(Request)

\* Fewer requests about to create an event are fewer in number, too.
LEMMA CreatingCounted ==
    ASSUME NEW p \in Policy
    PROVE  /\ IsFiniteSet(Creating(p)) /\ IsFiniteSet(Creating(p)')
           /\ Cardinality(Creating(p)) \in Nat /\ Cardinality(Creating(p)') \in Nat
           /\ Cardinality(Request) \in Nat
           /\ Cardinality(Creating(p)') <= Cardinality(Request)
           /\ Creating(p)' \subseteq Creating(p) =>
                Cardinality(Creating(p)') <= Cardinality(Creating(p))
<1>1. Creating(p) \subseteq Request /\ Creating(p)' \subseteq Request
  BY DEF Creating
<1>2. IsFiniteSet(Creating(p)) /\ IsFiniteSet(Creating(p)')
  BY <1>1, RequestAssumption, FS_Subset
<1> QED BY <1>1, <1>2, RequestAssumption, FS_Subset, FS_CardinalityType

\* What may happen to one policy in a step.
Quiet(p) == open'[p] = open[p] /\ Creating(p)' \subseteq Creating(p)
Created(p) == /\ open'[p] = open[p] + 1
              /\ \E r \in Creating(p) : Creating(p)' \subseteq Creating(p) \ {r}
Resolved(p) == open'[p] = 0

LEMMA PolicyStep ==
    ASSUME TypeOK, TypeOK', PromisesBounded, NEW p \in Policy,
           Quiet(p) \/ Created(p) \/ Resolved(p)
    PROVE  open'[p] + Cardinality(Creating(p)') <= Cardinality(Request)
<1>0. open[p] \in Nat /\ open'[p] \in Nat
  BY DEF TypeOK
<1>1. open[p] + Cardinality(Creating(p)) <= Cardinality(Request)
  BY DEF PromisesBounded
<1>2. CASE Quiet(p)
  BY <1>0, <1>1, <1>2, CreatingCounted DEF Quiet
<1>3. CASE Created(p)
  <2>1. PICK r \in Creating(p) : Creating(p)' \subseteq Creating(p) \ {r}
    BY <1>3 DEF Created
  <2>2. /\ IsFiniteSet(Creating(p) \ {r})
        /\ Cardinality(Creating(p) \ {r}) = Cardinality(Creating(p)) - 1
    BY <2>1, CreatingCounted, FS_RemoveElement
  <2>3. Cardinality(Creating(p)') <= Cardinality(Creating(p) \ {r})
    BY <2>1, <2>2, FS_Subset
  <2>4. open'[p] = open[p] + 1
    BY <1>3 DEF Created
  <2> QED BY <1>0, <1>1, <2>2, <2>3, <2>4, CreatingCounted
<1>4. CASE Resolved(p)
  BY <1>0, <1>4, CreatingCounted DEF Resolved
<1> QED BY <1>2, <1>3, <1>4

LEMMA BoundedStep ==
    ASSUME TypeOK, TypeOK', PromisesBounded,
           \A p \in Policy : Quiet(p) \/ Created(p) \/ Resolved(p)
    PROVE  PromisesBounded'
BY PolicyStep DEF PromisesBounded

\* A request that goes anywhere but to its insert is about to create nothing.
LEMMA GotoElsewhere ==
    ASSUME TypeOK, NEW r \in Request, NEW s, Goto(r, s), s.pc # "create", NEW p
    PROVE  Creating(p)' \subseteq Creating(p) \ {r}
BY DEF Goto, Creating, TypeOK

LEMMA ContinueElsewhere ==
    ASSUME TypeOK, NEW r \in Request, NEW todo, NEW breached,
           Continue(r, todo, breached), NEW p
    PROVE  Creating(p)' \subseteq Creating(p) \ {r}
<1> DEFINE s == IF todo = {} THEN Idle
                ELSE [pc |-> "find", todo |-> todo, breached |-> breached]
<1>1. Goto(r, s)
  BY DEF Continue
<1>2. s.pc # "create"
  BY DEF Idle
<1> HIDE DEF s
<1> QED BY <1>1, <1>2, GotoElsewhere

LEMMA EnsureElsewhere ==
    ASSUME TypeOK, NEW r \in Request, NEW task, Ensure(r, task), NEW p
    PROVE  Creating(p)' \subseteq Creating(p)
<1> DEFINE s == IF ensured THEN Begin(task)
                ELSE [pc |-> "ensure", todo |-> Policy, task |-> task]
<1>1. Goto(r, s)
  BY DEF Ensure
<1>2. s.pc # "create"
  BY DEF Begin, StartReading
<1> HIDE DEF s
<1> QED BY <1>1, <1>2, GotoElsewhere

\* Nothing but the statements of an evaluation opens or resolves an event.
LEMMA OthersQuiet ==
    ASSUME TypeOK, NEW r \in Request, NEW p \in Policy,
           \/ StartEvaluation(r) \/ ReadSignal(r) \/ ListPolicies(r)
           \/ \E q \in Policy : EnsurePolicy(r, q)
           \/ \E q \in Policy, set \in Patch : StartPatch(r, q, set)
           \/ GetPolicy(r) \/ UpdatePolicy(r)
           \/ \E x \in Execution, key \in RunbookKey : CreateExecution(r, x, key)
           \/ RetrySweep(r) \/ CaptureSnapshot(r) \/ CompleteExecution(r)
    PROVE  Quiet(p)
<1>1. CASE StartEvaluation(r)
  BY <1>1, EnsureElsewhere DEF StartEvaluation, Quiet
<1>2. CASE ReadSignal(r)
  BY <1>2, GotoElsewhere DEF ReadSignal, Quiet
<1>3. CASE ListPolicies(r)
  BY <1>3, ContinueElsewhere DEF ListPolicies, Quiet
<1>4. ASSUME NEW q \in Policy, EnsurePolicy(r, q) PROVE Quiet(p)
  <2>1. Begin(handler[r].task).pc # "create"
    BY DEF Begin, StartReading
  <2> QED BY <1>4, <2>1, GotoElsewhere DEF EnsurePolicy, Quiet
<1>5. ASSUME NEW q \in Policy, NEW set \in Patch, StartPatch(r, q, set) PROVE Quiet(p)
  BY <1>5, EnsureElsewhere DEF StartPatch, Quiet
<1>6. CASE GetPolicy(r)
  BY <1>6, GotoElsewhere DEF GetPolicy, Quiet
<1>7. CASE UpdatePolicy(r)
  BY <1>7, GotoElsewhere DEF UpdatePolicy, Quiet, Idle
<1>8. ASSUME NEW x \in Execution, NEW key \in RunbookKey, CreateExecution(r, x, key)
      PROVE  Quiet(p)
  BY <1>8, GotoElsewhere DEF CreateExecution, Quiet
<1>9. CASE RetrySweep(r)
  BY <1>9, GotoElsewhere DEF RetrySweep, AfterSweep, Quiet
<1>10. CASE CaptureSnapshot(r)
  BY <1>10, GotoElsewhere DEF CaptureSnapshot, Quiet
<1>11. CASE CompleteExecution(r)
  BY <1>11, GotoElsewhere DEF CompleteExecution, Quiet, Idle
<1> QED BY <1>1, <1>2, <1>3, <1>4, <1>5, <1>6, <1>7, <1>8, <1>9, <1>10, <1>11

\* The look for an open event promises one only where none is open.
LEMMA FindPromises ==
    ASSUME TypeOK, NEW r \in Request, NEW q \in Policy, GetOpenEvent(r, q),
           NEW p \in Policy
    PROVE  Quiet(p) \/ Resolved(p)
<1> DEFINE h == handler[r]
<1>1. CASE q \in h.breached /\ open[q] = 0
  <2>1. Goto(r, At(h, "create", q)) /\ open' = open
    BY <1>1 DEF GetOpenEvent
  <2>2. CASE p = q
    BY <1>1, <2>1, <2>2 DEF Resolved
  <2>3. CASE p # q
    <3>1. Creating(p)' \subseteq Creating(p)
      BY <2>1, <2>3 DEF Creating, Goto, At, TypeOK
    <3> QED BY <2>1, <3>1 DEF Quiet
  <2> QED BY <2>2, <2>3
<1>2. CASE q \notin h.breached /\ open[q] > 0
  <2>1. Goto(r, At(h, "resolve", q)) /\ open' = open
    BY <1>2 DEF GetOpenEvent
  <2> QED BY <2>1, GotoElsewhere DEF At, Quiet
<1>3. CASE /\ ~(q \in h.breached /\ open[q] = 0)
           /\ ~(q \notin h.breached /\ open[q] > 0)
  <2>1. Continue(r, h.todo \ {q}, h.breached) /\ open' = open
    BY <1>3 DEF GetOpenEvent
  <2> QED BY <2>1, ContinueElsewhere DEF Quiet
<1> QED BY <1>1, <1>2, <1>3

LEMMA CreateKeeps ==
    ASSUME TypeOK, NEW r \in Request, CreateAlertEvent(r), NEW p \in Policy
    PROVE  Quiet(p) \/ Created(p)
<1>1. Creating(p)' \subseteq Creating(p) \ {r}
  BY ContinueElsewhere DEF CreateAlertEvent
<1>2. handler[r] \in HandlerState /\ handler[r].pc = "create"
  BY DEF TypeOK, CreateAlertEvent
<1>3. handler[r].policy \in Policy
  BY <1>2, HandlerShape
<1>4. CASE p = handler[r].policy
  <2>1. r \in Creating(p)
    BY <1>2, <1>4 DEF Creating
  <2>2. open'[p] = open[p] + 1
    BY <1>4 DEF CreateAlertEvent, TypeOK
  <2> QED BY <1>1, <2>1, <2>2 DEF Created
<1>5. CASE p # handler[r].policy
  BY <1>1, <1>5 DEF CreateAlertEvent, TypeOK, Quiet
<1> QED BY <1>4, <1>5

LEMMA ResolveKeeps ==
    ASSUME TypeOK, NEW r \in Request, ResolveOpenEvents(r), NEW p \in Policy
    PROVE  Quiet(p) \/ Resolved(p)
<1>1. Creating(p)' \subseteq Creating(p) \ {r}
  BY ContinueElsewhere DEF ResolveOpenEvents
<1>2. CASE p = handler[r].policy
  BY <1>2 DEF ResolveOpenEvents, TypeOK, Resolved
<1>3. CASE p # handler[r].policy
  BY <1>1, <1>3 DEF ResolveOpenEvents, TypeOK, Quiet
<1> QED BY <1>2, <1>3

LEMMA PromisesKept ==
    ASSUME TypeOK, PromisesBounded, [Next]_vars
    PROVE  PromisesBounded'
<1>0. TypeOK'
  BY StepTyped
<1> SUFFICES ASSUME NEW p \in Policy
             PROVE  Quiet(p) \/ Created(p) \/ Resolved(p)
  BY <1>0, BoundedStep
<1>1. CASE UNCHANGED vars
  BY <1>1 DEF vars, Quiet, Creating
<1>2. CASE World
  BY <1>2 DEF World, Heartbeat, TimePasses, RowsChange, Quiet, Creating
<1>3. CASE Restart
  BY <1>3 DEF Restart, Quiet, Creating, Idle
<1>4. ASSUME NEW r \in Request,
             \/ StartEvaluation(r)
             \/ \E q \in Policy, set \in Patch : StartPatch(r, q, set)
             \/ \E x \in Execution, key \in RunbookKey : CreateExecution(r, x, key)
             \/ Proceed(r)
      PROVE  Quiet(p) \/ Created(p) \/ Resolved(p)
  BY <1>4, OthersQuiet, FindPromises, CreateKeeps, ResolveKeeps DEF Proceed
<1> QED BY <1>1, <1>2, <1>3, <1>4 DEF Next

LEMMA PromisesStart == Init => PromisesBounded
<1> SUFFICES ASSUME Init, NEW p \in Policy
             PROVE  open[p] + Cardinality(Creating(p)) <= Cardinality(Request)
  BY DEF PromisesBounded
<1>1. Creating(p) = {} /\ open[p] = 0
  BY DEF Init, Creating, Idle
<1>2. Cardinality(Creating(p)) = 0
  BY <1>1, FS_EmptySet
<1> QED BY <1>1, <1>2, CreatingCounted

\* However evaluations interleave, a policy never has more open events than
\* there are requests in flight at once (alerting.service.ts:63-81).
THEOREM DuplicatesAreBounded == Spec => []DuplicatesBounded
<1>1. Init => TypeOK /\ PromisesBounded
  BY InitTyped, PromisesStart
<1>2. TypeOK /\ PromisesBounded /\ [Next]_vars => (TypeOK /\ PromisesBounded)'
  BY StepTyped, PromisesKept
<1>3. TypeOK /\ PromisesBounded => DuplicatesBounded
  <2> SUFFICES ASSUME TypeOK, PromisesBounded, NEW p \in Policy
               PROVE  open[p] <= Cardinality(Request)
    BY DEF DuplicatesBounded
  <2>1. open[p] \in Nat
    BY DEF TypeOK
  <2>2. open[p] + Cardinality(Creating(p)) <= Cardinality(Request)
    BY DEF PromisesBounded
  <2> QED BY <2>1, <2>2, CreatingCounted
<1> QED BY <1>1, <1>2, <1>3, PTL DEF Spec

-----------------------------------------------------------------------------
(* What the rows of runbook executions stand for *)

\* What is done already when a request is at a step of a runbook.
StepsDone(r) ==
    LET x == handler[r].execution
        key == execution[x].key
    IN
    /\ handler[r].pc \in RunbookStep => execution[x].status # "absent"
    /\ handler[r].pc = "capture" /\ key \in Sweeps => x \in swept
    /\ handler[r].pc = "complete" =>
         /\ key \in Sweeps => x \in swept
         /\ key \in Captures => x \in captured

RunbookInv == RunbooksAccounted /\ \A r \in Request : StepsDone(r)

\* A step of a request that neither is nor comes to be at work on a runbook.
LEMMA RunbooksUntouched ==
    ASSUME TypeOK, RunbookInv, UNCHANGED runbooks,
           NEW r \in Request, handler[r].pc \notin RunbookStep,
           NEW s, Goto(r, s), s.pc \notin RunbookStep
    PROVE  RunbookInv'
<1>1. \A t \in Request : t # r => handler'[t] = handler[t]
  BY DEF Goto, TypeOK
<1>2. handler'[r].pc \notin RunbookStep
  BY DEF Goto, TypeOK
<1>3. Carried' = Carried
  BY <1>1, <1>2 DEF Carried
<1>4. RunbooksAccounted'
  BY <1>3 DEF RunbookInv, RunbooksAccounted, runbooks
<1>5. ASSUME NEW t \in Request PROVE StepsDone(t)'
  <2>1. CASE t = r
    BY <1>2, <2>1 DEF StepsDone, RunbookStep
  <2>2. CASE t # r
    BY <1>1, <2>2 DEF RunbookInv, StepsDone, runbooks
  <2> QED BY <2>1, <2>2
<1> QED BY <1>4, <1>5 DEF RunbookInv

LEMMA OthersUntouched ==
    ASSUME TypeOK, RunbookInv, NEW r \in Request,
           \/ StartEvaluation(r) \/ ReadSignal(r) \/ ListPolicies(r)
           \/ CreateAlertEvent(r) \/ ResolveOpenEvents(r)
           \/ \E p \in Policy : EnsurePolicy(r, p) \/ GetOpenEvent(r, p)
           \/ \E p \in Policy, set \in Patch : StartPatch(r, p, set)
           \/ GetPolicy(r) \/ UpdatePolicy(r)
    PROVE  RunbookInv'
<1>0. /\ \A task : Begin(task).pc \notin RunbookStep
      /\ Idle.pc \notin RunbookStep
  BY DEF Begin, StartReading, Idle, RunbookStep
<1>1. ASSUME NEW task, Ensure(r, task), UNCHANGED runbooks PROVE RunbookInv'
  <2> DEFINE s == IF ensured THEN Begin(task)
                  ELSE [pc |-> "ensure", todo |-> Policy, task |-> task]
  <2>1. Goto(r, s) /\ handler[r].pc \notin RunbookStep
    BY <1>1 DEF Ensure, RunbookStep
  <2>2. s.pc \notin RunbookStep
    BY <1>0 DEF RunbookStep
  <2> HIDE DEF s
  <2> QED BY <1>1, <2>1, <2>2, RunbooksUntouched
<1>2. ASSUME NEW todo, NEW breached, Continue(r, todo, breached), UNCHANGED runbooks,
             handler[r].pc \notin RunbookStep
      PROVE  RunbookInv'
  <2> DEFINE s == IF todo = {} THEN Idle
                  ELSE [pc |-> "find", todo |-> todo, breached |-> breached]
  <2>1. Goto(r, s)
    BY <1>2 DEF Continue
  <2>2. s.pc \notin RunbookStep
    BY DEF Idle, RunbookStep
  <2> HIDE DEF s
  <2> QED BY <1>2, <2>1, <2>2, RunbooksUntouched
<1>3. CASE StartEvaluation(r)
  BY <1>1, <1>3 DEF StartEvaluation
<1>4. CASE ReadSignal(r)
  BY <1>4, RunbooksUntouched DEF ReadSignal, RunbookStep
<1>5. CASE ListPolicies(r)
  BY <1>2, <1>5 DEF ListPolicies, RunbookStep
<1>6. CASE CreateAlertEvent(r)
  BY <1>2, <1>6 DEF CreateAlertEvent, RunbookStep
<1>7. CASE ResolveOpenEvents(r)
  BY <1>2, <1>7 DEF ResolveOpenEvents, RunbookStep
<1>8. ASSUME NEW p \in Policy, EnsurePolicy(r, p) PROVE RunbookInv'
  BY <1>0, <1>8, RunbooksUntouched DEF EnsurePolicy, RunbookStep
<1>9. ASSUME NEW p \in Policy, GetOpenEvent(r, p) PROVE RunbookInv'
  <2>1. handler[r].pc \notin RunbookStep /\ UNCHANGED runbooks
    BY <1>9 DEF GetOpenEvent, RunbookStep
  <2>2. \/ \E pc \in {"create", "resolve"} : Goto(r, At(handler[r], pc, p))
        \/ Continue(r, handler[r].todo \ {p}, handler[r].breached)
    BY <1>9 DEF GetOpenEvent
  <2>3. \A pc \in {"create", "resolve"} : At(handler[r], pc, p).pc \notin RunbookStep
    BY DEF At, RunbookStep
  <2> QED BY <1>2, <2>1, <2>2, <2>3, RunbooksUntouched
<1>10. ASSUME NEW p \in Policy, NEW set \in Patch, StartPatch(r, p, set) PROVE RunbookInv'
  BY <1>1, <1>10 DEF StartPatch
<1>11. CASE GetPolicy(r)
  BY <1>11, RunbooksUntouched DEF GetPolicy, RunbookStep
<1>12. CASE UpdatePolicy(r)
  BY <1>0, <1>12, RunbooksUntouched DEF UpdatePolicy, RunbookStep
<1> QED BY <1>3, <1>4, <1>5, <1>6, <1>7, <1>8, <1>9, <1>10, <1>11, <1>12

LEMMA CreateAccounted ==
    ASSUME TypeOK, RunbookInv, NEW r \in Request,
           NEW x \in Execution, NEW key \in RunbookKey, CreateExecution(r, x, key)
    PROVE  RunbookInv'
<1>1. /\ \A t \in Request : t # r => handler'[t] = handler[t]
      /\ handler'[r] = [pc |-> IF key \in Sweeps THEN "sweep" ELSE "capture",
                        execution |-> x]
      /\ handler[r].pc \notin RunbookStep
  BY DEF CreateExecution, Goto, TypeOK, RunbookStep
<1>2. /\ execution[x].status = "absent"
      /\ execution'[x] = [status |-> "running", key |-> key]
      /\ \A y \in Execution : y # x => execution'[y] = execution[y]
      /\ UNCHANGED <<swept, captured, orphaned>>
  BY DEF CreateExecution, TypeOK
<1>3. Carried \cup {x} \subseteq Carried'
  BY <1>1 DEF Carried, RunbookStep
<1>4. RunbooksAccounted'
  BY <1>2, <1>3 DEF RunbookInv, RunbooksAccounted
<1>5. ASSUME NEW t \in Request PROVE StepsDone(t)'
  <2>1. CASE t = r
    BY <1>1, <1>2, <2>1 DEF StepsDone, RunbookStep
  <2>2. CASE t # r /\ handler[t].pc \in RunbookStep
    <3>1. handler[t].execution \in Execution
      BY <2>2, HandlerShape DEF TypeOK
    <3>2. handler[t].execution # x
      BY <1>2, <2>2 DEF RunbookInv, StepsDone
    <3> QED BY <1>1, <1>2, <2>2, <3>1, <3>2 DEF RunbookInv, StepsDone
  <2>3. CASE t # r /\ handler[t].pc \notin RunbookStep
    BY <1>1, <2>3 DEF StepsDone, RunbookStep
  <2> QED BY <2>1, <2>2, <2>3
<1> QED BY <1>4, <1>5 DEF RunbookInv

LEMMA SweepAccounted ==
    ASSUME TypeOK, RunbookInv, NEW r \in Request, RetrySweep(r) \/ CaptureSnapshot(r)
    PROVE  RunbookInv'
<1> DEFINE x == handler[r].execution
           next == handler'[r]
<1>1. /\ \A t \in Request : t # r => handler'[t] = handler[t]
      /\ next.execution = x /\ next.pc \in RunbookStep
      /\ handler[r].pc \in RunbookStep
  BY DEF RetrySweep, CaptureSnapshot, Goto, TypeOK, RunbookStep, AfterSweep
<1>2. /\ UNCHANGED <<execution, orphaned>>
      /\ swept \subseteq swept' /\ captured \subseteq captured'
  BY DEF RetrySweep, CaptureSnapshot
<1>3. Carried \subseteq Carried'
  BY <1>1 DEF Carried
<1>4. RunbooksAccounted'
  BY <1>2, <1>3 DEF RunbookInv, RunbooksAccounted
<1>5. StepsDone(r)'
  <2>1. CASE RetrySweep(r)
    <3>1. x \in swept' /\ next.pc = AfterSweep(execution[x].key)
      BY <2>1 DEF RetrySweep, Goto, TypeOK
    <3> QED BY <1>1, <1>2, <3>1 DEF RunbookInv, StepsDone, AfterSweep
  <2>2. CASE CaptureSnapshot(r)
    <3>1. x \in captured' /\ next.pc = "complete" /\ handler[r].pc = "capture"
      BY <2>2 DEF CaptureSnapshot, Goto, TypeOK
    <3> QED BY <1>1, <1>2, <3>1 DEF RunbookInv, StepsDone
  <2> QED BY <2>1, <2>2
<1>6. ASSUME NEW t \in Request, t # r PROVE StepsDone(t)'
  BY <1>1, <1>2, <1>6 DEF RunbookInv, StepsDone
<1> QED BY <1>4, <1>5, <1>6 DEF RunbookInv

LEMMA CompleteAccounted ==
    ASSUME TypeOK, RunbookInv, NEW r \in Request, CompleteExecution(r)
    PROVE  RunbookInv'
<1> DEFINE x == handler[r].execution
<1>1. /\ \A t \in Request : t # r => handler'[t] = handler[t]
      /\ handler'[r].pc \notin RunbookStep /\ handler[r].pc = "complete"
  BY DEF CompleteExecution, Goto, TypeOK, RunbookStep, Idle
<1>2. x \in Execution
  BY <1>1, HandlerShape DEF TypeOK, RunbookStep
<1>3. /\ execution'[x].status = "completed" /\ execution'[x].key = execution[x].key
      /\ \A y \in Execution : y # x => execution'[y] = execution[y]
      /\ UNCHANGED <<swept, captured, orphaned>>
  <2>1. execution[x] \in ExecutionRow
    BY <1>2 DEF TypeOK
  <2> QED BY <1>2, <2>1 DEF CompleteExecution, TypeOK, ExecutionRow
<1>4. Carried \ {x} \subseteq Carried'
  BY <1>1 DEF Carried
<1>5. RunbooksAccounted'
  <2> SUFFICES ASSUME NEW y \in Execution
               PROVE  /\ execution'[y].status = "running" => y \in Carried' \cup orphaned'
                      /\ execution'[y].status = "completed" =>
                           /\ execution'[y].key \in Sweeps => y \in swept'
                           /\ execution'[y].key \in Captures => y \in captured'
    BY DEF RunbooksAccounted
  <2>1. CASE y = x
    BY <1>1, <1>3, <2>1 DEF RunbookInv, StepsDone
  <2>2. CASE y # x
    BY <1>3, <1>4, <2>2 DEF RunbookInv, RunbooksAccounted
  <2> QED BY <2>1, <2>2
<1>6. ASSUME NEW t \in Request PROVE StepsDone(t)'
  <2>1. CASE handler'[t].pc \notin RunbookStep
    BY <2>1 DEF StepsDone, RunbookStep
  <2>2. CASE handler'[t].pc \in RunbookStep
    <3>1. t # r /\ handler'[t] = handler[t] /\ handler[t].execution \in Execution
      BY <1>1, <2>2, HandlerShape DEF TypeOK
    <3>2. CASE handler[t].execution = x
      BY <1>3, <3>1, <3>2 DEF RunbookInv, StepsDone
    <3>3. CASE handler[t].execution # x
      BY <1>3, <3>1, <3>3 DEF RunbookInv, StepsDone
    <3> QED BY <3>2, <3>3
  <2> QED BY <2>1, <2>2
<1> QED BY <1>5, <1>6 DEF RunbookInv

LEMMA RestartAccounted ==
    ASSUME TypeOK, RunbookInv, Restart
    PROVE  RunbookInv'
<1>1. RunbooksAccounted'
  BY DEF Restart, RunbookInv, RunbooksAccounted
<1>2. \A t \in Request : handler'[t].pc = "idle"
  BY DEF Restart, Idle
<1>3. \A t \in Request : StepsDone(t)'
  BY <1>2 DEF StepsDone, RunbookStep
<1> QED BY <1>1, <1>3 DEF RunbookInv

LEMMA RunbooksKept ==
    ASSUME TypeOK, RunbookInv, [Next]_vars
    PROVE  RunbookInv'
<1>1. CASE UNCHANGED runbooks /\ UNCHANGED handler
  BY <1>1 DEF RunbookInv, RunbooksAccounted, StepsDone, Carried, runbooks
<1>2. CASE UNCHANGED vars \/ World
  BY <1>1, <1>2 DEF vars, World, Heartbeat, TimePasses, RowsChange
<1>3. CASE Restart
  BY <1>3, RestartAccounted
<1>4. ASSUME NEW r \in Request,
             \/ StartEvaluation(r)
             \/ \E q \in Policy, set \in Patch : StartPatch(r, q, set)
             \/ \E x \in Execution, key \in RunbookKey : CreateExecution(r, x, key)
             \/ Proceed(r)
      PROVE  RunbookInv'
  BY <1>4, OthersUntouched, CreateAccounted, SweepAccounted, CompleteAccounted DEF Proceed
<1> QED BY <1>2, <1>3, <1>4 DEF Next

LEMMA RunbooksStart == Init => RunbookInv
BY DEF Init, RunbookInv, RunbooksAccounted, StepsDone, RunbookStep, Idle

\* A runbook that shows as running is being worked on or was cut off by the end
\* of the process, and one that shows as completed did all its key stands for
\* (sre-runbook.service.ts:45-66).
THEOREM RunbooksAreAccounted == Spec => []RunbooksAccounted
<1>1. TypeOK /\ RunbookInv /\ [Next]_vars => (TypeOK /\ RunbookInv)'
  BY StepTyped, RunbooksKept
<1>2. RunbookInv => RunbooksAccounted
  BY DEF RunbookInv
<1> QED BY <1>1, <1>2, InitTyped, RunbooksStart, PTL DEF Spec
=============================================================================

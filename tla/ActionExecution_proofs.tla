------------------------ MODULE ActionExecution_proofs -------------------------
(***************************************************************************)
(* Proofs about the controls component, for any number of executions,      *)
(* recommendations, approvers and concurrent handlers.                     *)
(***************************************************************************)
EXTENDS ActionExecution, FiniteSetTheorems, TLAPS

-----------------------------------------------------------------------------
(***************************************************************************)
(* Type correctness.                                                       *)
(***************************************************************************)

\* Replacing the state of one handler by a well-typed one keeps all well-typed.
LEMMA GotoType ==
    ASSUME NEW w \in Worker, NEW state \in HandlerState,
           handler \in [Worker -> HandlerState], Goto(w, state)
    PROVE  handler' \in [Worker -> HandlerState]
  BY DEF Goto

\* The initial states are well-typed.
LEMMA TypeInit == Init => TypeOK
<1> SUFFICES ASSUME Init PROVE TypeOK
  OBVIOUS
<1>1. NoRow \in Row
  BY DEF NoRow, Row, Outcome, Status, Mode, Result, Approval, Closed, Released
<1>2. Idle \in HandlerState
  BY DEF Idle, HandlerState
<1>3. policy \in Policy
  <2>1. PICK n \in MinValues :
           policy = [min |-> n, enabled |-> TRUE, twoPerson |-> n >= 2]
    BY DEF Init
  <2>2. n \in Nat /\ (n >= 2) \in BOOLEAN
    BY MinValuesAssumption
  <2> QED
    BY <2>1, <2>2 DEF Policy
<1>4. recommendation \in [Action -> Recommendation]
  BY DEF Init, Recommendation, Decision, Approval
<1> QED
  BY <1>1, <1>2, <1>3, <1>4 DEF Init, TypeOK

\* Every step of every handler keeps the state well-typed.
LEMMA TypeStep == TypeOK /\ [Next]_vars => TypeOK'
<1> SUFFICES ASSUME TypeOK, [Next]_vars PROVE TypeOK'
  OBVIOUS
<1> USE DEF TypeOK
<1>0. CASE UNCHANGED vars
  BY <1>0 DEF vars
<1>1. ASSUME NEW w \in Worker, Receive(w) PROVE TypeOK'
  <2>1. ASSUME NEW e \in Execution, NEW mode \in Mode, RequestExecution(w, e, mode)
        PROVE  TypeOK'
    <3>1. [pc |-> "evaluate", exec |-> e, mode |-> mode,
           seen |-> recommendation[ActionOf[e]]] \in HandlerState
      BY ActionAssumption DEF HandlerState
    <3> QED
      BY <2>1, <3>1, GotoType DEF RequestExecution
  <2>2. ASSUME NEW e \in Execution, NEW approver \in Approver,
               AddApproval(w, e, approver)
        PROVE  TypeOK'
    <3>1. [pc |-> "record", exec |-> e, approver |-> approver,
           seen |-> execution[e].status] \in HandlerState
      BY <2>2 DEF HandlerState, AddApproval
    <3> QED
      BY <2>2, <3>1, GotoType DEF AddApproval
  <2>3. ASSUME NEW e \in Execution, NEW success \in BOOLEAN,
               CompleteExecution(w, e, success)
        PROVE  TypeOK'
    <3>1. [pc |-> "finish", exec |-> e, success |-> success] \in HandlerState
      BY DEF HandlerState
    <3> QED
      BY <2>3, <3>1, GotoType DEF CompleteExecution
  <2>4. ASSUME NEW a \in Action, NEW verdict \in {"approved", "rejected"},
               Decide(w, a, verdict)
        PROVE  TypeOK'
    BY <2>4 DEF Decide, Recommendation, Decision, Approval
  <2>5. ASSUME NEW a \in Action, ResolveRecommendation(w, a)
        PROVE  TypeOK'
    <3>1. [pc |-> "resolve", action |-> a, caught |-> FALSE] \in HandlerState
      BY DEF HandlerState
    <3> QED
      BY <2>5, <3>1, GotoType DEF ResolveRecommendation
  <2>6. ASSUME UpdatePolicy(w) PROVE TypeOK'
    <3>1. PICK next \in Patched : Goto(w, [pc |-> "patch_write", next |-> next])
      BY <2>6 DEF UpdatePolicy
    <3>2. next \in Policy
      BY MinValuesAssumption DEF Patched, Policy
    <3>3. [pc |-> "patch_write", next |-> next] \in HandlerState
      BY <3>2 DEF HandlerState
    <3> QED
      BY <2>6, <3>1, <3>3, GotoType DEF UpdatePolicy
  <2> QED
    BY <1>1, <2>1, <2>2, <2>3, <2>4, <2>5, <2>6 DEF Receive
<1>2. ASSUME NEW w \in Worker, Continue(w) PROVE TypeOK'
  <2> DEFINE h == handler[w]
  <2>0. Idle \in HandlerState
    BY DEF Idle, HandlerState
  <2>1. ASSUME NEW otherBlock \in BOOLEAN, EvaluateGuardrails(w, otherBlock)
        PROVE  TypeOK'
    <3>1. h \in [pc: {"evaluate"}, exec: Execution, mode: Mode,
                 seen: Recommendation]
      BY <2>1 DEF EvaluateGuardrails, HandlerState, Idle
    <3> DEFINE ready == /\ ~otherBlock
                        /\ policy.enabled
                        /\ ~DecisionBlocks(ActionOf[h.exec], h.mode, h.seen)
               warned == policy.twoPerson /\ h.mode = "manual"
               outcome == [ready |-> ready, warned |-> warned,
                           approval |-> h.seen.approval]
    <3>2. outcome \in Outcome
      <4>1. h.seen.approval \in Approval
        BY <3>1 DEF Recommendation
      <4>2. ready \in BOOLEAN /\ warned \in BOOLEAN
        BY Zenon
      <4> QED
        BY <4>1, <4>2 DEF Outcome
    <3>3. [pc |-> "read_policy", exec |-> h.exec, mode |-> h.mode,
           outcome |-> outcome] \in HandlerState
      <4> HIDE DEF outcome
      <4> QED
        BY <3>1, <3>2 DEF HandlerState
    <3>4. Goto(w, [pc |-> "read_policy", exec |-> h.exec, mode |-> h.mode,
                   outcome |-> outcome])
      BY <2>1, Zenon DEF EvaluateGuardrails
    <3> HIDE DEF outcome, h
    <3>5. handler' \in [Worker -> HandlerState]
      BY <3>3, <3>4, GotoType
    <3> QED
      BY <3>5, <2>1 DEF EvaluateGuardrails
  <2>2. ASSUME ReadThreshold(w) PROVE TypeOK'
    <3>1. h \in [pc: {"read_policy"}, exec: Execution, mode: Mode, outcome: Outcome]
      BY <2>2 DEF ReadThreshold, HandlerState, Idle
    <3>2. [pc |-> "create", exec |-> h.exec, mode |-> h.mode,
           outcome |-> h.outcome, min |-> policy.min] \in HandlerState
      BY <3>1 DEF HandlerState, Policy
    <3> QED
      BY <2>2, <3>2, GotoType DEF ReadThreshold
  <2>3. ASSUME CreateExecutionRequest(w) PROVE TypeOK'
    <3>1. h \in [pc: {"create"}, exec: Execution, mode: Mode, outcome: Outcome,
                 min: Nat]
      BY <2>3 DEF CreateExecutionRequest, HandlerState, Idle
    <3>2. InitialStatus(h.mode, h.outcome.ready, h.min) \in Status
      BY DEF InitialStatus, Status, Released, Closed
    <3>3. [status |-> InitialStatus(h.mode, h.outcome.ready, h.min),
           mode |-> h.mode, outcome |-> h.outcome, result |-> "none"] \in Row
      BY <3>1, <3>2 DEF Row, Result
    <3>4. Lower(h.min, policy.min) \in Nat
      BY <3>1 DEF Lower, Policy
    <3>5. handler' \in [Worker -> HandlerState]
      BY <2>0, <2>3, GotoType DEF CreateExecutionRequest, Done
    <3>6. execution' \in [Execution -> Row] /\ bar' \in [Execution -> Nat]
      BY <2>3, <3>3, <3>4 DEF CreateExecutionRequest
    <3> QED
      BY <2>3, <3>5, <3>6 DEF CreateExecutionRequest
  <2>4. ASSUME CreateApproval(w) PROVE TypeOK'
    <3>1. h \in [pc: {"record"}, exec: Execution, approver: Approver,
                 seen: {"pending_approval", "ready"}]
      BY <2>4 DEF CreateApproval, HandlerState, Idle
    <3>2. [pc |-> "count", exec |-> h.exec, seen |-> h.seen] \in HandlerState
      BY <3>1 DEF HandlerState
    <3> QED
      BY <2>4, <3>1, <3>2, GotoType DEF CreateApproval
  <2>5. ASSUME ListApprovals(w) PROVE TypeOK'
    <3>1. h \in [pc: {"count"}, exec: Execution, seen: {"pending_approval", "ready"}]
      BY <2>5 DEF ListApprovals, HandlerState, Idle
    <3>2. Cardinality(approvals[h.exec]) \in Nat
      BY <3>1, ApproverAssumption, FS_Subset, FS_CardinalityType
    <3>3. [pc |-> "threshold", exec |-> h.exec, seen |-> h.seen,
           count |-> Cardinality(approvals[h.exec])] \in HandlerState
      BY <3>1, <3>2 DEF HandlerState
    <3> QED
      BY <2>5, <3>3, GotoType DEF ListApprovals
  <2>6. ASSUME CheckThreshold(w) PROVE TypeOK'
    <3>1. h \in [pc: {"threshold"}, exec: Execution,
                 seen: {"pending_approval", "ready"}, count: Nat]
      BY <2>6 DEF CheckThreshold, HandlerState, Idle
    <3>2. [pc |-> "merge", exec |-> h.exec] \in HandlerState
      BY <3>1 DEF HandlerState
    <3>3. handler' \in [Worker -> HandlerState]
      BY <2>0, <2>6, <3>2, GotoType DEF CheckThreshold, Done
    <3> QED
      BY <2>6, <3>3 DEF CheckThreshold
  <2>7. ASSUME ReadForUpdate(w) PROVE TypeOK'
    <3>1. h \in [pc: {"merge"}, exec: Execution]
      BY <2>7 DEF ReadForUpdate, HandlerState, Idle
    <3>2. [pc |-> "promote", exec |-> h.exec, row |-> execution[h.exec]]
             \in HandlerState
      BY <3>1 DEF HandlerState
    <3> QED
      BY <2>7, <3>2, GotoType DEF ReadForUpdate
  <2>8. ASSUME PromoteToReady(w) PROVE TypeOK'
    <3>1. h \in [pc: {"promote"}, exec: Execution, row: Row]
      BY <2>8 DEF PromoteToReady, HandlerState, Idle
    <3>2. [h.row EXCEPT !.status = "ready"] \in Row
      BY <3>1 DEF Row, Status, Released
    <3>3. handler' \in [Worker -> HandlerState]
      BY <2>0, <2>8, GotoType DEF PromoteToReady, Done
    <3> QED
      BY <2>8, <3>2, <3>3 DEF PromoteToReady
  <2>9. ASSUME RecordOutcome(w) PROVE TypeOK'
    <3>1. h \in [pc: {"finish"}, exec: Execution, success: BOOLEAN]
      BY <2>9 DEF RecordOutcome, HandlerState, Idle
    <3>2. [pc |-> "resolve", action |-> ActionOf[h.exec],
           caught |-> TRUE] \in HandlerState
      BY <3>1, ActionAssumption DEF HandlerState
    <3>3. handler' \in [Worker -> HandlerState]
      BY <2>0, <2>9, <3>2, GotoType DEF RecordOutcome, Done
    <3>4. execution' \in [Execution -> Row]
      BY <2>9, <3>1 DEF RecordOutcome, Row, Status, Released, Result
    <3> QED
      BY <2>9, <3>3, <3>4 DEF RecordOutcome
  <2>10. ASSUME ReadDecision(w) PROVE TypeOK'
    <3>1. h \in [pc: {"resolve"}, action: Action, caught: BOOLEAN]
      BY <2>10 DEF ReadDecision, HandlerState, Idle
    <3>2. [pc |-> "resolve_write", action |-> h.action,
           approval |-> recommendation[h.action].approval,
           caught |-> h.caught] \in HandlerState
      BY <3>1 DEF HandlerState, Recommendation
    <3> QED
      BY <2>10, <3>2, GotoType DEF ReadDecision
  <2>11. ASSUME WriteResolved(w) PROVE TypeOK'
    <3>1. h \in [pc: {"resolve_write"}, action: Action, approval: Approval,
                caught: BOOLEAN]
      BY <2>11 DEF WriteResolved, HandlerState, Idle
    <3>2. [status |-> "resolved", approval |-> h.approval] \in Recommendation
      BY <3>1 DEF Recommendation, Decision
    <3>3. handler' \in [Worker -> HandlerState]
      BY <2>0, <2>11, GotoType DEF WriteResolved, Done
    <3> QED
      BY <2>11, <3>2, <3>3 DEF WriteResolved
  <2>12. ASSUME WritePolicy(w) PROVE TypeOK'
    <3>1. h \in [pc: {"patch_write"}, next: Policy]
      BY <2>12 DEF WritePolicy, HandlerState, Idle
    <3>2. handler' \in [Worker -> HandlerState]
      BY <2>0, <2>12, GotoType DEF WritePolicy, Done
    <3>3. bar' \in [Execution -> Nat]
      BY <2>12, <3>1 DEF WritePolicy, Lower, Policy
    <3> QED
      BY <2>12, <3>1, <3>2, <3>3 DEF WritePolicy
  <2> QED
    BY <1>2, <2>1, <2>2, <2>3, <2>4, <2>5, <2>6, <2>7, <2>8, <2>9, <2>10,
       <2>11, <2>12 DEF Continue
<1>3. ASSUME NEW w \in Worker, Fail(w) PROVE TypeOK'
  <2>1. Idle \in HandlerState
    BY DEF Idle, HandlerState
  <2> QED
    BY <1>3, <2>1, GotoType DEF Fail, Done
<1>4. CASE Restart
  <2>1. Idle \in HandlerState
    BY DEF Idle, HandlerState
  <2> QED
    BY <1>4, <2>1 DEF Restart
<1> QED
  BY <1>0, <1>1, <1>2, <1>3, <1>4 DEF Next

\* Every state of the service is well-typed: TypeOK is an invariant.
THEOREM TypeCorrect == Spec => []TypeOK
  BY TypeInit, TypeStep, PTL DEF Spec

-----------------------------------------------------------------------------
(***************************************************************************)
(* The approval quorum.  ReleasedHasQuorum is not inductive by itself: a   *)
(* handler that has already decided to release must have had its quorum, a *)
(* count taken earlier may only be too low, the lowest threshold may not   *)
(* exceed the one in force, and a request being inserted must not meet a   *)
(* row that is already there.                                              *)
(***************************************************************************)
InGate == Released \cup {"pending_approval"}

Requesting == {"evaluate", "read_policy", "create"}
Approving == {"record", "count", "threshold", "merge", "promote"}

\* What a handler in state h may rely on about the execution it works on.
Sound(h) ==
    /\ h.pc \in Requesting => ~Exists(h.exec)
    /\ h.pc \in Approving => execution[h.exec].status \in InGate
    /\ h.pc = "threshold" => h.count <= Cardinality(approvals[h.exec])
    /\ h.pc \in {"merge", "promote"} => bar[h.exec] <= Cardinality(approvals[h.exec])
    /\ h.pc = "finish" => execution[h.exec].status \in Released

HandlersSound == \A w \in Worker : Sound(handler[w])

\* Two requests in flight never insert the same row.
RequestsApart ==
    \A v, w \in Worker :
        /\ handler[v].pc \in Requesting
        /\ handler[w].pc \in Requesting
        /\ handler[v].exec = handler[w].exec
        => v = w

BarBelowThreshold == \A e \in Execution : Exists(e) => bar[e] <= policy.min

QuorumInv ==
    /\ TypeOK
    /\ HandlersSound
    /\ RequestsApart
    /\ BarBelowThreshold
    /\ ReleasedHasQuorum

\* Counts of approvals are numbers.
LEMMA ApprovalCount ==
    ASSUME TypeOK, NEW e \in Execution
    PROVE  IsFiniteSet(approvals[e]) /\ Cardinality(approvals[e]) \in Nat
  BY ApproverAssumption, FS_Subset, FS_CardinalityType DEF TypeOK

\* The execution a requesting, approving or completing handler works on.
LEMMA HandlerExec ==
    ASSUME TypeOK, NEW w \in Worker,
           handler[w].pc \in Requesting \cup Approving \cup {"finish"}
    PROVE  handler[w].exec \in Execution
  BY DEF TypeOK, HandlerState, Requesting, Approving, Idle

\* A handler that moves on to a sound state, and changes nothing else that the
\* invariant reads, keeps the invariant.
LEMMA QuietStep ==
    ASSUME QuorumInv, TypeOK', NEW w \in Worker, NEW state, Goto(w, state),
           UNCHANGED <<execution, approvals, policy, bar>>,
           Sound(state),
           state.pc \in Requesting =>
               \A v \in Worker : handler[v].pc \in Requesting /\ v # w
                                     => handler[v].exec # state.exec
    PROVE  QuorumInv'
<1>1. \A v \in Worker : handler'[v] = IF v = w THEN state ELSE handler[v]
  BY DEF Goto, QuorumInv, TypeOK
<1>2. HandlersSound'
  BY <1>1 DEF QuorumInv, HandlersSound, Sound, Exists
<1>3. RequestsApart'
  BY <1>1 DEF QuorumInv, RequestsApart
<1>4. BarBelowThreshold' /\ ReleasedHasQuorum'
  BY DEF QuorumInv, BarBelowThreshold, ReleasedHasQuorum, Exists
<1> QED
  BY <1>2, <1>3, <1>4 DEF QuorumInv

\* A handler that answers keeps the invariant when it changes nothing else.
LEMMA QuietEnd ==
    ASSUME QuorumInv, TypeOK', NEW w \in Worker, Done(w),
           UNCHANGED <<execution, approvals, policy, bar>>
    PROVE  QuorumInv'
<1>1. Sound(Idle) /\ Idle.pc \notin Requesting
  BY DEF Sound, Idle, Requesting, Approving
<1> QED
  BY <1>1, QuietStep DEF Done

\* The invariant holds at the start: nothing was requested and nobody is busy.
LEMMA QuorumInit == Init => QuorumInv
<1> SUFFICES ASSUME Init PROVE QuorumInv
  OBVIOUS
<1>1. TypeOK
  BY TypeInit
<1>2. \A w \in Worker : handler[w] = Idle
  BY DEF Init
<1>3. Idle.pc = "idle"
  BY DEF Idle
<1>4. \A e \in Execution : execution[e].status = "absent"
  BY DEF Init, NoRow
<1>5. HandlersSound /\ RequestsApart
  BY <1>2, <1>3 DEF HandlersSound, RequestsApart, Sound, Requesting, Approving
<1>6. BarBelowThreshold /\ ReleasedHasQuorum
  BY <1>4 DEF BarBelowThreshold, ReleasedHasQuorum, Exists, Released
<1> QED
  BY <1>1, <1>5, <1>6 DEF QuorumInv

\* Requests that arrive keep the invariant: each changes its own handler only,
\* or a decision, which the invariant does not read.
LEMMA QuorumReceive ==
    ASSUME QuorumInv, TypeOK', NEW w \in Worker, Receive(w)
    PROVE  QuorumInv'
<1> USE DEF QuorumInv
<1>1. ASSUME NEW e \in Execution, NEW mode \in Mode, RequestExecution(w, e, mode)
      PROVE  QuorumInv'
  <2> DEFINE state == [pc |-> "evaluate", exec |-> e, mode |-> mode,
                       seen |-> recommendation[ActionOf[e]]]
  <2>1. state.pc = "evaluate" /\ state.exec = e
    OBVIOUS
  <2>2. Goto(w, state) /\ UNCHANGED <<execution, approvals, policy, bar>> /\ Fresh(e)
    BY <1>1 DEF RequestExecution
  <2> HIDE DEF state
  <2>3. Sound(state)
    BY <2>1, <2>2 DEF Sound, Fresh, Requesting, Approving
  <2>4. \A v \in Worker : handler[v].pc \in Requesting /\ v # w
                              => handler[v].exec # state.exec
    BY <2>1, <2>2 DEF Fresh, Requesting
  <2> QED
    BY <2>2, <2>3, <2>4, QuietStep
<1>2. ASSUME NEW e \in Execution, NEW approver \in Approver,
             AddApproval(w, e, approver)
      PROVE  QuorumInv'
  <2> DEFINE state == [pc |-> "record", exec |-> e, approver |-> approver,
                       seen |-> execution[e].status]
  <2>1. Sound(state) /\ state.pc \notin Requesting
    BY <1>2 DEF Sound, AddApproval, Requesting, Approving, InGate, Released
  <2> QED
    BY <1>2, <2>1, QuietStep DEF AddApproval
<1>3. ASSUME NEW e \in Execution, NEW success \in BOOLEAN,
             CompleteExecution(w, e, success)
      PROVE  QuorumInv'
  <2> DEFINE state == [pc |-> "finish", exec |-> e, success |-> success]
  <2>1. Sound(state) /\ state.pc \notin Requesting
    BY <1>3 DEF Sound, CompleteExecution, Requesting, Approving, Released
  <2> QED
    BY <1>3, <2>1, QuietStep DEF CompleteExecution
<1>4. ASSUME NEW a \in Action, NEW verdict \in {"approved", "rejected"},
             Decide(w, a, verdict)
      PROVE  QuorumInv'
  BY <1>4 DEF Decide, HandlersSound, Sound, RequestsApart, BarBelowThreshold,
              ReleasedHasQuorum, Exists
<1>5. ASSUME NEW a \in Action, ResolveRecommendation(w, a)
      PROVE  QuorumInv'
  <2>1. Sound([pc |-> "resolve", action |-> a, caught |-> FALSE])
    BY DEF Sound, Requesting, Approving
  <2> QED
    BY <1>5, <2>1, QuietStep DEF ResolveRecommendation, Requesting
<1>6. ASSUME UpdatePolicy(w) PROVE QuorumInv'
  <2>1. PICK next \in Patched : Goto(w, [pc |-> "patch_write", next |-> next])
    BY <1>6 DEF UpdatePolicy
  <2>2. Sound([pc |-> "patch_write", next |-> next])
    BY DEF Sound, Requesting, Approving
  <2> QED
    BY <1>6, <2>1, <2>2, QuietStep DEF UpdatePolicy, Requesting
<1> QED
  BY <1>1, <1>2, <1>3, <1>4, <1>5, <1>6 DEF Receive

\* Inserting the requested row keeps the invariant.
LEMMA QuorumCreate ==
    ASSUME QuorumInv, TypeOK', NEW w \in Worker, CreateExecutionRequest(w)
    PROVE  QuorumInv'
<1> DEFINE h == handler[w]
           min == Lower(h.min, policy.min)
<1>1. /\ h.pc = "create" /\ h.exec \in Execution /\ h.min \in Nat
      /\ policy.min \in Nat /\ ~Exists(h.exec)
  BY DEF CreateExecutionRequest, QuorumInv, HandlersSound, Sound, Requesting,
         TypeOK, HandlerState, Idle, Policy
<1>2. min \in Nat /\ min <= h.min /\ min <= policy.min
  BY <1>1 DEF Lower
<1>3. /\ \A v \in Worker : handler'[v] = IF v = w THEN Idle ELSE handler[v]
      /\ Idle.pc = "idle"
  BY DEF CreateExecutionRequest, Done, Goto, QuorumInv, TypeOK, Idle
<1>4. \A v \in Worker : v # w /\ handler[v].pc \in Requesting \cup Approving \cup {"finish"}
                            => handler[v].exec # h.exec
  <2> SUFFICES ASSUME NEW v \in Worker, v # w, handler[v].exec = h.exec,
                      handler[v].pc \in Requesting \cup Approving \cup {"finish"}
               PROVE  FALSE
    OBVIOUS
  <2>1. handler[v].pc \notin Requesting
    BY <1>1 DEF QuorumInv, RequestsApart, Requesting
  <2>2. execution[h.exec].status \in InGate
    BY <2>1 DEF QuorumInv, HandlersSound, Sound, InGate
  <2> QED
    BY <1>1, <2>2 DEF Exists, InGate, Released
<1>5. /\ execution'[h.exec].status = InitialStatus(h.mode, h.outcome.ready, h.min)
      /\ bar'[h.exec] = min
      /\ \A e \in Execution : e # h.exec =>
            execution'[e] = execution[e] /\ bar'[e] = bar[e]
      /\ UNCHANGED <<approvals, policy>>
  BY <1>1 DEF CreateExecutionRequest, QuorumInv, TypeOK
<1> HIDE DEF h, min
<1>6. HandlersSound'
  <2> SUFFICES ASSUME NEW v \in Worker PROVE Sound(handler[v])'
    BY DEF HandlersSound
  <2>1. CASE v = w
    BY <1>3, <2>1 DEF Sound, Requesting, Approving
  <2>2. CASE v # w /\ handler[v].pc \in Requesting \cup Approving \cup {"finish"}
    <3>1. handler[v].exec # h.exec /\ handler[v].exec \in Execution
      BY <1>4, <2>2, HandlerExec DEF QuorumInv
    <3> QED
      BY <1>3, <1>5, <2>2, <3>1 DEF QuorumInv, HandlersSound, Sound, Exists, Approving
  <2>3. CASE v # w /\ handler[v].pc \notin Requesting \cup Approving \cup {"finish"}
    BY <1>3, <2>3 DEF Sound, Approving
  <2> QED
    BY <2>1, <2>2, <2>3
<1>7. RequestsApart'
  BY <1>3 DEF QuorumInv, RequestsApart, Requesting
<1>8. BarBelowThreshold'
  BY <1>2, <1>5 DEF QuorumInv, BarBelowThreshold, Exists
<1>9. ReleasedHasQuorum'
  <2>1. execution'[h.exec].status \in Released => h.min = 0
    BY <1>1, <1>5 DEF InitialStatus, Released
  <2>2. Cardinality(approvals[h.exec]) \in Nat
    BY <1>1, ApprovalCount DEF QuorumInv
  <2> QED
    BY <1>1, <1>2, <1>5, <2>1, <2>2 DEF QuorumInv, ReleasedHasQuorum
<1> QED
  BY <1>6, <1>7, <1>8, <1>9 DEF QuorumInv
\* Recording an approval keeps the invariant: counts of approvals only grow.
LEMMA QuorumApproval ==
    ASSUME QuorumInv, TypeOK', NEW w \in Worker, CreateApproval(w)
    PROVE  QuorumInv'
<1> DEFINE h == handler[w]
           state == [pc |-> "count", exec |-> h.exec, seen |-> h.seen]
<1>1. h.pc = "record" /\ h.exec \in Execution
  BY HandlerExec DEF CreateApproval, QuorumInv, Approving
<1>2. \A e \in Execution : /\ Cardinality(approvals[e]) \in Nat
                           /\ Cardinality(approvals'[e]) \in Nat
                           /\ Cardinality(approvals[e]) <= Cardinality(approvals'[e])
  <2> SUFFICES ASSUME NEW e \in Execution
               PROVE  /\ Cardinality(approvals[e]) \in Nat
                      /\ Cardinality(approvals'[e]) \in Nat
                      /\ Cardinality(approvals[e]) <= Cardinality(approvals'[e])
    OBVIOUS
  <2>1. approvals[e] \subseteq approvals'[e]
    BY <1>1 DEF CreateApproval, QuorumInv, TypeOK
  <2>2. IsFiniteSet(approvals'[e])
    BY ApproverAssumption, FS_Subset DEF TypeOK
  <2> QED
    BY <2>1, <2>2, FS_Subset, FS_CardinalityType
<1>3. \A v \in Worker : handler'[v] = IF v = w THEN state ELSE handler[v]
  BY DEF CreateApproval, Goto, QuorumInv, TypeOK
<1>4. state.pc = "count" /\ state.exec = h.exec
  OBVIOUS
<1>5. UNCHANGED <<execution, policy, bar>> /\ bar \in [Execution -> Nat]
  BY DEF CreateApproval, QuorumInv, TypeOK
<1>6. execution[h.exec].status \in InGate
  BY <1>1 DEF QuorumInv, HandlersSound, Sound, Approving
<1> HIDE DEF h, state
<1>7. HandlersSound'
  <2> SUFFICES ASSUME NEW v \in Worker PROVE Sound(handler[v])'
    BY DEF HandlersSound
  <2>1. CASE v = w
    BY <1>3, <1>4, <1>5, <1>6, <2>1 DEF Sound, Requesting, Approving
  <2>2. CASE v # w /\ handler[v].pc \in Approving
    <3>1. handler[v].exec \in Execution
      BY <2>2, HandlerExec DEF QuorumInv
    <3>2. handler[v].pc = "threshold" => handler[v].count \in Nat
      BY DEF QuorumInv, TypeOK, HandlerState, Idle
    <3>3. Sound(handler[v])
      BY DEF QuorumInv, HandlersSound
    <3> QED
      BY <1>2, <1>3, <1>5, <2>2, <3>1, <3>2, <3>3 DEF Sound, Exists, Approving
  <2>3. CASE v # w /\ handler[v].pc \notin Approving
    BY <1>3, <1>5, <2>3 DEF QuorumInv, HandlersSound, Sound, Exists, Approving
  <2> QED
    BY <2>1, <2>2, <2>3
<1>8. RequestsApart'
  BY <1>3, <1>4 DEF QuorumInv, RequestsApart, Requesting
<1>9. BarBelowThreshold' /\ ReleasedHasQuorum'
  BY <1>2, <1>5 DEF QuorumInv, BarBelowThreshold, ReleasedHasQuorum, Exists
<1> QED
  BY <1>7, <1>8, <1>9 DEF QuorumInv

\* A handler that rewrites the status of its execution inside the gate, and
\* then answers or goes on to the recommendation, keeps the invariant.
LEMMA StatusStep ==
    ASSUME QuorumInv, TypeOK', NEW w \in Worker, NEW e \in Execution,
           NEW state, Goto(w, state), state.pc \in {"idle", "resolve"},
           UNCHANGED <<approvals, policy, bar>>,
           \A f \in Execution : f # e => execution'[f] = execution[f],
           execution[e].status \in InGate, execution'[e].status \in Released,
           bar[e] <= Cardinality(approvals[e])
    PROVE  QuorumInv'
<1>1. \A v \in Worker : handler'[v] = IF v = w THEN state ELSE handler[v]
  BY DEF Goto, QuorumInv, TypeOK
<1>2. HandlersSound'
  <2> SUFFICES ASSUME NEW v \in Worker PROVE Sound(handler[v])'
    BY DEF HandlersSound
  <2>1. CASE v = w \/ handler[v].pc \notin Requesting \cup Approving \cup {"finish"}
    BY <1>1, <2>1 DEF Sound, Requesting, Approving
  <2>2. CASE v # w /\ handler[v].pc \in Requesting \cup Approving \cup {"finish"}
    <3>1. handler[v].exec \in Execution
      BY <2>2, HandlerExec DEF QuorumInv
    <3>2. Sound(handler[v])
      BY DEF QuorumInv, HandlersSound
    <3> QED
      BY <1>1, <2>2, <3>1, <3>2 DEF Sound, Exists, InGate, Released
  <2> QED
    BY <2>1, <2>2
<1>3. RequestsApart'
  BY <1>1 DEF QuorumInv, RequestsApart, Requesting
<1>4. BarBelowThreshold'
  BY DEF QuorumInv, BarBelowThreshold, Exists, InGate, Released
<1>5. ReleasedHasQuorum'
  <2>1. Cardinality(approvals[e]) \in Nat /\ bar[e] \in Nat
    BY ApprovalCount DEF QuorumInv, TypeOK
  <2> QED
    BY <2>1 DEF QuorumInv, ReleasedHasQuorum
<1> QED
  BY <1>2, <1>3, <1>4, <1>5 DEF QuorumInv

\* Releasing an execution keeps the invariant: the promoting handler had its
\* quorum when it compared the count with the threshold, and still has.
LEMMA QuorumPromote ==
    ASSUME QuorumInv, TypeOK', NEW w \in Worker, PromoteToReady(w)
    PROVE  QuorumInv'
<1> DEFINE h == handler[w]
<1>1. h.pc = "promote" /\ h.exec \in Execution /\ h.row \in Row
  BY DEF PromoteToReady, QuorumInv, TypeOK, HandlerState, Idle
<1>2. Sound(h)
  BY DEF QuorumInv, HandlersSound
<1>3. execution[h.exec].status \in InGate /\ bar[h.exec] <= Cardinality(approvals[h.exec])
  BY <1>1, <1>2 DEF Sound, Approving
<1>4. /\ execution'[h.exec].status = "ready"
      /\ \A f \in Execution : f # h.exec => execution'[f] = execution[f]
  BY <1>1 DEF PromoteToReady, QuorumInv, TypeOK, Row
<1>5. Goto(w, Idle) /\ Idle.pc = "idle" /\ UNCHANGED <<approvals, policy, bar>>
  BY DEF PromoteToReady, Done, Idle
<1> HIDE DEF h
<1> QED
  BY <1>1, <1>3, <1>4, <1>5, StatusStep DEF Released

\* Recording an outcome keeps the invariant: the execution was released.
LEMMA QuorumOutcome ==
    ASSUME QuorumInv, TypeOK', NEW w \in Worker, RecordOutcome(w)
    PROVE  QuorumInv'
<1> DEFINE h == handler[w]
           state == IF h.success THEN [pc |-> "resolve", action |-> ActionOf[h.exec],
                                  caught |-> TRUE]
                                 ELSE Idle
<1>1. h.pc = "finish" /\ h.exec \in Execution
  BY HandlerExec DEF RecordOutcome, QuorumInv
<1>2. execution[h.exec].status \in Released
  BY <1>1 DEF QuorumInv, HandlersSound, Sound
<1>3. bar[h.exec] <= Cardinality(approvals[h.exec])
  BY <1>1, <1>2 DEF QuorumInv, ReleasedHasQuorum
<1>4. /\ execution'[h.exec].status \in Released
      /\ \A f \in Execution : f # h.exec => execution'[f] = execution[f]
  BY <1>1 DEF RecordOutcome, QuorumInv, TypeOK, Row, Released
<1>5. Goto(w, state) /\ state.pc \in {"idle", "resolve"}
  BY DEF RecordOutcome, Done, Idle
<1>6. UNCHANGED <<approvals, policy, bar>>
  BY DEF RecordOutcome
<1> HIDE DEF h, state
<1> QED
  BY <1>1, <1>2, <1>3, <1>4, <1>5, <1>6, StatusStep DEF InGate

\* Writing a policy keeps the invariant: the history of thresholds follows it.
LEMMA QuorumPolicy ==
    ASSUME QuorumInv, TypeOK', NEW w \in Worker, WritePolicy(w)
    PROVE  QuorumInv'
<1> DEFINE h == handler[w]
<1>1. h.pc = "patch_write" /\ h.next.min \in Nat
  BY DEF WritePolicy, QuorumInv, TypeOK, HandlerState, Idle, Policy
<1>2. /\ \A v \in Worker : handler'[v] = IF v = w THEN Idle ELSE handler[v]
      /\ Idle.pc = "idle"
  BY DEF WritePolicy, Done, Goto, QuorumInv, TypeOK, Idle
<1>3. \A e \in Execution : /\ bar[e] \in Nat /\ bar'[e] \in Nat /\ bar'[e] <= bar[e]
                           /\ Exists(e) => bar'[e] <= policy'.min
                           /\ Cardinality(approvals[e]) \in Nat
  BY <1>1, ApprovalCount DEF WritePolicy, Lower, QuorumInv, TypeOK
<1>4. UNCHANGED <<execution, approvals>>
  BY DEF WritePolicy
<1> HIDE DEF h
<1>5. HandlersSound'
  <2> SUFFICES ASSUME NEW v \in Worker PROVE Sound(handler[v])'
    BY DEF HandlersSound
  <2>1. CASE v = w
    BY <1>2, <2>1 DEF Sound, Requesting, Approving
  <2>2. CASE v # w /\ handler[v].pc \in Approving
    <3>1. handler[v].exec \in Execution
      BY <2>2, HandlerExec DEF QuorumInv
    <3>2. Sound(handler[v])
      BY DEF QuorumInv, HandlersSound
    <3> QED
      BY <1>2, <1>3, <1>4, <2>2, <3>1, <3>2 DEF Sound, Exists
  <2>3. CASE v # w /\ handler[v].pc \notin Approving
    BY <1>2, <1>4, <2>3 DEF QuorumInv, HandlersSound, Sound, Exists, Approving
  <2> QED
    BY <2>1, <2>2, <2>3
<1>6. RequestsApart'
  BY <1>2 DEF QuorumInv, RequestsApart, Requesting
<1>7. BarBelowThreshold' /\ ReleasedHasQuorum'
  BY <1>3, <1>4 DEF QuorumInv, BarBelowThreshold, ReleasedHasQuorum, Exists
<1> QED
  BY <1>5, <1>6, <1>7 DEF QuorumInv

\* The remaining statements only move their own handler on.
LEMMA QuorumContinue ==
    ASSUME QuorumInv, TypeOK', NEW w \in Worker, Continue(w)
    PROVE  QuorumInv'
<1> DEFINE h == handler[w]
<1>1. Sound(h) /\ (h.pc \in Requesting \cup Approving => h.exec \in Execution)
  BY HandlerExec DEF QuorumInv, HandlersSound
<1>2. h.pc \in Requesting =>
         \A v \in Worker : handler[v].pc \in Requesting /\ v # w
                               => handler[v].exec # h.exec
  BY DEF QuorumInv, RequestsApart
<1>3. ASSUME NEW otherBlock \in BOOLEAN, EvaluateGuardrails(w, otherBlock)
      PROVE  QuorumInv'
  <2>1. PICK outcome : Goto(w, [pc |-> "read_policy", exec |-> h.exec,
                                mode |-> h.mode, outcome |-> outcome])
    BY <1>3, Zenon DEF EvaluateGuardrails
  <2> DEFINE state == [pc |-> "read_policy", exec |-> h.exec,
                       mode |-> h.mode, outcome |-> outcome]
  <2>2. h.pc = "evaluate" /\ UNCHANGED <<execution, approvals, policy, bar>>
    BY <1>3 DEF EvaluateGuardrails
  <2>3. Sound(state) /\ state.exec = h.exec
    BY <1>1, <2>2 DEF Sound, Requesting, Approving
  <2> QED
    BY <1>2, <2>1, <2>2, <2>3, QuietStep DEF Requesting
<1>4. ASSUME ReadThreshold(w) PROVE QuorumInv'
  <2> DEFINE state == [pc |-> "create", exec |-> h.exec, mode |-> h.mode,
                       outcome |-> h.outcome, min |-> policy.min]
  <2>1. h.pc = "read_policy" /\ Sound(state) /\ state.exec = h.exec
    BY <1>1, <1>4 DEF ReadThreshold, Sound, Requesting, Approving
  <2> QED
    BY <1>2, <1>4, <2>1, QuietStep DEF ReadThreshold, Requesting
<1>5. ASSUME ListApprovals(w) PROVE QuorumInv'
  <2> DEFINE state == [pc |-> "threshold", exec |-> h.exec, seen |-> h.seen,
                       count |-> Cardinality(approvals[h.exec])]
  <2>1. h.pc = "count" /\ Cardinality(approvals[h.exec]) \in Nat
    BY <1>1, <1>5, ApprovalCount DEF ListApprovals, QuorumInv, Approving
  <2>2. Sound(state) /\ state.pc \notin Requesting
    BY <1>1, <2>1 DEF Sound, Requesting, Approving
  <2> QED
    BY <1>5, <2>2, QuietStep DEF ListApprovals
<1>6. ASSUME CheckThreshold(w) PROVE QuorumInv'
  <2>1. /\ h.pc = "threshold" /\ h.exec \in Execution /\ h.count \in Nat
        /\ policy.min \in Nat /\ bar[h.exec] \in Nat
        /\ Cardinality(approvals[h.exec]) \in Nat
    BY <1>6, ApprovalCount DEF CheckThreshold, QuorumInv, TypeOK, HandlerState, Idle, Policy
  <2>2. /\ execution[h.exec].status \in InGate
        /\ h.count <= Cardinality(approvals[h.exec])
    BY <1>1, <2>1 DEF Sound, Approving
  <2>3. bar[h.exec] <= policy.min
    BY <2>1, <2>2 DEF QuorumInv, BarBelowThreshold, Exists, InGate, Released
  <2>4. CASE h.count >= policy.min /\ h.seen # "ready"
    <3> DEFINE state == [pc |-> "merge", exec |-> h.exec]
    <3>1. Sound(state) /\ state.pc \notin Requesting
      BY <2>1, <2>2, <2>3, <2>4 DEF Sound, Requesting, Approving
    <3> QED
      BY <1>6, <2>4, <3>1, QuietStep DEF CheckThreshold
  <2>5. CASE ~(h.count >= policy.min /\ h.seen # "ready")
    BY <1>6, <2>5, QuietEnd DEF CheckThreshold
  <2> QED
    BY <2>4, <2>5
<1>7. ASSUME ReadForUpdate(w) PROVE QuorumInv'
  <2> DEFINE state == [pc |-> "promote", exec |-> h.exec, row |-> execution[h.exec]]
  <2>1. Sound(state) /\ state.pc \notin Requesting
    BY <1>1, <1>7 DEF ReadForUpdate, Sound, Requesting, Approving
  <2> QED
    BY <1>7, <2>1, QuietStep DEF ReadForUpdate
<1>8. ASSUME ReadDecision(w) PROVE QuorumInv'
  <2> DEFINE state == [pc |-> "resolve_write", action |-> h.action,
                       approval |-> recommendation[h.action].approval,
                       caught |-> h.caught]
  <2>1. Sound(state) /\ state.pc \notin Requesting
    BY DEF Sound, Requesting, Approving
  <2> QED
    BY <1>8, <2>1, QuietStep DEF ReadDecision
<1>9. ASSUME WriteResolved(w) PROVE QuorumInv'
  BY <1>9, QuietEnd DEF WriteResolved
<1> QED
  BY <1>3, <1>4, <1>5, <1>6, <1>7, <1>8, <1>9, QuorumCreate, QuorumApproval,
     QuorumPromote, QuorumOutcome, QuorumPolicy DEF Continue

\* The strengthened invariant is inductive.
LEMMA QuorumStep == QuorumInv /\ [Next]_vars => QuorumInv'
<1> SUFFICES ASSUME QuorumInv, [Next]_vars PROVE QuorumInv'
  OBVIOUS
<1>1. TypeOK'
  BY TypeStep DEF QuorumInv
<1>2. CASE UNCHANGED vars
  BY <1>1, <1>2 DEF vars, QuorumInv, HandlersSound, Sound, RequestsApart,
                    BarBelowThreshold, ReleasedHasQuorum, Exists
<1>3. ASSUME NEW w \in Worker, Fail(w) PROVE QuorumInv'
  BY <1>1, <1>3, QuietEnd DEF Fail
<1>4. CASE Restart
  <2>1. \A w \in Worker : handler'[w] = Idle
    BY <1>4 DEF Restart
  <2>2. HandlersSound'
    BY <2>1 DEF HandlersSound, Sound, Idle, Requesting, Approving
  <2>3. RequestsApart'
    BY <2>1 DEF RequestsApart, Idle, Requesting
  <2> QED
    BY <1>1, <1>4, <2>2, <2>3 DEF Restart, QuorumInv, BarBelowThreshold,
       ReleasedHasQuorum, Exists
<1> QED
  BY <1>1, <1>2, <1>3, <1>4, QuorumReceive, QuorumContinue DEF Next

\* No execution is released before as many distinct approvers as its lowest
\* threshold have approved it, for any number of concurrent handlers.
THEOREM QuorumHolds == Spec => []ReleasedHasQuorum
<1>1. QuorumInv => ReleasedHasQuorum
  BY DEF QuorumInv
<1> QED
  BY <1>1, QuorumInit, QuorumStep, PTL DEF Spec

-----------------------------------------------------------------------------
(***************************************************************************)
(* The outcome of an execution and the approval gate.                      *)
(***************************************************************************)

\* The five statements that write what the gate and the outcome depend on;
\* every other step of every handler leaves executions, approvals and the
\* history of thresholds as they are.
LEMMA VisibleStep ==
    ASSUME [Next]_vars, ~UNCHANGED <<execution, approvals, bar>>
    PROVE  \E w \in Worker :
              \/ CreateExecutionRequest(w) \/ CreateApproval(w)
              \/ PromoteToReady(w) \/ RecordOutcome(w) \/ WritePolicy(w)
<1>1. ASSUME NEW w \in Worker, Receive(w) PROVE UNCHANGED <<execution, approvals, bar>>
  BY <1>1 DEF Receive, RequestExecution, AddApproval, CompleteExecution, Decide,
              ResolveRecommendation, UpdatePolicy
<1>2. ASSUME NEW w \in Worker, Continue(w), ~UNCHANGED <<execution, approvals, bar>>
      PROVE  \/ CreateExecutionRequest(w) \/ CreateApproval(w)
             \/ PromoteToReady(w) \/ RecordOutcome(w) \/ WritePolicy(w)
  <2>1. \A otherBlock \in BOOLEAN :
           EvaluateGuardrails(w, otherBlock) => UNCHANGED <<execution, approvals, bar>>
    BY DEF EvaluateGuardrails
  <2> QED
    BY <1>2, <2>1 DEF Continue, ReadThreshold, ListApprovals, CheckThreshold,
                      ReadForUpdate, ReadDecision, WriteResolved
<1>3. ASSUME NEW w \in Worker, Fail(w) PROVE UNCHANGED <<execution, approvals, bar>>
  BY <1>3 DEF Fail
<1>4. CASE Restart
  BY <1>4 DEF Restart
<1>5. CASE UNCHANGED vars
  BY <1>5 DEF vars
<1> QED
  BY <1>1, <1>2, <1>3, <1>4, <1>5 DEF Next

\* Every statement that writes a row of executions keeps status and outcome
\* in agreement; the promotion writes back an old row, but makes it ready.
LEMMA OutcomeStep ==
    TypeOK /\ OutcomeMatchesStatus /\ [Next]_vars => OutcomeMatchesStatus'
<1> SUFFICES ASSUME TypeOK, OutcomeMatchesStatus, [Next]_vars
             PROVE  OutcomeMatchesStatus'
  OBVIOUS
<1>1. CASE UNCHANGED <<execution, approvals, bar>>
  BY <1>1 DEF OutcomeMatchesStatus
<1>2. ASSUME NEW w \in Worker, CreateExecutionRequest(w) PROVE OutcomeMatchesStatus'
  <2> DEFINE h == handler[w]
             row == [status  |-> InitialStatus(h.mode, h.outcome.ready, h.min),
                     mode    |-> h.mode, outcome |-> h.outcome, result |-> "none"]
  <2>1. execution' = [execution EXCEPT ![h.exec] = row]
    BY <1>2 DEF CreateExecutionRequest
  <2>2. row.result = "none" /\ row.status \notin {"executed", "failed"}
    BY DEF InitialStatus
  <2> HIDE DEF row, h
  <2> QED
    BY <2>1, <2>2 DEF OutcomeMatchesStatus, TypeOK
<1>3. ASSUME NEW w \in Worker, CreateApproval(w) \/ WritePolicy(w)
      PROVE  OutcomeMatchesStatus'
  BY <1>3 DEF CreateApproval, WritePolicy, OutcomeMatchesStatus
<1>4. ASSUME NEW w \in Worker, PromoteToReady(w) PROVE OutcomeMatchesStatus'
  <2>1. handler[w].row \in Row
    BY <1>4 DEF PromoteToReady, TypeOK, HandlerState, Idle
  <2>2. \A e \in Execution :
           execution'[e] = execution[e] \/ execution'[e].status = "ready"
    BY <1>4, <2>1 DEF PromoteToReady, TypeOK, Row
  <2> QED
    BY <2>2 DEF OutcomeMatchesStatus
<1>5. ASSUME NEW w \in Worker, RecordOutcome(w) PROVE OutcomeMatchesStatus'
  <2>1. \A e \in Execution :
           \/ execution'[e] = execution[e]
           \/ execution'[e].status = "executed" /\ execution'[e].result = "success"
           \/ execution'[e].status = "failed" /\ execution'[e].result = "failure"
    BY <1>5 DEF RecordOutcome, TypeOK, Row
  <2> QED
    BY <2>1 DEF OutcomeMatchesStatus
<1> QED
  BY <1>1, <1>2, <1>3, <1>4, <1>5, VisibleStep

\* A finished execution shows the outcome that finished it and a waiting one
\* shows none, although approvals write back rows they read before (see
\* updateExecutionRequest), for any number of concurrent handlers.
THEOREM OutcomeHolds == Spec => []OutcomeMatchesStatus
<1>1. Init => OutcomeMatchesStatus
  BY DEF Init, NoRow, OutcomeMatchesStatus
<1> QED
  BY <1>1, OutcomeStep, TypeCorrect, PTL DEF Spec

\* Where an execution stands in the gate determines its status, up to the
\* two ways to be closed and to be finished.
LEMMA GateStates ==
    ASSUME NEW status \in Status
    PROVE  /\ GateOf(status) \in {"absent", "closed", "waiting", "released", "finished"}
           /\ GateOf(status) = "absent" <=> status = "absent"
           /\ GateOf(status) = "released" <=> status = "ready"
           /\ GateOf(status) = "waiting" <=> status = "pending_approval"
           /\ GateOf(status) = "finished" <=> status \in {"executed", "failed"}
  BY DEF GateOf, Status, Closed, Released

\* Inserting a row enters the gate: at once released only without a quorum.
LEMMA CreateEnters ==
    ASSUME QuorumInv, TypeOK', NEW w \in Worker, CreateExecutionRequest(w)
    PROVE  Gate!GateNext
<1> DEFINE h == handler[w]
           e == h.exec
           status == InitialStatus(h.mode, h.outcome.ready, h.min)
           gate == [f \in Execution |-> GateOf(execution[f].status)]
<1>1. /\ h.pc = "create" /\ e \in Execution /\ h.min \in Nat
      /\ policy.min \in Nat /\ ~Exists(e)
  BY DEF CreateExecutionRequest, QuorumInv, HandlersSound, Sound, Requesting,
         TypeOK, HandlerState, Idle, Policy
<1>2. /\ execution'[e].status = status
      /\ \A f \in Execution : f # e => execution'[f] = execution[f]
      /\ bar' = [bar EXCEPT ![e] = Lower(h.min, policy.min)]
      /\ UNCHANGED approvals
  BY <1>1 DEF CreateExecutionRequest, QuorumInv, TypeOK
<1>3. Lower(h.min, policy.min) \in Nat /\ (h.min = 0 => Lower(h.min, policy.min) = 0)
  BY <1>1 DEF Lower
<1>4. /\ GateOf(status) \in {"closed", "waiting", "released"}
      /\ GateOf(status) = "released" => h.min = 0
  BY <1>1 DEF InitialStatus, GateOf, Closed
<1>5. gate[e] = "absent"
  BY <1>1 DEF GateOf, Exists, Closed
<1>6. gate' = [gate EXCEPT ![e] = GateOf(status)]
  <2> HIDE DEF h, e, status
  <2> QED
    BY <1>1, <1>2
<1>7. bar' = [bar EXCEPT ![e] = bar'[e]] /\ bar'[e] = Lower(h.min, policy.min)
  BY <1>1, <1>2 DEF QuorumInv, TypeOK
<1> HIDE DEF h, e, status, gate
<1>8. /\ gate[e] = "absent" /\ bar'[e] \in Nat /\ bar' = [bar EXCEPT ![e] = bar'[e]]
      /\ \/ gate' = [gate EXCEPT ![e] = "closed"]
         \/ gate' = [gate EXCEPT ![e] = "waiting"]
         \/ bar'[e] = 0 /\ gate' = [gate EXCEPT ![e] = "released"]
      /\ UNCHANGED approvals
  BY <1>2, <1>3, <1>4, <1>5, <1>6, <1>7
<1>9. Gate!Enter(e)
  BY <1>8 DEF Gate!Enter, gate
<1> QED
  BY <1>1, <1>9 DEF Gate!GateNext

\* Recording an approval is a vote for an execution inside the gate.
LEMMA ApprovalVotes ==
    ASSUME QuorumInv, NEW w \in Worker, CreateApproval(w)
    PROVE  Gate!GateNext
<1> DEFINE h == handler[w]
<1>1. h.pc = "record" /\ h.exec \in Execution /\ h.approver \in Approver
  BY DEF CreateApproval, QuorumInv, TypeOK, HandlerState, Idle
<1>2. execution[h.exec].status \in InGate
  BY <1>1 DEF QuorumInv, HandlersSound, Sound, Approving
<1>3. GateOf(execution[h.exec].status) \in {"waiting", "released", "finished"}
  BY <1>2 DEF GateOf, InGate, Released, Closed
<1>4. Gate!Vote(h.exec, h.approver)
  BY <1>1, <1>3 DEF Gate!Vote, CreateApproval
<1> QED
  BY <1>1, <1>4 DEF Gate!GateNext

\* The gate counts approvers as the component does: it has its own instance of
\* the operator.
LEMMA GateCounts ==
    ASSUME NEW S PROVE Gate!Cardinality(S) = Cardinality(S)
  BY DEF Gate!Cardinality, Cardinality

\* The promotion releases an execution that has its quorum, or changes
\* nothing when the execution is ready already.
LEMMA PromotionReleases ==
    ASSUME QuorumInv, NEW w \in Worker, PromoteToReady(w)
    PROVE  Gate!GateNext \/ UNCHANGED Gate!gateVars
<1> DEFINE h == handler[w]
           e == h.exec
           gate == [f \in Execution |-> GateOf(execution[f].status)]
<1>1. h.pc = "promote" /\ e \in Execution /\ h.row \in Row
  BY DEF PromoteToReady, QuorumInv, TypeOK, HandlerState, Idle
<1>2. execution[e].status \in InGate /\ bar[e] <= Cardinality(approvals[e])
  BY <1>1 DEF QuorumInv, HandlersSound, Sound, Approving
<1>3. /\ execution'[e].status = "ready"
      /\ \A f \in Execution : f # e => execution'[f] = execution[f]
      /\ UNCHANGED <<approvals, bar>>
  BY <1>1 DEF PromoteToReady, QuorumInv, TypeOK, Row
<1>4. GateOf(execution[e].status) \in {"waiting", "released", "finished"}
  BY <1>2 DEF GateOf, InGate, Released, Closed
<1>5. GateOf("ready") = "released"
  BY DEF GateOf, Closed
<1>6. bar[e] \in Nat /\ Cardinality(approvals[e]) \in Nat
  BY <1>1, ApprovalCount DEF QuorumInv, TypeOK
<1> HIDE DEF h, e
<1>7. gate' = [gate EXCEPT ![e] = "released"] /\ gate[e] \in {"waiting", "released", "finished"}
  BY <1>1, <1>3, <1>4, <1>5
<1>8. CASE gate[e] = "released"
  <2>1. gate' = gate
    BY <1>7, <1>8
  <2> QED
    BY <1>3, <2>1 DEF Gate!gateVars
<1>9. CASE gate[e] # "released"
  <2>1. Gate!Release(e)
    <3>1. Gate!HasQuorum(e)
      BY <1>2, <1>6, GateCounts DEF Gate!HasQuorum
    <3>2. gate[e] \in {"waiting", "finished"}
      BY <1>7, <1>9
    <3> QED
      BY <1>3, <1>7, <3>1, <3>2 DEF Gate!Release
  <2> QED
    BY <1>1, <2>1 DEF Gate!GateNext
<1> QED
  BY <1>8, <1>9

\* Recording an outcome finishes a released execution; a second completion of
\* a finished one changes nothing the gate can see.
LEMMA OutcomeFinishes ==
    ASSUME QuorumInv, NEW w \in Worker, RecordOutcome(w)
    PROVE  Gate!GateNext \/ UNCHANGED Gate!gateVars
<1> DEFINE h == handler[w]
           e == h.exec
           gate == [f \in Execution |-> GateOf(execution[f].status)]
<1>1. h.pc = "finish" /\ e \in Execution
  BY HandlerExec DEF RecordOutcome, QuorumInv
<1>2. execution[e].status \in Released
  BY <1>1 DEF QuorumInv, HandlersSound, Sound
<1>3. /\ execution'[e].status \in {"executed", "failed"}
      /\ \A f \in Execution : f # e => execution'[f] = execution[f]
      /\ UNCHANGED <<approvals, bar>>
  BY <1>1 DEF RecordOutcome, QuorumInv, TypeOK, Row
<1>4. GateOf(execution[e].status) \in {"released", "finished"}
  BY <1>2 DEF GateOf, Released, Closed
<1>5. GateOf(execution'[e].status) = "finished"
  BY <1>3 DEF GateOf, Closed
<1> HIDE DEF h, e
<1>6. gate' = [gate EXCEPT ![e] = "finished"] /\ gate[e] \in {"released", "finished"}
  BY <1>1, <1>3, <1>4, <1>5
<1>7. CASE gate[e] = "finished"
  <2>1. gate' = gate
    BY <1>6, <1>7
  <2> QED
    BY <1>3, <2>1 DEF Gate!gateVars
<1>8. CASE gate[e] = "released"
  <2>1. Gate!Finish(e)
    BY <1>3, <1>6, <1>8 DEF Gate!Finish
  <2> QED
    BY <1>1, <2>1 DEF Gate!GateNext
<1> QED
  BY <1>6, <1>7, <1>8

\* Writing a policy lowers the quorum of the executions that exist, or keeps it.
LEMMA PolicyLowers ==
    ASSUME QuorumInv, TypeOK', NEW w \in Worker, WritePolicy(w)
    PROVE  Gate!GateNext
<1> DEFINE h == handler[w]
<1>1. h.pc = "patch_write" /\ h.next.min \in Nat
  BY DEF WritePolicy, QuorumInv, TypeOK, HandlerState, Idle, Policy
<1>2. bar' \in [Execution -> Nat] /\ UNCHANGED <<execution, approvals>>
  BY DEF WritePolicy, TypeOK
<1>3. \A e \in Execution : /\ bar'[e] <= bar[e]
                           /\ ~Exists(e) => bar'[e] = bar[e]
  BY <1>1 DEF WritePolicy, Lower, QuorumInv, TypeOK
<1>4. \A e \in Execution : GateOf(execution[e].status) = "absent" => ~Exists(e)
  BY GateStates DEF QuorumInv, TypeOK, Row, Exists
<1>5. Gate!LowerQuorum
  BY <1>2, <1>3, <1>4 DEF Gate!LowerQuorum
<1> QED
  BY <1>5 DEF Gate!GateNext

\* The controls component implements the approval gate: whatever handlers
\* interleave, fail or are lost, what becomes of an execution is a request
\* entering, a vote, a lowered quorum, a release with its quorum or an end.
THEOREM GateImplemented == Spec => ImplementsGate
<1>1. Init => Gate!GateInit
  BY DEF Init, Gate!GateInit, GateOf, NoRow, Closed
<1>2. QuorumInv /\ QuorumInv' /\ [Next]_vars => [Gate!GateNext]_(Gate!gateVars)
  <2> SUFFICES ASSUME QuorumInv, QuorumInv', [Next]_vars
               PROVE  Gate!GateNext \/ UNCHANGED Gate!gateVars
    OBVIOUS
  <2>1. CASE UNCHANGED <<execution, approvals, bar>>
    BY <2>1 DEF Gate!gateVars
  <2>2. TypeOK'
    BY DEF QuorumInv
  <2> QED
    BY <2>1, <2>2, VisibleStep, CreateEnters, ApprovalVotes, PromotionReleases,
       OutcomeFinishes, PolicyLowers
<1> QED
  BY <1>1, <1>2, QuorumInit, QuorumStep, PTL DEF Spec, ImplementsGate, Gate!GateSpec
=============================================================================

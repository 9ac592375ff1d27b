---------------------------- MODULE ActionExecution ----------------------------
(***************************************************************************)
(* The controls component: an operator asks for a recommendation to be     *)
(* executed, approvers release the request, and its outcome closes it.     *)
(*                                                                         *)
(* Every handler of the service runs inside one HTTP request and yields at *)
(* every await, so several requests interleave between two statements of   *)
(* one handler.  Each statement sent to Postgres is one step here; what a  *)
(* handler read earlier and still uses is kept in the record of its worker *)
(* (handler).  Statements are not grouped in transactions.  Where a route  *)
(* catches what a statement throws, its handler ends where it stands       *)
(* (Fail); where none does, the rejected handler ends the process and with *)
(* it every request in flight (Restart).                                   *)
(***************************************************************************)
EXTENDS Naturals, FiniteSets

CONSTANTS
    Execution,      \* identifiers of execution requests (random UUIDs)
    Action,         \* identifiers of recommendations
    Approver,       \* the actors that may approve an execution
    Worker,         \* the HTTP requests in flight at one time
    MinValues,      \* the values minExecutionApprovals is set to
    ActionOf,       \* the recommendation each execution is requested for
    Gated,          \* the recommendations whose mode is "approval_required"
    CanFail         \* whether a storage call may throw

ASSUME ApproverAssumption == IsFiniteSet(Approver)
ASSUME MinValuesAssumption == MinValues \subseteq Nat
ASSUME ActionAssumption == /\ ActionOf \in [Execution -> Action]
                           /\ Gated \subseteq Action
                           /\ CanFail \in BOOLEAN

VARIABLES
    execution,      \* the rows of action_execution_requests
    approvals,      \* the approvers recorded for each execution
    policy,         \* the row of control_approval_policies that applies
    recommendation, \* the decision columns of recommendations
    handler,        \* what each HTTP request in flight has read and does next
    bar             \* history: the lowest threshold in force for each execution

vars == <<execution, approvals, policy, recommendation, handler, bar>>

-----------------------------------------------------------------------------
(***************************************************************************)
(* Types.                                                                  *)
(***************************************************************************)
Released == {"ready", "executed", "failed"}
Closed   == {"dry_run_evaluated", "blocked"}
Status   == {"absent", "pending_approval"} \cup Released \cup Closed
Mode     == {"dry_run", "manual", "automated"}
Result   == {"none", "success", "failure"}
Decision == {"open", "approved", "rejected", "resolved"}
Approval == {"not_required", "pending", "approved", "rejected"}

\* The stored guardrail outcome: its verdict, its two-person warning and its
\* snapshot of the recommendation's approval status.
Outcome == [ready: BOOLEAN, warned: BOOLEAN, approval: Approval]

\* result stands for the columns result_summary, executed_at, completed_at.
Row == [status: Status, mode: Mode, outcome: Outcome, result: Result]

NoRow == [status |-> "absent", mode |-> "dry_run", result |-> "none",
          outcome |-> [ready |-> FALSE, warned |-> FALSE, approval |-> "pending"]]

Policy == [min: Nat, enabled: BOOLEAN, twoPerson: BOOLEAN]

Recommendation == [status: Decision, approval: Approval]

Idle == [pc |-> "idle"]

HandlerState ==
         {Idle}
    \cup [pc: {"evaluate"}, exec: Execution, mode: Mode, seen: Recommendation]
    \cup [pc: {"read_policy"}, exec: Execution, mode: Mode, outcome: Outcome]
    \cup [pc: {"create"}, exec: Execution, mode: Mode, outcome: Outcome, min: Nat]
    \cup [pc: {"record"}, exec: Execution, approver: Approver,
          seen: {"pending_approval", "ready"}]
    \cup [pc: {"count"}, exec: Execution, seen: {"pending_approval", "ready"}]
    \cup [pc: {"threshold"}, exec: Execution,
          seen: {"pending_approval", "ready"}, count: Nat]
    \cup [pc: {"merge"}, exec: Execution]
    \cup [pc: {"promote"}, exec: Execution, row: Row]
    \cup [pc: {"finish"}, exec: Execution, success: BOOLEAN]
    \cup [pc: {"resolve"}, action: Action, caught: BOOLEAN]
    \cup [pc: {"resolve_write"}, action: Action, approval: Approval,
          caught: BOOLEAN]
    \cup [pc: {"patch_write"}, next: Policy]

TypeOK ==
    /\ execution \in [Execution -> Row]
    /\ approvals \in [Execution -> SUBSET Approver]
    /\ policy \in Policy
    /\ recommendation \in [Action -> Recommendation]
    /\ handler \in [Worker -> HandlerState]
    /\ bar \in [Execution -> Nat]

-----------------------------------------------------------------------------
(***************************************************************************)
(* Initial state: default policies and generated recommendations exist, no *)
(* execution was requested yet.                                            *)
(***************************************************************************)
Init ==
    /\ execution = [e \in Execution |-> NoRow]
    /\ approvals = [e \in Execution |-> {}]
    /\ policy \in {[min |-> n, enabled |-> TRUE, twoPerson |-> n >= 2] : n \in MinValues}
    /\ recommendation = [a \in Action |->
            [status   |-> "open",
             approval |-> IF a \in Gated THEN "pending" ELSE "not_required"]]
    /\ handler = [w \in Worker |-> Idle]
    /\ bar = [e \in Execution |-> 0]

Goto(w, state) == handler' = [handler EXCEPT ![w] = state]
Done(w) == Goto(w, Idle)

Exists(e) == execution[e].status # "absent"

\* The identifier is drawn when the row is inserted: no one else holds it.
Fresh(e) ==
    /\ ~Exists(e)
    /\ \A w \in Worker : handler[w].pc \in {"evaluate", "read_policy", "create"}
                            => handler[w].exec # e

-----------------------------------------------------------------------------
(***************************************************************************)
(* requestExecution: read the recommendation, evaluate the guardrails,     *)
(* read the policy again for its threshold, insert the row.                *)
(***************************************************************************)
RequestExecution(w, e, mode) ==
    /\ handler[w] = Idle
    /\ Fresh(e)
    /\ Goto(w, [pc |-> "evaluate", exec |-> e, mode |-> mode,
                seen |-> recommendation[ActionOf[e]]])
    /\ UNCHANGED <<execution, approvals, policy, recommendation, bar>>

DecisionBlocks(action, mode, seen) ==
    \/ seen.status \in {"rejected", "resolved"}
    \/ seen.approval = "rejected"
    \/ action \in Gated /\ seen.approval # "approved" /\ mode # "dry_run"

\* otherBlock stands for the guardrails on age, confidence, open critical
\* alerts, allowed modes and automation safety, or for a missing policy.
EvaluateGuardrails(w, otherBlock) ==
    LET h == handler[w] IN
    /\ h.pc = "evaluate"
    /\ Goto(w, [pc |-> "read_policy", exec |-> h.exec, mode |-> h.mode,
                outcome |->
                  [ready |-> /\ ~otherBlock
                             /\ policy.enabled
                             /\ ~DecisionBlocks(ActionOf[h.exec], h.mode, h.seen),
                   warned |-> policy.twoPerson /\ h.mode = "manual",
                   approval |-> h.seen.approval]])
    /\ UNCHANGED <<execution, approvals, policy, recommendation, bar>>

ReadThreshold(w) ==
    LET h == handler[w] IN
    /\ h.pc = "read_policy"
    /\ Goto(w, [pc |-> "create", exec |-> h.exec, mode |-> h.mode,
                outcome |-> h.outcome, min |-> policy.min])
    /\ UNCHANGED <<execution, approvals, policy, recommendation, bar>>

\* Mutant: a request that needs no approval is stored as approved.
InitialStatusMutant(mode, ready, min) ==
    CASE mode = "dry_run"             -> "dry_run_evaluated"
      [] mode # "dry_run" /\ ~ready   -> "blocked"
      [] mode # "dry_run" /\ ready /\ min > 0 -> "pending_approval"
      [] OTHER                        -> "approved"

InitialStatus(mode, ready, min) ==
    CASE mode = "dry_run"             -> "dry_run_evaluated"
      [] mode # "dry_run" /\ ~ready   -> "blocked"
      [] mode # "dry_run" /\ ready /\ min > 0 -> "pending_approval"
      [] OTHER                        -> "ready"

Lower(m, n) == IF m < n THEN m ELSE n

CreateExecutionRequest(w) ==
    LET h == handler[w] IN
    /\ h.pc = "create"
    /\ execution' = [execution EXCEPT ![h.exec] =
            [status  |-> InitialStatus(h.mode, h.outcome.ready, h.min),
             mode    |-> h.mode,
             outcome |-> h.outcome,
             result  |-> "none"]]
    /\ bar' = [bar EXCEPT ![h.exec] = Lower(h.min, policy.min)]
    /\ Done(w)
    /\ UNCHANGED <<approvals, policy, recommendation>>

-----------------------------------------------------------------------------
(***************************************************************************)
(* addApproval: check the status, record the approver (at most once per    *)
(* execution), count the approvals, read the threshold, and write "ready"  *)
(* over a row that is read once more and merged.                           *)
(***************************************************************************)
AddApproval(w, e, approver) ==
    /\ handler[w] = Idle
    /\ execution[e].status \in {"pending_approval", "ready"}
    /\ Goto(w, [pc |-> "record", exec |-> e, approver |-> approver,
                seen |-> execution[e].status])
    /\ UNCHANGED <<execution, approvals, policy, recommendation, bar>>

CreateApproval(w) ==
    LET h == handler[w] IN
    /\ h.pc = "record"
    /\ approvals' = [approvals EXCEPT ![h.exec] = @ \cup {h.approver}]
    /\ Goto(w, [pc |-> "count", exec |-> h.exec, seen |-> h.seen])
    /\ UNCHANGED <<execution, policy, recommendation, bar>>

ListApprovals(w) ==
    LET h == handler[w] IN
    /\ h.pc = "count"
    /\ Goto(w, [pc |-> "threshold", exec |-> h.exec, seen |-> h.seen,
                count |-> Cardinality(approvals[h.exec])])
    /\ UNCHANGED <<execution, approvals, policy, recommendation, bar>>

\* Mutant: the approval being added is counted twice.
CheckThresholdMutant(w) ==
    LET h == handler[w] IN
    /\ h.pc = "threshold"
    /\ IF h.count + 1 >= policy.min /\ h.seen # "ready"
         THEN Goto(w, [pc |-> "merge", exec |-> h.exec])
         ELSE Done(w)
    /\ UNCHANGED <<execution, approvals, policy, recommendation, bar>>

CheckThreshold(w) ==
    LET h == handler[w] IN
    /\ h.pc = "threshold"
    /\ IF h.count >= policy.min /\ h.seen # "ready"
         THEN Goto(w, [pc |-> "merge", exec |-> h.exec])
         ELSE Done(w)
    /\ UNCHANGED <<execution, approvals, policy, recommendation, bar>>

ReadForUpdate(w) ==
    LET h == handler[w] IN
    /\ h.pc = "merge"
    /\ Goto(w, [pc |-> "promote", exec |-> h.exec, row |-> execution[h.exec]])
    /\ UNCHANGED <<execution, approvals, policy, recommendation, bar>>

\* Mutant: the merge leaves the status as it is and restores the other columns.
PromoteToReadyMutant(w) ==
    LET h == handler[w] IN
    /\ h.pc = "promote"
    /\ execution' = [execution EXCEPT ![h.exec] =
            [h.row EXCEPT !.status =
                IF h.row.status = "pending_approval" THEN "ready"
                                                     ELSE execution[h.exec].status]]
    /\ Done(w)
    /\ UNCHANGED <<approvals, policy, recommendation, bar>>

PromoteToReady(w) ==
    LET h == handler[w] IN
    /\ h.pc = "promote"
    /\ execution' = [execution EXCEPT
            ![h.exec] = [h.row EXCEPT !.status = "ready"]]
    /\ Done(w)
    /\ UNCHANGED <<approvals, policy, recommendation, bar>>

-----------------------------------------------------------------------------
(***************************************************************************)
(* completeExecution: check the status, write the outcome, and on success  *)
(* resolve the recommendation.  The patch replaces every column the merge  *)
(* of updateExecutionRequest carries over, so read and write are one step. *)
(***************************************************************************)
\* Mutant: an execution that still waits for approvals may be completed.
CompleteExecutionMutant(w, e, success) ==
    /\ handler[w] = Idle
    /\ execution[e].status \in {"pending_approval", "ready"}
    /\ Goto(w, [pc |-> "finish", exec |-> e, success |-> success])
    /\ UNCHANGED <<execution, approvals, policy, recommendation, bar>>

CompleteExecution(w, e, success) ==
    /\ handler[w] = Idle
    /\ execution[e].status = "ready"
    /\ Goto(w, [pc |-> "finish", exec |-> e, success |-> success])
    /\ UNCHANGED <<execution, approvals, policy, recommendation, bar>>

RecordOutcome(w) ==
    LET h == handler[w] IN
    /\ h.pc = "finish"
    /\ execution' = [execution EXCEPT
            ![h.exec].status = IF h.success THEN "executed" ELSE "failed",
            ![h.exec].result = IF h.success THEN "success" ELSE "failure"]
    /\ IF h.success
         THEN Goto(w, [pc |-> "resolve", action |-> ActionOf[h.exec],
                       caught |-> TRUE])
         ELSE Done(w)
    /\ UNCHANGED <<approvals, policy, recommendation, bar>>

-----------------------------------------------------------------------------
(***************************************************************************)
(* Decisions on the recommendation.  Approving and rejecting replace both  *)
(* decision columns; resolving writes back the approval status it read.    *)
(***************************************************************************)
Decide(w, a, verdict) ==
    /\ handler[w] = Idle
    /\ recommendation' = [recommendation EXCEPT
            ![a] = [status |-> verdict, approval |-> verdict]]
    /\ UNCHANGED <<execution, approvals, policy, handler, bar>>

ResolveRecommendation(w, a) ==
    /\ handler[w] = Idle
    /\ Goto(w, [pc |-> "resolve", action |-> a, caught |-> FALSE])
    /\ UNCHANGED <<execution, approvals, policy, recommendation, bar>>

ReadDecision(w) ==
    LET h == handler[w] IN
    /\ h.pc = "resolve"
    /\ Goto(w, [pc |-> "resolve_write", action |-> h.action,
                approval |-> recommendation[h.action].approval,
                caught |-> h.caught])
    /\ UNCHANGED <<execution, approvals, policy, recommendation, bar>>

WriteResolved(w) ==
    LET h == handler[w] IN
    /\ h.pc = "resolve_write"
    /\ recommendation' = [recommendation EXCEPT
            ![h.action] = [status |-> "resolved", approval |-> h.approval]]
    /\ Done(w)
    /\ UNCHANGED <<execution, approvals, policy, bar>>

-----------------------------------------------------------------------------
(***************************************************************************)
(* updatePolicy: the patch is merged with the row read first, so a field   *)
(* another patch changed meanwhile is written back as it was.              *)
(***************************************************************************)
Patched ==
         {[policy EXCEPT !.min = n] : n \in MinValues}
    \cup {[policy EXCEPT !.enabled = b] : b \in BOOLEAN}
    \cup {[policy EXCEPT !.twoPerson = b] : b \in BOOLEAN}

UpdatePolicy(w) ==
    /\ handler[w] = Idle
    /\ \E next \in Patched : Goto(w, [pc |-> "patch_write", next |-> next])
    /\ UNCHANGED <<execution, approvals, policy, recommendation, bar>>

WritePolicy(w) ==
    LET h == handler[w] IN
    /\ h.pc = "patch_write"
    /\ policy' = h.next
    /\ bar' = [e \in Execution |->
                 IF Exists(e) THEN Lower(bar[e], h.next.min) ELSE bar[e]]
    /\ Done(w)
    /\ UNCHANGED <<execution, approvals, recommendation>>

-----------------------------------------------------------------------------
\* The routes that add an approval or complete an execution catch errors.
Caught(h) ==
    \/ h.pc \in {"record", "count", "threshold", "merge", "promote", "finish"}
    \/ h.pc \in {"resolve", "resolve_write"} /\ h.caught

\* A storage call throws: the handler answers with an error and goes no further.
Fail(w) ==
    /\ CanFail
    /\ Caught(handler[w])
    /\ Done(w)
    /\ UNCHANGED <<execution, approvals, policy, recommendation, bar>>

\* A storage call of another route throws: the process ends and is started
\* again.  What is in the database stays.
Restart ==
    /\ CanFail
    /\ \E w \in Worker : handler[w] # Idle /\ ~Caught(handler[w])
    /\ handler' = [w \in Worker |-> Idle]
    /\ UNCHANGED <<execution, approvals, policy, recommendation, bar>>

\* The requests that may arrive.
Receive(w) ==
    \/ \E e \in Execution, mode \in Mode : RequestExecution(w, e, mode)
    \/ \E e \in Execution, approver \in Approver : AddApproval(w, e, approver)
    \/ \E e \in Execution, success \in BOOLEAN : CompleteExecution(w, e, success)
    \/ \E a \in Action, verdict \in {"approved", "rejected"} : Decide(w, a, verdict)
    \/ \E a \in Action : ResolveRecommendation(w, a)
    \/ UpdatePolicy(w)

\* The next statement of a handler in flight.
Continue(w) ==
    \/ \E otherBlock \in BOOLEAN : EvaluateGuardrails(w, otherBlock)
    \/ ReadThreshold(w)
    \/ CreateExecutionRequest(w)
    \/ CreateApproval(w)
    \/ ListApprovals(w)
    \/ CheckThreshold(w)
    \/ ReadForUpdate(w)
    \/ PromoteToReady(w)
    \/ RecordOutcome(w)
    \/ ReadDecision(w)
    \/ WriteResolved(w)
    \/ WritePolicy(w)

Next ==
    \/ Restart
    \/ \E w \in Worker : Receive(w) \/ Continue(w) \/ Fail(w)

Spec == Init /\ [][Next]_vars

-----------------------------------------------------------------------------
(***************************************************************************)
(* Properties.                                                             *)
(***************************************************************************)

\* An execution that is or was ready has at least as many distinct approvers
\* as the lowest threshold its policy had since the request: neither a stale
\* count, nor a threshold read early, nor a repeated approval releases it
\* sooner (addApproval and requestExecution).
ReleasedHasQuorum ==
    \A e \in Execution :
        execution[e].status \in Released => Cardinality(approvals[e]) >= bar[e]

\* The status of a finished execution and its recorded outcome agree, although
\* the approval path writes back a whole row it read before the completion.
OutcomeMatchesStatus ==
    \A e \in Execution :
        /\ execution[e].status = "executed" => execution[e].result = "success"
        /\ execution[e].status = "failed" => execution[e].result = "failure"
        /\ execution[e].status = "pending_approval" => execution[e].result = "none"

\* The component implements the approval gate: executed and failed are both
\* "finished", and the history variable bar is the quorum.
GateOf(status) ==
    CASE status = "absent"               -> "absent"
      [] status \in Closed               -> "closed"
      [] status = "pending_approval"     -> "waiting"
      [] status = "ready"                -> "released"
      [] status \in {"executed", "failed"} -> "finished"

Gate == INSTANCE ApprovalGate WITH
            gate   <- [e \in Execution |-> GateOf(execution[e].status)],
            votes  <- approvals,
            quorum <- bar

\* Every step of every handler is a step of the approval gate or changes
\* nothing the gate can see.
ImplementsGate == Gate!GateSpec
=============================================================================

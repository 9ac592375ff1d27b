---------------------------- MODULE CommandDelivery ----------------------------
(***************************************************************************)
(* The delivery of commands: an operator dispatches a ready execution, the *)
(* broker keeps a message for the gateway agent of the site, the agent     *)
(* pulls it and reports a result, and the retry sweep takes care of what   *)
(* timed out or failed.  Components commands, broker, gateway, operations. *)
(*                                                                         *)
(* As in ActionExecution each statement sent to Postgres is one step and   *)
(* handlers interleave between statements.  The model is of one site; the  *)
(* executions are seen through their status only.                          *)
(***************************************************************************)
EXTENDS Naturals, FiniteSets

CONSTANTS
    Execution,     \* the execution requests
    ChannelOf,     \* the channel of the template of each execution
    Dispatch,      \* identifiers of dispatches
    Message,       \* slots for the broker messages that still matter
    Agent,         \* the requests of the site's gateway agents in flight
    Operator,      \* the requests of operators in flight
    ReportAny,     \* whether agents report on dispatches they never pulled
    MaxFailures    \* bound: how many storage calls throw in one behaviour

ASSUME ChannelAssumption ==
    ChannelOf \in [Execution -> {"simulated_gateway", "simulator", "manual_playbook"}]
ASSUME BoundAssumption ==
    /\ ReportAny \in BOOLEAN /\ MaxFailures \in Nat
    /\ Agent \cap Operator = {}
    /\ IsFiniteSet(Operator) /\ IsFiniteSet(Message)

VARIABLES
    execution,     \* the status of each execution
    dispatch,      \* the rows of command_dispatches
    message,       \* the rows of broker_messages
    receipts,      \* the results in gateway_dispatch_receipts, per dispatch
    deadLetters,   \* the dispatches with a row in dispatch_dead_letters
    incident,      \* the dispatches with an open incident
    handed,        \* the dispatches the agents of the site have received
    handler,       \* what each request in flight has read and does next
    failures       \* history: how many storage calls threw

queueVars == <<message, handed>>
opsVars   == <<receipts, deadLetters, incident>>
vars == <<execution, dispatch, queueVars, opsVars, handler, failures>>

Worker == Agent \cup Operator

-----------------------------------------------------------------------------
ExecutionStatus == {"blocked", "pending_approval", "ready", "executed", "failed"}

DispatchStatus == {"absent", "planned", "simulated", "blocked", "sent",
                   "retry_scheduled", "dead_lettered", "succeeded", "failed"}

\* What time has done to the dispatch: its next attempt lies ahead, has come,
\* or has come (or was sent) at least five minutes ago.
Clock == {"ahead", "due", "overdue"}

\* exhausted: attempt_count >= max_attempts; no statement changes the two
\* columns after the insert.  completed: completed_at is set.
Row == [exec: Execution, status: DispatchStatus, exhausted: BOOLEAN,
        completed: BOOLEAN, clock: Clock]

MessageRow == [dispatch: Dispatch, status: {"free", "pending", "claimed",
                                            "acked", "dead_lettered"}]

Idle == [pc |-> "idle"]

HandlerState ==
         {Idle}
    \cup [pc: {"insert"}, exec: Execution, cleared: BOOLEAN,
          kind: {"plan", "simulate", "dispatch"}]
    \cup [pc: {"schedule"}, dispatch: Dispatch]
    \cup [pc: {"sweep"}, todo: SUBSET Dispatch]
    \cup [pc: {"bury", "withdraw", "publish", "incident"}, dispatch: Dispatch,
          todo: SUBSET Dispatch, dead: BOOLEAN,
          route: {"dispatch", "retry", "sweep"}]
    \cup [pc: {"complete", "finish"}, exec: Execution, dispatch: Dispatch,
          todo: SUBSET Dispatch, success: BOOLEAN]
    \cup [pc: {"claim"}, messages: SUBSET Message]
    \cup [pc: {"respond"}, dispatches: SUBSET Dispatch]
    \cup [pc: {"result", "receipt", "ack"}, dispatch: Dispatch, success: BOOLEAN]
    \cup [pc: {"clear"}, dispatch: Dispatch]

TypeOK ==
    /\ execution \in [Execution -> ExecutionStatus]
    /\ dispatch \in [Dispatch -> Row]
    /\ message \in [Message -> MessageRow]
    /\ receipts \in [Dispatch -> SUBSET {"succeeded", "failed"}]
    /\ deadLetters \subseteq Dispatch
    /\ incident \subseteq Dispatch
    /\ handed \subseteq Dispatch
    /\ handler \in [Worker -> HandlerState]
    /\ failures \in 0 .. MaxFailures

\* Requests the guardrails judged may be dispatched; nothing was yet.
Init ==
    /\ execution \in [Execution -> {"blocked", "pending_approval", "ready"}]
    /\ dispatch \in [Dispatch -> [exec: Execution, status: {"absent"},
            exhausted: {FALSE}, completed: {FALSE}, clock: {"due"}]]
    /\ message \in [Message -> [dispatch: Dispatch, status: {"free"}]]
    /\ receipts = [d \in Dispatch |-> {}]
    /\ deadLetters = {}
    /\ incident = {}
    /\ handed = {}
    /\ handler = [w \in Worker |-> Idle]
    /\ failures = 0
    \* the execution and dispatch of unused rows are placeholders
    /\ \A c, d \in Dispatch : dispatch[c] = dispatch[d]
    /\ \A m, n \in Message : message[m] = message[n]

Goto(w, state) == handler' = [handler EXCEPT ![w] = state]
Done(w) == Goto(w, Idle)

\* A sweep goes on with its next candidate; any other request is answered.
NextCandidate(w, todo) ==
    Goto(w, IF todo = {} THEN Idle ELSE [pc |-> "sweep", todo |-> todo])

Exists(d) == dispatch[d].status # "absent"
Live(m)   == message[m].status \in {"pending", "claimed"}

-----------------------------------------------------------------------------
(***************************************************************************)
(* What the controls component does meanwhile: approve an execution, close *)
(* a ready one, release a finished one again (see ActionExecution).        *)
(***************************************************************************)
ControlsStep(e, status) ==
    /\ \/ execution[e] = "pending_approval" /\ status = "ready"
       \/ execution[e] = "ready" /\ status \in {"executed", "failed"}
       \/ execution[e] \in {"executed", "failed"} /\ status = "ready"
    /\ execution' = [execution EXCEPT ![e] = status]
    /\ UNCHANGED <<dispatch, queueVars, opsVars, handler, failures>>

\* Five minutes pass for a dispatch that is under way.
Tick(d) ==
    /\ dispatch[d].status \in {"sent", "retry_scheduled"}
    /\ dispatch[d].clock # "overdue"
    /\ dispatch' = [dispatch EXCEPT ![d].clock =
                        IF @ = "ahead" THEN "due" ELSE "overdue"]
    /\ UNCHANGED <<execution, queueVars, opsVars, handler, failures>>

-----------------------------------------------------------------------------
(***************************************************************************)
(* planExecution, simulateExecution, dispatchExecution: read the execution *)
(* and insert a dispatch.  IdentifierLeft bounds the number of dispatches.  *)
(***************************************************************************)
IdentifierLeft ==
    Cardinality({w \in Worker : handler[w].pc = "insert"})
        < Cardinality({d \in Dispatch : ~Exists(d)})

\* blocked stands for every execution whose guardrail outcome is not ready.
PlanOrSimulate(w, e, kind) ==
    /\ handler[w] = Idle
    /\ IdentifierLeft
    /\ Goto(w, [pc |-> "insert", exec |-> e, kind |-> kind,
                cleared |-> execution[e] # "blocked"])
    /\ UNCHANGED <<execution, dispatch, queueVars, opsVars, failures>>

DispatchExecution(w, e) ==
    /\ handler[w] = Idle
    /\ IdentifierLeft
    /\ execution[e] = "ready"
    /\ Goto(w, [pc |-> "insert", exec |-> e, kind |-> "dispatch", cleared |-> TRUE])
    /\ UNCHANGED <<execution, dispatch, queueVars, opsVars, failures>>

\* Mutant: a plan is stored with the verdict's own word for a status.
InsertedStatusMutant(kind, cleared, gateway) ==
    CASE kind # "dispatch" /\ ~cleared -> "rejected"
      [] kind = "plan" /\ cleared      -> "planned"
      [] kind = "simulate" /\ cleared  -> "simulated"
      [] kind = "dispatch" /\ gateway  -> "sent"
      [] OTHER                         -> "succeeded"

\* Only a dispatch to a gateway is still to be done when it is inserted: the
\* simulated executor always succeeds, and a playbook counts as carried out.
InsertedStatus(kind, cleared, gateway) ==
    CASE kind # "dispatch" /\ ~cleared -> "blocked"
      [] kind = "plan" /\ cleared      -> "planned"
      [] kind = "simulate" /\ cleared  -> "simulated"
      [] kind = "dispatch" /\ gateway  -> "sent"
      [] OTHER                         -> "succeeded"

\* Mutant: a simulation completes the execution as well.
CarriedOutMutant(h) == h.kind # "plan" /\ ChannelOf[h.exec] = "simulator"

\* The simulator has carried out the command by the time the row is stored.
CarriedOut(h) == h.kind = "dispatch" /\ ChannelOf[h.exec] = "simulator"

CreateDispatch(w, d) ==
    LET h == handler[w]
        gateway == ChannelOf[h.exec] = "simulated_gateway"
    IN
    /\ h.pc = "insert"
    /\ ~Exists(d)
    /\ dispatch' = [dispatch EXCEPT ![d] =
            [exec      |-> h.exec,
             status    |-> InsertedStatus(h.kind, h.cleared, gateway),
             exhausted |-> h.kind = "dispatch" /\ ~gateway,
             completed |-> h.kind = "simulate" \/ (h.kind = "dispatch" /\ ~gateway),
             clock     |-> "due"]]
    /\ CASE h.kind = "dispatch" /\ gateway ->
              Goto(w, [pc |-> "publish", dispatch |-> d, todo |-> {},
                       dead |-> FALSE, route |-> "dispatch"])
         [] CarriedOut(h) ->
              Goto(w, [pc |-> "complete", exec |-> h.exec, dispatch |-> d,
                       todo |-> {}, success |-> TRUE])
         [] OTHER -> Done(w)
    /\ UNCHANGED <<execution, queueVars, opsVars, failures>>

-----------------------------------------------------------------------------
(***************************************************************************)
(* retryDispatch and runRetrySweep: reschedule the row, withdraw its       *)
(* messages, publish a new one, open an incident; a dispatch that used up  *)
(* its attempts is dead-lettered instead and its execution fails.  The     *)
(* writes do not look at the status the row has by then.                   *)
(***************************************************************************)
RetryDispatch(w, d) ==
    /\ handler[w] = Idle
    /\ Exists(d)
    /\ dispatch[d].status \notin {"succeeded", "dead_lettered"}
    /\ Goto(w, [pc |-> "schedule", dispatch |-> d])
    /\ UNCHANGED <<execution, dispatch, queueVars, opsVars, failures>>

Reschedule(w, d, clock, todo, route) ==
    /\ dispatch' = [dispatch EXCEPT ![d].status = "retry_scheduled",
                                    ![d].completed = FALSE,
                                    ![d].clock = clock]
    /\ Goto(w, [pc |-> "withdraw", dispatch |-> d, todo |-> todo,
                dead |-> FALSE, route |-> route])
    /\ UNCHANGED <<execution, queueVars, opsVars, failures>>

ScheduleRetry(w) ==
    /\ handler[w].pc = "schedule"
    /\ Reschedule(w, handler[w].dispatch, "due", {}, "retry")

\* Mutant: dispatches that were sent and never answered are not considered.
RetryCandidatesMutantSent ==
    {d \in Dispatch :
        \/ dispatch[d].status = "failed"
        \/ dispatch[d].status = "retry_scheduled" /\ dispatch[d].clock = "overdue"}

\* Mutant: a failed dispatch waits for a next attempt nobody scheduled.
RetryCandidatesMutantFailed ==
    {d \in Dispatch :
        \/ dispatch[d].status = "retry_scheduled" /\ dispatch[d].clock = "overdue"
        \/ dispatch[d].status = "sent" /\ dispatch[d].clock = "overdue"}

RetryCandidates ==
    {d \in Dispatch :
        \/ dispatch[d].status = "failed"
        \/ dispatch[d].status = "retry_scheduled" /\ dispatch[d].clock = "overdue"
        \/ /\ dispatch[d].status = "sent" /\ dispatch[d].clock = "overdue"
           /\ ~dispatch[d].completed}

RunRetrySweep(w) ==
    /\ handler[w] = Idle
    /\ RetryCandidates # {}
    /\ Goto(w, [pc |-> "sweep", todo |-> RetryCandidates])
    /\ UNCHANGED <<execution, dispatch, queueVars, opsVars, failures>>

SweepRetry(w, d) ==
    /\ handler[w].pc = "sweep"
    /\ d \in handler[w].todo
    /\ ~dispatch[d].exhausted
    /\ Reschedule(w, d, "ahead", handler[w].todo \ {d}, "sweep")

MarkDeadLetter(w, d) ==
    /\ handler[w].pc = "sweep"
    /\ d \in handler[w].todo
    /\ dispatch[d].exhausted
    /\ dispatch' = [dispatch EXCEPT ![d].status = "dead_lettered",
                                    ![d].completed = TRUE]
    /\ Goto(w, [pc |-> "bury", dispatch |-> d, todo |-> handler[w].todo \ {d},
                dead |-> TRUE, route |-> "sweep"])
    /\ UNCHANGED <<execution, queueVars, opsVars, failures>>

CreateDeadLetter(w) ==
    /\ handler[w].pc = "bury"
    /\ deadLetters' = deadLetters \cup {handler[w].dispatch}
    /\ Goto(w, [handler[w] EXCEPT !.pc = "withdraw"])
    /\ UNCHANGED <<execution, dispatch, queueVars, receipts, incident, failures>>

AfterWithdraw(h) == [h EXCEPT !.pc = IF h.dead THEN "incident" ELSE "publish"]

\* Mutant: only messages an agent has claimed are withdrawn.
WithdrawnMutant(d) == [m \in Message |->
    IF message[m].dispatch = d /\ message[m].status = "claimed"
      THEN [message[m] EXCEPT !.status = "dead_lettered"] ELSE message[m]]

Withdrawn(d) == [m \in Message |->
    IF message[m].dispatch = d /\ Live(m)
      THEN [message[m] EXCEPT !.status = "dead_lettered"] ELSE message[m]]

WithdrawMessages(w) ==
    /\ handler[w].pc = "withdraw"
    /\ message' = Withdrawn(handler[w].dispatch)
    /\ Goto(w, AfterWithdraw(handler[w]))
    /\ UNCHANGED <<execution, dispatch, handed, opsVars, failures>>

AfterPublish(h) == IF h.route = "dispatch" THEN Idle ELSE [h EXCEPT !.pc = "incident"]

\* A slot is free again when its message is closed and no pull has chosen it;
\* a message is given the first free one, as slots stand for fresh identifiers.
Free(m) ==
    /\ ~Live(m)
    /\ \A w \in Worker : handler[w].pc = "claim" => m \notin handler[w].messages

PublishDispatch(w, m) ==
    LET h == handler[w] IN
    /\ h.pc = "publish"
    /\ Free(m)
    /\ m = CHOOSE n \in Message : Free(n)
    /\ message' = [message EXCEPT ![m] = [dispatch |-> h.dispatch, status |-> "pending"]]
    /\ Goto(w, AfterPublish(h))
    /\ UNCHANGED <<execution, dispatch, handed, opsVars, failures>>

CreateIncident(w) ==
    LET h == handler[w] IN
    /\ h.pc = "incident"
    /\ incident' = incident \cup {h.dispatch}
    /\ IF h.dead
         THEN Goto(w, [pc |-> "complete", exec |-> dispatch[h.dispatch].exec,
                       dispatch |-> h.dispatch, todo |-> h.todo, success |-> FALSE])
         ELSE NextCandidate(w, h.todo)
    /\ UNCHANGED <<execution, dispatch, queueVars, receipts, deadLetters, failures>>

-----------------------------------------------------------------------------
(***************************************************************************)
(* completeExecution, called by the simulator dispatch, by the sweep and   *)
(* by the gateway: refused unless the execution is ready when it is read.  *)
(***************************************************************************)
AfterCompletion(w) ==
    IF w \in Agent THEN Goto(w, [pc |-> "clear", dispatch |-> handler[w].dispatch])
                   ELSE NextCandidate(w, handler[w].todo)

CheckReady(w) ==
    LET h == handler[w] IN
    /\ h.pc = "complete"
    /\ IF execution[h.exec] = "ready" THEN Goto(w, [h EXCEPT !.pc = "finish"])
                                      ELSE AfterCompletion(w)
    /\ UNCHANGED <<execution, dispatch, queueVars, opsVars, failures>>

FinishExecution(w) ==
    LET h == handler[w] IN
    /\ h.pc = "finish"
    /\ execution' = [execution EXCEPT
            ![h.exec] = IF h.success THEN "executed" ELSE "failed"]
    /\ AfterCompletion(w)
    /\ UNCHANGED <<dispatch, queueVars, opsVars, failures>>

-----------------------------------------------------------------------------
(***************************************************************************)
(* pullDispatches: one statement selects the pending messages of open      *)
(* dispatches and claims them.  It locks a row only when it updates it and *)
(* does not look at its status again, so two pulls may claim one message.  *)
(***************************************************************************)
Claimable(m) ==
    /\ message[m].status = "pending"
    /\ dispatch[message[m].dispatch].status \in {"sent", "retry_scheduled"}

PullDispatches(a) ==
    /\ handler[a] = Idle
    /\ \E m \in Message : Claimable(m)
    /\ Goto(a, [pc |-> "claim", messages |-> {m \in Message : Claimable(m)}])
    /\ UNCHANGED <<execution, dispatch, queueVars, opsVars, failures>>

ClaimMessages(a) ==
    LET mine == handler[a].messages
        dispatches == {message[m].dispatch : m \in mine}
    IN
    /\ handler[a].pc = "claim"
    /\ message' = [m \in Message |->
            IF m \in mine THEN [message[m] EXCEPT !.status = "claimed"] ELSE message[m]]
    /\ Goto(a, [pc |-> "respond", dispatches |-> dispatches])
    /\ UNCHANGED <<execution, dispatch, handed, opsVars, failures>>

\* The claim receipts are written and the response reaches the agent.
Respond(a) ==
    /\ handler[a].pc = "respond"
    /\ handed' = handed \cup handler[a].dispatches
    /\ Done(a)
    /\ UNCHANGED <<execution, dispatch, message, opsVars, failures>>

-----------------------------------------------------------------------------
(***************************************************************************)
(* submitDispatchResult: write the result whatever the row's status is,    *)
(* record a receipt, acknowledge the messages; a success completes the     *)
(* execution and resolves the incidents.                                   *)
(***************************************************************************)
SubmitResult(a, d, success) ==
    /\ handler[a] = Idle
    /\ Exists(d)
    /\ ReportAny \/ d \in handed
    /\ Goto(a, [pc |-> "result", dispatch |-> d, success |-> success])
    /\ UNCHANGED <<execution, dispatch, queueVars, opsVars, failures>>

Outcome(success) == IF success THEN "succeeded" ELSE "failed"

UpdateDispatchResult(a) ==
    LET h == handler[a] IN
    /\ h.pc = "result"
    /\ dispatch' = [dispatch EXCEPT ![h.dispatch].status = Outcome(h.success),
                                    ![h.dispatch].completed = TRUE]
    /\ Goto(a, [h EXCEPT !.pc = "receipt"])
    /\ UNCHANGED <<execution, queueVars, opsVars, failures>>

CreateReceipt(a) ==
    LET h == handler[a] IN
    /\ h.pc = "receipt"
    /\ receipts' = [receipts EXCEPT ![h.dispatch] = @ \cup {Outcome(h.success)}]
    /\ Goto(a, [h EXCEPT !.pc = "ack"])
    /\ UNCHANGED <<execution, dispatch, queueVars, deadLetters, incident, failures>>

\* Mutant: any report completes the execution, one of a failure as well.
AckDispatchMutant(a) ==
    LET h == handler[a] IN
    /\ h.pc = "ack"
    /\ message' = [m \in Message |->
            IF message[m].dispatch = h.dispatch /\ Live(m)
              THEN [message[m] EXCEPT !.status = "acked"] ELSE message[m]]
    /\ Goto(a, [pc |-> "complete", exec |-> dispatch[h.dispatch].exec,
                dispatch |-> h.dispatch, todo |-> {}, success |-> TRUE])
    /\ UNCHANGED <<execution, dispatch, handed, opsVars, failures>>

AckDispatch(a) ==
    LET h == handler[a] IN
    /\ h.pc = "ack"
    /\ message' = [m \in Message |->
            IF message[m].dispatch = h.dispatch /\ Live(m)
              THEN [message[m] EXCEPT !.status = "acked"] ELSE message[m]]
    /\ IF h.success
         THEN Goto(a, [pc |-> "complete", exec |-> dispatch[h.dispatch].exec,
                       dispatch |-> h.dispatch, todo |-> {}, success |-> TRUE])
         ELSE Done(a)
    /\ UNCHANGED <<execution, dispatch, handed, opsVars, failures>>

ResolveIncidents(a) ==
    /\ handler[a].pc = "clear"
    /\ incident' = incident \ {handler[a].dispatch}
    /\ Done(a)
    /\ UNCHANGED <<execution, dispatch, queueVars, receipts, deadLetters, failures>>

-----------------------------------------------------------------------------
(***************************************************************************)
(* A storage call throws.  Withdrawing and publishing during a retry, the  *)
(* completion and the resolution of incidents swallow the error and go on. *)
(* The routes that dispatch, retry and take results catch it and answer;   *)
(* on any other route it ends the process (Restart).  An agent whose       *)
(* response is lost is in the place of one whose request died.             *)
(***************************************************************************)
Caught(h) ==
    \/ h.pc \in {"schedule", "result", "receipt", "ack", "clear", "respond"}
    \/ h.pc = "insert" /\ h.kind = "dispatch"
    \/ h.pc = "incident" /\ h.route = "retry"

Fail(w) ==
    LET h == handler[w] IN
    /\ failures < MaxFailures
    /\ failures' = failures + 1
    /\ \/ h.pc = "withdraw" /\ Goto(w, AfterWithdraw(h))
       \/ h.pc = "publish" /\ Goto(w, AfterPublish(h))
       \/ h.pc \in {"complete", "finish"} /\ AfterCompletion(w)
       \/ Caught(h) /\ Done(w)
    /\ UNCHANGED <<execution, dispatch, queueVars, opsVars>>

\* The server ends, for an error nobody caught or for another reason, and is
\* started again: every request in flight is lost.
Restart ==
    /\ failures < MaxFailures
    /\ \E w \in Worker : handler[w] # Idle
    /\ failures' = failures + 1
    /\ handler' = [w \in Worker |-> Idle]
    /\ UNCHANGED <<execution, dispatch, queueVars, opsVars>>

-----------------------------------------------------------------------------
\* The requests of operators.
Request(w) ==
    \/ \E e \in Execution, kind \in {"plan", "simulate"} : PlanOrSimulate(w, e, kind)
    \/ \E e \in Execution : DispatchExecution(w, e)
    \/ \E d \in Dispatch : RetryDispatch(w, d)
    \/ RunRetrySweep(w)

\* The requests of gateway agents.
Poll(a) ==
    \/ PullDispatches(a)
    \/ \E d \in Dispatch, success \in BOOLEAN : SubmitResult(a, d, success)

\* The next statement of a handler in flight.
Continue(w) ==
    \/ \E d \in Dispatch : CreateDispatch(w, d) \/ SweepRetry(w, d) \/ MarkDeadLetter(w, d)
    \/ ScheduleRetry(w) \/ CreateDeadLetter(w) \/ WithdrawMessages(w)
    \/ \E m \in Message : PublishDispatch(w, m)
    \/ CreateIncident(w) \/ CheckReady(w) \/ FinishExecution(w)
    \/ w \in Agent /\ (ClaimMessages(w) \/ Respond(w) \/ UpdateDispatchResult(w)
                         \/ CreateReceipt(w) \/ AckDispatch(w) \/ ResolveIncidents(w))

Next ==
    \/ \E e \in Execution, status \in ExecutionStatus : ControlsStep(e, status)
    \/ \E d \in Dispatch : Tick(d)
    \/ \E w \in Operator : Request(w)
    \/ \E a \in Agent : Poll(a)
    \/ \E w \in Worker : Continue(w) \/ Fail(w)
    \/ Restart

Spec == Init /\ [][Next]_vars

\* Requests in flight make progress and time passes.  Agents poll and the
\* sweep is run again and again: a chance to pull, or to sweep, that recurs
\* forever is taken at some time.  Nothing else has to happen.
FairSpec ==
    /\ Spec
    /\ \A w \in Worker : WF_vars(Continue(w))
    /\ \A d \in Dispatch : WF_vars(Tick(d))
    /\ \A a \in Agent : SF_vars(PullDispatches(a))
    /\ \A w \in Operator : SF_vars(RunRetrySweep(w))

-----------------------------------------------------------------------------
(***************************************************************************)
(* Properties.                                                             *)
(***************************************************************************)
\* Retries never pile up commands: of one dispatch no more copies wait for an
\* agent than operators retry it at once (republishing withdraws what is left;
\* assumes that withdrawing does not fail).
CopiesBounded ==
    \A d \in Dispatch :
        Cardinality({m \in Message : message[m] = [dispatch |-> d, status |-> "pending"]})
            <= Cardinality(Operator)

\* The simulator carried out the dispatch: on its channel only a dispatch, and
\* neither a plan nor a simulation, is stored with its single attempt used up.
Simulated(d) == ChannelOf[dispatch[d].exec] = "simulator" /\ dispatch[d].exhausted

\* Delivery closes an execution only on evidence: it becomes executed after
\* an agent reported a success of one of its dispatches or the simulator carried
\* one out, and failed after one of its dispatches was dead-lettered.  (The
\* controls component closes executions on its own account, in ControlsStep.)
OutcomeHasEvidence ==
    [][\A e \in Execution :
        execution'[e] # execution[e] /\ handler' # handler =>
            \E d \in Dispatch :
                /\ dispatch[d].exec = e
                /\ \/ execution'[e] = "executed" /\ "succeeded" \in receipts[d]
                   \/ execution'[e] = "executed" /\ Simulated(d)
                   \/ execution'[e] = "failed" /\ d \in deadLetters]_vars

UnderWay(d) == dispatch[d].status \in {"sent", "retry_scheduled"}

\* Every dispatch under way reaches an agent or is closed, even when its
\* publication, a claim or a response was lost, or the server restarted.
ReachesAgent ==
    \A d \in Dispatch :
        UnderWay(d) ~> d \in handed \/ ~UnderWay(d)

\* A dispatch an agent reported as failed is taken up again.
FailedIsTakenUp ==
    \A d \in Dispatch : dispatch[d].status = "failed" ~> dispatch[d].status # "failed"

\* device-commanding.service.ts:119-121: an execution that is not ready is not
\* dispatched, so none that the guardrails blocked or that still waits for
\* approvals has a message for the agents.
OnlyReadyPublished ==
    \A m \in Message : Live(m) =>
        execution[dispatch[message[m].dispatch].exec]
            \notin {"blocked", "pending_approval"}
=============================================================================

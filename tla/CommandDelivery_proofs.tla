------------------------ MODULE CommandDelivery_proofs -------------------------
(***************************************************************************)
(* Proofs about the delivery of commands, for any executions, dispatches,  *)
(* message slots, agents and operators, and any number of failures.        *)
(***************************************************************************)
EXTENDS CommandDelivery, FiniteSetTheorems, TLAPS

-----------------------------------------------------------------------------
(***************************************************************************)
(* What a request holds between its statements.                            *)
(***************************************************************************)
Kind == {"plan", "simulate", "dispatch"}
Routed == {"bury", "withdraw", "publish", "incident"}
Completing == {"complete", "finish"}
Reporting == {"result", "receipt", "ack"}

\* The fields a request has at each of its statements.
LEMMA Fields ==
    ASSUME NEW h \in HandlerState
    PROVE  /\ h.pc = "insert" => h.exec \in Execution /\ h.cleared \in BOOLEAN /\ h.kind \in Kind
           /\ h.pc \in {"schedule", "clear"} => h.dispatch \in Dispatch
           /\ h.pc = "sweep" => h.todo \in SUBSET Dispatch
           /\ h.pc \in Routed =>
                 /\ h.dispatch \in Dispatch /\ h.todo \in SUBSET Dispatch
                 /\ h.dead \in BOOLEAN /\ h.route \in {"dispatch", "retry", "sweep"}
           /\ h.pc \in Completing =>
                 /\ h.exec \in Execution /\ h.dispatch \in Dispatch
                 /\ h.todo \in SUBSET Dispatch /\ h.success \in BOOLEAN
           /\ h.pc = "claim" => h.messages \in SUBSET Message
           /\ h.pc = "respond" => h.dispatches \in SUBSET Dispatch
           /\ h.pc \in Reporting => h.dispatch \in Dispatch /\ h.success \in BOOLEAN
  BY DEF HandlerState, Idle, Kind, Routed, Completing, Reporting

\* Going on to the next statement with what is held.
LEMMA GoesOn ==
    ASSUME NEW h \in HandlerState
    PROVE  /\ h.pc \in Routed =>
                 \A pc \in Routed :
                    LET k == [h EXCEPT !.pc = pc] IN
                    /\ k \in HandlerState /\ k.pc = pc
                    /\ k.dispatch = h.dispatch /\ k.todo = h.todo
                    /\ k.dead = h.dead /\ k.route = h.route
           /\ h.pc \in Completing =>
                 \A pc \in Completing :
                    LET k == [h EXCEPT !.pc = pc] IN
                    /\ k \in HandlerState /\ k.pc = pc
                    /\ k.exec = h.exec /\ k.dispatch = h.dispatch
                    /\ k.todo = h.todo /\ k.success = h.success
           /\ h.pc \in Reporting =>
                 \A pc \in Reporting :
                    LET k == [h EXCEPT !.pc = pc] IN
                    /\ k \in HandlerState /\ k.pc = pc
                    /\ k.dispatch = h.dispatch /\ k.success = h.success
<1>1. ASSUME h.pc \in Routed, NEW pc \in Routed
      PROVE  LET k == [h EXCEPT !.pc = pc] IN
             /\ k \in HandlerState /\ k.pc = pc
             /\ k.dispatch = h.dispatch /\ k.todo = h.todo
             /\ k.dead = h.dead /\ k.route = h.route
  <2>1. h \in [pc: Routed, dispatch: Dispatch, todo: SUBSET Dispatch, dead: BOOLEAN,
               route: {"dispatch", "retry", "sweep"}]
    BY <1>1 DEF HandlerState, Idle, Routed
  <2> QED
    BY <1>1, <2>1 DEF HandlerState, Routed
<1>2. ASSUME h.pc \in Completing, NEW pc \in Completing
      PROVE  LET k == [h EXCEPT !.pc = pc] IN
             /\ k \in HandlerState /\ k.pc = pc
             /\ k.exec = h.exec /\ k.dispatch = h.dispatch
             /\ k.todo = h.todo /\ k.success = h.success
  <2>1. h \in [pc: Completing, exec: Execution, dispatch: Dispatch,
               todo: SUBSET Dispatch, success: BOOLEAN]
    BY <1>2 DEF HandlerState, Idle, Completing
  <2> QED
    BY <1>2, <2>1 DEF HandlerState, Completing
<1>3. ASSUME h.pc \in Reporting, NEW pc \in Reporting
      PROVE  LET k == [h EXCEPT !.pc = pc] IN
             /\ k \in HandlerState /\ k.pc = pc
             /\ k.dispatch = h.dispatch /\ k.success = h.success
  <2>1. h \in [pc: Reporting, dispatch: Dispatch, success: BOOLEAN]
    BY <1>3 DEF HandlerState, Idle, Reporting
  <2> QED
    BY <1>3, <2>1 DEF HandlerState, Reporting
<1> QED
  BY <1>1, <1>2, <1>3

\* A step of one request leaves the others where they are.
LEMMA GotoView ==
    ASSUME TypeOK, NEW w \in Worker, NEW s, Goto(w, s)
    PROVE  /\ handler'[w] = s
           /\ \A v \in Worker : v # w => handler'[v] = handler[v]
           /\ s \in HandlerState => handler' \in [Worker -> HandlerState]
  BY DEF Goto, TypeOK

\* The states a request moves to.
LEMMA States ==
    /\ Idle \in HandlerState
    /\ \A S \in SUBSET Dispatch : [pc |-> "sweep", todo |-> S] \in HandlerState
    /\ \A d \in Dispatch : /\ [pc |-> "schedule", dispatch |-> d] \in HandlerState
                           /\ [pc |-> "clear", dispatch |-> d] \in HandlerState
    /\ \A S \in SUBSET Message : [pc |-> "claim", messages |-> S] \in HandlerState
    /\ \A S \in SUBSET Dispatch : [pc |-> "respond", dispatches |-> S] \in HandlerState
    /\ \A d \in Dispatch, b \in BOOLEAN :
          [pc |-> "result", dispatch |-> d, success |-> b] \in HandlerState
    /\ \A e \in Execution, k \in Kind, b \in BOOLEAN :
          [pc |-> "insert", exec |-> e, kind |-> k, cleared |-> b] \in HandlerState
    /\ \A pc \in Routed, d \in Dispatch, S \in SUBSET Dispatch, b \in BOOLEAN,
          r \in {"dispatch", "retry", "sweep"} :
          [pc |-> pc, dispatch |-> d, todo |-> S, dead |-> b, route |-> r] \in HandlerState
    /\ \A pc \in Completing, e \in Execution, d \in Dispatch, S \in SUBSET Dispatch,
          b \in BOOLEAN :
          [pc |-> pc, exec |-> e, dispatch |-> d, todo |-> S, success |-> b] \in HandlerState
  BY DEF HandlerState, Idle, Kind, Routed, Completing

\* A sweep goes on with its next candidate; any other request is answered.
LEMMA NextCandidateView ==
    ASSUME TypeOK, NEW w \in Worker, NEW todo \in SUBSET Dispatch, NextCandidate(w, todo)
    PROVE  /\ handler' \in [Worker -> HandlerState]
           /\ \A v \in Worker : v # w => handler'[v] = handler[v]
           /\ handler'[w] = Idle \/ handler'[w] = [pc |-> "sweep", todo |-> todo]
  BY GotoView, States DEF NextCandidate

\* What follows the completion of an execution.
LEMMA AfterCompletionView ==
    ASSUME TypeOK, NEW w \in Worker, handler[w].pc \in Completing, AfterCompletion(w)
    PROVE  /\ handler' \in [Worker -> HandlerState]
           /\ \A v \in Worker : v # w => handler'[v] = handler[v]
           /\ w \in Agent => handler'[w] = [pc |-> "clear", dispatch |-> handler[w].dispatch]
           /\ w \notin Agent => \/ handler'[w] = Idle
                                \/ handler'[w] = [pc |-> "sweep", todo |-> handler[w].todo]
<1>1. handler[w] \in HandlerState
  BY DEF TypeOK
<1>2. handler[w].dispatch \in Dispatch /\ handler[w].todo \in SUBSET Dispatch
  BY <1>1, Fields
<1>3. CASE w \in Agent
  <2>1. [pc |-> "clear", dispatch |-> handler[w].dispatch] \in HandlerState
    BY <1>2, States
  <2>2. Goto(w, [pc |-> "clear", dispatch |-> handler[w].dispatch])
    BY <1>3 DEF AfterCompletion
  <2> QED
    BY <1>3, <2>1, <2>2, GotoView
<1>4. CASE w \notin Agent
  BY <1>2, <1>4, NextCandidateView DEF AfterCompletion
<1> QED
  BY <1>3, <1>4

\* What follows the withdrawal of messages.
LEMMA AfterWithdrawView ==
    ASSUME TypeOK, NEW w \in Worker, handler[w].pc = "withdraw",
           Goto(w, AfterWithdraw(handler[w]))
    PROVE  /\ handler' \in [Worker -> HandlerState]
           /\ \A v \in Worker : v # w => handler'[v] = handler[v]
           /\ handler'[w].pc = IF handler[w].dead THEN "incident" ELSE "publish"
           /\ handler'[w].dispatch = handler[w].dispatch
           /\ handler'[w].todo = handler[w].todo
           /\ handler'[w].dead = handler[w].dead
<1>1. handler[w] \in HandlerState /\ handler[w].pc \in Routed
  BY DEF TypeOK, Routed
<1>2. PICK pc \in Routed : /\ AfterWithdraw(handler[w]) = [handler[w] EXCEPT !.pc = pc]
                           /\ pc = IF handler[w].dead THEN "incident" ELSE "publish"
  BY DEF AfterWithdraw, Routed
<1>3. LET k == [handler[w] EXCEPT !.pc = pc] IN
      /\ k \in HandlerState /\ k.pc = pc
      /\ k.dispatch = handler[w].dispatch /\ k.todo = handler[w].todo
      /\ k.dead = handler[w].dead
  BY <1>1, GoesOn
<1> QED
  BY <1>2, <1>3, GotoView

\* What follows a publication.
LEMMA AfterPublishView ==
    ASSUME TypeOK, NEW w \in Worker, handler[w].pc = "publish",
           Goto(w, AfterPublish(handler[w]))
    PROVE  /\ handler' \in [Worker -> HandlerState]
           /\ \A v \in Worker : v # w => handler'[v] = handler[v]
           /\ \/ handler'[w] = Idle
              \/ /\ handler'[w].pc = "incident"
                 /\ handler'[w].dispatch = handler[w].dispatch
                 /\ handler'[w].todo = handler[w].todo
                 /\ handler'[w].dead = handler[w].dead
<1>1. handler[w] \in HandlerState /\ handler[w].pc \in Routed
  BY DEF TypeOK, Routed
<1>2. CASE AfterPublish(handler[w]) = Idle
  BY <1>2, GotoView, States
<1>3. CASE AfterPublish(handler[w]) = [handler[w] EXCEPT !.pc = "incident"]
  <2>1. LET k == [handler[w] EXCEPT !.pc = "incident"] IN
        /\ k \in HandlerState /\ k.pc = "incident"
        /\ k.dispatch = handler[w].dispatch /\ k.todo = handler[w].todo
        /\ k.dead = handler[w].dead
    <3>1. "incident" \in Routed
      BY DEF Routed
    <3> QED
      BY <1>1, <3>1, GoesOn
  <2> QED
    BY <1>3, <2>1, GotoView
<1> QED
  BY <1>2, <1>3 DEF AfterPublish

-----------------------------------------------------------------------------
(***************************************************************************)
(* The invariant: what a request in flight goes by was read from rows that *)
(* are still there.                                                        *)
(***************************************************************************)
Held == {"schedule", "clear"} \cup Routed \cup Completing \cup Reporting

\* What completeExecution was called with: the execution of the dispatch, as
\* successful for a success an agent reported or the simulator had, as failed for a dead letter.
Proven(d, e, success) ==
    /\ dispatch[d].exec = e
    /\ IF success THEN "succeeded" \in receipts[d] \/ Simulated(d)
                  ELSE d \in deadLetters

Grounded(w) ==
    LET h == handler[w] IN
    /\ w \in Agent => h.pc \notin Routed \cup {"insert", "schedule", "sweep"}
    /\ h.pc \in Held => Exists(h.dispatch)
    /\ h.pc \in {"sweep"} \cup Routed \cup Completing => \A d \in h.todo : Exists(d)
    /\ h.pc \in Routed \ {"bury"} /\ h.dead => h.dispatch \in deadLetters
    /\ h.pc = "ack" /\ h.success => "succeeded" \in receipts[h.dispatch]
    /\ h.pc \in Completing => Proven(h.dispatch, h.exec, h.success)

\* A message that waits for an agent is one of a dispatch.
PendingExist == \A m \in Message :
    message[m].status = "pending" => Exists(message[m].dispatch)

DeliveryInv == TypeOK /\ (\A w \in Worker : Grounded(w)) /\ PendingExist

\* Dispatches, their executions, results and dead letters are never removed.
Grows ==
    /\ \A d \in Dispatch : Exists(d) => /\ dispatch'[d].status # "absent"
                                        /\ dispatch'[d].exec = dispatch[d].exec
                                        /\ dispatch'[d].exhausted = dispatch[d].exhausted
    /\ \A d \in Dispatch : receipts[d] \subseteq receipts'[d]
    /\ deadLetters \subseteq deadLetters'

\* A statement of one request that publishes nothing and leads to no publication.
Quiet(w) ==
    /\ handler'[w].pc # "publish"
    /\ \A m \in Message : message'[m].status = "pending" => message'[m] = message[m]

Advances(w) ==
    /\ TypeOK' /\ Grows /\ Grounded(w)'
    /\ \A v \in Worker : v # w => handler'[v] = handler[v]

\* What the other requests go by stays true.
LEMMA Kept ==
    ASSUME TypeOK, Grows, NEW v \in Worker, Grounded(v), handler'[v] = handler[v]
    PROVE  Grounded(v)'
<1>1. handler[v] \in HandlerState
  BY DEF TypeOK
<1>2. /\ handler[v].pc \in Held => handler[v].dispatch \in Dispatch
      /\ handler[v].pc \in {"sweep"} \cup Routed \cup Completing =>
            handler[v].todo \in SUBSET Dispatch
  BY <1>1, Fields DEF Held
<1> DEFINE h == handler[v]
<1>3. v \in Agent => h.pc \notin Routed \cup {"insert", "schedule", "sweep"}
  BY DEF Grounded
<1>4. h.pc \in Held => dispatch'[h.dispatch].status # "absent"
  BY <1>2 DEF Grounded, Grows
<1>5. h.pc \in {"sweep"} \cup Routed \cup Completing =>
         \A d \in h.todo : dispatch'[d].status # "absent"
  BY <1>2 DEF Grounded, Grows
<1>6. h.pc \in Routed \ {"bury"} /\ h.dead => h.dispatch \in deadLetters'
  BY DEF Grounded, Grows
<1>7. h.pc = "ack" /\ h.success => "succeeded" \in receipts'[h.dispatch]
  BY <1>2 DEF Grounded, Grows, Held, Reporting
<1>8. h.pc \in Completing =>
         /\ dispatch'[h.dispatch].exec = h.exec
         /\ IF h.success
              THEN "succeeded" \in receipts'[h.dispatch] \/ Simulated(h.dispatch)'
              ELSE h.dispatch \in deadLetters'
  BY <1>2 DEF Grounded, Proven, Simulated, Grows, Held
<1> QED
  BY <1>3, <1>4, <1>5, <1>6, <1>7, <1>8 DEF Grounded, Proven, Exists

-----------------------------------------------------------------------------
(***************************************************************************)
(* The rows of dispatches.                                                 *)
(***************************************************************************)
\* A row keeps its type when its status, completion and clock are set.
LEMMA RowTypes ==
    ASSUME dispatch \in [Dispatch -> Row], NEW d \in Dispatch
    PROVE  /\ \A c \in Clock :
                 [dispatch EXCEPT ![d].status = "retry_scheduled", ![d].completed = FALSE,
                                  ![d].clock = c] \in [Dispatch -> Row]
           /\ \A s \in DispatchStatus :
                 [dispatch EXCEPT ![d].status = s, ![d].completed = TRUE] \in [Dispatch -> Row]
           /\ \A c \in Clock : [dispatch EXCEPT ![d].clock = c] \in [Dispatch -> Row]
<1>1. dispatch[d] \in Row
  OBVIOUS
<1>2. \A r \in Row :
         /\ \A s \in DispatchStatus, b \in BOOLEAN, c \in Clock :
               [r EXCEPT !.status = s, !.completed = b, !.clock = c] \in Row
         /\ \A s \in DispatchStatus, b \in BOOLEAN :
               [r EXCEPT !.status = s, !.completed = b] \in Row
         /\ \A c \in Clock : [r EXCEPT !.clock = c] \in Row
  BY DEF Row
<1>3. \A r \in Row : [dispatch EXCEPT ![d] = r] \in [Dispatch -> Row]
  OBVIOUS
<1>4. ASSUME NEW c \in Clock
      PROVE  [dispatch EXCEPT ![d].status = "retry_scheduled", ![d].completed = FALSE,
                              ![d].clock = c] \in [Dispatch -> Row]
  <2>1. "retry_scheduled" \in DispatchStatus
    BY DEF DispatchStatus
  <2> QED
    BY <1>1, <1>2, <1>3, <2>1
<1>5. ASSUME NEW s \in DispatchStatus
      PROVE  [dispatch EXCEPT ![d].status = s, ![d].completed = TRUE] \in [Dispatch -> Row]
  <2>1. [dispatch[d] EXCEPT !.status = s, !.completed = TRUE] \in Row
    BY <1>1, <1>2
  <2>2. [dispatch EXCEPT ![d].status = s, ![d].completed = TRUE]
           = [dispatch EXCEPT ![d] = [dispatch[d] EXCEPT !.status = s, !.completed = TRUE]]
    OBVIOUS
  <2> QED
    BY <1>3, <2>1, <2>2
<1>6. ASSUME NEW c \in Clock
      PROVE  [dispatch EXCEPT ![d].clock = c] \in [Dispatch -> Row]
  <2>1. [dispatch[d] EXCEPT !.clock = c] \in Row
    BY <1>1, <1>2
  <2>2. [dispatch EXCEPT ![d].clock = c]
           = [dispatch EXCEPT ![d] = [dispatch[d] EXCEPT !.clock = c]]
    OBVIOUS
  <2> QED
    BY <1>3, <2>1, <2>2
<1> QED
  BY <1>4, <1>5, <1>6

\* A row that is updated stays that of its execution and keeps its attempts.
LEMMA RowsKept ==
    ASSUME TypeOK, NEW d \in Dispatch, NEW s \in DispatchStatus \ {"absent"},
           NEW c \in Clock,
           \/ dispatch' = [dispatch EXCEPT ![d].status = "retry_scheduled",
                                           ![d].completed = FALSE, ![d].clock = c]
           \/ dispatch' = [dispatch EXCEPT ![d].status = s, ![d].completed = TRUE]
           \/ dispatch' = [dispatch EXCEPT ![d].clock = c]
    PROVE  /\ dispatch' \in [Dispatch -> Row]
           /\ \A x \in Dispatch : /\ dispatch'[x].exec = dispatch[x].exec
                                  /\ dispatch'[x].exhausted = dispatch[x].exhausted
           /\ \A x \in Dispatch : Exists(x) => dispatch'[x].status # "absent"
<1>2. dispatch \in [Dispatch -> Row]
  BY DEF TypeOK
<1>1. dispatch' \in [Dispatch -> Row]
  <2>1. CASE dispatch' = [dispatch EXCEPT ![d].status = "retry_scheduled",
                                          ![d].completed = FALSE, ![d].clock = c]
    BY <1>2, <2>1, RowTypes
  <2>2. CASE dispatch' = [dispatch EXCEPT ![d].status = s, ![d].completed = TRUE]
    BY <1>2, <2>2, RowTypes
  <2>3. CASE dispatch' = [dispatch EXCEPT ![d].clock = c]
    BY <1>2, <2>3, RowTypes
  <2> QED
    BY <2>1, <2>2, <2>3
<1>3. \A x \in Dispatch : x # d => dispatch'[x] = dispatch[x]
  BY <1>2
<1>4. dispatch[d] \in Row
  BY <1>2
<1>5. /\ dispatch'[d].exec = dispatch[d].exec
      /\ dispatch'[d].exhausted = dispatch[d].exhausted
      /\ dispatch'[d].status \in {dispatch[d].status, s, "retry_scheduled"}
  BY <1>2, <1>4 DEF Row
<1> QED
  BY <1>1, <1>3, <1>5 DEF Exists

\* The status a dispatch is inserted with is one, and not that of a free row.
LEMMA InsertedStatusType ==
    ASSUME NEW kind \in Kind, NEW cleared \in BOOLEAN, NEW gateway \in BOOLEAN
    PROVE  InsertedStatus(kind, cleared, gateway) \in DispatchStatus \ {"absent"}
  BY DEF InsertedStatus, DispatchStatus, Kind

\* What the insertion of a dispatch leaves behind.
LEMMA CreateDispatchView ==
    ASSUME TypeOK, NEW w \in Worker, NEW d \in Dispatch, CreateDispatch(w, d)
    PROVE  /\ handler' \in [Worker -> HandlerState]
           /\ \A v \in Worker : v # w => handler'[v] = handler[v]
           /\ dispatch' \in [Dispatch -> Row]
           /\ dispatch[d].status = "absent" /\ dispatch'[d].status # "absent"
           /\ \A c \in Dispatch : c # d => dispatch'[c] = dispatch[c]
           /\ \/ handler'[w] = [pc |-> "publish", dispatch |-> d, todo |-> {},
                                dead |-> FALSE, route |-> "dispatch"]
              \/ /\ handler'[w] = [pc |-> "complete", exec |-> dispatch'[d].exec,
                                   dispatch |-> d, todo |-> {}, success |-> TRUE]
                 /\ Simulated(d)'
              \/ handler'[w] = Idle
<1> DEFINE h == handler[w]
           gateway == ChannelOf[h.exec] = "simulated_gateway"
           row == [exec      |-> h.exec,
                   status    |-> InsertedStatus(h.kind, h.cleared, gateway),
                   exhausted |-> h.kind = "dispatch" /\ ~gateway,
                   completed |-> h.kind = "simulate" \/ (h.kind = "dispatch" /\ ~gateway),
                   clock     |-> "due"]
<1>1. /\ h.exec \in Execution /\ h.cleared \in BOOLEAN /\ h.kind \in Kind
  BY Fields DEF TypeOK, CreateDispatch
<1>2. gateway \in BOOLEAN
  OBVIOUS
<1>3. row.status \in DispatchStatus \ {"absent"}
  BY <1>1, <1>2, InsertedStatusType
<1>4. dispatch' = [dispatch EXCEPT ![d] = row]
  BY DEF CreateDispatch
<1>5. row \in Row /\ row.exec = h.exec
  <2>1. row.exhausted \in BOOLEAN /\ row.completed \in BOOLEAN
    OBVIOUS
  <2> QED
    BY <1>1, <1>3, <2>1 DEF Row, Clock
<1>6. dispatch' \in [Dispatch -> Row] /\ dispatch'[d] = row
      /\ \A c \in Dispatch : c # d => dispatch'[c] = dispatch[c]
  <2> HIDE DEF row
  <2> QED
    BY <1>4, <1>5 DEF TypeOK
<1>7. \/ Goto(w, [pc |-> "publish", dispatch |-> d, todo |-> {},
                  dead |-> FALSE, route |-> "dispatch"])
      \/ /\ Goto(w, [pc |-> "complete", exec |-> h.exec, dispatch |-> d,
                     todo |-> {}, success |-> TRUE])
         /\ ChannelOf[h.exec] = "simulator" /\ row.exhausted
      \/ Goto(w, Idle)
  BY DEF CreateDispatch, CarriedOut, Done
<1>8. /\ [pc |-> "publish", dispatch |-> d, todo |-> {},
          dead |-> FALSE, route |-> "dispatch"] \in HandlerState
      /\ [pc |-> "complete", exec |-> h.exec, dispatch |-> d,
          todo |-> {}, success |-> TRUE] \in HandlerState
      /\ Idle \in HandlerState
  BY <1>1, States DEF Routed, Completing
<1>9. dispatch[d].status = "absent"
  BY DEF CreateDispatch, Exists
<1> HIDE DEF row
<1>10. dispatch'[d].exec = h.exec /\ dispatch'[d].status # "absent"
  BY <1>3, <1>5, <1>6
<1>11. ChannelOf[h.exec] = "simulator" /\ row.exhausted => Simulated(d)'
  BY <1>6, <1>10 DEF Simulated
<1> HIDE DEF h
<1>12. CASE Goto(w, [pc |-> "publish", dispatch |-> d, todo |-> {},
                     dead |-> FALSE, route |-> "dispatch"])
  BY <1>6, <1>8, <1>9, <1>10, <1>12, GotoView
<1>13. CASE /\ Goto(w, [pc |-> "complete", exec |-> h.exec, dispatch |-> d,
                        todo |-> {}, success |-> TRUE])
            /\ ChannelOf[h.exec] = "simulator" /\ row.exhausted
  BY <1>6, <1>8, <1>9, <1>10, <1>11, <1>13, GotoView
<1>14. CASE Goto(w, Idle)
  BY <1>6, <1>8, <1>9, <1>10, <1>14, GotoView
<1> QED
  BY <1>7, <1>12, <1>13, <1>14

-----------------------------------------------------------------------------
(***************************************************************************)
(* The requests.                                                           *)
(***************************************************************************)
\* A request that is taken up changes nothing but its own place.
LEMMA Started ==
    ASSUME TypeOK, NEW w \in Worker, NEW s \in HandlerState, Goto(w, s),
           UNCHANGED <<execution, dispatch, queueVars, opsVars, failures>>
    PROVE  /\ TypeOK' /\ Grows /\ handler'[w] = s
           /\ \A v \in Worker : v # w => handler'[v] = handler[v]
           /\ \A m \in Message : message'[m] = message[m]
           /\ \A d \in Dispatch : Exists(d) => dispatch'[d].status # "absent"
<1>1. /\ handler' \in [Worker -> HandlerState] /\ handler'[w] = s
      /\ \A v \in Worker : v # w => handler'[v] = handler[v]
  BY GotoView
<1> QED
  BY <1>1 DEF TypeOK, Grows, Exists, queueVars, opsVars

LEMMA PlanOrSimulateStep ==
    ASSUME TypeOK, NEW w \in Operator, NEW e \in Execution,
           NEW kind \in {"plan", "simulate"}, PlanOrSimulate(w, e, kind)
    PROVE  Advances(w) /\ Quiet(w)
<1> DEFINE cleared == execution[e] # "blocked"
           s == [pc |-> "insert", exec |-> e, kind |-> kind, cleared |-> cleared]
<1>1. cleared \in BOOLEAN /\ kind \in Kind /\ w \in Worker
  BY DEF Kind, Worker
<1>2. Goto(w, s) /\ UNCHANGED <<execution, dispatch, queueVars, opsVars, failures>>
  BY DEF PlanOrSimulate
<1> HIDE DEF cleared
<1>3. s \in HandlerState /\ s.pc = "insert"
  BY <1>1, States
<1> HIDE DEF s
<1>4. /\ TypeOK' /\ Grows /\ handler'[w] = s
      /\ \A v \in Worker : v # w => handler'[v] = handler[v]
      /\ \A m \in Message : message'[m] = message[m]
  BY <1>1, <1>2, <1>3, Started
<1>5. w \notin Agent
  BY BoundAssumption
<1> QED
  BY <1>3, <1>4, <1>5 DEF Advances, Quiet, Grounded, Held, Routed, Completing, Reporting

LEMMA DispatchExecutionStep ==
    ASSUME TypeOK, NEW w \in Operator, NEW e \in Execution, DispatchExecution(w, e)
    PROVE  Advances(w) /\ Quiet(w)
<1> DEFINE s == [pc |-> "insert", exec |-> e, kind |-> "dispatch", cleared |-> TRUE]
<1>1. Goto(w, s) /\ UNCHANGED <<execution, dispatch, queueVars, opsVars, failures>>
  BY DEF DispatchExecution
<1>2. s \in HandlerState /\ s.pc = "insert"
  BY States DEF Kind
<1> HIDE DEF s
<1>3. w \in Worker /\ w \notin Agent
  BY BoundAssumption DEF Worker
<1>4. /\ TypeOK' /\ Grows /\ handler'[w] = s
      /\ \A v \in Worker : v # w => handler'[v] = handler[v]
      /\ \A m \in Message : message'[m] = message[m]
  BY <1>1, <1>2, <1>3, Started
<1> QED
  BY <1>2, <1>3, <1>4 DEF Advances, Quiet, Grounded, Held, Routed, Completing, Reporting

LEMMA RetryDispatchStep ==
    ASSUME TypeOK, NEW w \in Operator, NEW d \in Dispatch, RetryDispatch(w, d)
    PROVE  Advances(w) /\ Quiet(w)
<1> DEFINE s == [pc |-> "schedule", dispatch |-> d]
<1>1. /\ Goto(w, s) /\ UNCHANGED <<execution, dispatch, queueVars, opsVars, failures>>
      /\ Exists(d)
  BY DEF RetryDispatch
<1>2. s \in HandlerState /\ s.pc = "schedule" /\ s.dispatch = d
  BY States
<1> HIDE DEF s
<1>3. w \in Worker /\ w \notin Agent
  BY BoundAssumption DEF Worker
<1>4. /\ TypeOK' /\ Grows /\ handler'[w] = s
      /\ \A v \in Worker : v # w => handler'[v] = handler[v]
      /\ \A m \in Message : message'[m] = message[m]
      /\ dispatch'[d].status # "absent"
  BY <1>1, <1>2, <1>3, Started
<1> QED
  BY <1>2, <1>3, <1>4
  DEF Advances, Quiet, Grounded, Exists, Held, Routed, Completing, Reporting

LEMMA RunRetrySweepStep ==
    ASSUME TypeOK, NEW w \in Operator, RunRetrySweep(w)
    PROVE  Advances(w) /\ Quiet(w)
<1> DEFINE s == [pc |-> "sweep", todo |-> RetryCandidates]
<1>1. Goto(w, s) /\ UNCHANGED <<execution, dispatch, queueVars, opsVars, failures>>
  BY DEF RunRetrySweep
<1>2. RetryCandidates \in SUBSET Dispatch /\ \A d \in RetryCandidates : Exists(d)
  BY DEF RetryCandidates, Exists
<1>3. s \in HandlerState /\ s.pc = "sweep" /\ s.todo = RetryCandidates
  BY <1>2, States
<1> HIDE DEF s
<1>4. w \in Worker /\ w \notin Agent
  BY BoundAssumption DEF Worker
<1>5. /\ TypeOK' /\ Grows /\ handler'[w] = s
      /\ \A v \in Worker : v # w => handler'[v] = handler[v]
      /\ \A m \in Message : message'[m] = message[m]
      /\ \A d \in Dispatch : Exists(d) => dispatch'[d].status # "absent"
  BY <1>1, <1>3, <1>4, Started
<1>6. \A d \in s.todo : dispatch'[d].status # "absent"
  BY <1>2, <1>3, <1>5
<1> QED
  BY <1>3, <1>4, <1>5, <1>6
  DEF Advances, Quiet, Grounded, Exists, Held, Routed, Completing, Reporting

LEMMA PullDispatchesStep ==
    ASSUME TypeOK, NEW w \in Agent, PullDispatches(w)
    PROVE  Advances(w) /\ Quiet(w)
<1> DEFINE claimable == {m \in Message : Claimable(m)}
           s == [pc |-> "claim", messages |-> claimable]
<1>1. Goto(w, s) /\ UNCHANGED <<execution, dispatch, queueVars, opsVars, failures>>
  BY DEF PullDispatches
<1>2. claimable \in SUBSET Message
  OBVIOUS
<1> HIDE DEF claimable
<1>3. s \in HandlerState /\ s.pc = "claim"
  BY <1>2, States
<1> HIDE DEF s
<1>4. w \in Worker
  BY DEF Worker
<1>5. /\ TypeOK' /\ Grows /\ handler'[w] = s
      /\ \A v \in Worker : v # w => handler'[v] = handler[v]
      /\ \A m \in Message : message'[m] = message[m]
  BY <1>1, <1>3, <1>4, Started
<1> QED
  BY <1>3, <1>5 DEF Advances, Quiet, Grounded, Held, Routed, Completing, Reporting

LEMMA SubmitResultStep ==
    ASSUME TypeOK, NEW w \in Agent, NEW d \in Dispatch, NEW b \in BOOLEAN,
           SubmitResult(w, d, b)
    PROVE  Advances(w) /\ Quiet(w)
<1> DEFINE s == [pc |-> "result", dispatch |-> d, success |-> b]
<1>1. /\ Goto(w, s) /\ UNCHANGED <<execution, dispatch, queueVars, opsVars, failures>>
      /\ Exists(d)
  BY DEF SubmitResult
<1>2. s \in HandlerState /\ s.pc = "result" /\ s.dispatch = d
  BY States
<1> HIDE DEF s
<1>3. w \in Worker
  BY DEF Worker
<1>4. /\ TypeOK' /\ Grows /\ handler'[w] = s
      /\ \A v \in Worker : v # w => handler'[v] = handler[v]
      /\ \A m \in Message : message'[m] = message[m]
      /\ dispatch'[d].status # "absent"
  BY <1>1, <1>2, <1>3, Started
<1> QED
  BY <1>2, <1>4
  DEF Advances, Quiet, Grounded, Exists, Held, Routed, Completing, Reporting

-----------------------------------------------------------------------------
(***************************************************************************)
(* The statements of dispatches and retries.                               *)
(***************************************************************************)
\* A new dispatch is published at once, or completes its execution at once
\* because the simulator carried it out.
LEMMA CreateDispatchStep ==
    ASSUME TypeOK, NEW w \in Worker, Grounded(w), NEW d \in Dispatch, CreateDispatch(w, d)
    PROVE  Advances(w) /\ message' = message
<1>1. /\ handler' \in [Worker -> HandlerState]
      /\ \A v \in Worker : v # w => handler'[v] = handler[v]
      /\ dispatch' \in [Dispatch -> Row]
      /\ dispatch[d].status = "absent" /\ dispatch'[d].status # "absent"
      /\ \A c \in Dispatch : c # d => dispatch'[c] = dispatch[c]
  BY CreateDispatchView
<1>2. /\ UNCHANGED <<execution, message, handed, receipts, deadLetters, incident, failures>>
      /\ handler[w].pc = "insert"
  BY DEF CreateDispatch, queueVars, opsVars
<1>3. TypeOK' /\ Grows
  BY <1>1, <1>2 DEF TypeOK, Grows, Exists
<1>4. w \notin Agent
  BY <1>2 DEF Grounded
<1>5. CASE handler'[w] = [pc |-> "publish", dispatch |-> d, todo |-> {},
                          dead |-> FALSE, route |-> "dispatch"]
  <2>1. Grounded(w)'
    BY <1>1, <1>4, <1>5 DEF Grounded, Exists, Held, Routed, Completing, Reporting
  <2> QED
    BY <1>1, <1>2, <1>3, <2>1 DEF Advances
<1>6. CASE /\ handler'[w] = [pc |-> "complete", exec |-> dispatch'[d].exec,
                             dispatch |-> d, todo |-> {}, success |-> TRUE]
           /\ Simulated(d)'
  <2>1. Grounded(w)'
    BY <1>1, <1>4, <1>6 DEF Grounded, Proven, Exists, Held, Routed, Completing, Reporting
  <2> QED
    BY <1>1, <1>2, <1>3, <2>1 DEF Advances
<1>7. CASE handler'[w] = Idle
  <2>1. Grounded(w)'
    BY <1>7 DEF Grounded, Idle, Held, Routed, Completing, Reporting
  <2> QED
    BY <1>1, <1>2, <1>3, <2>1 DEF Advances
<1> QED
  BY <1>5, <1>6, <1>7, CreateDispatchView

\* Rescheduling, by an operator or by the sweep.
LEMMA RescheduleStep ==
    ASSUME TypeOK, NEW w \in Worker, w \notin Agent, NEW d \in Dispatch, Exists(d),
           NEW c \in Clock, NEW todo \in SUBSET Dispatch, \A x \in todo : Exists(x),
           NEW route \in {"dispatch", "retry", "sweep"}, Reschedule(w, d, c, todo, route)
    PROVE  Advances(w) /\ Quiet(w)
<1> DEFINE s == [pc |-> "withdraw", dispatch |-> d, todo |-> todo,
                 dead |-> FALSE, route |-> route]
<1>1. /\ Goto(w, s)
      /\ UNCHANGED <<execution, message, handed, receipts, deadLetters, incident, failures>>
      /\ dispatch' = [dispatch EXCEPT ![d].status = "retry_scheduled",
                                      ![d].completed = FALSE, ![d].clock = c]
  BY DEF Reschedule, queueVars, opsVars
<1>2. /\ s \in HandlerState /\ s.pc = "withdraw" /\ s.dispatch = d /\ s.todo = todo
      /\ ~s.dead
  BY States DEF Routed
<1> HIDE DEF s
<1>3. /\ handler' \in [Worker -> HandlerState] /\ handler'[w] = s
      /\ \A v \in Worker : v # w => handler'[v] = handler[v]
  BY <1>1, <1>2, GotoView
<1>4. /\ dispatch' \in [Dispatch -> Row]
      /\ \A x \in Dispatch : dispatch'[x].exec = dispatch[x].exec
      /\ \A x \in Dispatch : dispatch'[x].exhausted = dispatch[x].exhausted
      /\ \A x \in Dispatch : Exists(x) => dispatch'[x].status # "absent"
  <2>1. "sent" \in DispatchStatus \ {"absent"}
    BY DEF DispatchStatus
  <2> QED
    BY <1>1, <2>1, RowsKept
<1>5. TypeOK' /\ Grows
  BY <1>1, <1>3, <1>4 DEF TypeOK, Grows
<1>6. Grounded(w)'
  BY <1>2, <1>3, <1>4 DEF Grounded, Exists, Held, Routed, Completing, Reporting
<1> QED
  BY <1>1, <1>2, <1>3, <1>5, <1>6 DEF Advances, Quiet

LEMMA ScheduleRetryStep ==
    ASSUME TypeOK, NEW w \in Worker, Grounded(w), ScheduleRetry(w)
    PROVE  Advances(w) /\ Quiet(w)
<1>1. handler[w] \in HandlerState /\ handler[w].pc = "schedule"
  BY DEF TypeOK, ScheduleRetry
<1>2. handler[w].dispatch \in Dispatch /\ Exists(handler[w].dispatch) /\ w \notin Agent
  BY <1>1, Fields DEF Grounded, Held
<1>3. "due" \in Clock /\ "retry" \in {"dispatch", "retry", "sweep"}
  BY DEF Clock
<1>4. Reschedule(w, handler[w].dispatch, "due", {}, "retry")
  BY DEF ScheduleRetry
<1> QED
  BY <1>2, <1>3, <1>4, RescheduleStep

LEMMA SweepRetryStep ==
    ASSUME TypeOK, NEW w \in Worker, Grounded(w), NEW d \in Dispatch, SweepRetry(w, d)
    PROVE  Advances(w) /\ Quiet(w)
<1>1. handler[w] \in HandlerState /\ handler[w].pc = "sweep" /\ d \in handler[w].todo
  BY DEF TypeOK, SweepRetry
<1>2. /\ handler[w].todo \in SUBSET Dispatch /\ \A x \in handler[w].todo : Exists(x)
      /\ w \notin Agent
  BY <1>1, Fields DEF Grounded
<1>3. "ahead" \in Clock /\ "sweep" \in {"dispatch", "retry", "sweep"}
  BY DEF Clock
<1>4. Reschedule(w, d, "ahead", handler[w].todo \ {d}, "sweep")
  BY DEF SweepRetry
<1>5. /\ handler[w].todo \ {d} \in SUBSET Dispatch
      /\ \A x \in handler[w].todo \ {d} : Exists(x)
      /\ Exists(d)
  BY <1>1, <1>2
<1> QED
  BY <1>2, <1>3, <1>4, <1>5, RescheduleStep

LEMMA MarkDeadLetterStep ==
    ASSUME TypeOK, NEW w \in Worker, Grounded(w), NEW d \in Dispatch, MarkDeadLetter(w, d)
    PROVE  Advances(w) /\ Quiet(w)
<1> DEFINE todo == handler[w].todo \ {d}
           s == [pc |-> "bury", dispatch |-> d, todo |-> todo,
                 dead |-> TRUE, route |-> "sweep"]
<1>1. /\ Goto(w, s)
      /\ UNCHANGED <<execution, message, handed, receipts, deadLetters, incident, failures>>
      /\ dispatch' = [dispatch EXCEPT ![d].status = "dead_lettered", ![d].completed = TRUE]
      /\ handler[w].pc = "sweep" /\ d \in handler[w].todo
  BY DEF MarkDeadLetter, queueVars, opsVars
<1>2. handler[w] \in HandlerState
  BY DEF TypeOK
<1>3. /\ todo \in SUBSET Dispatch /\ \A x \in todo : Exists(x)
      /\ Exists(d) /\ w \notin Agent
  BY <1>1, <1>2, Fields DEF Grounded
<1> HIDE DEF todo
<1>4. /\ s \in HandlerState /\ s.pc = "bury" /\ s.dispatch = d /\ s.todo = todo
  BY <1>3, States DEF Routed
<1> HIDE DEF s
<1>5. /\ handler' \in [Worker -> HandlerState] /\ handler'[w] = s
      /\ \A v \in Worker : v # w => handler'[v] = handler[v]
  BY <1>1, <1>4, GotoView
<1>6. /\ dispatch' \in [Dispatch -> Row]
      /\ \A x \in Dispatch : dispatch'[x].exec = dispatch[x].exec
      /\ \A x \in Dispatch : dispatch'[x].exhausted = dispatch[x].exhausted
      /\ \A x \in Dispatch : Exists(x) => dispatch'[x].status # "absent"
  <2>1. "dead_lettered" \in DispatchStatus \ {"absent"} /\ "due" \in Clock
    BY DEF DispatchStatus, Clock
  <2> QED
    BY <1>1, <2>1, RowsKept
<1>7. TypeOK' /\ Grows
  BY <1>1, <1>5, <1>6 DEF TypeOK, Grows
<1>8. Grounded(w)'
  BY <1>3, <1>4, <1>5, <1>6 DEF Grounded, Exists, Held, Routed, Completing, Reporting
<1> QED
  BY <1>1, <1>4, <1>5, <1>7, <1>8 DEF Advances, Quiet

LEMMA CreateDeadLetterStep ==
    ASSUME TypeOK, NEW w \in Worker, Grounded(w), CreateDeadLetter(w)
    PROVE  Advances(w) /\ Quiet(w)
<1> DEFINE h == handler[w]
           s == [h EXCEPT !.pc = "withdraw"]
<1>1. /\ Goto(w, s) /\ h.pc = "bury"
      /\ deadLetters' = deadLetters \cup {h.dispatch}
      /\ UNCHANGED <<execution, dispatch, message, handed, receipts, incident, failures>>
  BY DEF CreateDeadLetter, queueVars
<1>2. h \in HandlerState /\ h.pc \in Routed /\ "withdraw" \in Routed
  BY <1>1 DEF TypeOK, Routed
<1>3. /\ s \in HandlerState /\ s.pc = "withdraw"
      /\ s.dispatch = h.dispatch /\ s.todo = h.todo
  BY <1>2, GoesOn
<1>4. /\ h.dispatch \in Dispatch /\ Exists(h.dispatch) /\ w \notin Agent
      /\ \A x \in h.todo : Exists(x)
  BY <1>2, Fields DEF Grounded, Held
<1> HIDE DEF s
<1>5. /\ handler' \in [Worker -> HandlerState] /\ handler'[w] = s
      /\ \A v \in Worker : v # w => handler'[v] = handler[v]
  BY <1>1, <1>3, GotoView
<1>6. TypeOK' /\ Grows
  BY <1>1, <1>4, <1>5 DEF TypeOK, Grows, Exists
<1>7. Grounded(w)'
  BY <1>1, <1>3, <1>4, <1>5 DEF Grounded, Exists, Held, Routed, Completing, Reporting
<1> QED
  BY <1>1, <1>3, <1>5, <1>6, <1>7 DEF Advances, Quiet

\* The messages a retry withdraws stay messages, and none of them waits.
LEMMA WithdrawnView ==
    ASSUME TypeOK, NEW d \in Dispatch
    PROVE  /\ Withdrawn(d) \in [Message -> MessageRow]
           /\ \A m \in Message : Withdrawn(d)[m].status = "pending" =>
                 Withdrawn(d)[m] = message[m] /\ message[m].dispatch # d
<1>1. \A m \in Message : message[m] \in MessageRow
  BY DEF TypeOK
<1>2. \A r \in MessageRow : /\ [r EXCEPT !.status = "dead_lettered"] \in MessageRow
                            /\ [r EXCEPT !.status = "dead_lettered"].status # "pending"
  BY DEF MessageRow
<1>3. \A m \in Message : Withdrawn(d)[m] =
         IF message[m].dispatch = d /\ Live(m)
           THEN [message[m] EXCEPT !.status = "dead_lettered"] ELSE message[m]
  BY DEF Withdrawn
<1>4. Withdrawn(d) \in [Message -> MessageRow]
  BY <1>1, <1>2 DEF Withdrawn
<1>5. ASSUME NEW m \in Message, Withdrawn(d)[m].status = "pending"
      PROVE  Withdrawn(d)[m] = message[m] /\ message[m].dispatch # d
  <2>1. ~(message[m].dispatch = d /\ Live(m))
    BY <1>1, <1>2, <1>3, <1>5
  <2>2. Withdrawn(d)[m] = message[m]
    BY <1>3, <2>1
  <2> QED
    BY <1>5, <2>1, <2>2 DEF Live
<1> QED
  BY <1>4, <1>5

LEMMA WithdrawMessagesStep ==
    ASSUME TypeOK, NEW w \in Worker, Grounded(w), WithdrawMessages(w)
    PROVE  /\ Advances(w)
           /\ \A m \in Message : message'[m].status = "pending" =>
                 message'[m] = message[m] /\ message[m].dispatch # handler[w].dispatch
           /\ handler'[w].dispatch = handler[w].dispatch
<1> DEFINE h == handler[w]
<1>1. /\ Goto(w, AfterWithdraw(h)) /\ h.pc = "withdraw" /\ message' = Withdrawn(h.dispatch)
      /\ UNCHANGED <<execution, dispatch, handed, receipts, deadLetters, incident, failures>>
  BY DEF WithdrawMessages, opsVars
<1>2. h \in HandlerState /\ h.pc \in Routed
  BY <1>1 DEF TypeOK, Routed
<1>3. /\ h.dispatch \in Dispatch /\ Exists(h.dispatch) /\ w \notin Agent
      /\ \A x \in h.todo : Exists(x)
      /\ h.dead => h.dispatch \in deadLetters
  BY <1>1, <1>2, Fields DEF Grounded, Held
<1>4. /\ handler' \in [Worker -> HandlerState]
      /\ \A v \in Worker : v # w => handler'[v] = handler[v]
      /\ handler'[w].pc \in {"incident", "publish"}
      /\ handler'[w].dispatch = h.dispatch /\ handler'[w].todo = h.todo
      /\ handler'[w].dead = h.dead
  BY <1>1, AfterWithdrawView
<1>5. TypeOK' /\ Grows
  BY <1>1, <1>3, <1>4, WithdrawnView DEF TypeOK, Grows, Exists
<1>6. Grounded(w)'
  BY <1>1, <1>3, <1>4 DEF Grounded, Exists, Held, Routed, Completing, Reporting
<1>7. \A m \in Message : message'[m].status = "pending" =>
         message'[m] = message[m] /\ message[m].dispatch # h.dispatch
  BY <1>1, <1>3, WithdrawnView
<1> QED
  BY <1>4, <1>5, <1>6, <1>7 DEF Advances

\* A publication fills one slot, and the request that made it is done publishing.
LEMMA PublishDispatchStep ==
    ASSUME TypeOK, NEW w \in Worker, Grounded(w), NEW m \in Message, PublishDispatch(w, m)
    PROVE  /\ Advances(w)
           /\ message' = [message EXCEPT ![m] = [dispatch |-> handler[w].dispatch,
                                                 status |-> "pending"]]
           /\ handler[w].pc = "publish" /\ handler'[w].pc # "publish"
           /\ handler[w].dispatch \in Dispatch /\ Exists(handler[w].dispatch)
           /\ dispatch' = dispatch
<1> DEFINE h == handler[w]
           row == [dispatch |-> h.dispatch, status |-> "pending"]
<1>1. /\ Goto(w, AfterPublish(h)) /\ h.pc = "publish"
      /\ message' = [message EXCEPT ![m] = row]
      /\ UNCHANGED <<execution, dispatch, handed, receipts, deadLetters, incident, failures>>
  BY DEF PublishDispatch, opsVars
<1>2. h \in HandlerState /\ h.pc \in Routed
  BY <1>1 DEF TypeOK, Routed
<1>3. /\ h.dispatch \in Dispatch /\ Exists(h.dispatch) /\ w \notin Agent
      /\ \A x \in h.todo : Exists(x)
      /\ h.dead => h.dispatch \in deadLetters
  BY <1>1, <1>2, Fields DEF Grounded, Held
<1>4. row \in MessageRow
  BY <1>3 DEF MessageRow
<1>5. /\ handler' \in [Worker -> HandlerState]
      /\ \A v \in Worker : v # w => handler'[v] = handler[v]
      /\ \/ handler'[w] = Idle
         \/ /\ handler'[w].pc = "incident"
            /\ handler'[w].dispatch = h.dispatch /\ handler'[w].todo = h.todo
            /\ handler'[w].dead = h.dead
  BY <1>1, AfterPublishView
<1> HIDE DEF row
<1>6. TypeOK' /\ Grows
  BY <1>1, <1>4, <1>5 DEF TypeOK, Grows, Exists
<1>7. Grounded(w)' /\ handler'[w].pc # "publish"
  BY <1>1, <1>3, <1>5 DEF Grounded, Exists, Idle, Held, Routed, Completing, Reporting
<1> QED
  BY <1>1, <1>3, <1>5, <1>6, <1>7 DEF Advances, row

\* An incident is opened; the sweep gives up on the execution of a dead letter.
LEMMA CreateIncidentStep ==
    ASSUME TypeOK, NEW w \in Worker, Grounded(w), CreateIncident(w)
    PROVE  Advances(w) /\ Quiet(w)
<1> DEFINE h == handler[w]
           e == dispatch[h.dispatch].exec
           s == [pc |-> "complete", exec |-> e, dispatch |-> h.dispatch,
                 todo |-> h.todo, success |-> FALSE]
<1>1. /\ h.pc = "incident" /\ incident' = incident \cup {h.dispatch}
      /\ IF h.dead THEN Goto(w, s) ELSE NextCandidate(w, h.todo)
      /\ UNCHANGED <<execution, dispatch, message, handed, receipts, deadLetters, failures>>
  BY DEF CreateIncident, queueVars
<1>2. h \in HandlerState /\ h.pc \in Routed
  BY <1>1 DEF TypeOK, Routed
<1>3. /\ h.dispatch \in Dispatch /\ Exists(h.dispatch) /\ w \notin Agent
      /\ h.todo \in SUBSET Dispatch /\ \A x \in h.todo : Exists(x)
      /\ h.dead => h.dispatch \in deadLetters
  BY <1>1, <1>2, Fields DEF Grounded, Held
<1>4. e \in Execution
  BY <1>3 DEF TypeOK, Row
<1>5. s \in HandlerState
  BY <1>3, <1>4, States DEF Completing
<1>6. CASE h.dead
  <2> HIDE DEF s
  <2>1. /\ handler' \in [Worker -> HandlerState] /\ handler'[w] = s
        /\ \A v \in Worker : v # w => handler'[v] = handler[v]
    BY <1>1, <1>5, <1>6, GotoView
  <2>2. TypeOK' /\ Grows
    BY <1>1, <1>3, <2>1 DEF TypeOK, Grows, Exists
  <2>3. Grounded(w)' /\ handler'[w].pc # "publish"
    BY <1>1, <1>3, <1>6, <2>1
    DEF s, Grounded, Proven, Exists, Held, Routed, Completing, Reporting
  <2> QED
    BY <1>1, <2>1, <2>2, <2>3 DEF Advances, Quiet
<1>7. CASE ~h.dead
  <2>1. /\ handler' \in [Worker -> HandlerState]
        /\ \A v \in Worker : v # w => handler'[v] = handler[v]
        /\ handler'[w] = Idle \/ handler'[w] = [pc |-> "sweep", todo |-> h.todo]
    BY <1>1, <1>3, <1>7, NextCandidateView
  <2>2. TypeOK' /\ Grows
    BY <1>1, <1>3, <2>1 DEF TypeOK, Grows, Exists
  <2>3. Grounded(w)' /\ handler'[w].pc # "publish"
    BY <1>1, <1>3, <2>1 DEF Grounded, Exists, Idle, Held, Routed, Completing, Reporting
  <2> QED
    BY <1>1, <2>1, <2>2, <2>3 DEF Advances, Quiet
<1> QED
  BY <1>6, <1>7

-----------------------------------------------------------------------------
(***************************************************************************)
(* The completion of executions.                                           *)
(***************************************************************************)
\* What a request that completed an execution, or failed to, does next.
LEMMA CompletionEnds ==
    ASSUME TypeOK, NEW w \in Worker, Grounded(w), handler[w].pc \in Completing,
           AfterCompletion(w), execution' \in [Execution -> ExecutionStatus],
           UNCHANGED <<dispatch, queueVars, opsVars>>, failures' \in 0 .. MaxFailures
    PROVE  Advances(w) /\ Quiet(w)
<1> DEFINE h == handler[w]
<1>1. h \in HandlerState
  BY DEF TypeOK
<1>2. /\ h.dispatch \in Dispatch /\ Exists(h.dispatch)
      /\ h.todo \in SUBSET Dispatch /\ \A x \in h.todo : Exists(x)
  BY <1>1, Fields DEF Grounded, Held
<1>3. UNCHANGED <<dispatch, message, handed, receipts, deadLetters, incident>>
  BY DEF queueVars, opsVars
<1>4. /\ handler' \in [Worker -> HandlerState]
      /\ \A v \in Worker : v # w => handler'[v] = handler[v]
      /\ w \in Agent => handler'[w] = [pc |-> "clear", dispatch |-> h.dispatch]
      /\ w \notin Agent => \/ handler'[w] = Idle
                           \/ handler'[w] = [pc |-> "sweep", todo |-> h.todo]
  BY AfterCompletionView
<1>5. TypeOK' /\ Grows
  BY <1>3, <1>4 DEF TypeOK, Grows, Exists
<1>6. Grounded(w)' /\ handler'[w].pc # "publish"
  <2>1. CASE w \in Agent
    BY <1>2, <1>3, <1>4, <2>1 DEF Grounded, Exists, Held, Routed, Completing, Reporting
  <2>2. CASE w \notin Agent
    BY <1>2, <1>3, <1>4, <2>2 DEF Grounded, Exists, Idle, Held, Routed, Completing, Reporting
  <2> QED
    BY <2>1, <2>2
<1> QED
  BY <1>3, <1>4, <1>5, <1>6 DEF Advances, Quiet

LEMMA CheckReadyStep ==
    ASSUME TypeOK, NEW w \in Worker, Grounded(w), CheckReady(w)
    PROVE  Advances(w) /\ Quiet(w)
<1> DEFINE h == handler[w]
           s == [h EXCEPT !.pc = "finish"]
<1>1. /\ h.pc = "complete" /\ (Goto(w, s) \/ AfterCompletion(w))
      /\ UNCHANGED <<execution, dispatch, queueVars, opsVars, failures>>
  BY DEF CheckReady
<1>2. h \in HandlerState /\ h.pc \in Completing /\ "finish" \in Completing
  BY <1>1 DEF TypeOK, Completing
<1>3. CASE AfterCompletion(w)
  BY <1>1, <1>2, <1>3, CompletionEnds DEF TypeOK
<1>4. CASE Goto(w, s)
  <2>1. /\ s \in HandlerState /\ s.pc = "finish" /\ s.exec = h.exec
        /\ s.dispatch = h.dispatch /\ s.todo = h.todo /\ s.success = h.success
    BY <1>2, GoesOn
  <2>2. /\ Exists(h.dispatch) /\ \A x \in h.todo : Exists(x)
        /\ Proven(h.dispatch, h.exec, h.success)
    BY <1>2 DEF Grounded, Held
  <2> HIDE DEF s
  <2>3. /\ TypeOK' /\ Grows /\ handler'[w] = s
        /\ \A v \in Worker : v # w => handler'[v] = handler[v]
        /\ \A m \in Message : message'[m] = message[m]
    BY <1>1, <1>4, <2>1, Started
  <2>4. UNCHANGED <<dispatch, receipts, deadLetters>>
    BY <1>1 DEF opsVars
  <2>5. Proven(handler[w].dispatch, handler[w].exec, handler[w].success)'
    BY <2>1, <2>2, <2>3, <2>4 DEF Proven, Simulated
  <2>6. Grounded(w)'
    BY <2>1, <2>2, <2>3, <2>4, <2>5
    DEF Grounded, Exists, Held, Routed, Completing, Reporting
  <2> QED
    BY <2>1, <2>3, <2>6 DEF Advances, Quiet
<1> QED
  BY <1>1, <1>3, <1>4

LEMMA FinishExecutionStep ==
    ASSUME TypeOK, NEW w \in Worker, Grounded(w), FinishExecution(w)
    PROVE  Advances(w) /\ Quiet(w)
<1> DEFINE status == IF handler[w].success THEN "executed" ELSE "failed"
<1>1. /\ handler[w].pc = "finish" /\ AfterCompletion(w)
      /\ execution' = [execution EXCEPT ![handler[w].exec] = status]
      /\ UNCHANGED <<dispatch, queueVars, opsVars, failures>>
  BY DEF FinishExecution
<1>2. status \in ExecutionStatus /\ handler[w].pc \in Completing
  BY <1>1 DEF ExecutionStatus, Completing
<1> HIDE DEF status
<1>3. execution' \in [Execution -> ExecutionStatus]
  BY <1>1, <1>2 DEF TypeOK
<1>4. failures' \in 0 .. MaxFailures
  BY <1>1 DEF TypeOK
<1> QED
  BY <1>1, <1>2, <1>3, <1>4, CompletionEnds

-----------------------------------------------------------------------------
(***************************************************************************)
(* The agents' pulls and results.                                          *)
(***************************************************************************)
LEMMA ClaimMessagesStep ==
    ASSUME TypeOK, NEW w \in Agent, Grounded(w), ClaimMessages(w)
    PROVE  Advances(w) /\ Quiet(w)
<1> DEFINE mine == handler[w].messages
           dispatches == {message[m].dispatch : m \in mine}
           s == [pc |-> "respond", dispatches |-> dispatches]
<1>1. /\ Goto(w, s) /\ handler[w].pc = "claim"
      /\ message' = [m \in Message |->
            IF m \in mine THEN [message[m] EXCEPT !.status = "claimed"] ELSE message[m]]
      /\ UNCHANGED <<execution, dispatch, handed, receipts, deadLetters, incident, failures>>
  BY DEF ClaimMessages, opsVars
<1>2. w \in Worker /\ handler[w] \in HandlerState
  BY DEF TypeOK, Worker
<1>3. mine \in SUBSET Message
  BY <1>1, <1>2, Fields
<1> HIDE DEF mine
<1>4. \A m \in Message : message[m] \in MessageRow
  BY DEF TypeOK
<1>5. \A r \in MessageRow : /\ r.dispatch \in Dispatch
                            /\ [r EXCEPT !.status = "claimed"] \in MessageRow
                            /\ [r EXCEPT !.status = "claimed"].status # "pending"
  BY DEF MessageRow
<1>6. dispatches \in SUBSET Dispatch
  BY <1>3, <1>4, <1>5
<1> HIDE DEF dispatches
<1>7. s \in HandlerState /\ s.pc = "respond"
  BY <1>6, States
<1> HIDE DEF s
<1>8. /\ handler' \in [Worker -> HandlerState] /\ handler'[w] = s
      /\ \A v \in Worker : v # w => handler'[v] = handler[v]
  BY <1>1, <1>2, <1>7, GotoView
<1>9. message' \in [Message -> MessageRow]
  BY <1>1, <1>4, <1>5
<1>10. \A m \in Message : message'[m].status = "pending" => message'[m] = message[m]
  BY <1>1, <1>4, <1>5
<1>11. TypeOK' /\ Grows
  BY <1>1, <1>8, <1>9 DEF TypeOK, Grows, Exists
<1>12. Grounded(w)'
  BY <1>7, <1>8 DEF Grounded, Held, Routed, Completing, Reporting
<1> QED
  BY <1>7, <1>8, <1>10, <1>11, <1>12 DEF Advances, Quiet

\* A request that is answered is no longer in flight.
LEMMA Answered ==
    ASSUME TypeOK, NEW w \in Worker, Done(w), UNCHANGED <<dispatch, message, receipts, deadLetters>>,
           execution' \in [Execution -> ExecutionStatus], handed' \subseteq Dispatch,
           incident' \subseteq Dispatch, failures' \in 0 .. MaxFailures
    PROVE  Advances(w) /\ Quiet(w)
<1>1. /\ handler' \in [Worker -> HandlerState] /\ handler'[w] = Idle
      /\ \A v \in Worker : v # w => handler'[v] = handler[v]
  BY GotoView, States DEF Done
<1>2. TypeOK' /\ Grows
  BY <1>1 DEF TypeOK, Grows, Exists
<1>3. Grounded(w)' /\ handler'[w].pc # "publish"
  BY <1>1 DEF Grounded, Idle, Held, Routed, Completing, Reporting
<1> QED
  BY <1>1, <1>2, <1>3 DEF Advances, Quiet

LEMMA RespondStep ==
    ASSUME TypeOK, NEW w \in Agent, Respond(w)
    PROVE  Advances(w) /\ Quiet(w)
<1>1. /\ handler[w].pc = "respond" /\ Done(w)
      /\ handed' = handed \cup handler[w].dispatches
      /\ UNCHANGED <<execution, dispatch, message, receipts, deadLetters, incident, failures>>
  BY DEF Respond, opsVars
<1>2. w \in Worker /\ handler[w] \in HandlerState
  BY DEF TypeOK, Worker
<1>3. handed' \subseteq Dispatch
  BY <1>1, <1>2, Fields DEF TypeOK
<1> QED
  BY <1>1, <1>2, <1>3, Answered DEF TypeOK

LEMMA UpdateDispatchResultStep ==
    ASSUME TypeOK, NEW w \in Agent, Grounded(w), UpdateDispatchResult(w)
    PROVE  Advances(w) /\ Quiet(w)
<1> DEFINE h == handler[w]
           s == [h EXCEPT !.pc = "receipt"]
<1>1. /\ Goto(w, s) /\ h.pc = "result"
      /\ dispatch' = [dispatch EXCEPT ![h.dispatch].status = Outcome(h.success),
                                      ![h.dispatch].completed = TRUE]
      /\ UNCHANGED <<execution, message, handed, receipts, deadLetters, incident, failures>>
  BY DEF UpdateDispatchResult, queueVars, opsVars
<1>2. /\ w \in Worker /\ h \in HandlerState /\ h.pc \in Reporting
      /\ "receipt" \in Reporting
  BY <1>1 DEF TypeOK, Worker, Reporting
<1>3. /\ s \in HandlerState /\ s.pc = "receipt" /\ s.dispatch = h.dispatch
  BY <1>2, GoesOn
<1>4. h.dispatch \in Dispatch /\ Exists(h.dispatch)
  BY <1>2, Fields DEF Grounded, Held
<1> HIDE DEF s
<1>5. /\ handler' \in [Worker -> HandlerState] /\ handler'[w] = s
      /\ \A v \in Worker : v # w => handler'[v] = handler[v]
  BY <1>1, <1>2, <1>3, GotoView
<1>6. /\ dispatch' \in [Dispatch -> Row]
      /\ \A x \in Dispatch : dispatch'[x].exec = dispatch[x].exec
      /\ \A x \in Dispatch : dispatch'[x].exhausted = dispatch[x].exhausted
      /\ \A x \in Dispatch : Exists(x) => dispatch'[x].status # "absent"
  <2>1. Outcome(h.success) \in DispatchStatus \ {"absent"} /\ "due" \in Clock
    BY DEF Outcome, DispatchStatus, Clock
  <2> QED
    BY <1>1, <1>4, <2>1, RowsKept
<1>7. TypeOK' /\ Grows
  BY <1>1, <1>5, <1>6 DEF TypeOK, Grows
<1>8. Grounded(w)'
  BY <1>3, <1>4, <1>5, <1>6 DEF Grounded, Exists, Held, Routed, Completing, Reporting
<1> QED
  BY <1>1, <1>3, <1>5, <1>7, <1>8 DEF Advances, Quiet

LEMMA CreateReceiptStep ==
    ASSUME TypeOK, NEW w \in Agent, Grounded(w), CreateReceipt(w)
    PROVE  Advances(w) /\ Quiet(w)
<1> DEFINE h == handler[w]
           s == [h EXCEPT !.pc = "ack"]
<1>1. /\ Goto(w, s) /\ h.pc = "receipt"
      /\ receipts' = [receipts EXCEPT ![h.dispatch] = @ \cup {Outcome(h.success)}]
      /\ UNCHANGED <<execution, dispatch, message, handed, deadLetters, incident, failures>>
  BY DEF CreateReceipt, queueVars
<1>2. /\ w \in Worker /\ h \in HandlerState /\ h.pc \in Reporting
      /\ "ack" \in Reporting
  BY <1>1 DEF TypeOK, Worker, Reporting
<1>3. /\ s \in HandlerState /\ s.pc = "ack" /\ s.dispatch = h.dispatch
      /\ s.success = h.success
  BY <1>2, GoesOn
<1>4. h.dispatch \in Dispatch /\ Exists(h.dispatch)
  BY <1>2, Fields DEF Grounded, Held
<1> HIDE DEF s
<1>5. /\ handler' \in [Worker -> HandlerState] /\ handler'[w] = s
      /\ \A v \in Worker : v # w => handler'[v] = handler[v]
  BY <1>1, <1>2, <1>3, GotoView
<1>6. Outcome(h.success) \in {"succeeded", "failed"}
  BY DEF Outcome
<1>7. /\ receipts' \in [Dispatch -> SUBSET {"succeeded", "failed"}]
      /\ \A d \in Dispatch : receipts[d] \subseteq receipts'[d]
      /\ Outcome(h.success) \in receipts'[h.dispatch]
  BY <1>1, <1>4, <1>6 DEF TypeOK
<1>8. TypeOK' /\ Grows
  BY <1>1, <1>5, <1>7 DEF TypeOK, Grows, Exists
<1>9. Grounded(w)'
  BY <1>1, <1>3, <1>4, <1>5, <1>7
  DEF Grounded, Exists, Outcome, Held, Routed, Completing, Reporting
<1> QED
  BY <1>1, <1>3, <1>5, <1>8, <1>9 DEF Advances, Quiet

LEMMA AckDispatchStep ==
    ASSUME TypeOK, NEW w \in Agent, Grounded(w), AckDispatch(w)
    PROVE  Advances(w) /\ Quiet(w)
<1> DEFINE h == handler[w]
           e == dispatch[h.dispatch].exec
           s == IF h.success THEN [pc |-> "complete", exec |-> e, dispatch |-> h.dispatch,
                                   todo |-> {}, success |-> TRUE]
                             ELSE Idle
<1>1. /\ Goto(w, s) /\ h.pc = "ack"
      /\ message' = [m \in Message |->
            IF message[m].dispatch = h.dispatch /\ Live(m)
              THEN [message[m] EXCEPT !.status = "acked"] ELSE message[m]]
      /\ UNCHANGED <<execution, dispatch, handed, receipts, deadLetters, incident, failures>>
  BY DEF AckDispatch, Done, opsVars
<1>2. w \in Worker /\ h \in HandlerState /\ h.pc \in Reporting
  BY <1>1 DEF TypeOK, Worker, Reporting
<1>3. /\ h.dispatch \in Dispatch /\ Exists(h.dispatch)
      /\ h.success => "succeeded" \in receipts[h.dispatch]
  BY <1>1, <1>2, Fields DEF Grounded, Held
<1>4. e \in Execution
  BY <1>3 DEF TypeOK, Row
<1>5. s \in HandlerState
  BY <1>3, <1>4, States DEF Completing
<1>6. Goto(w, s)
  BY <1>1
<1> HIDE DEF s
<1>7. /\ handler' \in [Worker -> HandlerState] /\ handler'[w] = s
      /\ \A v \in Worker : v # w => handler'[v] = handler[v]
  BY <1>2, <1>5, <1>6, GotoView
<1>8. \A m \in Message : message[m] \in MessageRow
  BY DEF TypeOK
<1>9. \A r \in MessageRow : /\ [r EXCEPT !.status = "acked"] \in MessageRow
                            /\ [r EXCEPT !.status = "acked"].status # "pending"
  BY DEF MessageRow
<1>10. message' \in [Message -> MessageRow]
  BY <1>1, <1>8, <1>9
<1>11. \A m \in Message : message'[m].status = "pending" => message'[m] = message[m]
  BY <1>1, <1>8, <1>9
<1>12. TypeOK' /\ Grows
  BY <1>1, <1>7, <1>10 DEF TypeOK, Grows, Exists
<1>13. Grounded(w)' /\ handler'[w].pc # "publish"
  <2>1. CASE h.success
    <3>1. s = [pc |-> "complete", exec |-> e, dispatch |-> h.dispatch,
               todo |-> {}, success |-> TRUE]
      BY <2>1 DEF s
    <3> QED
      BY <1>1, <1>3, <1>7, <2>1, <3>1
      DEF Grounded, Proven, Exists, Held, Routed, Completing, Reporting
  <2>2. CASE ~h.success
    <3>1. s = Idle
      BY <2>2 DEF s
    <3> QED
      BY <1>7, <3>1 DEF Grounded, Idle, Held, Routed, Completing, Reporting
  <2> QED
    BY <2>1, <2>2
<1> QED
  BY <1>7, <1>11, <1>12, <1>13 DEF Advances, Quiet

LEMMA ResolveIncidentsStep ==
    ASSUME TypeOK, NEW w \in Agent, ResolveIncidents(w)
    PROVE  Advances(w) /\ Quiet(w)
<1>1. /\ incident' \subseteq incident /\ Done(w) /\ w \in Worker
      /\ UNCHANGED <<execution, dispatch, message, handed, receipts, deadLetters, failures>>
  BY DEF ResolveIncidents, queueVars, Worker
<1> QED
  BY <1>1, Answered DEF TypeOK

-----------------------------------------------------------------------------
(***************************************************************************)
(* Calls that throw, restarts, and what happens besides.                   *)
(***************************************************************************)
\* A call that throws leads where the request goes on without its effect, or ends it.
LEMMA FailStep ==
    ASSUME TypeOK, NEW w \in Worker, Grounded(w), Fail(w)
    PROVE  Advances(w) /\ message' = message /\ failures' = failures + 1
<1> DEFINE h == handler[w]
<1>1. /\ failures < MaxFailures /\ failures' = failures + 1
      /\ \/ h.pc = "withdraw" /\ Goto(w, AfterWithdraw(h))
         \/ h.pc = "publish" /\ Goto(w, AfterPublish(h))
         \/ h.pc \in Completing /\ AfterCompletion(w)
         \/ Done(w)
      /\ UNCHANGED <<execution, dispatch, message, handed, receipts, deadLetters, incident>>
      /\ UNCHANGED <<dispatch, queueVars, opsVars>>
  BY DEF Fail, queueVars, opsVars, Completing
<1>2. h \in HandlerState
  BY DEF TypeOK
<1>3. failures' \in 0 .. MaxFailures
  BY <1>1, BoundAssumption DEF TypeOK
<1>4. CASE h.pc = "withdraw" /\ Goto(w, AfterWithdraw(h))
  <2>1. h.pc \in Routed
    BY <1>4 DEF Routed
  <2>2. /\ h.dispatch \in Dispatch /\ Exists(h.dispatch) /\ w \notin Agent
        /\ \A x \in h.todo : Exists(x)
        /\ h.dead => h.dispatch \in deadLetters
    BY <1>2, <1>4, <2>1, Fields DEF Grounded, Held
  <2>3. /\ handler' \in [Worker -> HandlerState]
        /\ \A v \in Worker : v # w => handler'[v] = handler[v]
        /\ handler'[w].pc \in {"incident", "publish"}
        /\ handler'[w].dispatch = h.dispatch /\ handler'[w].todo = h.todo
        /\ handler'[w].dead = h.dead
    BY <1>4, AfterWithdrawView
  <2>4. TypeOK' /\ Grows
    BY <1>1, <1>3, <2>3 DEF TypeOK, Grows, Exists
  <2>5. Grounded(w)'
    BY <1>1, <2>2, <2>3 DEF Grounded, Exists, Held, Routed, Completing, Reporting
  <2> QED
    BY <1>1, <2>3, <2>4, <2>5 DEF Advances
<1>5. CASE h.pc = "publish" /\ Goto(w, AfterPublish(h))
  <2>1. h.pc \in Routed
    BY <1>5 DEF Routed
  <2>2. /\ h.dispatch \in Dispatch /\ Exists(h.dispatch) /\ w \notin Agent
        /\ \A x \in h.todo : Exists(x)
        /\ h.dead => h.dispatch \in deadLetters
    BY <1>2, <1>5, <2>1, Fields DEF Grounded, Held
  <2>3. /\ handler' \in [Worker -> HandlerState]
        /\ \A v \in Worker : v # w => handler'[v] = handler[v]
        /\ \/ handler'[w] = Idle
           \/ /\ handler'[w].pc = "incident"
              /\ handler'[w].dispatch = h.dispatch /\ handler'[w].todo = h.todo
              /\ handler'[w].dead = h.dead
    BY <1>5, AfterPublishView
  <2>4. TypeOK' /\ Grows
    BY <1>1, <1>3, <2>3 DEF TypeOK, Grows, Exists
  <2>5. Grounded(w)'
    BY <1>1, <2>2, <2>3 DEF Grounded, Exists, Idle, Held, Routed, Completing, Reporting
  <2> QED
    BY <1>1, <2>3, <2>4, <2>5 DEF Advances
<1>6. CASE h.pc \in Completing /\ AfterCompletion(w)
  BY <1>1, <1>3, <1>6, CompletionEnds DEF TypeOK
<1>7. CASE Done(w)
  BY <1>1, <1>3, <1>7, Answered DEF TypeOK
<1> QED
  BY <1>1, <1>4, <1>5, <1>6, <1>7

\* A restart keeps the rows and forgets the requests.
LEMMA RestartStep ==
    ASSUME TypeOK, Restart
    PROVE  /\ TypeOK' /\ (\A w \in Worker : Grounded(w)') /\ failures' = failures + 1
           /\ UNCHANGED <<execution, dispatch, message>>
<1>1. /\ failures < MaxFailures /\ failures' = failures + 1
      /\ handler' = [w \in Worker |-> Idle]
      /\ UNCHANGED <<execution, dispatch, message, handed, receipts, deadLetters, incident>>
  BY DEF Restart, queueVars, opsVars
<1>2. failures' \in 0 .. MaxFailures
  BY <1>1, BoundAssumption DEF TypeOK
<1>3. handler' \in [Worker -> HandlerState]
  BY <1>1, States
<1>4. TypeOK'
  BY <1>1, <1>2, <1>3 DEF TypeOK
<1>5. ASSUME NEW w \in Worker PROVE Grounded(w)'
  BY <1>1 DEF Grounded, Idle, Held, Routed, Completing, Reporting
<1> QED
  BY <1>1, <1>4, <1>5

\* The controls component and time touch the requests in flight nowhere.
LEMMA BesideStep ==
    ASSUME TypeOK,
           \/ \E e \in Execution, status \in ExecutionStatus : ControlsStep(e, status)
           \/ \E d \in Dispatch : Tick(d)
    PROVE  TypeOK' /\ Grows /\ handler' = handler /\ message' = message
<1>1. ASSUME NEW e \in Execution, NEW status \in ExecutionStatus, ControlsStep(e, status)
      PROVE  TypeOK' /\ Grows /\ handler' = handler /\ message' = message
  BY <1>1 DEF ControlsStep, TypeOK, Grows, Exists, queueVars, opsVars
<1>2. ASSUME NEW d \in Dispatch, Tick(d)
      PROVE  TypeOK' /\ Grows /\ handler' = handler /\ message' = message
  <2>1. PICK c \in Clock : dispatch' = [dispatch EXCEPT ![d].clock = c]
    <3>1. dispatch' = [dispatch EXCEPT ![d].clock =
                          IF dispatch[d].clock = "ahead" THEN "due" ELSE "overdue"]
      BY <1>2 DEF Tick
    <3>2. (IF dispatch[d].clock = "ahead" THEN "due" ELSE "overdue") \in Clock
      BY DEF Clock
    <3> QED
      BY <3>1, <3>2
  <2>2. "sent" \in DispatchStatus \ {"absent"}
    BY DEF DispatchStatus
  <2>3. /\ dispatch' \in [Dispatch -> Row]
        /\ \A x \in Dispatch : dispatch'[x].exec = dispatch[x].exec
        /\ \A x \in Dispatch : dispatch'[x].exhausted = dispatch[x].exhausted
        /\ \A x \in Dispatch : Exists(x) => dispatch'[x].status # "absent"
    BY <2>1, <2>2, RowsKept
  <2>4. UNCHANGED <<execution, message, handed, receipts, deadLetters, incident, handler, failures>>
    BY <1>2 DEF Tick, queueVars, opsVars
  <2> QED
    BY <2>3, <2>4 DEF TypeOK, Grows
<1> QED
  BY <1>1, <1>2

-----------------------------------------------------------------------------
(***************************************************************************)
(* The invariant is kept.                                                  *)
(***************************************************************************)
\* The statements after which messages wait that did not before, or a
\* publication comes next.
Louder(w) ==
    \/ \E d \in Dispatch : CreateDispatch(w, d)
    \/ WithdrawMessages(w)
    \/ \E m \in Message : PublishDispatch(w, m)

LEMMA RequestStep ==
    ASSUME TypeOK, NEW w \in Worker,
           (w \in Operator /\ Request(w)) \/ (w \in Agent /\ Poll(w))
    PROVE  Advances(w) /\ Quiet(w)
  BY PlanOrSimulateStep, DispatchExecutionStep, RetryDispatchStep, RunRetrySweepStep,
     PullDispatchesStep, SubmitResultStep
  DEF Request, Poll

LEMMA ContinueStep ==
    ASSUME TypeOK, NEW w \in Worker, Grounded(w), Continue(w)
    PROVE  Advances(w) /\ (Quiet(w) \/ Louder(w))
<1>1. ASSUME NEW d \in Dispatch, CreateDispatch(w, d) \/ SweepRetry(w, d) \/ MarkDeadLetter(w, d)
      PROVE  Advances(w) /\ (Quiet(w) \/ Louder(w))
  BY <1>1, CreateDispatchStep, SweepRetryStep, MarkDeadLetterStep DEF Louder
<1>2. ASSUME ScheduleRetry(w) \/ CreateDeadLetter(w) \/ WithdrawMessages(w)
      PROVE  Advances(w) /\ (Quiet(w) \/ Louder(w))
  BY <1>2, ScheduleRetryStep, CreateDeadLetterStep, WithdrawMessagesStep DEF Louder
<1>3. ASSUME NEW m \in Message, PublishDispatch(w, m)
      PROVE  Advances(w) /\ (Quiet(w) \/ Louder(w))
  BY <1>3, PublishDispatchStep DEF Louder
<1>4. ASSUME CreateIncident(w) \/ CheckReady(w) \/ FinishExecution(w)
      PROVE  Advances(w) /\ (Quiet(w) \/ Louder(w))
  BY <1>4, CreateIncidentStep, CheckReadyStep, FinishExecutionStep
<1>5. ASSUME w \in Agent, ClaimMessages(w) \/ Respond(w) \/ UpdateDispatchResult(w)
                            \/ CreateReceipt(w) \/ AckDispatch(w) \/ ResolveIncidents(w)
      PROVE  Advances(w) /\ (Quiet(w) \/ Louder(w))
  BY <1>5, ClaimMessagesStep, RespondStep, UpdateDispatchResultStep, CreateReceiptStep,
     AckDispatchStep, ResolveIncidentsStep
<1> QED
  BY <1>1, <1>2, <1>3, <1>4, <1>5 DEF Continue

\* A statement of one request leaves what every request goes by.
LEMMA Everyone ==
    ASSUME TypeOK, \A v \in Worker : Grounded(v), NEW w \in Worker, Advances(w)
    PROVE  TypeOK' /\ \A v \in Worker : Grounded(v)'
  BY Kept DEF Advances

LEMMA PendingKept ==
    ASSUME TypeOK, PendingExist, Grows,
           \A m \in Message : message'[m].status = "pending" => message'[m] = message[m]
    PROVE  PendingExist'
<1>1. \A m \in Message : message[m].dispatch \in Dispatch
  BY DEF TypeOK, MessageRow
<1> QED
  BY <1>1 DEF PendingExist, Grows, Exists

LEMMA LouderKept ==
    ASSUME DeliveryInv, NEW w \in Worker, Advances(w), Louder(w)
    PROVE  PendingExist'
<1>1. TypeOK /\ Grounded(w) /\ PendingExist /\ Grows
  BY DEF DeliveryInv, Advances
<1>2. ASSUME NEW d \in Dispatch, CreateDispatch(w, d) PROVE PendingExist'
  BY <1>1, <1>2, CreateDispatchStep, PendingKept
<1>3. ASSUME WithdrawMessages(w) PROVE PendingExist'
  BY <1>1, <1>3, WithdrawMessagesStep, PendingKept
<1>4. ASSUME NEW m \in Message, PublishDispatch(w, m) PROVE PendingExist'
  <2> DEFINE row == [dispatch |-> handler[w].dispatch, status |-> "pending"]
  <2>1. /\ message' = [message EXCEPT ![m] = row]
        /\ Exists(handler[w].dispatch) /\ dispatch' = dispatch
    BY <1>1, <1>4, PublishDispatchStep
  <2>2. row.dispatch = handler[w].dispatch
    OBVIOUS
  <2> HIDE DEF row
  <2>3. \A n \in Message : message'[n] = IF n = m THEN row ELSE message[n]
    BY <1>1, <2>1 DEF TypeOK
  <2> QED
    BY <1>1, <2>1, <2>2, <2>3 DEF PendingExist, Exists
<1> QED
  BY <1>2, <1>3, <1>4 DEF Louder

LEMMA DeliveryInit == Init => DeliveryInv
<1> SUFFICES ASSUME Init PROVE DeliveryInv
  OBVIOUS
<1>1. handler \in [Worker -> HandlerState] /\ \A w \in Worker : handler[w] = Idle
  BY States DEF Init
<1>2. TypeOK
  <2>1. execution \in [Execution -> ExecutionStatus]
    BY DEF Init, ExecutionStatus
  <2>2. dispatch \in [Dispatch -> Row]
    BY DEF Init, Row, DispatchStatus, Clock
  <2>3. message \in [Message -> MessageRow]
    BY DEF Init, MessageRow
  <2>4. receipts \in [Dispatch -> SUBSET {"succeeded", "failed"}]
    BY DEF Init
  <2>5. failures \in 0 .. MaxFailures
    BY BoundAssumption DEF Init
  <2> QED
    BY <1>1, <2>1, <2>2, <2>3, <2>4, <2>5 DEF Init, TypeOK
<1>3. \A w \in Worker : Grounded(w)
  BY <1>1 DEF Grounded, Idle, Held, Routed, Completing, Reporting
<1>4. PendingExist
  BY DEF Init, PendingExist
<1> QED
  BY <1>2, <1>3, <1>4 DEF DeliveryInv

LEMMA DeliveryStep == DeliveryInv /\ [Next]_vars => DeliveryInv'
<1> SUFFICES ASSUME DeliveryInv, [Next]_vars PROVE DeliveryInv'
  OBVIOUS
<1>1. TypeOK /\ (\A v \in Worker : Grounded(v)) /\ PendingExist
  BY DEF DeliveryInv
<1>2. ASSUME NEW w \in Worker, Advances(w), Quiet(w) PROVE DeliveryInv'
  <2>1. TypeOK' /\ \A v \in Worker : Grounded(v)'
    BY <1>1, <1>2, Everyone
  <2>2. PendingExist'
    BY <1>1, <1>2, PendingKept DEF Advances, Quiet
  <2> QED
    BY <2>1, <2>2 DEF DeliveryInv
<1>3. CASE \/ \E e \in Execution, status \in ExecutionStatus : ControlsStep(e, status)
           \/ \E d \in Dispatch : Tick(d)
  <2>1. TypeOK' /\ Grows /\ handler' = handler /\ message' = message
    BY <1>1, <1>3, BesideStep
  <2>2. \A v \in Worker : Grounded(v)'
    BY <1>1, <2>1, Kept
  <2>3. PendingExist'
    BY <1>1, <2>1, PendingKept
  <2> QED
    BY <2>1, <2>2, <2>3 DEF DeliveryInv
<1>4. ASSUME NEW w \in Operator, Request(w) PROVE DeliveryInv'
  <2>1. w \in Worker
    BY DEF Worker
  <2>2. Advances(w) /\ Quiet(w)
    BY <1>1, <1>4, <2>1, RequestStep
  <2> QED
    BY <1>2, <2>1, <2>2
<1>5. ASSUME NEW w \in Agent, Poll(w) PROVE DeliveryInv'
  <2>1. w \in Worker
    BY DEF Worker
  <2>2. Advances(w) /\ Quiet(w)
    BY <1>1, <1>5, <2>1, RequestStep
  <2> QED
    BY <1>2, <2>1, <2>2
<1>6. ASSUME NEW w \in Worker, Continue(w) PROVE DeliveryInv'
  <2>1. Advances(w) /\ (Quiet(w) \/ Louder(w))
    BY <1>1, <1>6, ContinueStep
  <2>2. CASE Quiet(w)
    BY <1>2, <2>1, <2>2
  <2>3. CASE Louder(w)
    <3>1. TypeOK' /\ \A v \in Worker : Grounded(v)'
      BY <1>1, <2>1, Everyone
    <3>2. PendingExist'
      BY <2>1, <2>3, LouderKept
    <3> QED
      BY <3>1, <3>2 DEF DeliveryInv
  <2> QED
    BY <2>1, <2>2, <2>3
<1>7. ASSUME NEW w \in Worker, Fail(w) PROVE DeliveryInv'
  <2>1. Advances(w) /\ message' = message
    BY <1>1, <1>7, FailStep
  <2>2. TypeOK' /\ \A v \in Worker : Grounded(v)'
    BY <1>1, <2>1, Everyone
  <2>3. PendingExist'
    BY <1>1, <2>1, PendingKept DEF Advances
  <2> QED
    BY <2>2, <2>3 DEF DeliveryInv
<1>8. CASE Restart
  <2>1. /\ TypeOK' /\ \A v \in Worker : Grounded(v)'
        /\ UNCHANGED <<execution, dispatch, message>>
    BY <1>1, <1>8, RestartStep
  <2>2. PendingExist'
    BY <1>1, <2>1 DEF PendingExist, Exists
  <2> QED
    BY <2>1, <2>2 DEF DeliveryInv
<1>9. CASE UNCHANGED vars
  BY <1>1, <1>9 DEF vars, queueVars, opsVars, DeliveryInv, TypeOK, Grounded, Proven,
                    Simulated, PendingExist, Exists
<1> QED
  BY <1>3, <1>4, <1>5, <1>6, <1>7, <1>8, <1>9 DEF Next

THEOREM DeliveryInvariant == Spec => []DeliveryInv
<1> QED
  BY DeliveryInit, DeliveryStep, PTL DEF Spec

\* The rows, the queue and the requests in flight have their types: whatever
\* interleaves, throws or restarts, no request is at a statement it has not
\* read the inputs of.
THEOREM DeliveryTypeCorrect == Spec => []TypeOK
<1>1. DeliveryInv => TypeOK
  BY DEF DeliveryInv
<1> QED
  BY <1>1, DeliveryInvariant, PTL

-----------------------------------------------------------------------------
(***************************************************************************)
(* Delivery closes an execution only on evidence.                          *)
(***************************************************************************)
LEMMA FinishProven ==
    ASSUME DeliveryInv, NEW w \in Worker, FinishExecution(w), NEW e \in Execution,
           execution'[e] # execution[e]
    PROVE  \E d \in Dispatch :
              /\ dispatch[d].exec = e
              /\ \/ execution'[e] = "executed" /\ "succeeded" \in receipts[d]
                 \/ execution'[e] = "executed" /\ Simulated(d)
                 \/ execution'[e] = "failed" /\ d \in deadLetters
<1> DEFINE h == handler[w]
<1>1. /\ h.pc \in Completing
      /\ execution' = [execution EXCEPT ![h.exec] = IF h.success THEN "executed" ELSE "failed"]
  BY DEF FinishExecution, Completing
<1>2. h.dispatch \in Dispatch /\ h.exec \in Execution /\ Proven(h.dispatch, h.exec, h.success)
  BY <1>1, Fields DEF DeliveryInv, TypeOK, Grounded
<1>3. e = h.exec /\ execution'[e] = IF h.success THEN "executed" ELSE "failed"
  BY <1>1, <1>2 DEF DeliveryInv, TypeOK
<1> QED
  BY <1>2, <1>3 DEF Proven

\* completeExecution is called on behalf of a dispatch with a recorded success,
\* carried out by the simulator or with a dead letter, and what the call goes by
\* is not taken back while it waits.
THEOREM EvidenceHolds == Spec => OutcomeHasEvidence
<1> DEFINE Evidence(e) ==
        \E d \in Dispatch :
            /\ dispatch[d].exec = e
            /\ \/ execution'[e] = "executed" /\ "succeeded" \in receipts[d]
               \/ execution'[e] = "executed" /\ Simulated(d)
               \/ execution'[e] = "failed" /\ d \in deadLetters
           Closes == \A e \in Execution :
               execution'[e] # execution[e] /\ handler' # handler => Evidence(e)
<1>1. DeliveryInv /\ [Next]_vars => [Closes]_vars
  <2> SUFFICES ASSUME DeliveryInv, Next, NEW e \in Execution,
                      execution'[e] # execution[e], handler' # handler
               PROVE  Evidence(e)
    OBVIOUS
  <2> HIDE DEF Evidence
  <2>1. ~ \/ \E x \in Execution, status \in ExecutionStatus : ControlsStep(x, status)
          \/ \E d \in Dispatch : Tick(d)
    BY DEF ControlsStep, Tick
  <2>2. ~ \E w \in Operator : Request(w)
    BY DEF Request, PlanOrSimulate, DispatchExecution, RetryDispatch, RunRetrySweep
  <2>3. ~ \E a \in Agent : Poll(a)
    BY DEF Poll, PullDispatches, SubmitResult
  <2>4. ~ (Restart \/ \E w \in Worker : Fail(w))
    BY DEF Restart, Fail
  <2>5. PICK w \in Worker : Continue(w)
    BY <2>1, <2>2, <2>3, <2>4 DEF Next
  <2>6. FinishExecution(w)
    <3>1. ~ \E d \in Dispatch : CreateDispatch(w, d) \/ SweepRetry(w, d) \/ MarkDeadLetter(w, d)
      BY DEF CreateDispatch, SweepRetry, MarkDeadLetter, Reschedule
    <3>2. ~ \/ ScheduleRetry(w) \/ CreateDeadLetter(w) \/ WithdrawMessages(w)
            \/ \E m \in Message : PublishDispatch(w, m)
            \/ CreateIncident(w) \/ CheckReady(w)
      BY DEF ScheduleRetry, Reschedule, CreateDeadLetter, WithdrawMessages, PublishDispatch,
             CreateIncident, CheckReady
    <3>3. ~ \/ ClaimMessages(w) \/ Respond(w) \/ UpdateDispatchResult(w)
            \/ CreateReceipt(w) \/ AckDispatch(w) \/ ResolveIncidents(w)
      BY DEF ClaimMessages, Respond, UpdateDispatchResult, CreateReceipt, AckDispatch,
             ResolveIncidents
    <3> QED
      BY <2>5, <3>1, <3>2, <3>3 DEF Continue
  <2> QED
    BY <2>6, FinishProven DEF Evidence
<1>2. Spec => [][Closes]_vars
  BY <1>1, DeliveryInvariant, PTL DEF Spec
<1> QED
  BY <1>2 DEF OutcomeHasEvidence

-----------------------------------------------------------------------------
(***************************************************************************)
(* Retries never pile up commands.                                         *)
(***************************************************************************)
Pending(d) == {m \in Message : message[m] = [dispatch |-> d, status |-> "pending"]}

\* The operators whose retry of the dispatch is about to publish.
Publishers(d) == {w \in Operator : handler[w].pc = "publish" /\ handler[w].dispatch = d}

\* The copies that wait and those to come do not exceed the operators.
RoomLeft == \A d \in Dispatch :
    Cardinality(Pending(d)) + Cardinality(Publishers(d)) <= Cardinality(Operator)

LEMMA CopiesFinite ==
    ASSUME NEW d
    PROVE  /\ IsFiniteSet(Pending(d)) /\ Cardinality(Pending(d)) \in Nat
           /\ IsFiniteSet(Publishers(d)) /\ Cardinality(Publishers(d)) \in Nat
           /\ Cardinality(Publishers(d)) <= Cardinality(Operator)
           /\ Cardinality(Operator) \in Nat
<1>1. Pending(d) \subseteq Message /\ Publishers(d) \subseteq Operator
  BY DEF Pending, Publishers
<1> QED
  BY <1>1, BoundAssumption, FS_Subset, FS_CardinalityType

\* The next state has no more of both.
LEMMA RoomShrinks ==
    ASSUME RoomLeft,
           \A d \in Dispatch : /\ Pending(d)' \subseteq Pending(d)
                               /\ Publishers(d)' \subseteq Publishers(d)
    PROVE  RoomLeft'
<1> SUFFICES ASSUME NEW d \in Dispatch
             PROVE  Cardinality(Pending(d)') + Cardinality(Publishers(d)')
                       <= Cardinality(Operator)
  BY DEF RoomLeft
<1> DEFINE P == Pending(d)
           Q == Publishers(d)
<1>1. /\ IsFiniteSet(P) /\ Cardinality(P) \in Nat
      /\ IsFiniteSet(Q) /\ Cardinality(Q) \in Nat /\ Cardinality(Operator) \in Nat
      /\ Cardinality(P) + Cardinality(Q) <= Cardinality(Operator)
  BY CopiesFinite DEF RoomLeft
<1>2. P' \subseteq P /\ Q' \subseteq Q
  OBVIOUS
<1>3. \A S, T : IsFiniteSet(S) /\ T \subseteq S =>
         /\ Cardinality(T) <= Cardinality(S) /\ Cardinality(T) \in Nat
  BY FS_Subset, FS_CardinalityType
<1> HIDE DEF P, Q
<1>4. /\ Cardinality(P') <= Cardinality(P) /\ Cardinality(P') \in Nat
      /\ Cardinality(Q') <= Cardinality(Q) /\ Cardinality(Q') \in Nat
  BY <1>1, <1>2, <1>3
<1>5. Cardinality(P') + Cardinality(Q') <= Cardinality(Operator)
  BY <1>1, <1>4
<1> QED
  BY <1>5 DEF P, Q

\* A statement that publishes nothing makes no copies.
LEMMA QuietRoom ==
    ASSUME TypeOK, RoomLeft, NEW w \in Worker, Advances(w), Quiet(w)
    PROVE  RoomLeft'
<1>1. ASSUME NEW d \in Dispatch
      PROVE  Pending(d)' \subseteq Pending(d) /\ Publishers(d)' \subseteq Publishers(d)
  <2>1. Pending(d)' \subseteq Pending(d)
    BY DEF Pending, Quiet
  <2>2. Publishers(d)' \subseteq Publishers(d)
    BY DEF Publishers, Quiet, Advances, Worker
  <2> QED
    BY <2>1, <2>2
<1> QED
  BY <1>1, RoomShrinks

\* For a dispatch without a waiting message, one publication per operator fits.
LEMMA NonePending ==
    ASSUME NEW d, Pending(d) = {}
    PROVE  Cardinality(Pending(d)) + Cardinality(Publishers(d)) <= Cardinality(Operator)
  BY CopiesFinite, FS_EmptySet

\* A new dispatch has no messages.
LEMMA CreateRoom ==
    ASSUME DeliveryInv, RoomLeft, NEW w \in Worker, NEW c \in Dispatch, CreateDispatch(w, c)
    PROVE  RoomLeft'
<1>1. TypeOK /\ Grounded(w) /\ PendingExist
  BY DEF DeliveryInv
<1>2. Advances(w) /\ message' = message /\ dispatch[c].status = "absent"
  BY <1>1, CreateDispatchStep, CreateDispatchView
<1>3. \/ handler'[w].pc # "publish"
      \/ handler'[w].pc = "publish" /\ handler'[w].dispatch = c
  <2>1. \/ handler'[w] = [pc |-> "publish", dispatch |-> c, todo |-> {},
                          dead |-> FALSE, route |-> "dispatch"]
        \/ handler'[w] = [pc |-> "complete", exec |-> dispatch'[c].exec,
                          dispatch |-> c, todo |-> {}, success |-> TRUE]
        \/ handler'[w] = Idle
    BY <1>1, CreateDispatchView
  <2> QED
    BY <2>1 DEF Idle
<1>4. Pending(c)' = {}
  <2>1. \A m \in Message : message[m] # [dispatch |-> c, status |-> "pending"]
    BY <1>1, <1>2 DEF PendingExist, Exists
  <2> QED
    BY <1>2, <2>1 DEF Pending
<1>5. ASSUME NEW d \in Dispatch
      PROVE  Cardinality(Pending(d)') + Cardinality(Publishers(d)') <= Cardinality(Operator)
  <2>1. CASE d = c
    <3>1. Publishers(d)' \subseteq Operator
      BY DEF Publishers
    <3>2. Cardinality(Pending(d)') = 0
      BY <1>4, <2>1, FS_EmptySet
    <3>3. /\ Cardinality(Publishers(d)') <= Cardinality(Operator)
          /\ Cardinality(Publishers(d)') \in Nat
      BY <3>1, BoundAssumption, FS_Subset, FS_CardinalityType
    <3> QED
      BY <3>2, <3>3
  <2>2. CASE d # c
    <3>1. Pending(d)' = Pending(d)
      BY <1>2 DEF Pending
    <3>2. Publishers(d)' \subseteq Publishers(d)
      BY <1>2, <1>3, <2>2 DEF Publishers, Advances, Worker
    <3>3. /\ Cardinality(Publishers(d)') <= Cardinality(Publishers(d))
          /\ Cardinality(Publishers(d)') \in Nat
      BY <3>2, CopiesFinite, FS_Subset, FS_CardinalityType
    <3> QED
      BY <3>1, <3>3, CopiesFinite DEF RoomLeft
  <2> QED
    BY <2>1, <2>2
<1> QED
  BY <1>5 DEF RoomLeft

\* A retry withdraws what waits before it publishes.
LEMMA WithdrawRoom ==
    ASSUME DeliveryInv, RoomLeft, NEW w \in Worker, WithdrawMessages(w)
    PROVE  RoomLeft'
<1> DEFINE c == handler[w].dispatch
<1>1. TypeOK /\ Grounded(w)
  BY DEF DeliveryInv
<1>2. /\ Advances(w) /\ handler'[w].dispatch = c
      /\ \A m \in Message : message'[m].status = "pending" =>
            message'[m] = message[m] /\ message[m].dispatch # c
  BY <1>1, WithdrawMessagesStep
<1> HIDE DEF c
<1>3. ASSUME NEW d \in Dispatch
      PROVE  Cardinality(Pending(d)') + Cardinality(Publishers(d)') <= Cardinality(Operator)
  <2>1. CASE d = c
    <3>1. Pending(d)' = {} /\ Publishers(d)' \subseteq Operator
      BY <1>2, <2>1 DEF Pending, Publishers
    <3>2. Cardinality(Pending(d)') = 0
      BY <3>1, FS_EmptySet
    <3>3. /\ Cardinality(Publishers(d)') <= Cardinality(Operator)
          /\ Cardinality(Publishers(d)') \in Nat
      BY <3>1, BoundAssumption, FS_Subset, FS_CardinalityType
    <3> QED
      BY <3>2, <3>3
  <2>2. CASE d # c
    <3>1. Pending(d)' \subseteq Pending(d)
      BY <1>2 DEF Pending
    <3>2. Publishers(d)' \subseteq Publishers(d)
      BY <1>2, <2>2 DEF Publishers, Advances, Worker
    <3>3. /\ Cardinality(Publishers(d)') <= Cardinality(Publishers(d))
          /\ Cardinality(Publishers(d)') \in Nat
          /\ Cardinality(Pending(d)') <= Cardinality(Pending(d))
          /\ Cardinality(Pending(d)') \in Nat
      BY <3>1, <3>2, CopiesFinite, FS_Subset, FS_CardinalityType
    <3> QED
      BY <3>3, CopiesFinite DEF RoomLeft
  <2> QED
    BY <2>1, <2>2
<1> QED
  BY <1>3 DEF RoomLeft

\* A publication turns one of those to come into one that waits.
LEMMA PublishRoom ==
    ASSUME DeliveryInv, RoomLeft, NEW w \in Worker, NEW m \in Message, PublishDispatch(w, m)
    PROVE  RoomLeft'
<1> DEFINE c == handler[w].dispatch
           row == [dispatch |-> c, status |-> "pending"]
<1>1. TypeOK /\ Grounded(w)
  BY DEF DeliveryInv
<1>2. /\ Advances(w) /\ message' = [message EXCEPT ![m] = row]
      /\ handler[w].pc = "publish" /\ handler'[w].pc # "publish"
  BY <1>1, PublishDispatchStep
<1>3. w \in Operator
  BY <1>1, <1>2 DEF Grounded, Routed, Worker
<1>4. \A n \in Message : message'[n] = IF n = m THEN row ELSE message[n]
  BY <1>1, <1>2 DEF TypeOK
<1>5. \A d : Publishers(d)' \subseteq Publishers(d) /\ w \notin Publishers(d)'
  BY <1>2 DEF Publishers, Advances, Worker
<1>6. ASSUME NEW d \in Dispatch
      PROVE  Cardinality(Pending(d)') + Cardinality(Publishers(d)') <= Cardinality(Operator)
  <2>1. CASE d = c
    <3>1. Pending(d)' \subseteq Pending(d) \cup {m}
      BY <1>4 DEF Pending
    <3>2. w \in Publishers(d) /\ Publishers(d)' \subseteq Publishers(d) \ {w}
      BY <1>2, <1>3, <1>5, <2>1 DEF Publishers
    <3>3. /\ IsFiniteSet(Pending(d) \cup {m})
          /\ Cardinality(Pending(d) \cup {m}) <= Cardinality(Pending(d)) + 1
          /\ Cardinality(Pending(d) \cup {m}) \in Nat
      <4>1. IsFiniteSet(Pending(d)) /\ Cardinality(Pending(d)) \in Nat
        BY CopiesFinite
      <4>2. /\ IsFiniteSet(Pending(d) \cup {m})
            /\ \/ Cardinality(Pending(d) \cup {m}) = Cardinality(Pending(d))
               \/ Cardinality(Pending(d) \cup {m}) = Cardinality(Pending(d)) + 1
        BY <4>1, FS_AddElement, Zenon
      <4> QED
        BY <4>1, <4>2
    <3>4. /\ IsFiniteSet(Publishers(d) \ {w})
          /\ Cardinality(Publishers(d) \ {w}) = Cardinality(Publishers(d)) - 1
      BY <3>2, CopiesFinite, FS_RemoveElement
    <3>5. /\ Cardinality(Pending(d)') <= Cardinality(Pending(d) \cup {m})
          /\ Cardinality(Pending(d)') \in Nat
      BY <3>1, <3>3, FS_Subset, FS_CardinalityType
    <3>6. /\ Cardinality(Publishers(d)') <= Cardinality(Publishers(d) \ {w})
          /\ Cardinality(Publishers(d)') \in Nat
      BY <3>2, <3>4, FS_Subset, FS_CardinalityType
    <3>7. Cardinality(Pending(d)) + Cardinality(Publishers(d)) <= Cardinality(Operator)
      BY DEF RoomLeft
    <3> QED
      BY <3>3, <3>4, <3>5, <3>6, <3>7, CopiesFinite
  <2>2. CASE d # c
    <3>1. Pending(d)' \subseteq Pending(d)
      <4>1. row # [dispatch |-> d, status |-> "pending"]
        BY <2>2
      <4> QED
        BY <1>4, <4>1 DEF Pending
    <3>2. /\ Cardinality(Publishers(d)') <= Cardinality(Publishers(d))
          /\ Cardinality(Publishers(d)') \in Nat
          /\ Cardinality(Pending(d)') <= Cardinality(Pending(d))
          /\ Cardinality(Pending(d)') \in Nat
      BY <1>5, <3>1, CopiesFinite, FS_Subset, FS_CardinalityType
    <3> QED
      BY <3>2, CopiesFinite DEF RoomLeft
  <2> QED
    BY <2>1, <2>2
<1> QED
  BY <1>6 DEF RoomLeft

\* As long as no storage call has thrown.
RoomInv == failures = 0 => RoomLeft

LEMMA RoomInit == Init => RoomInv
<1> SUFFICES ASSUME Init, NEW d \in Dispatch
             PROVE  Cardinality(Pending(d)) + Cardinality(Publishers(d)) <= Cardinality(Operator)
  BY DEF RoomInv, RoomLeft
<1>1. Pending(d) = {}
  BY DEF Init, Pending
<1> QED
  BY <1>1, NonePending

LEMMA RoomStep == DeliveryInv /\ RoomInv /\ [Next]_vars => RoomInv'
<1> SUFFICES ASSUME DeliveryInv, RoomInv, [Next]_vars, failures' = 0 PROVE RoomLeft'
  BY DEF RoomInv
<1>1. TypeOK /\ (\A v \in Worker : Grounded(v)) /\ failures \in Nat
  BY DEF DeliveryInv, TypeOK
<1>2. ASSUME handler' = handler, message' = message, RoomLeft PROVE RoomLeft'
  BY <1>2 DEF RoomLeft, Pending, Publishers
<1>3. CASE \/ \E e \in Execution, status \in ExecutionStatus : ControlsStep(e, status)
           \/ \E d \in Dispatch : Tick(d)
  <2>1. handler' = handler /\ message' = message /\ failures' = failures
    BY <1>1, <1>3 DEF ControlsStep, Tick, queueVars
  <2> QED
    BY <1>2, <2>1 DEF RoomInv
<1>4. ASSUME NEW w \in Operator, Request(w) PROVE RoomLeft'
  <2>1. w \in Worker /\ failures' = failures
    BY <1>4 DEF Worker, Request, PlanOrSimulate, DispatchExecution, RetryDispatch, RunRetrySweep
  <2> QED
    BY <1>1, <1>4, <2>1, RequestStep, QuietRoom DEF RoomInv
<1>5. ASSUME NEW w \in Agent, Poll(w) PROVE RoomLeft'
  <2>1. w \in Worker /\ failures' = failures
    BY <1>5 DEF Worker, Poll, PullDispatches, SubmitResult
  <2> QED
    BY <1>1, <1>5, <2>1, RequestStep, QuietRoom DEF RoomInv
<1>6. ASSUME NEW w \in Worker, Continue(w) PROVE RoomLeft'
  <2>1. failures' = failures
    BY <1>6 DEF Continue, CreateDispatch, SweepRetry, MarkDeadLetter, ScheduleRetry, Reschedule,
                CreateDeadLetter, WithdrawMessages, PublishDispatch, CreateIncident, CheckReady,
                FinishExecution, ClaimMessages, Respond, UpdateDispatchResult, CreateReceipt,
                AckDispatch, ResolveIncidents
  <2>2. RoomLeft
    BY <2>1 DEF RoomInv
  <2>3. Advances(w) /\ (Quiet(w) \/ Louder(w))
    BY <1>1, <1>6, ContinueStep
  <2>4. CASE Quiet(w)
    BY <1>1, <2>2, <2>3, <2>4, QuietRoom
  <2>5. CASE Louder(w)
    BY <2>2, <2>5, CreateRoom, WithdrawRoom, PublishRoom DEF Louder
  <2> QED
    BY <2>3, <2>4, <2>5
<1>7. ASSUME NEW w \in Worker, Fail(w) PROVE RoomLeft'
  BY <1>1, <1>7 DEF Fail
<1>8. CASE Restart
  BY <1>1, <1>8 DEF Restart
<1>9. CASE UNCHANGED vars
  BY <1>2, <1>9 DEF vars, queueVars, RoomInv
<1> QED
  BY <1>3, <1>4, <1>5, <1>6, <1>7, <1>8, <1>9 DEF Next

\* Of one dispatch no more copies wait for an agent than operators retry it at
\* once, in every behaviour up to the first storage call that throws.
THEOREM CopiesHold == Spec => [](failures = 0 => CopiesBounded)
<1>1. RoomInv => (failures = 0 => CopiesBounded)
  <2> SUFFICES ASSUME RoomLeft, NEW d \in Dispatch
               PROVE  Cardinality(Pending(d)) <= Cardinality(Operator)
    BY DEF RoomInv, CopiesBounded, Pending
  <2> QED
    BY CopiesFinite DEF RoomLeft
<1> QED
  BY <1>1, RoomInit, RoomStep, DeliveryInvariant, PTL DEF Spec
=============================================================================

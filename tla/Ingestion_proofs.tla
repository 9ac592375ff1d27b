--------------------------- MODULE Ingestion_proofs ----------------------------
(***************************************************************************)
(* Proofs about Ingestion: whatever has been claimed has been stored, is   *)
(* being stored or is in a dead letter; what the state rows show can be    *)
(* looked up; findings are about all messages before; a reading counts     *)
(* once, no sample is without an event, and the rollups are nested.  For   *)
(* any messages, requests and bounds.                                      *)
(***************************************************************************)
EXTENDS Ingestion, FiniteSetTheorems, WellFoundedInduction, TLAPS

Storing == {"raw", "event", "device", "site", "branch", "downstream"}

\* What a record of HandlerState with a given pc looks like.
LEMMA HandlerShape ==
    ASSUME NEW h \in HandlerState
    PROVE  /\ h.pc \in {"new", "done", "lost", "rollup"} \cup Storing
           /\ h.pc \in Storing =>
                /\ h.msg \in Message /\ h.event \in Request
                /\ h.fresh \in BOOLEAN /\ h.findings \in SUBSET Finding
                /\ h = [pc |-> h.pc, msg |-> h.msg, event |-> h.event,
                        fresh |-> h.fresh, findings |-> h.findings]
           /\ h.pc = "rollup" =>
                /\ h.msg \in Message /\ h.event \in Request
                /\ h.fresh = TRUE /\ h.findings \in SUBSET Finding
                /\ h.next \in 1 .. 4
                /\ h = [pc |-> "rollup", msg |-> h.msg, event |-> h.event,
                        fresh |-> TRUE, findings |-> h.findings, next |-> h.next]
<1>1. CASE h \in [pc : {"new", "done", "lost"}]
  BY <1>1 DEF Storing
<1>2. CASE h \in [pc : {"raw", "event", "device", "site", "branch", "downstream"},
                  msg : Message, event : Request, fresh : BOOLEAN,
                  findings : SUBSET Finding]
  BY <1>2 DEF Storing
<1>3. CASE h \in [pc : {"rollup"}, msg : Message, event : Request, fresh : {TRUE},
                  findings : SUBSET Finding, next : 1 .. 4]
  BY <1>3 DEF Storing
<1> QED BY <1>1, <1>2, <1>3 DEF HandlerState

\* The records a handler can be set to.
LEMMA MakeHandler ==
    /\ \A pc \in {"new", "done", "lost"} : [pc |-> pc] \in HandlerState
    /\ \A pc \in Storing, m \in Message, e \in Request, b \in BOOLEAN,
          f \in SUBSET Finding :
          [pc |-> pc, msg |-> m, event |-> e, fresh |-> b, findings |-> f]
              \in HandlerState
    /\ \A m \in Message, e \in Request, f \in SUBSET Finding, n \in 1 .. 4 :
          [pc |-> "rollup", msg |-> m, event |-> e, fresh |-> TRUE,
           findings |-> f, next |-> n] \in HandlerState
BY DEF HandlerState, Storing

\* A handler that goes on to its next statement.
LEMMA AdvanceHandler ==
    ASSUME NEW h \in HandlerState, h.pc \in Storing, NEW pc \in Storing
    PROVE  [h EXCEPT !.pc = pc] \in HandlerState
<1>1. /\ h.msg \in Message /\ h.event \in Request /\ h.fresh \in BOOLEAN
      /\ h.findings \in SUBSET Finding
      /\ h = [pc |-> h.pc, msg |-> h.msg, event |-> h.event,
              fresh |-> h.fresh, findings |-> h.findings]
  BY HandlerShape
<1>2. [h EXCEPT !.pc = pc] =
        [pc |-> pc, msg |-> h.msg, event |-> h.event,
         fresh |-> h.fresh, findings |-> h.findings]
  BY <1>1
<1> QED BY <1>1, <1>2, MakeHandler

\* A handler that goes on to its next rollup.
LEMMA AdvanceRollup ==
    ASSUME NEW h \in HandlerState, h.pc = "rollup", h.next < 4
    PROVE  [h EXCEPT !.next = @ + 1] \in HandlerState
<1> DEFINE R == [pc : {"rollup"}, msg : Message, event : Request, fresh : {TRUE},
                 findings : SUBSET Finding, next : 1 .. 4]
<1>1. h \in R
  BY DEF HandlerState
<1>2. h.next + 1 \in 1 .. 4
  BY <1>1
<1>3. ASSUME NEW k \in 1 .. 4 PROVE [h EXCEPT !.next = k] \in R
  BY <1>1
<1> QED BY <1>2, <1>3 DEF HandlerState

\* Every bucket a message falls into is one, and every message has a key.
LEMMA BucketOfMessage ==
    ASSUME NEW m \in Message, NEW n \in 1 .. 4
    PROVE  /\ Granularities[n] \in Granularity
           /\ \A g \in Granularity : BucketStart(m.time, g) \in Bucket
BY DEF Granularities, Granularity, Bucket, BucketsOf

-----------------------------------------------------------------------------
(* Type correctness *)

LEMMA InitTyped == Init => TypeOK
<1> SUFFICES ASSUME Init PROVE TypeOK
  OBVIOUS
<1>1. handler \in [Request -> HandlerState]
  BY MakeHandler DEF Init
<1>2. restarts \in 0 .. MaxRestarts
  BY BoundAssumption DEF Init
<1>3. ordering \in [seq: Nat \cup {None}, time: Nat \cup {None}]
  BY DEF Init, Unordered
<1>4. rollup \in [Granularity -> [Bucket -> Nat]]
  BY DEF Init
<1> QED BY <1>1, <1>2, <1>3, <1>4 DEF Init, TypeOK

\* Setting one handler to a record of the type keeps the type.
LEMMA StepTyped ==
    ASSUME TypeOK, [Next]_vars
    PROVE  TypeOK'
<1>1. CASE UNCHANGED vars
  BY <1>1 DEF TypeOK, vars, memory, tables
<1>2. CASE Restart
  <2>1. handler' \in [Request -> HandlerState]
    BY <1>2, MakeHandler DEF Restart, ProcessEnds, TypeOK
  <2>2. restarts' \in 0 .. MaxRestarts
    BY <1>2, BoundAssumption DEF Restart, ProcessEnds, TypeOK
  <2>3. ordering' \in [seq: Nat \cup {None}, time: Nat \cup {None}]
    BY <1>2 DEF Restart, Unordered
  <2> QED BY <1>2, <2>1, <2>2, <2>3 DEF Restart, ProcessEnds, TypeOK, tables
<1>3. ASSUME NEW r \in Request, NEW m \in Message, RejectSource(r, m)
      PROVE  TypeOK'
  <2>1. handler' \in [Request -> HandlerState]
    BY <1>3, MakeHandler DEF RejectSource, Answer, TypeOK
  <2>2. deadLetters' \subseteq Message \X Stage
    BY <1>3 DEF RejectSource, TypeOK, Stage
  <2> QED BY <1>3, <2>1, <2>2 DEF RejectSource, TypeOK, tables
<1>4. ASSUME NEW r \in Request, NEW m \in Message, DropTransportDuplicate(r, m)
      PROVE  TypeOK'
  <2>1. handler' \in [Request -> HandlerState]
    BY <1>4, MakeHandler DEF DropTransportDuplicate, Answer, TypeOK
  <2> QED BY <1>4, <2>1 DEF DropTransportDuplicate, TypeOK, tables, memory
<1>5. ASSUME NEW r \in Request, NEW m \in Message, RejectUndecodable(r, m)
      PROVE  TypeOK'
  <2>1. handler' \in [Request -> HandlerState]
    BY <1>5, MakeHandler DEF RejectUndecodable, Answer, TypeOK
  <2>2. deadLetters' \subseteq Message \X Stage
    BY <1>5 DEF RejectUndecodable, TypeOK, Stage
  <2> QED BY <1>5, <2>1, <2>2 DEF RejectUndecodable, TypeOK, tables
<1>6. ASSUME NEW r \in Request, NEW m \in Message, DropCanonicalDuplicate(r, m)
      PROVE  TypeOK'
  <2>1. handler' \in [Request -> HandlerState]
    BY <1>6, MakeHandler DEF DropCanonicalDuplicate, Answer, TypeOK
  <2> QED BY <1>6, <2>1 DEF DropCanonicalDuplicate, TypeOK, tables
<1>7. ASSUME NEW r \in Request, NEW m \in Message, Accept(r, m)
      PROVE  TypeOK'
  <2>1. Findings(m) \in SUBSET Finding
    BY DEF Findings, Finding
  <2>2. handler' \in [Request -> HandlerState]
    BY <1>7, <2>1, MakeHandler DEF Accept, TypeOK, Storing
  <2>3. ordering' \in [seq: Nat \cup {None}, time: Nat \cup {None}]
    BY <1>7, MessageAssumption DEF Accept, OrderingWith, Later, TypeOK
  <2>4. canonical' \subseteq {Key(n) : n \in Message}
    BY <1>7 DEF Accept, TypeOK
  <2> QED BY <1>7, <2>2, <2>3, <2>4 DEF Accept, TypeOK, tables
<1>8. ASSUME NEW r \in Request, SaveRaw(r)
      PROVE  TypeOK'
  <2>1. handler[r] \in HandlerState
    BY DEF TypeOK
  <2>2. handler[r].pc \in Storing /\ handler[r].event \in Request
    BY <1>8, <2>1, HandlerShape DEF SaveRaw, Storing
  <2>3. [handler[r] EXCEPT !.pc = "event"] \in HandlerState
    BY <2>1, <2>2, AdvanceHandler DEF Storing
  <2> QED BY <1>8, <2>2, <2>3 DEF SaveRaw, Goto, TypeOK, memory
<1>9. ASSUME NEW r \in Request, SaveEvent(r)
      PROVE  TypeOK'
  <2>1. handler[r] \in HandlerState
    BY DEF TypeOK
  <2>2. /\ handler[r].pc \in Storing /\ handler[r].event \in Request
        /\ handler[r].msg \in Message
    BY <1>9, <2>1, HandlerShape DEF SaveEvent, Storing
  <2>3. [handler[r] EXCEPT !.pc = "device"] \in HandlerState
    BY <2>1, <2>2, AdvanceHandler DEF Storing
  <2> QED BY <1>9, <2>2, <2>3 DEF SaveEvent, Goto, TypeOK, memory
<1>10. ASSUME NEW r \in Request, Project(r)
       PROVE  TypeOK'
  <2> DEFINE h == handler[r]
  <2>1. h \in HandlerState
    BY DEF TypeOK
  <2>2. h.pc \in View /\ h.pc \in Storing
    BY <1>10 DEF Project, View, Storing
  <2>3. /\ h.msg \in Message /\ h.event \in Request /\ h.fresh \in BOOLEAN
        /\ h.findings \in SUBSET Finding
        /\ h = [pc |-> h.pc, msg |-> h.msg, event |-> h.event,
                fresh |-> h.fresh, findings |-> h.findings]
    BY <2>1, <2>2, HandlerShape
  <2>4. ASSUME NEW pc \in Storing
        PROVE  [h EXCEPT !.pc = pc] \in HandlerState
    BY <2>1, <2>2, AdvanceHandler
  <2>5. handler' \in [Request -> HandlerState]
    <3>1. CASE h.pc # "branch" /\ Goto(r, NextView[h.pc])
      <4>1. NextView[h.pc] \in Storing
        BY <2>2, <3>1 DEF NextView, View, Storing
      <4> QED BY <3>1, <4>1, <2>4 DEF Goto, TypeOK
    <3>2. CASE Answer(r)
      BY <3>2, MakeHandler DEF Answer, TypeOK
    <3>3. CASE Goto(r, "downstream")
      BY <3>3, <2>4 DEF Goto, TypeOK, Storing
    <3>4. CASE handler' = [handler EXCEPT ![r] =
                [pc |-> "rollup", msg |-> h.msg, event |-> h.event, fresh |-> TRUE,
                 findings |-> h.findings, next |-> 1]]
      <4>1. [pc |-> "rollup", msg |-> h.msg, event |-> h.event, fresh |-> TRUE,
             findings |-> h.findings, next |-> 1] \in HandlerState
        BY <2>3 DEF HandlerState
      <4> QED BY <3>4, <4>1 DEF TypeOK
    <3> QED BY <1>10, <3>1, <3>2, <3>3, <3>4 DEF Project
  <2>6. shown' \in [View -> Request \cup {None}]
    BY <1>10, <2>3 DEF Project, TypeOK
  <2> QED BY <1>10, <2>5, <2>6 DEF Project, TypeOK, memory
<1>11. ASSUME NEW r \in Request, UpsertRollup(r)
       PROVE  TypeOK'
  <2> DEFINE h == handler[r]
  <2>1. h \in HandlerState /\ h.pc = "rollup"
    BY <1>11 DEF TypeOK, UpsertRollup
  <2>2. /\ h.msg \in Message /\ h.event \in Request /\ h.findings \in SUBSET Finding
        /\ h.next \in 1 .. 4
        /\ h = [pc |-> "rollup", msg |-> h.msg, event |-> h.event,
                fresh |-> TRUE, findings |-> h.findings, next |-> h.next]
    BY <2>1, HandlerShape
  <2>3. handler' \in [Request -> HandlerState]
    <3>1. CASE h.next < 4
      <4>1. [h EXCEPT !.next = @ + 1] \in HandlerState
        BY <2>1, <3>1, AdvanceRollup
      <4> QED BY <1>11, <3>1, <4>1 DEF UpsertRollup, TypeOK
    <3>2. CASE ~(h.next < 4)
      <4>1. [pc |-> "downstream", msg |-> h.msg, event |-> h.event,
             fresh |-> TRUE, findings |-> h.findings] \in HandlerState
        BY <2>2, MakeHandler DEF Storing
      <4> QED BY <1>11, <3>2, <4>1 DEF UpsertRollup, TypeOK
    <3> QED BY <3>1, <3>2
  <2>4. rollup' \in [Granularity -> [Bucket -> Nat]]
    <3> DEFINE g == Granularities[h.next]
               b == BucketStart(h.msg.time, g)
    <3>1. g \in Granularity /\ b \in Bucket
      BY <2>2, BucketOfMessage
    <3>2. rollup' = [rollup EXCEPT ![g] = [rollup[g] EXCEPT ![b] = rollup[g][b] + 1]]
      BY <1>11 DEF UpsertRollup
    <3>3. rollup \in [Granularity -> [Bucket -> Nat]]
      BY DEF TypeOK
    <3> HIDE DEF g, b
    <3> QED BY <3>1, <3>2, <3>3
  <2> QED BY <1>11, <2>3, <2>4 DEF UpsertRollup, TypeOK, memory
<1>12. ASSUME NEW r \in Request, Downstream(r)
       PROVE  TypeOK'
  <2>1. handler' \in [Request -> HandlerState]
    BY <1>12, MakeHandler DEF Downstream, Answer, TypeOK
  <2> QED BY <1>12, <2>1 DEF Downstream, TypeOK, memory, tables
<1>13. ASSUME NEW r \in Request, NEW e \in Request, Reevaluate(r, e)
       PROVE  TypeOK'
  <2>1. event[e] \in Message
    BY <1>13 DEF Reevaluate, TypeOK
  <2>2. handler' \in [Request -> HandlerState]
    BY <1>13, <2>1, MakeHandler DEF Reevaluate, TypeOK, Storing
  <2> QED BY <1>13, <2>2 DEF Reevaluate, TypeOK, memory, tables
<1> QED BY <1>1, <1>2, <1>3, <1>4, <1>5, <1>6, <1>7, <1>8, <1>9, <1>10, <1>11,
           <1>12, <1>13 DEF Next, Receive, Store

\* The tables, the maps in memory and the requests keep their types, for any
\* messages, requests and bounds.
THEOREM TypeCorrect == Spec => []TypeOK
<1>1. Init => TypeOK
  BY InitTyped
<1>2. TypeOK /\ [Next]_vars => TypeOK'
  BY StepTyped
<1> QED BY <1>1, <1>2, PTL DEF Spec

-----------------------------------------------------------------------------
(* What is claimed is stored *)

\* The request is about to store the event it has accepted.
Carries(r) == handler[r].pc \in {"raw", "event"} /\ handler[r].fresh = TRUE

\* A reading that is stored or about to be.
Held(k) ==
    \/ \E r \in Request : event[r] # None /\ Key(event[r]) = k
    \/ \E r \in Request : Carries(r) /\ Key(handler[r].msg) = k

\* A request stores under its own name what it has accepted, and nothing is
\* stored under it before; past that statement, and in a re-evaluation, the
\* event it works on is stored.
Faithful(r) ==
    LET h == handler[r] IN
    /\ h.pc = "new" => event[r] = None
    /\ h.pc = "raw" => h.fresh = TRUE
    /\ Carries(r) => h.event = r /\ event[r] = None
    /\ h.pc = "event" /\ h.fresh = FALSE => event[h.event] = h.msg
    /\ h.pc \in {"device", "site", "branch", "rollup", "downstream"} =>
          event[h.event] = h.msg

Covered(m) == IF m \in Decodable THEN Key(m) \in canonical
                                 ELSE <<m, "decode">> \in deadLetters

ClaimInv ==
    /\ TypeOK
    /\ \A r \in Request : Faithful(r)
    /\ \A k \in canonical : Held(k)
    /\ \A m \in transport : Covered(m)
    /\ ShownIsStored

LEMMA ClaimInvSuffices == ClaimInv => ClaimedIsStored
<1> SUFFICES ASSUME ClaimInv PROVE ClaimedIsStored
  OBVIOUS
<1>1. ASSUME NEW k \in canonical
      PROVE  \/ \E r \in Stored : Key(event[r]) = k
             \/ \E r \in InFlight : handler[r].pc \in {"raw", "event"}
                                     /\ handler[r].fresh /\ Key(handler[r].msg) = k
  <2>1. CASE \E r \in Request : event[r] # None /\ Key(event[r]) = k
    BY <2>1 DEF Stored
  <2>2. CASE \E r \in Request : Carries(r) /\ Key(handler[r].msg) = k
    BY <2>2 DEF Carries, InFlight
  <2> QED BY <2>1, <2>2 DEF ClaimInv, Held
<1> QED BY <1>1 DEF ClaimInv, ClaimedIsStored, Covered

LEMMA InitClaimInv == Init => ClaimInv
BY InitTyped DEF Init, ClaimInv, Faithful, Carries, ShownIsStored, Stored, View

\* A step keeps what is claimed held if it overwrites no stored event with
\* another and a request that carries an event goes on to carry it or stores it.
LEMMA HeldKept ==
    ASSUME TypeOK, NEW k, Held(k),
           \A s \in Request : event[s] # None => event'[s] = event[s],
           \A q \in Request : Carries(q) =>
               \/ Carries(q)' /\ handler'[q].msg = handler[q].msg
               \/ event'[q] = handler[q].msg
    PROVE  Held(k)'
<1>1. CASE \E r \in Request : event[r] # None /\ Key(event[r]) = k
  BY <1>1 DEF Held
<1>2. CASE \E r \in Request : Carries(r) /\ Key(handler[r].msg) = k
  <2>1. PICK r \in Request : Carries(r) /\ Key(handler[r].msg) = k
    BY <1>2
  <2>2. handler[r] \in HandlerState
    BY DEF TypeOK
  <2>3. handler[r].msg \in Message
    BY <2>1, <2>2, HandlerShape DEF Carries, Storing
  <2>4. handler[r].msg # None
    BY <2>3, MessageAssumption
  <2> QED BY <2>1, <2>4 DEF Held
<1> QED BY <1>1, <1>2 DEF Held

\* A step of a request r that stores no event and leaves the other requests
\* alone: it is enough to look at r.
LEMMA QuietStep ==
    ASSUME ClaimInv, TypeOK', NEW r \in Request,
           event' = event, ShownIsStored',
           \A q \in Request \ {r} : handler'[q] = handler[q],
           Faithful(r)',
           Carries(r) => Carries(r)' /\ handler'[r].msg = handler[r].msg,
           \A k \in canonical' \ canonical : Held(k)',
           \A m \in transport' : Covered(m)'
    PROVE  ClaimInv'
<1>1. ASSUME NEW q \in Request PROVE Faithful(q)'
  <2>1. CASE q = r
    BY <2>1
  <2>2. CASE q # r
    BY <2>2 DEF ClaimInv, Faithful, Carries
  <2> QED BY <2>1, <2>2
<1>2. ASSUME NEW k \in canonical' PROVE Held(k)'
  <2>1. CASE k \in canonical
    <3>1. \A q \in Request : Carries(q) =>
             Carries(q)' /\ handler'[q].msg = handler[q].msg
      BY DEF Carries
    <3> QED BY <2>1, <3>1, HeldKept DEF ClaimInv
  <2> QED BY <2>1
<1> QED BY <1>1, <1>2 DEF ClaimInv

\* Every step keeps the invariant.
LEMMA ClaimStep ==
    ASSUME ClaimInv, [Next]_vars
    PROVE  ClaimInv'
<1>0. TypeOK /\ TypeOK'
  BY StepTyped DEF ClaimInv
<1>1. CASE UNCHANGED vars
  <2>1. \A r \in Request : Faithful(r)'
    BY <1>1 DEF ClaimInv, Faithful, Carries, vars, tables
  <2>2. \A k \in canonical' : Held(k)'
    BY <1>1 DEF ClaimInv, Held, Carries, vars, tables, memory
  <2>3. \A m \in transport' : Covered(m)'
    BY <1>1 DEF ClaimInv, Covered, vars, memory
  <2>4. ShownIsStored'
    BY <1>1 DEF ClaimInv, ShownIsStored, Stored, vars, tables
  <2> QED BY <1>0, <2>1, <2>2, <2>3, <2>4 DEF ClaimInv
<1>2. CASE Restart
  <2>1. ASSUME NEW r \in Request PROVE Faithful(r)'
    <3>1. handler[r] \in HandlerState
      BY <1>0 DEF TypeOK
    <3>2. \/ handler'[r].pc = "lost"
          \/ handler'[r] = handler[r] /\ handler[r].pc \in {"new", "done", "lost"}
      BY <1>2, <1>0, <3>1 DEF Restart, ProcessEnds, InFlight
    <3> QED BY <1>2, <3>2 DEF ClaimInv, Faithful, Carries, Restart, ProcessEnds, tables
  <2>2. canonical' = {} /\ transport' = {}
    BY <1>2 DEF Restart
  <2>3. ShownIsStored'
    BY <1>2 DEF ClaimInv, ShownIsStored, Stored, Restart, ProcessEnds, tables
  <2> QED BY <1>0, <2>1, <2>2, <2>3 DEF ClaimInv
<1>3. ASSUME NEW r \in Request, NEW m \in Message, RejectSource(r, m)
      PROVE  ClaimInv'
  <2>1. /\ handler' = [handler EXCEPT ![r] = [pc |-> "done"]]
        /\ handler[r].pc \notin {"raw", "event"}
        /\ event' = event /\ raw' = raw /\ shown' = shown /\ canonical' = canonical
    BY <1>3 DEF RejectSource, Arrives, Answer, tables, memory
  <2>2. Faithful(r)' /\ ~Carries(r)
    BY <2>1, <1>0 DEF TypeOK, Faithful, Carries
  <2>3. \A q \in Request \ {r} : handler'[q] = handler[q]
    BY <2>1, <1>0 DEF TypeOK
  <2>4. ShownIsStored'
    BY <2>1 DEF ClaimInv, ShownIsStored, Stored
  <2>5. \A n \in transport' : Covered(n)'
    BY <1>3 DEF ClaimInv, Covered, RejectSource
  <2> QED BY <1>0, <2>1, <2>2, <2>3, <2>4, <2>5, QuietStep
<1>4. ASSUME NEW r \in Request, NEW m \in Message, DropTransportDuplicate(r, m)
      PROVE  ClaimInv'
  <2>1. /\ handler' = [handler EXCEPT ![r] = [pc |-> "done"]]
        /\ handler[r].pc \notin {"raw", "event"}
        /\ event' = event /\ raw' = raw /\ shown' = shown /\ canonical' = canonical
    BY <1>4 DEF DropTransportDuplicate, Arrives, Answer, tables, memory
  <2>2. Faithful(r)' /\ ~Carries(r)
    BY <2>1, <1>0 DEF TypeOK, Faithful, Carries
  <2>3. \A q \in Request \ {r} : handler'[q] = handler[q]
    BY <2>1, <1>0 DEF TypeOK
  <2>4. ShownIsStored'
    BY <2>1 DEF ClaimInv, ShownIsStored, Stored
  <2>5. \A n \in transport' : Covered(n)'
    BY <1>4 DEF ClaimInv, Covered, DropTransportDuplicate, memory
  <2> QED BY <1>0, <2>1, <2>2, <2>3, <2>4, <2>5, QuietStep
<1>5. ASSUME NEW r \in Request, NEW m \in Message, RejectUndecodable(r, m)
      PROVE  ClaimInv'
  <2>1. /\ handler' = [handler EXCEPT ![r] = [pc |-> "done"]]
        /\ handler[r].pc \notin {"raw", "event"}
        /\ event' = event /\ raw' = raw /\ shown' = shown /\ canonical' = canonical
    BY <1>5 DEF RejectUndecodable, Arrives, Answer, tables, memory
  <2>2. Faithful(r)' /\ ~Carries(r)
    BY <2>1, <1>0 DEF TypeOK, Faithful, Carries
  <2>3. \A q \in Request \ {r} : handler'[q] = handler[q]
    BY <2>1, <1>0 DEF TypeOK
  <2>4. ShownIsStored'
    BY <2>1 DEF ClaimInv, ShownIsStored, Stored
  <2>5. \A n \in transport' : Covered(n)'
    BY <1>5 DEF ClaimInv, Covered, RejectUndecodable
  <2> QED BY <1>0, <2>1, <2>2, <2>3, <2>4, <2>5, QuietStep
<1>6. ASSUME NEW r \in Request, NEW m \in Message, DropCanonicalDuplicate(r, m)
      PROVE  ClaimInv'
  <2>1. /\ handler' = [handler EXCEPT ![r] = [pc |-> "done"]]
        /\ handler[r].pc \notin {"raw", "event"}
        /\ event' = event /\ raw' = raw /\ shown' = shown /\ canonical' = canonical
    BY <1>6 DEF DropCanonicalDuplicate, Arrives, Answer, tables, memory
  <2>2. Faithful(r)' /\ ~Carries(r)
    BY <2>1, <1>0 DEF TypeOK, Faithful, Carries
  <2>3. \A q \in Request \ {r} : handler'[q] = handler[q]
    BY <2>1, <1>0 DEF TypeOK
  <2>4. ShownIsStored'
    BY <2>1 DEF ClaimInv, ShownIsStored, Stored
  <2>5. \A n \in transport' : Covered(n)'
    BY <1>6 DEF ClaimInv, Covered, DropCanonicalDuplicate, Claimed
  <2> QED BY <1>0, <2>1, <2>2, <2>3, <2>4, <2>5, QuietStep
<1>7. ASSUME NEW r \in Request, NEW m \in Message, Accept(r, m)
      PROVE  ClaimInv'
  <2>1. /\ handler[r].pc = "new"
        /\ event' = event /\ raw' = raw /\ shown' = shown
        /\ canonical' = canonical \cup {Key(m)}
        /\ \A q \in Request \ {r} : handler'[q] = handler[q]
        /\ handler'[r] = [pc |-> "raw", msg |-> m, event |-> r, fresh |-> TRUE,
                          findings |-> Findings(m)]
    BY <1>7, <1>0 DEF Accept, Arrives, tables, TypeOK
  <2>2. Faithful(r)' /\ ~Carries(r) /\ Carries(r)' /\ handler'[r].msg = m
    BY <2>1 DEF ClaimInv, Faithful, Carries
  <2>3. \A k \in canonical' \ canonical : Held(k)'
    BY <2>1, <2>2 DEF Held
  <2>4. \A n \in transport' : Covered(n)'
    BY <1>7 DEF ClaimInv, Covered, Accept
  <2>5. ShownIsStored'
    BY <2>1 DEF ClaimInv, ShownIsStored, Stored
  <2> QED BY <1>0, <2>1, <2>2, <2>3, <2>4, <2>5, QuietStep
<1>8. ASSUME NEW r \in Request, SaveRaw(r)
      PROVE  ClaimInv'
  <2>1. handler[r] \in HandlerState /\ handler[r].pc = "raw"
    BY <1>8, <1>0 DEF TypeOK, SaveRaw
  <2>2. /\ event' = event /\ raw \subseteq raw' /\ shown' = shown
        /\ canonical' = canonical /\ transport' = transport
        /\ deadLetters' = deadLetters
        /\ \A q \in Request \ {r} : handler'[q] = handler[q]
        /\ handler'[r] = [handler[r] EXCEPT !.pc = "event"]
    BY <1>8, <1>0 DEF SaveRaw, Goto, memory, TypeOK
  <2>3. /\ handler'[r].pc = "event" /\ handler'[r].msg = handler[r].msg
        /\ handler'[r].event = handler[r].event
        /\ handler'[r].fresh = handler[r].fresh
    BY <2>1, <2>2, HandlerShape DEF Storing
  <2>4. Carries(r) /\ Carries(r)' /\ Faithful(r)'
    BY <2>1, <2>2, <2>3 DEF ClaimInv, Faithful, Carries
  <2>5. ShownIsStored'
    BY <2>2 DEF ClaimInv, ShownIsStored, Stored
  <2>6. \A m \in transport' : Covered(m)'
    BY <2>2 DEF ClaimInv, Covered
  <2> QED BY <1>0, <2>2, <2>3, <2>4, <2>5, <2>6, QuietStep
<1>9. ASSUME NEW r \in Request, SaveEvent(r)
      PROVE  ClaimInv'
  <2> DEFINE h == handler[r]
  <2>1. h \in HandlerState /\ h.pc = "event"
    BY <1>9, <1>0 DEF TypeOK, SaveEvent
  <2>2. h.msg \in Message /\ h.event \in Request /\ h.fresh \in BOOLEAN
    BY <2>1, HandlerShape DEF Storing
  <2>3. /\ h.event \in raw
        /\ event' = [event EXCEPT ![h.event] = h.msg]
        /\ raw' = raw /\ shown' = shown
        /\ canonical' = canonical /\ transport' = transport
        /\ deadLetters' = deadLetters
        /\ \A q \in Request \ {r} : handler'[q] = handler[q]
        /\ handler'[r] = [h EXCEPT !.pc = "device"]
    BY <1>9, <1>0 DEF SaveEvent, Goto, memory, TypeOK
  <2>4. /\ handler'[r].pc = "device" /\ handler'[r].msg = h.msg
        /\ handler'[r].event = h.event
    BY <2>1, <2>3, HandlerShape DEF Storing
  <2>5. event \in [Request -> Message \cup {None}] /\ None \notin Message
    BY <1>0, MessageAssumption DEF TypeOK
  <2>6. \/ Carries(r) /\ h.event = r /\ event[r] = None
        \/ ~Carries(r) /\ event[h.event] = h.msg
    BY <2>1, <2>2 DEF ClaimInv, Faithful, Carries
  <2>7. \A s \in Request : event[s] # None => event'[s] = event[s]
    BY <2>2, <2>3, <2>5, <2>6
  <2>8. \A q \in Request \ {r} : event[q] = None => event'[q] = None
    BY <2>2, <2>3, <2>5, <2>6
  <2>9. event'[h.event] = h.msg
    BY <2>2, <2>3, <2>5
  <2>10. ASSUME NEW q \in Request PROVE Faithful(q)'
    <3>1. CASE q = r
      BY <3>1, <2>4, <2>9 DEF Faithful, Carries
    <3>2. CASE q # r
      <4>1. handler[q] \in HandlerState
        BY <1>0 DEF TypeOK
      <4>2. handler'[q] = handler[q]
        BY <3>2, <2>3
      <4>3. handler[q].pc \in {"event", "device", "site", "branch", "rollup",
                               "downstream"} =>
               handler[q].event \in Request /\ handler[q].msg \in Message
        BY <4>1, HandlerShape DEF Storing
      <4>4. Faithful(q)
        BY DEF ClaimInv
      <4> QED BY <3>2, <4>2, <4>3, <4>4, <2>5, <2>7, <2>8 DEF Faithful, Carries
    <3> QED BY <3>1, <3>2
  <2>11. ASSUME NEW q \in Request, Carries(q)
         PROVE  \/ Carries(q)' /\ handler'[q].msg = handler[q].msg
                \/ event'[q] = handler[q].msg
    <3>1. CASE q = r
      BY <3>1, <2>11, <2>6, <2>9
    <3>2. CASE q # r
      BY <3>2, <2>3, <2>11 DEF Carries
    <3> QED BY <3>1, <3>2
  <2>12. \A k \in canonical' : Held(k)'
    BY <1>0, <2>3, <2>7, <2>11, HeldKept DEF ClaimInv
  <2>13. ShownIsStored'
    <3>1. Stored' = Stored \cup {h.event}
      BY <2>2, <2>3, <2>5, <2>7 DEF Stored
    <3> QED BY <3>1, <2>3 DEF ClaimInv, ShownIsStored
  <2>14. \A m \in transport' : Covered(m)'
    BY <2>3 DEF ClaimInv, Covered
  <2> QED BY <1>0, <2>10, <2>12, <2>13, <2>14 DEF ClaimInv
<1>10. ASSUME NEW r \in Request, Project(r)
       PROVE  ClaimInv'
  <2> DEFINE h == handler[r]
  <2>1. h \in HandlerState /\ h.pc \in View
    BY <1>10, <1>0 DEF TypeOK, Project
  <2>2. /\ h.msg \in Message /\ h.event \in Request
        /\ event[h.event] = h.msg /\ ~Carries(r)
        /\ h = [pc |-> h.pc, msg |-> h.msg, event |-> h.event,
                fresh |-> h.fresh, findings |-> h.findings]
    BY <2>1, HandlerShape DEF Storing, View, ClaimInv, Faithful, Carries
  <2>3. /\ event' = event /\ raw' = raw
        /\ shown' = [shown EXCEPT ![h.pc] = h.event]
        /\ canonical' = canonical /\ transport' = transport
        /\ deadLetters' = deadLetters
    BY <1>10 DEF Project, memory
  <2>4. /\ \A q \in Request \ {r} : handler'[q] = handler[q]
        /\ \/ handler'[r].pc = "done"
           \/ /\ handler'[r].pc \in {"site", "branch", "downstream", "rollup"}
              /\ handler'[r].event = h.event /\ handler'[r].msg = h.msg
    <3>1. CASE h.pc # "branch" /\ Goto(r, NextView[h.pc])
      <4>1. NextView[h.pc] \in {"site", "branch"}
        BY <2>1, <3>1 DEF NextView, View
      <4>2. handler' = [handler EXCEPT ![r] = [h EXCEPT !.pc = NextView[h.pc]]]
        BY <3>1 DEF Goto
      <4> QED BY <4>1, <4>2, <2>2, <1>0 DEF TypeOK
    <3>2. CASE Answer(r)
      BY <3>2, <1>0 DEF Answer, TypeOK
    <3>3. CASE Goto(r, "downstream")
      <4>1. handler' = [handler EXCEPT ![r] = [h EXCEPT !.pc = "downstream"]]
        BY <3>3 DEF Goto
      <4> QED BY <4>1, <2>2, <1>0 DEF TypeOK
    <3>4. CASE handler' = [handler EXCEPT ![r] =
                [pc |-> "rollup", msg |-> h.msg, event |-> h.event, fresh |-> TRUE,
                 findings |-> h.findings, next |-> 1]]
      BY <3>4, <1>0 DEF TypeOK
    <3> QED BY <1>10, <3>1, <3>2, <3>3, <3>4 DEF Project
  <2>5. Faithful(r)'
    BY <2>2, <2>3, <2>4 DEF Faithful, Carries
  <2>6. ShownIsStored'
    <3>1. h.event \in Stored
      BY <2>2, MessageAssumption DEF Stored
    <3>2. shown \in [View -> Request \cup {None}]
      BY <1>0 DEF TypeOK
    <3>3. Stored' = Stored
      BY <2>3 DEF Stored
    <3> QED BY <2>1, <2>3, <3>1, <3>2, <3>3 DEF ClaimInv, ShownIsStored
  <2>7. \A m \in transport' : Covered(m)'
    BY <2>3 DEF ClaimInv, Covered
  <2> QED BY <1>0, <2>2, <2>3, <2>4, <2>5, <2>6, <2>7, QuietStep
<1>11. ASSUME NEW r \in Request, UpsertRollup(r)
       PROVE  ClaimInv'
  <2> DEFINE h == handler[r]
  <2>1. h \in HandlerState /\ h.pc = "rollup"
    BY <1>11, <1>0 DEF TypeOK, UpsertRollup
  <2>2. /\ event[h.event] = h.msg /\ ~Carries(r)
        /\ h = [pc |-> "rollup", msg |-> h.msg, event |-> h.event,
                fresh |-> TRUE, findings |-> h.findings, next |-> h.next]
    BY <2>1, HandlerShape DEF ClaimInv, Faithful, Carries
  <2>3. /\ event' = event /\ raw' = raw /\ shown' = shown
        /\ canonical' = canonical /\ transport' = transport
        /\ deadLetters' = deadLetters
    BY <1>11 DEF UpsertRollup, memory
  <2>4. /\ \A q \in Request \ {r} : handler'[q] = handler[q]
        /\ handler'[r].pc \in {"rollup", "downstream"}
        /\ handler'[r].event = h.event /\ handler'[r].msg = h.msg
    <3>1. CASE handler' = [handler EXCEPT ![r] = [h EXCEPT !.next = @ + 1]]
      <4> DEFINE k == h.next + 1
      <4>1. handler' = [handler EXCEPT ![r] = [h EXCEPT !.next = k]]
        BY <3>1
      <4> HIDE DEF k
      <4> QED BY <4>1, <2>2, <1>0 DEF TypeOK
    <3>2. CASE handler' = [handler EXCEPT ![r] =
                [pc |-> "downstream", msg |-> h.msg, event |-> h.event,
                 fresh |-> TRUE, findings |-> h.findings]]
      BY <3>2, <1>0 DEF TypeOK
    <3> QED BY <1>11, <3>1, <3>2 DEF UpsertRollup
  <2>5. Faithful(r)'
    BY <2>2, <2>3, <2>4 DEF Faithful, Carries
  <2>6. ShownIsStored'
    BY <2>3 DEF ClaimInv, ShownIsStored, Stored
  <2>7. \A m \in transport' : Covered(m)'
    BY <2>3 DEF ClaimInv, Covered
  <2> QED BY <1>0, <2>2, <2>3, <2>4, <2>5, <2>6, <2>7, QuietStep
<1>12. ASSUME NEW r \in Request, Downstream(r)
      PROVE  ClaimInv'
  <2>1. /\ handler' = [handler EXCEPT ![r] = [pc |-> "done"]]
        /\ handler[r].pc \notin {"raw", "event"}
        /\ event' = event /\ raw' = raw /\ shown' = shown /\ canonical' = canonical
    BY <1>12 DEF Downstream, Answer, tables, memory
  <2>2. Faithful(r)' /\ ~Carries(r)
    BY <2>1, <1>0 DEF TypeOK, Faithful, Carries
  <2>3. \A q \in Request \ {r} : handler'[q] = handler[q]
    BY <2>1, <1>0 DEF TypeOK
  <2>4. ShownIsStored'
    BY <2>1 DEF ClaimInv, ShownIsStored, Stored
  <2>5. \A n \in transport' : Covered(n)'
    BY <1>12 DEF ClaimInv, Covered, Downstream, memory
  <2> QED BY <1>0, <2>1, <2>2, <2>3, <2>4, <2>5, QuietStep
<1>13. ASSUME NEW r \in Request, NEW e \in Request, Reevaluate(r, e)
       PROVE  ClaimInv'
  <2>1. /\ handler[r].pc = "new"
        /\ event' = event /\ raw' = raw /\ shown' = shown
        /\ canonical' = canonical /\ transport' = transport
        /\ deadLetters' = deadLetters
        /\ \A q \in Request \ {r} : handler'[q] = handler[q]
        /\ handler'[r] = [pc |-> "event", msg |-> event[e], event |-> e,
                          fresh |-> FALSE, findings |-> {}]
    BY <1>13, <1>0 DEF Reevaluate, Arrives, tables, memory, TypeOK
  <2>2. Faithful(r)' /\ ~Carries(r)
    BY <2>1 DEF Faithful, Carries
  <2>3. ShownIsStored'
    BY <2>1 DEF ClaimInv, ShownIsStored, Stored
  <2>4. \A m \in transport' : Covered(m)'
    BY <2>1 DEF ClaimInv, Covered
  <2> QED BY <1>0, <2>1, <2>2, <2>3, <2>4, QuietStep
<1> QED BY <1>1, <1>2, <1>3, <1>4, <1>5, <1>6, <1>7, <1>8, <1>9, <1>10, <1>11,
           <1>12, <1>13 DEF Next, Receive, Store

LEMMA ClaimInvAlways == Spec => []ClaimInv
<1>1. ClaimInv /\ [Next]_vars => ClaimInv'
  BY ClaimStep
<1> QED BY <1>1, InitClaimInv, PTL DEF Spec

\* Whatever is answered as a duplicate has been stored, is being stored or is
\* in a dead letter, however requests overlap and whenever the process ends.
THEOREM ClaimsHold == Spec => []ClaimedIsStored
BY ClaimInvAlways, ClaimInvSuffices, PTL

\* The events the state rows show, and the raw payloads behind all events, are
\* in their tables.
THEOREM ShownHolds == Spec => []ShownIsStored
<1>1. ClaimInv => ShownIsStored
  BY DEF ClaimInv
<1> QED BY <1>1, ClaimInvAlways, PTL

-----------------------------------------------------------------------------
(***************************************************************************)
(* The findings of a message are about all messages accepted before it:    *)
(* the one record in memory holds the latest number and time of them all.  *)
(***************************************************************************)
\* The record is an upper bound of what was accepted, and one of them has it.
Latest ==
    /\ \A n \in accepted : ordering.time # None /\ n.time <= ordering.time
    /\ ordering.time # None => \E n \in accepted : n.time = ordering.time
    /\ \A n \in accepted : n.seq # None => ordering.seq # None /\ n.seq <= ordering.seq
    /\ ordering.seq # None => \E n \in accepted : n.seq = ordering.seq

\* The later of two is one of the two and not before either.
LEMMA LaterBounds ==
    ASSUME NEW old \in Nat \cup {None}, NEW new \in Nat \cup {None}
    PROVE  /\ Later(old, new) \in {old, new}
           /\ old # None => Later(old, new) # None /\ old <= Later(old, new)
           /\ new # None => Later(old, new) # None /\ new <= Later(old, new)
BY MessageAssumption DEF Later

LEMMA LatestStep == TypeOK /\ Latest /\ [Next]_vars => Latest'
<1> SUFFICES ASSUME TypeOK, Latest, [Next]_vars PROVE Latest'
  OBVIOUS
<1>1. CASE UNCHANGED <<accepted, ordering>>
  BY <1>1 DEF Latest
<1>2. CASE Restart
  <2>1. accepted' = {} /\ ordering'.seq = None /\ ordering'.time = None
    BY <1>2 DEF Restart, Unordered
  <2> QED BY <2>1 DEF Latest
<1>3. ASSUME NEW r \in Request, NEW m \in Message, Accept(r, m)
      PROVE  Latest'
  <2>1. /\ accepted' = accepted \cup {m}
        /\ ordering'.seq = Later(ordering.seq, m.seq)
        /\ ordering'.time = Later(ordering.time, m.time)
    BY <1>3 DEF Accept, OrderingWith
  <2>2. /\ ordering.seq \in Nat \cup {None} /\ ordering.time \in Nat \cup {None}
        /\ accepted \subseteq Message
    BY DEF TypeOK
  <2>3. /\ m.time \in Nat /\ m.time # None /\ m.seq \in Nat \cup {None}
        /\ \A n \in accepted : n.time \in Nat /\ n.seq \in Nat \cup {None}
    BY <2>2, MessageAssumption
  <2>4. /\ ordering'.time \in {ordering.time, m.time}
        /\ ordering.time # None => ordering'.time # None /\ ordering.time <= ordering'.time
        /\ ordering'.time # None /\ m.time <= ordering'.time
    BY <2>1, <2>2, <2>3, LaterBounds
  <2>5. /\ ordering'.seq \in {ordering.seq, m.seq}
        /\ ordering.seq # None => ordering'.seq # None /\ ordering.seq <= ordering'.seq
        /\ m.seq # None => ordering'.seq # None /\ m.seq <= ordering'.seq
    BY <2>1, <2>2, <2>3, LaterBounds
  <2>6. \A n \in accepted' : ordering'.time # None /\ n.time <= ordering'.time
    BY <2>1, <2>2, <2>3, <2>4, MessageAssumption DEF Latest
  <2>7. ordering'.time # None => \E n \in accepted' : n.time = ordering'.time
    BY <2>1, <2>4 DEF Latest
  <2>8. \A n \in accepted' : n.seq # None => ordering'.seq # None /\ n.seq <= ordering'.seq
    BY <2>1, <2>2, <2>3, <2>5, MessageAssumption DEF Latest
  <2>9. ordering'.seq # None => \E n \in accepted' : n.seq = ordering'.seq
    BY <2>1, <2>5 DEF Latest
  <2> QED BY <2>6, <2>7, <2>8, <2>9 DEF Latest
<1> QED
  BY <1>1, <1>2, <1>3
  DEF Next, Receive, Store, RejectSource, DropTransportDuplicate, RejectUndecodable,
      DropCanonicalDuplicate, Reevaluate, SaveRaw, SaveEvent, Project, UpsertRollup,
      Downstream, memory, vars

\* A request starts to store a message only when it accepts it.
LEMMA OnlyAcceptStores ==
    ASSUME TypeOK, Next, NEW r \in Request, handler[r].pc = "new", handler'[r].pc = "raw"
    PROVE  \E m \in Message : Accept(r, m) /\ handler'[r].msg = m
                              /\ handler'[r].findings = Findings(m)
<1>0. handler \in [Request -> HandlerState]
  BY DEF TypeOK
<1>1. ~Restart
  BY <1>0 DEF Restart, ProcessEnds
<1>2. PICK q \in Request : Receive(q) \/ Store(q)
  BY <1>1 DEF Next
<1>3. q = r
  BY <1>0, <1>2
  DEF Receive, Store, RejectSource, DropTransportDuplicate, RejectUndecodable,
      DropCanonicalDuplicate, Accept, Reevaluate, SaveRaw, SaveEvent, Project, UpsertRollup,
      Downstream, Answer, Goto
<1>4. ~Store(r)
  BY DEF Store, SaveRaw, SaveEvent, Project, UpsertRollup, Downstream, View
<1>5. ~(\E e \in Request : Reevaluate(r, e))
  BY <1>0 DEF Reevaluate
<1>6. \A m \in Message : ~ \/ RejectSource(r, m) \/ DropTransportDuplicate(r, m)
                           \/ RejectUndecodable(r, m) \/ DropCanonicalDuplicate(r, m)
  BY <1>0 DEF RejectSource, DropTransportDuplicate, RejectUndecodable,
              DropCanonicalDuplicate, Answer
<1>7. PICK m \in Message : Accept(r, m)
  BY <1>2, <1>3, <1>4, <1>5, <1>6 DEF Receive
<1>8. handler'[r].msg = m /\ handler'[r].findings = Findings(m)
  BY <1>0, <1>7 DEF Accept
<1> QED BY <1>7, <1>8

\* What is found about a message that arrives, compared with the latest values.
LEMMA FindingsView ==
    ASSUME TypeOK, Latest, NEW m \in Message
    PROVE  LET numbered == {n \in accepted : n.seq # None} IN
           /\ "late_arrival" \in Findings(m) <=> \E n \in accepted : n.time > m.time
           /\ m.seq # None =>
                /\ "out_of_order" \in Findings(m) <=> \E n \in numbered : n.seq > m.seq
                /\ "sequence_gap" \in Findings(m)
                      <=> numbered # {} /\ \A n \in numbered : n.seq + 1 < m.seq
<1> DEFINE numbered == {n \in accepted : n.seq # None}
<1>1. /\ ordering.seq \in Nat \cup {None} /\ ordering.time \in Nat \cup {None}
      /\ accepted \subseteq Message
  BY DEF TypeOK
<1>2. /\ m.time \in Nat /\ m.seq \in Nat \cup {None}
      /\ \A n \in accepted : n.time \in Nat /\ n.seq \in Nat \cup {None}
  BY <1>1, MessageAssumption
<1>3. /\ "late_arrival" \in Findings(m) <=> ordering.time # None /\ m.time < ordering.time
      /\ m.seq # None =>
           /\ "out_of_order" \in Findings(m) <=> ordering.seq # None /\ m.seq < ordering.seq
           /\ "sequence_gap" \in Findings(m) <=> ordering.seq # None /\ m.seq > ordering.seq + 1
  BY DEF Findings
<1>4. ordering.time # None /\ m.time < ordering.time <=> \E n \in accepted : n.time > m.time
  BY <1>1, <1>2 DEF Latest
<1>5. ASSUME m.seq # None
      PROVE  /\ ordering.seq # None /\ m.seq < ordering.seq <=> \E n \in numbered : n.seq > m.seq
             /\ ordering.seq # None /\ m.seq > ordering.seq + 1
                   <=> numbered # {} /\ \A n \in numbered : n.seq + 1 < m.seq
  <2>1. \A n \in numbered : n.seq \in Nat /\ ordering.seq \in Nat /\ n.seq <= ordering.seq
    BY <1>1, <1>2 DEF Latest
  <2>2. ordering.seq # None => ordering.seq \in Nat /\ \E n \in numbered : n.seq = ordering.seq
    BY <1>1 DEF Latest
  <2>3. m.seq \in Nat
    BY <1>2, <1>5
  <2> HIDE DEF numbered
  <2>4. ordering.seq # None /\ m.seq < ordering.seq <=> \E n \in numbered : n.seq > m.seq
    <3>1. ASSUME ordering.seq # None, m.seq < ordering.seq
          PROVE  \E n \in numbered : n.seq > m.seq
      BY <2>2, <2>3, <3>1
    <3>2. ASSUME NEW n \in numbered, n.seq > m.seq
          PROVE  ordering.seq # None /\ m.seq < ordering.seq
      BY <2>1, <2>3, <3>2, MessageAssumption
    <3> QED BY <3>1, <3>2
  <2>5. ordering.seq # None /\ m.seq > ordering.seq + 1
           <=> numbered # {} /\ \A n \in numbered : n.seq + 1 < m.seq
    <3>1. ASSUME ordering.seq # None, m.seq > ordering.seq + 1
          PROVE  numbered # {} /\ \A n \in numbered : n.seq + 1 < m.seq
      BY <2>1, <2>2, <2>3, <3>1
    <3>2. ASSUME NEW n \in numbered, \A k \in numbered : k.seq + 1 < m.seq
          PROVE  ordering.seq # None /\ m.seq > ordering.seq + 1
      <4>1. ordering.seq # None
        BY <2>1, MessageAssumption
      <4> QED BY <2>2, <2>3, <3>2, <4>1
    <3> QED BY <3>1, <3>2
  <2> QED BY <2>4, <2>5
<1> QED BY <1>3, <1>4, <1>5

\* late_arrival, out_of_order and sequence_gap are said of a message exactly when
\* they are true of all the messages accepted before it since the process
\* started, although only the latest number and time are kept of them.
THEOREM FindingsHold == Spec => FindingsAreComplete
<1> DEFINE Complete == \A r \in Request : handler[r].pc = "new" /\ handler'[r].pc = "raw" =>
         LET m == handler'[r].msg
             numbered == {n \in accepted : n.seq # None}
         IN
         /\ "late_arrival" \in handler'[r].findings
                <=> \E n \in accepted : n.time > m.time
         /\ m.seq # None =>
              /\ "out_of_order" \in handler'[r].findings
                    <=> \E n \in numbered : n.seq > m.seq
              /\ "sequence_gap" \in handler'[r].findings
                    <=> numbered # {} /\ \A n \in numbered : n.seq + 1 < m.seq
<1>1. Init => Latest
  BY DEF Init, Latest, Unordered
<1>2. Spec => []Latest
  BY <1>1, LatestStep, TypeCorrect, PTL DEF Spec
<1>3. TypeOK /\ Latest /\ [Next]_vars => [Complete]_vars
  BY OnlyAcceptStores, FindingsView
<1>4. Spec => [][Complete]_vars
  BY <1>2, <1>3, TypeCorrect, PTL DEF Spec
<1> QED BY <1>4 DEF FindingsAreComplete

-----------------------------------------------------------------------------
(***************************************************************************)
(* The samples of a bucket: each belongs to a stored event.                *)
(***************************************************************************)
\* The request has still to count its event at this granularity.
Waiting(r, g) ==
    LET h == handler[r] IN
    \/ h.pc \in {"raw", "event", "device", "site", "branch"} /\ h.fresh = TRUE
    \/ h.pc = "rollup" /\ \E n \in h.next .. 4 : Granularities[n] = g

\* The events that have been counted in the bucket, or whose request was lost.
Counted(g, b) == {r \in Request : /\ event[r] # None
                                  /\ event[r].power
                                  /\ BucketStart(event[r].time, g) = b
                                  /\ ~Waiting(r, g)}

\* A request that counts its event stores it under its own name, and the event
\* measures power.
Own(r) ==
    LET h == handler[r] IN
    /\ h.pc \in {"device", "site", "branch"} /\ h.fresh = TRUE => h.event = r
    /\ h.pc = "rollup" => h.event = r /\ h.msg.power

SamplesInv ==
    /\ \A r \in Request : Own(r)
    /\ \A g \in Granularity : \A b \in Bucket :
          /\ rollup[g][b] <= Cardinality(Counted(g, b))
          /\ restarts = 0 => rollup[g][b] = Cardinality(Counted(g, b))

LEMMA CountedFinite ==
    ASSUME NEW g, NEW b
    PROVE  IsFiniteSet(Counted(g, b)) /\ Cardinality(Counted(g, b)) \in Nat
<1>1. Counted(g, b) \subseteq Request
  BY DEF Counted
<1> QED BY <1>1, RequestAssumption, FS_Subset, FS_CardinalityType

\* A step that stores and counts nothing, of a request that waits to count what
\* it waited to count before.
LEMMA CountedKept ==
    ASSUME TypeOK, SamplesInv, NEW r \in Request, Own(r)',
           UNCHANGED <<event, rollup, restarts>>,
           \A q \in Request \ {r} : handler'[q] = handler[q],
           event[r] # None /\ event[r].power =>
              \A g \in Granularity : Waiting(r, g)' <=> Waiting(r, g)
    PROVE  SamplesInv'
<1>1. ASSUME NEW g \in Granularity, NEW b
      PROVE  Counted(g, b)' = Counted(g, b)
  <2>1. ASSUME NEW q \in Request, event[q] # None, event[q].power
        PROVE  Waiting(q, g)' <=> Waiting(q, g)
    BY <2>1 DEF Waiting
  <2> QED BY <2>1 DEF Counted
<1>2. \A q \in Request : Own(q)'
  BY DEF SamplesInv, Own
<1> QED BY <1>1, <1>2 DEF SamplesInv

\* What a request does that moves from one statement to the next one.
LEMMA MovedOn ==
    ASSUME TypeOK, NEW r \in Request, handler[r].pc \in Storing, NEW pc \in Storing,
           Goto(r, pc)
    PROVE  /\ \A q \in Request \ {r} : handler'[q] = handler[q]
           /\ handler'[r].pc = pc /\ handler'[r].msg = handler[r].msg
           /\ handler'[r].event = handler[r].event
           /\ handler'[r].fresh = handler[r].fresh
<1>1. handler[r] \in HandlerState /\ handler \in [Request -> HandlerState]
  BY DEF TypeOK
<1>2. handler[r] = [pc |-> handler[r].pc, msg |-> handler[r].msg,
                    event |-> handler[r].event, fresh |-> handler[r].fresh,
                    findings |-> handler[r].findings]
  BY <1>1, HandlerShape
<1>3. handler' = [handler EXCEPT ![r] = [handler[r] EXCEPT !.pc = pc]]
  BY DEF Goto
<1>4. handler'[r] = [handler[r] EXCEPT !.pc = pc]
      /\ \A q \in Request \ {r} : handler'[q] = handler[q]
  BY <1>1, <1>3
<1> QED BY <1>2, <1>4

\* A request that is answered had nothing to count.
LEMMA AnsweredCounts ==
    ASSUME TypeOK, SamplesInv, NEW r \in Request, Answer(r),
           UNCHANGED <<event, rollup, restarts>>,
           \/ handler[r].pc \in {"new", "downstream"}
           \/ handler[r].pc = "branch" /\ ~handler[r].fresh
    PROVE  SamplesInv'
<1>1. /\ handler'[r].pc = "done"
      /\ \A q \in Request \ {r} : handler'[q] = handler[q]
  BY DEF Answer, TypeOK
<1>2. \A g \in Granularity : ~Waiting(r, g) /\ ~Waiting(r, g)'
  BY <1>1 DEF Waiting
<1>3. Own(r)'
  BY <1>1 DEF Own
<1> QED BY <1>1, <1>2, <1>3, CountedKept

LEMMA SamplesInit == Init => SamplesInv
<1> SUFFICES ASSUME Init PROVE SamplesInv
  OBVIOUS
<1>1. \A r \in Request : Own(r)
  BY DEF Init, Own
<1>2. \A g, b : Counted(g, b) = {}
  BY DEF Init, Counted
<1>3. ASSUME NEW g \in Granularity, NEW b \in Bucket PROVE rollup[g][b] = 0
  BY DEF Init
<1> QED BY <1>1, <1>2, <1>3, FS_EmptySet DEF SamplesInv

\* An event joins the stored ones before its request counts it anywhere.
LEMMA SaveEventCounts ==
    ASSUME ClaimInv, SamplesInv, NEW r \in Request, SaveEvent(r)
    PROVE  SamplesInv'
<1> DEFINE h == handler[r]
<1>1. TypeOK /\ Faithful(r) /\ h \in HandlerState /\ h.pc = "event"
  BY DEF ClaimInv, TypeOK, SaveEvent
<1>2. h.msg \in Message /\ h.event \in Request /\ h.fresh \in BOOLEAN
  BY <1>1, HandlerShape DEF Storing
<1>3. /\ \A q \in Request \ {r} : handler'[q] = handler[q]
      /\ handler'[r].pc = "device" /\ handler'[r].msg = h.msg
      /\ handler'[r].event = h.event /\ handler'[r].fresh = h.fresh
  BY <1>1, MovedOn DEF SaveEvent, Storing
<1>4. /\ event' = [event EXCEPT ![h.event] = h.msg]
      /\ UNCHANGED <<rollup, restarts>>
  BY DEF SaveEvent
<1>5. event \in [Request -> Message \cup {None}]
  BY <1>1 DEF TypeOK
<1>6. CASE h.fresh = FALSE
  <2>1. event' = event
    BY <1>1, <1>2, <1>4, <1>5, <1>6 DEF Faithful
  <2>2. Own(r)' /\ \A g \in Granularity : ~Waiting(r, g) /\ ~Waiting(r, g)'
    BY <1>1, <1>3, <1>6 DEF Own, Waiting
  <2> QED BY <1>1, <1>3, <1>4, <2>1, <2>2, CountedKept
<1>7. CASE h.fresh = TRUE
  <2>1. h.event = r /\ event[r] = None
    BY <1>1, <1>7 DEF Faithful, Carries
  <2>2. \A q \in Request \ {r} : event'[q] = event[q]
    BY <1>4, <1>5, <2>1
  <2>3. \A q \in Request : Own(q)'
    BY <1>3, <1>7, <2>1 DEF SamplesInv, Own
  <2>4. ASSUME NEW g \in Granularity, NEW b PROVE Counted(g, b)' = Counted(g, b)
    <3>1. Waiting(r, g)'
      BY <1>3, <1>7 DEF Waiting
    <3>2. ASSUME NEW q \in Request \ {r} PROVE Waiting(q, g)' <=> Waiting(q, g)
      BY <1>3 DEF Waiting
    <3> QED BY <2>1, <2>2, <3>1, <3>2 DEF Counted
  <2> QED BY <1>4, <2>3, <2>4 DEF SamplesInv
<1> QED BY <1>2, <1>6, <1>7

LEMMA ProjectCounts ==
    ASSUME ClaimInv, SamplesInv, NEW r \in Request, Project(r)
    PROVE  SamplesInv'
<1> DEFINE h == handler[r]
<1>1. /\ TypeOK /\ Faithful(r) /\ Own(r) /\ h \in HandlerState
      /\ h.pc \in {"device", "site", "branch"}
  BY DEF ClaimInv, SamplesInv, TypeOK, Project, View
<1>2. /\ h.msg \in Message /\ h.event \in Request /\ h.fresh \in BOOLEAN
      /\ event[h.event] = h.msg
  BY <1>1, HandlerShape DEF Storing, Faithful
<1>3. UNCHANGED <<event, rollup, restarts>>
  BY DEF Project
<1>4. CASE h.pc # "branch" /\ Goto(r, NextView[h.pc])
  <2>1. NextView[h.pc] \in {"site", "branch"}
    BY <1>1, <1>4 DEF NextView
  <2>2. /\ \A q \in Request \ {r} : handler'[q] = handler[q]
        /\ handler'[r].pc \in {"site", "branch"}
        /\ handler'[r].event = h.event /\ handler'[r].fresh = h.fresh
    <3>1. NextView[h.pc] \in Storing /\ h.pc \in Storing
      BY <1>1, <2>1 DEF Storing
    <3> QED BY <1>1, <1>4, <2>1, <3>1, MovedOn
  <2>3. Own(r)' /\ \A g \in Granularity : Waiting(r, g)' <=> Waiting(r, g)
    BY <1>1, <2>2 DEF Own, Waiting
  <2> QED BY <1>1, <1>3, <2>2, <2>3, CountedKept
<1>5. CASE h.pc = "branch" /\ ~h.fresh /\ Answer(r)
  BY <1>1, <1>3, <1>5, AnsweredCounts
<1>6. CASE h.pc = "branch" /\ h.fresh /\ ~h.msg.power /\ Goto(r, "downstream")
  <2>1. /\ \A q \in Request \ {r} : handler'[q] = handler[q]
        /\ handler'[r].pc = "downstream"
    BY <1>1, <1>6, MovedOn DEF Storing
  <2>2. event[r] # None => ~event[r].power
    BY <1>1, <1>2, <1>6 DEF Own
  <2>3. Own(r)'
    BY <2>1 DEF Own
  <2> QED BY <1>1, <1>3, <2>1, <2>2, <2>3, CountedKept
<1>7. CASE /\ h.pc = "branch" /\ h.fresh /\ h.msg.power
           /\ handler' = [handler EXCEPT ![r] =
                [pc |-> "rollup", msg |-> h.msg, event |-> h.event, fresh |-> TRUE,
                 findings |-> h.findings, next |-> 1]]
  <2>1. /\ \A q \in Request \ {r} : handler'[q] = handler[q]
        /\ handler'[r].pc = "rollup" /\ handler'[r].next = 1
        /\ handler'[r].event = h.event /\ handler'[r].msg = h.msg
    BY <1>1, <1>7 DEF TypeOK
  <2>2. Own(r)'
    BY <1>1, <1>2, <1>7, <2>1 DEF Own
  <2>3. ASSUME NEW g \in Granularity PROVE Waiting(r, g) /\ Waiting(r, g)'
    <3>1. \E n \in 1 .. 4 : Granularities[n] = g
      BY DEF Granularities, Granularity
    <3>2. handler'[r].pc = "rollup" /\ \E n \in handler'[r].next .. 4 : Granularities[n] = g
      BY <2>1, <3>1
    <3> QED BY <1>2, <1>7, <3>2 DEF Waiting
  <2> QED BY <1>1, <1>3, <2>1, <2>2, <2>3, CountedKept
<1> QED BY <1>2, <1>4, <1>5, <1>6, <1>7 DEF Project

\* The granularities are counted one after the other.
LEMMA OneAfterTheOther ==
    /\ \A m, n \in 1 .. 4 : Granularities[m] = Granularities[n] => m = n
    /\ \A g \in Granularity, n \in 1 .. 4 :
          /\ (\E m \in n .. 4 : Granularities[m] = g)
                <=> \/ Granularities[n] = g
                    \/ \E m \in n + 1 .. 4 : Granularities[m] = g
          /\ Granularities[n] = g => ~ \E m \in n + 1 .. 4 : Granularities[m] = g
<1>1. \A m, n \in 1 .. 4 : Granularities[m] = Granularities[n] => m = n
  BY DEF Granularities
<1>2. ASSUME NEW g \in Granularity, NEW n \in 1 .. 4
      PROVE  (\E m \in n .. 4 : Granularities[m] = g)
                <=> \/ Granularities[n] = g
                    \/ \E m \in n + 1 .. 4 : Granularities[m] = g
  <2>1. \A m : m \in n .. 4 <=> m = n \/ m \in n + 1 .. 4
    OBVIOUS
  <2> QED BY <2>1
<1>3. ASSUME NEW g \in Granularity, NEW n \in 1 .. 4, Granularities[n] = g,
             NEW m \in n + 1 .. 4, Granularities[m] = g
      PROVE  FALSE
  <2>1. m \in 1 .. 4 /\ m # n
    OBVIOUS
  <2> QED BY <1>1, <1>3, <2>1
<1> QED BY <1>1, <1>2, <1>3

\* What the update of a rollup changes.
LEMMA UpsertView ==
    ASSUME TypeOK, NEW r \in Request, UpsertRollup(r)
    PROVE  LET h == handler[r]
               g == Granularities[h.next]
               b == BucketStart(h.msg.time, g)
           IN
           /\ h \in HandlerState /\ h.pc = "rollup" /\ h.next \in 1 .. 4
           /\ h.msg \in Message /\ h.event \in Request
           /\ g \in Granularity /\ b \in Bucket
           /\ \A f \in Granularity, c \in Bucket :
                 rollup'[f][c] = IF f = g /\ c = b THEN rollup[f][c] + 1 ELSE rollup[f][c]
           /\ rollup'[g] = [rollup[g] EXCEPT ![b] = rollup[g][b] + 1]
           /\ \A f \in Granularity \ {g} : rollup'[f] = rollup[f]
           /\ \A q \in Request \ {r} : handler'[q] = handler[q]
           /\ handler'[r].event = h.event /\ handler'[r].msg = h.msg
           /\ \/ h.next < 4 /\ handler'[r].pc = "rollup" /\ handler'[r].next = h.next + 1
              \/ h.next = 4 /\ handler'[r].pc = "downstream"
           /\ UNCHANGED <<event, restarts>>
<1> DEFINE h == handler[r]
           g == Granularities[h.next]
           b == BucketStart(h.msg.time, g)
<1>1. h \in HandlerState /\ h.pc = "rollup"
  BY DEF TypeOK, UpsertRollup
<1>2. /\ h.msg \in Message /\ h.event \in Request /\ h.next \in 1 .. 4
      /\ h = [pc |-> "rollup", msg |-> h.msg, event |-> h.event,
              fresh |-> TRUE, findings |-> h.findings, next |-> h.next]
  BY <1>1, HandlerShape
<1>3. g \in Granularity /\ b \in Bucket
  BY <1>2, BucketOfMessage
<1>4. rollup' = [rollup EXCEPT ![g] = [rollup[g] EXCEPT ![b] = rollup[g][b] + 1]]
  BY DEF UpsertRollup
<1>5. rollup \in [Granularity -> [Bucket -> Nat]]
  BY DEF TypeOK
<1>6. /\ rollup'[g] = [rollup[g] EXCEPT ![b] = rollup[g][b] + 1]
      /\ \A f \in Granularity \ {g} : rollup'[f] = rollup[f]
      /\ \A f \in Granularity, c \in Bucket :
            rollup'[f][c] = IF f = g /\ c = b THEN rollup[f][c] + 1 ELSE rollup[f][c]
  <2> HIDE DEF g, b
  <2> QED BY <1>3, <1>4, <1>5
<1>7. /\ \A q \in Request \ {r} : handler'[q] = handler[q]
      /\ handler'[r].event = h.event /\ handler'[r].msg = h.msg
      /\ \/ h.next < 4 /\ handler'[r].pc = "rollup" /\ handler'[r].next = h.next + 1
         \/ h.next = 4 /\ handler'[r].pc = "downstream"
  <2>1. handler \in [Request -> HandlerState]
    BY DEF TypeOK
  <2>2. CASE h.next < 4
    <3> DEFINE k == h.next + 1
    <3>1. handler' = [handler EXCEPT ![r] = [h EXCEPT !.next = k]]
      BY <2>2 DEF UpsertRollup
    <3>2. h.next < 4 /\ k = h.next + 1
      BY <2>2
    <3> HIDE DEF k
    <3> QED BY <1>2, <2>1, <3>1, <3>2
  <2>3. CASE h.next = 4
    <3>1. handler' = [handler EXCEPT ![r] =
            [pc |-> "downstream", msg |-> h.msg, event |-> h.event,
             fresh |-> TRUE, findings |-> h.findings]]
      BY <2>3 DEF UpsertRollup
    <3> QED BY <2>1, <2>3, <3>1
  <2> QED BY <1>2, <2>2, <2>3
<1> QED BY <1>1, <1>2, <1>3, <1>6, <1>7 DEF UpsertRollup

\* The event is counted in one bucket, where it was not before.
LEMMA UpsertCounts ==
    ASSUME ClaimInv, SamplesInv, NEW r \in Request, UpsertRollup(r)
    PROVE  SamplesInv'
<1> DEFINE h == handler[r]
<1>1. TypeOK /\ Faithful(r) /\ Own(r)
  BY DEF ClaimInv, SamplesInv
<1>2. PICK g \in Granularity, b \in Bucket :
      /\ g = Granularities[h.next] /\ b = BucketStart(h.msg.time, g)
      /\ h.pc = "rollup" /\ h.next \in 1 .. 4 /\ h.msg \in Message
      /\ \A f \in Granularity, c \in Bucket :
            rollup'[f][c] = IF f = g /\ c = b THEN rollup[f][c] + 1 ELSE rollup[f][c]
      /\ \A q \in Request \ {r} : handler'[q] = handler[q]
      /\ handler'[r].event = h.event /\ handler'[r].msg = h.msg
      /\ \/ h.next < 4 /\ handler'[r].pc = "rollup" /\ handler'[r].next = h.next + 1
         \/ h.next = 4 /\ handler'[r].pc = "downstream"
      /\ UNCHANGED <<event, restarts>>
  <2> DEFINE g == Granularities[h.next]
             b == BucketStart(h.msg.time, g)
  <2>1. /\ h.pc = "rollup" /\ h.next \in 1 .. 4 /\ h.msg \in Message
        /\ g \in Granularity /\ b \in Bucket
        /\ \A f \in Granularity, c \in Bucket :
              rollup'[f][c] = IF f = g /\ c = b THEN rollup[f][c] + 1 ELSE rollup[f][c]
        /\ \A q \in Request \ {r} : handler'[q] = handler[q]
        /\ handler'[r].event = h.event /\ handler'[r].msg = h.msg
        /\ \/ h.next < 4 /\ handler'[r].pc = "rollup" /\ handler'[r].next = h.next + 1
           \/ h.next = 4 /\ handler'[r].pc = "downstream"
        /\ UNCHANGED <<event, restarts>>
    BY <1>1, UpsertView
  <2> QED BY <2>1
<1>3. h.event = r /\ event[r] = h.msg /\ h.msg.power /\ event[r] # None
  BY <1>1, <1>2, MessageAssumption DEF Own, Faithful
<1>4. ASSUME NEW f \in Granularity
      PROVE  /\ Waiting(r, f) <=> f = g \/ Waiting(r, f)'
             /\ f = g => ~Waiting(r, f)'
  <2>1. Waiting(r, f) <=> \E n \in h.next .. 4 : Granularities[n] = f
    BY <1>2 DEF Waiting
  <2>2. Waiting(r, f)' <=> \E n \in h.next + 1 .. 4 : Granularities[n] = f
    <3>1. CASE h.next < 4
      BY <1>2, <3>1 DEF Waiting
    <3>2. CASE h.next = 4
      <4>1. ~ \E n \in h.next + 1 .. 4 : Granularities[n] = f
        BY <3>2
      <4> QED BY <1>2, <3>2, <4>1 DEF Waiting
    <3> QED BY <1>2, <3>1, <3>2
  <2> QED BY <1>2, <2>1, <2>2, OneAfterTheOther
<1>5. \A q \in Request : Own(q)'
  BY <1>2, <1>3 DEF SamplesInv, Own
<1>6. ASSUME NEW f \in Granularity, NEW c \in Bucket, ~(f = g /\ c = b)
      PROVE  Counted(f, c)' = Counted(f, c) /\ rollup'[f][c] = rollup[f][c]
  <2>1. ASSUME NEW q \in Request, q # r PROVE Waiting(q, f)' <=> Waiting(q, f)
    BY <1>2, <2>1 DEF Waiting
  <2>2. BucketStart(event[r].time, f) = c => (Waiting(r, f)' <=> Waiting(r, f))
    BY <1>2, <1>3, <1>4, <1>6
  <2> QED BY <1>2, <1>6, <2>1, <2>2 DEF Counted
<1>7. Counted(g, b)' = Counted(g, b) \cup {r} /\ r \notin Counted(g, b)
  <2>1. ASSUME NEW q \in Request, q # r PROVE Waiting(q, g)' <=> Waiting(q, g)
    BY <1>2, <2>1 DEF Waiting
  <2>2. Waiting(r, g) /\ ~Waiting(r, g)'
    BY <1>2, <1>4
  <2>3. BucketStart(event[r].time, g) = b
    BY <1>2, <1>3
  <2> QED BY <1>2, <1>3, <2>1, <2>2, <2>3 DEF Counted
<1>8. Cardinality(Counted(g, b)') = Cardinality(Counted(g, b)) + 1
  BY <1>7, CountedFinite, FS_AddElement
<1>9. rollup'[g][b] = rollup[g][b] + 1 /\ rollup[g][b] \in Nat
  BY <1>1, <1>2 DEF TypeOK
<1>10. /\ rollup'[g][b] <= Cardinality(Counted(g, b)')
       /\ restarts' = 0 => rollup'[g][b] = Cardinality(Counted(g, b)')
  BY <1>2, <1>8, <1>9, CountedFinite DEF SamplesInv
<1>11. ASSUME NEW f \in Granularity, NEW c \in Bucket
       PROVE  /\ rollup'[f][c] <= Cardinality(Counted(f, c)')
              /\ restarts' = 0 => rollup'[f][c] = Cardinality(Counted(f, c)')
  BY <1>2, <1>6, <1>10 DEF SamplesInv
<1> QED BY <1>5, <1>11 DEF SamplesInv

\* The requests that are lost with the process may have counted their events.
LEMMA RestartCounts ==
    ASSUME TypeOK, SamplesInv, Restart
    PROVE  SamplesInv'
<1>1. /\ UNCHANGED <<event, rollup>> /\ restarts' = restarts + 1 /\ restarts \in Nat
      /\ \A q \in Request : \/ handler'[q].pc = "lost"
                            \/ handler'[q].pc \in {"new", "done", "lost"}
  BY DEF Restart, ProcessEnds, tables, InFlight, TypeOK
<1>2. \A q \in Request : Own(q)'
  BY <1>1 DEF Own
<1>3. ASSUME NEW g \in Granularity, NEW b \in Bucket
      PROVE  rollup'[g][b] <= Cardinality(Counted(g, b)')
  <2>1. Counted(g, b) \subseteq Counted(g, b)'
    BY <1>1 DEF Counted, Waiting
  <2>2. Counted(g, b)' \subseteq Request
    BY DEF Counted
  <2>3. /\ Cardinality(Counted(g, b)) <= Cardinality(Counted(g, b)')
        /\ Cardinality(Counted(g, b)) \in Nat /\ Cardinality(Counted(g, b)') \in Nat
    BY <2>1, <2>2, RequestAssumption, FS_Subset, FS_CardinalityType
  <2>4. rollup[g][b] <= Cardinality(Counted(g, b)) /\ rollup[g][b] \in Nat
    BY DEF SamplesInv, TypeOK
  <2> QED BY <1>1, <2>3, <2>4
<1> QED BY <1>1, <1>2, <1>3 DEF SamplesInv

LEMMA SamplesStep == ClaimInv /\ SamplesInv /\ [Next]_vars => SamplesInv'
<1> SUFFICES ASSUME ClaimInv, SamplesInv, [Next]_vars PROVE SamplesInv'
  OBVIOUS
<1>0. TypeOK /\ handler \in [Request -> HandlerState]
  BY DEF ClaimInv, TypeOK
<1>1. CASE UNCHANGED vars
  BY <1>1 DEF vars, tables, SamplesInv, Own, Counted, Waiting
<1>2. CASE Restart
  BY <1>0, <1>2, RestartCounts
<1>3. ASSUME NEW r \in Request, NEW m \in Message,
             \/ RejectSource(r, m) \/ DropTransportDuplicate(r, m)
             \/ RejectUndecodable(r, m) \/ DropCanonicalDuplicate(r, m)
      PROVE  SamplesInv'
  <2>1. /\ Answer(r) /\ handler[r].pc = "new" /\ UNCHANGED <<event, rollup, restarts>>
    BY <1>3 DEF RejectSource, DropTransportDuplicate, RejectUndecodable,
                DropCanonicalDuplicate, Arrives, tables
  <2> QED BY <1>0, <2>1, AnsweredCounts
<1>4. ASSUME NEW r \in Request, NEW m \in Message, Accept(r, m) PROVE SamplesInv'
  <2>1. /\ handler[r].pc = "new" /\ UNCHANGED <<event, rollup, restarts>>
        /\ \A q \in Request \ {r} : handler'[q] = handler[q]
        /\ handler'[r].pc = "raw"
    BY <1>0, <1>4 DEF Accept, Arrives, tables
  <2>2. event[r] = None /\ Own(r)'
    BY <2>1 DEF ClaimInv, Faithful, Own
  <2> QED BY <1>0, <2>1, <2>2, CountedKept
<1>5. ASSUME NEW r \in Request, NEW e \in Request, Reevaluate(r, e) PROVE SamplesInv'
  <2>1. /\ handler[r].pc = "new" /\ UNCHANGED <<event, rollup, restarts>>
        /\ \A q \in Request \ {r} : handler'[q] = handler[q]
        /\ handler'[r].pc = "event"
    BY <1>0, <1>5 DEF Reevaluate, Arrives, tables
  <2>2. event[r] = None /\ Own(r)'
    BY <2>1 DEF ClaimInv, Faithful, Own
  <2> QED BY <1>0, <2>1, <2>2, CountedKept
<1>6. ASSUME NEW r \in Request, SaveRaw(r) PROVE SamplesInv'
  <2>1. handler[r].pc = "raw" /\ Goto(r, "event") /\ UNCHANGED <<event, rollup, restarts>>
    BY <1>6 DEF SaveRaw
  <2>2. /\ \A q \in Request \ {r} : handler'[q] = handler[q]
        /\ handler'[r].pc = "event" /\ handler'[r].fresh = handler[r].fresh
    BY <1>0, <2>1, MovedOn DEF Storing
  <2>3. Own(r)' /\ \A g \in Granularity : Waiting(r, g)' <=> Waiting(r, g)
    BY <2>1, <2>2 DEF Own, Waiting
  <2> QED BY <1>0, <2>1, <2>2, <2>3, CountedKept
<1>7. ASSUME NEW r \in Request, Downstream(r) PROVE SamplesInv'
  <2>1. handler[r].pc = "downstream" /\ Answer(r) /\ UNCHANGED <<event, rollup, restarts>>
    BY <1>7 DEF Downstream, tables
  <2> QED BY <1>0, <2>1, AnsweredCounts
<1> QED
  BY <1>1, <1>2, <1>3, <1>4, <1>5, <1>6, <1>7, SaveEventCounts, ProjectCounts, UpsertCounts
  DEF Next, Receive, Store

LEMMA SamplesAlways == Spec => []SamplesInv
BY SamplesInit, SamplesStep, ClaimInvAlways, PTL DEF Spec

\* A bucket counts no more samples than there are stored events with power in
\* it, whatever ends the process and however often an event is evaluated again.
THEOREM SamplesHold == Spec => []SamplesHaveEvents
<1>1. TypeOK /\ SamplesInv => SamplesHaveEvents
  <2> SUFFICES ASSUME TypeOK, SamplesInv, NEW g \in Granularity, NEW b \in BucketsOf(g)
               PROVE  rollup[g][b] <= Cardinality({r \in Stored :
                            event[r].power /\ BucketStart(event[r].time, g) = b})
    BY DEF SamplesHaveEvents
  <2> DEFINE S == {r \in Stored : event[r].power /\ BucketStart(event[r].time, g) = b}
  <2>1. b \in Bucket
    BY DEF Bucket
  <2>2. Counted(g, b) \subseteq S /\ S \subseteq Request
    BY DEF Counted, Stored
  <2>3. Cardinality(Counted(g, b)) <= Cardinality(S)
    BY <2>2, RequestAssumption, FS_Subset
  <2>4. Cardinality(S) \in Nat
    BY <2>2, RequestAssumption, FS_Subset, FS_CardinalityType
  <2>5. g \in Granularity
    OBVIOUS
  <2>6. rollup[g][b] <= Cardinality(Counted(g, b)) /\ rollup[g][b] \in Nat
    BY <2>1, <2>5 DEF SamplesInv, TypeOK
  <2> HIDE DEF S
  <2>7. rollup[g][b] <= Cardinality(S)
    BY <2>3, <2>4, <2>6, CountedFinite
  <2> QED BY <2>7 DEF S
<1> QED BY <1>1, SamplesAlways, TypeCorrect, PTL

-----------------------------------------------------------------------------
(***************************************************************************)
(* Every reading counts once: as long as the process lives, the messages   *)
(* accepted and the requests that store them correspond one to one.        *)
(***************************************************************************)
\* The message the request has stored, or accepted and will store.
Taken(r) == IF event[r] # None THEN event[r]
            ELSE IF Carries(r) THEN handler[r].msg ELSE None

TakenInv == restarts = 0 =>
    /\ \A n \in Message : n \in accepted <=> \E r \in Request : Taken(r) = n
    /\ \A r \in Request : Taken(r) # None => Key(Taken(r)) \in canonical
    /\ \A r, q \in Request : Taken(r) # None /\ Taken(q) # None
                               /\ Key(Taken(r)) = Key(Taken(q)) => r = q

\* A step in which no request takes a message or gives one up.
LEMMA TakenKept ==
    ASSUME TakenInv, UNCHANGED <<accepted, canonical, restarts>>,
           \A q \in Request : Taken(q)' = Taken(q)
    PROVE  TakenInv'
BY DEF TakenInv

\* A step of a request that stores nothing.
LEMMA NothingTaken ==
    ASSUME TakenInv, NEW r \in Request, UNCHANGED <<accepted, canonical, restarts, event>>,
           \A q \in Request \ {r} : handler'[q] = handler[q],
           \/ ~Carries(r) /\ ~Carries(r)'
           \/ Carries(r) /\ Carries(r)' /\ handler'[r].msg = handler[r].msg
    PROVE  TakenInv'
<1>1. ASSUME NEW q \in Request PROVE Taken(q)' = Taken(q)
  <2>1. CASE q = r
    BY <2>1 DEF Taken
  <2>2. CASE q # r
    BY <2>2 DEF Taken, Carries
  <2> QED BY <2>1, <2>2
<1> QED BY <1>1, TakenKept

\* The reading of a message that is accepted is none that was taken.
LEMMA AcceptTakes ==
    ASSUME ClaimInv, TakenInv, NEW r \in Request, NEW m \in Message, Accept(r, m)
    PROVE  TakenInv'
<1>1. handler \in [Request -> HandlerState] /\ accepted \subseteq Message
  BY DEF ClaimInv, TypeOK
<1>2. /\ handler[r].pc = "new" /\ Key(m) \notin canonical
      /\ canonical' = canonical \cup {Key(m)} /\ accepted' = accepted \cup {m}
      /\ UNCHANGED <<event, restarts>>
      /\ \A q \in Request \ {r} : handler'[q] = handler[q]
      /\ handler'[r] = [pc |-> "raw", msg |-> m, event |-> r, fresh |-> TRUE,
                        findings |-> Findings(m)]
  BY <1>1 DEF Accept, Arrives, Claimed, tables
<1>3. event[r] = None /\ Taken(r) = None
  BY <1>2 DEF ClaimInv, Faithful, Taken, Carries
<1>4. Taken(r)' = m
  BY <1>2, <1>3 DEF Taken, Carries
<1>5. \A q \in Request \ {r} : Taken(q)' = Taken(q)
  BY <1>2 DEF Taken, Carries
<1>6. m # None
  BY MessageAssumption
<1> SUFFICES ASSUME restarts = 0
             PROVE  /\ \A n \in Message : n \in accepted' <=> \E q \in Request : Taken(q)' = n
                    /\ \A q \in Request : Taken(q)' # None => Key(Taken(q)') \in canonical'
                    /\ \A p, q \in Request : Taken(p)' # None /\ Taken(q)' # None
                                               /\ Key(Taken(p)') = Key(Taken(q)') => p = q
  BY <1>2 DEF TakenInv, Key
<1>7. ASSUME NEW n \in Message
      PROVE  n \in accepted' <=> \E q \in Request : Taken(q)' = n
  <2>1. n \in accepted <=> \E q \in Request : Taken(q) = n
    BY DEF TakenInv
  <2> QED BY <1>2, <1>3, <1>4, <1>5, <1>6, <2>1, MessageAssumption
<1>8. ASSUME NEW q \in Request, Taken(q)' # None PROVE Key(Taken(q)') \in canonical'
  BY <1>2, <1>4, <1>5, <1>8 DEF TakenInv
<1>9. ASSUME NEW q \in Request \ {r}, Taken(q)' # None PROVE Key(Taken(q)') # Key(m)
  BY <1>2, <1>5, <1>9 DEF TakenInv
<1>10. ASSUME NEW p \in Request, NEW q \in Request, Taken(p)' # None, Taken(q)' # None,
              Key(Taken(p)') = Key(Taken(q)')
       PROVE  p = q
  <2>1. CASE p = r \/ q = r
    BY <1>4, <1>9, <1>10, <2>1
  <2>2. CASE p # r /\ q # r
    BY <1>5, <1>10, <2>2 DEF TakenInv
  <2> QED BY <2>1, <2>2
<1> QED BY <1>7, <1>8, <1>10

LEMMA SaveEventTakes ==
    ASSUME ClaimInv, TakenInv, NEW r \in Request, SaveEvent(r)
    PROVE  TakenInv'
<1> DEFINE h == handler[r]
<1>1. TypeOK /\ Faithful(r) /\ h \in HandlerState /\ h.pc = "event"
  BY DEF ClaimInv, TypeOK, SaveEvent
<1>2. h.msg \in Message /\ h.event \in Request /\ h.fresh \in BOOLEAN
  BY <1>1, HandlerShape DEF Storing
<1>3. /\ \A q \in Request \ {r} : handler'[q] = handler[q]
      /\ handler'[r].pc = "device"
  BY <1>1, MovedOn DEF SaveEvent, Storing
<1>4. /\ event' = [event EXCEPT ![h.event] = h.msg]
      /\ UNCHANGED <<accepted, canonical, restarts>>
  BY DEF SaveEvent, memory
<1>5. event \in [Request -> Message \cup {None}] /\ h.msg # None
  BY <1>1, <1>2, MessageAssumption DEF TypeOK
<1>6. ~Carries(r)'
  BY <1>3 DEF Carries
<1>7. CASE h.fresh = FALSE
  <2>1. event' = event
    BY <1>1, <1>2, <1>4, <1>5, <1>7 DEF Faithful
  <2>2. ~Carries(r)
    BY <1>7 DEF Carries
  <2> QED BY <1>3, <1>4, <1>6, <2>1, <2>2, NothingTaken
<1>8. CASE h.fresh = TRUE
  <2>1. h.event = r /\ event[r] = None /\ Carries(r)
    BY <1>1, <1>8 DEF Faithful, Carries
  <2>2. event'[r] = h.msg /\ \A q \in Request \ {r} : event'[q] = event[q]
    BY <1>4, <1>5, <2>1
  <2>3. Taken(r) = h.msg /\ Taken(r)' = h.msg
    BY <1>5, <2>1, <2>2 DEF Taken
  <2>4. \A q \in Request \ {r} : Taken(q)' = Taken(q)
    BY <1>3, <2>2 DEF Taken, Carries
  <2>5. \A q \in Request : Taken(q)' = Taken(q)
    BY <2>3, <2>4
  <2> QED BY <1>4, <2>5, TakenKept
<1> QED BY <1>2, <1>7, <1>8

LEMMA TakenStep == ClaimInv /\ TakenInv /\ [Next]_vars => TakenInv'
<1> SUFFICES ASSUME ClaimInv, TakenInv, [Next]_vars PROVE TakenInv'
  OBVIOUS
<1>0. TypeOK /\ handler \in [Request -> HandlerState]
  BY DEF ClaimInv, TypeOK
<1>1. CASE UNCHANGED vars
  BY <1>1 DEF vars, tables, memory, TakenInv, Taken, Carries
<1>2. CASE Restart
  BY <1>0, <1>2 DEF Restart, ProcessEnds, TakenInv, TypeOK
<1>3. ASSUME NEW r \in Request, Answer(r), handler[r].pc \notin {"raw", "event"},
             UNCHANGED <<accepted, canonical, restarts, event>>
      PROVE  TakenInv'
  <2>1. ~Carries(r) /\ ~Carries(r)' /\ \A q \in Request \ {r} : handler'[q] = handler[q]
    BY <1>0, <1>3 DEF Answer, Carries
  <2> QED BY <1>3, <2>1, NothingTaken
<1>4. ASSUME NEW r \in Request, NEW m \in Message,
             \/ RejectSource(r, m) \/ DropTransportDuplicate(r, m)
             \/ RejectUndecodable(r, m) \/ DropCanonicalDuplicate(r, m)
      PROVE  TakenInv'
  BY <1>3, <1>4 DEF RejectSource, DropTransportDuplicate, RejectUndecodable,
                    DropCanonicalDuplicate, Arrives, tables, memory
<1>5. ASSUME NEW r \in Request, NEW e \in Request, Reevaluate(r, e) PROVE TakenInv'
  <2>1. /\ handler[r].pc = "new" /\ UNCHANGED <<accepted, canonical, restarts, event>>
        /\ \A q \in Request \ {r} : handler'[q] = handler[q]
        /\ handler'[r].fresh = FALSE
    BY <1>0, <1>5 DEF Reevaluate, Arrives, tables, memory
  <2> QED BY <2>1, NothingTaken DEF Carries
<1>6. ASSUME NEW r \in Request, SaveRaw(r) PROVE TakenInv'
  <2>1. /\ handler[r].pc = "raw" /\ Goto(r, "event")
        /\ UNCHANGED <<accepted, canonical, restarts, event>>
    BY <1>6 DEF SaveRaw, memory
  <2>2. /\ \A q \in Request \ {r} : handler'[q] = handler[q]
        /\ handler'[r].pc = "event" /\ handler'[r].msg = handler[r].msg
        /\ handler'[r].fresh = handler[r].fresh
    BY <1>0, <2>1, MovedOn DEF Storing
  <2> QED BY <2>1, <2>2, NothingTaken DEF Carries
<1>7. ASSUME NEW r \in Request, Project(r) PROVE TakenInv'
  <2> DEFINE h == handler[r]
  <2>1. h.pc \in View /\ UNCHANGED <<accepted, canonical, restarts, event>>
    BY <1>7 DEF Project, memory
  <2>2. CASE h.pc # "branch" /\ Goto(r, NextView[h.pc])
    <3>1. NextView[h.pc] \in {"site", "branch"}
      BY <2>1, <2>2 DEF NextView, View
    <3>2. h.pc \in Storing /\ NextView[h.pc] \in Storing
      BY <2>1, <3>1 DEF Storing, View
    <3>3. /\ \A q \in Request \ {r} : handler'[q] = handler[q]
          /\ handler'[r].pc \in {"site", "branch"}
      BY <1>0, <2>2, <3>1, <3>2, MovedOn
    <3> QED BY <2>1, <3>3, NothingTaken DEF Carries, View
  <2>3. CASE Answer(r)
    BY <1>3, <2>1, <2>3 DEF View
  <2>4. CASE Goto(r, "downstream")
    <3>1. h.pc \in Storing /\ "downstream" \in Storing
      BY <2>1 DEF Storing, View
    <3>2. /\ \A q \in Request \ {r} : handler'[q] = handler[q]
          /\ handler'[r].pc = "downstream"
      BY <1>0, <2>4, <3>1, MovedOn
    <3> QED BY <2>1, <3>2, NothingTaken DEF Carries, View
  <2>5. CASE handler' = [handler EXCEPT ![r] =
                [pc |-> "rollup", msg |-> h.msg, event |-> h.event, fresh |-> TRUE,
                 findings |-> h.findings, next |-> 1]]
    <3>1. /\ \A q \in Request \ {r} : handler'[q] = handler[q]
          /\ handler'[r].pc = "rollup"
      BY <1>0, <2>5
    <3> QED BY <2>1, <3>1, NothingTaken DEF Carries, View
  <2> QED BY <1>7, <2>2, <2>3, <2>4, <2>5 DEF Project
<1>8. ASSUME NEW r \in Request, UpsertRollup(r) PROVE TakenInv'
  <2>1. UNCHANGED <<accepted, canonical>>
    BY <1>8 DEF UpsertRollup, memory
  <2>2. /\ handler[r].pc = "rollup" /\ handler'[r].pc \in {"rollup", "downstream"}
        /\ \A q \in Request \ {r} : handler'[q] = handler[q]
        /\ UNCHANGED <<event, restarts>>
    BY <1>0, <1>8, UpsertView
  <2> QED BY <2>1, <2>2, NothingTaken DEF Carries
<1>9. ASSUME NEW r \in Request, Downstream(r) PROVE TakenInv'
  BY <1>3, <1>9 DEF Downstream, tables, memory
<1> QED
  BY <1>1, <1>2, <1>4, <1>5, <1>6, <1>7, <1>8, <1>9, AcceptTakes, SaveEventTakes
  DEF Next, Receive, Store

LEMMA TakenAlways == Spec => []TakenInv
<1>1. Init => TakenInv
  <2> SUFFICES ASSUME Init PROVE TakenInv
    OBVIOUS
  <2>1. \A r \in Request : Taken(r) = None
    BY DEF Init, Taken, Carries
  <2> QED BY <2>1, MessageAssumption DEF Init, TakenInv
<1> QED BY <1>1, TakenStep, ClaimInvAlways, PTL DEF Spec

\* When all requests are answered, the readings accepted in a bucket are as many
\* as the events counted there.
LEMMA ReadingsAndEvents ==
    ASSUME TypeOK, TakenInv, restarts = 0, InFlight = {}, NEW g \in Granularity, NEW b
    PROVE  Cardinality({Key(m) : m \in
              {n \in accepted : n.power /\ BucketStart(n.time, g) = b}})
              = Cardinality(Counted(g, b))
<1> DEFINE S == Counted(g, b)
           A == {n \in accepted : n.power /\ BucketStart(n.time, g) = b}
           K == {Key(m) : m \in A}
           f == [r \in S |-> Key(event[r])]
<1>1. \A r \in Request : ~Carries(r) /\ ~Waiting(r, g)
  BY DEF InFlight, Carries, Waiting
<1>2. \A r \in Request : Taken(r) = event[r]
  BY <1>1 DEF Taken
<1>3. event \in [Request -> Message \cup {None}] /\ accepted \subseteq Message
      /\ None \notin Message
  BY MessageAssumption DEF TypeOK
<1>4. \A n \in Message : n \in accepted <=> \E r \in Request : event[r] = n
  BY <1>2 DEF TakenInv
<1>5. \A r \in Request : r \in S <=> event[r] \in A
  BY <1>1, <1>3, <1>4 DEF Counted
<1>6. S \subseteq Request /\ IsFiniteSet(S)
  BY CountedFinite DEF Counted
<1>7. f \in Injection(S, K)
  <2>1. f \in [S -> K]
    BY <1>5, <1>6
  <2>2. ASSUME NEW r \in S, NEW q \in S, f[r] = f[q] PROVE r = q
    <3>1. event[r] # None /\ event[q] # None /\ r \in Request /\ q \in Request
      BY DEF Counted
    <3> QED BY <1>2, <2>2, <3>1 DEF TakenInv
  <2>3. DOMAIN f = S
    OBVIOUS
  <2> HIDE DEF f
  <2>4. IsInjective(f)
    BY <2>2, <2>3 DEF IsInjective
  <2> QED BY <2>1, <2>4 DEF Injection
<1>8. \A k \in K : \E r \in S : f[r] = k
  <2> SUFFICES ASSUME NEW m \in A PROVE \E r \in S : f[r] = Key(m)
    OBVIOUS
  <2>1. PICK r \in Request : event[r] = m
    BY <1>3, <1>4
  <2> QED BY <1>5, <2>1
<1>9. f \in Bijection(S, K)
  BY <1>7, <1>8 DEF Bijection, Surjection, Injection
<1>10. ExistsBijection(S, K)
  BY <1>9 DEF ExistsBijection
<1> HIDE DEF S, K
<1>11. Cardinality(K) = Cardinality(S)
  BY <1>6, <1>10, FS_Bijection
<1> QED BY <1>11 DEF S, K

\* As long as the process lives, every reading counts once in its bucket at each
\* granularity, under however many message identifiers it arrives, and however
\* often its event is evaluated again.
THEOREM ReadingsHold == Spec => []ReadingsCountOnce
<1>1. TypeOK /\ SamplesInv /\ TakenInv => ReadingsCountOnce
  <2> SUFFICES ASSUME TypeOK, SamplesInv, TakenInv, restarts = 0, InFlight = {},
                      NEW g \in Granularity, NEW b \in BucketsOf(g)
               PROVE  rollup[g][b] = Cardinality({Key(m) : m \in
                            {n \in accepted : n.power /\ BucketStart(n.time, g) = b}})
    BY DEF ReadingsCountOnce
  <2>1. b \in Bucket
    BY DEF Bucket
  <2>2. rollup[g][b] = Cardinality(Counted(g, b))
    BY <2>1 DEF SamplesInv
  <2> QED BY <2>2, ReadingsAndEvents
<1> QED BY <1>1, TypeCorrect, SamplesAlways, TakenAlways, PTL

-----------------------------------------------------------------------------
(***************************************************************************)
(* Sums over finite sets.  SumFunctionOnSet is defined by recursion on the *)
(* set; induction is stated for a set of subsets, as the minimal element   *)
(* of what is left over.                                                   *)
(***************************************************************************)
LEMMA SetInduction ==
    ASSUME NEW S, IsFiniteSet(S), NEW G,
           \A T \in SUBSET S : (\A U \in SUBSET T : U # T => U \in G) => T \in G
    PROVE  \A T \in SUBSET S : T \in G
<1> DEFINE Bad == {T \in SUBSET S : T \notin G}
<1>1. SUFFICES ASSUME Bad # {} PROVE FALSE
  OBVIOUS
<1>2. Bad \subseteq FiniteSubsetsOf(S)
  BY FS_Subset DEF FiniteSubsetsOf
<1>3. PICK T \in Bad : \A U \in Bad : ~(<<U, T>> \in StrictSubsetOrdering(S))
  <2> HIDE DEF Bad
  <2> QED BY <1>1, <1>2, FS_StrictSubsetOrderingWellFounded, WFMin
<1>4. T \in SUBSET S /\ T \notin G
  OBVIOUS
<1>5. ASSUME NEW U \in SUBSET T, U # T PROVE U \in G
  <2>1. U \in SUBSET S
    BY <1>4
  <2>2. <<U, T>> \in StrictSubsetOrdering(S)
    BY <1>4, <1>5, <2>1 DEF StrictSubsetOrdering
  <2> QED BY <1>3, <2>1, <2>2
<1> QED BY <1>4, <1>5

Chosen(s) == CHOOSE x \in s : TRUE

LEMMA ChosenIn == ASSUME NEW s, s # {} PROVE Chosen(s) \in s
BY DEF Chosen

\* g holds the sums of f over the subsets of T.
Adds(g, f, T) == \A s \in SUBSET T :
    g[s] = IF s = {} THEN 0 ELSE f[Chosen(s)] + g[s \ {Chosen(s)}]

LEMMA AddsAgree ==
    ASSUME NEW T, IsFiniteSet(T), NEW f, NEW g, NEW h, Adds(g, f, T), Adds(h, f, T)
    PROVE  \A s \in SUBSET T : g[s] = h[s]
<1> DEFINE G == {s \in SUBSET T : g[s] = h[s]}
<1>1. ASSUME NEW s \in SUBSET T, \A u \in SUBSET s : u # s => u \in G
      PROVE  s \in G
  <2>1. CASE s = {}
    BY <2>1 DEF Adds
  <2>2. CASE s # {}
    <3> DEFINE u == s \ {Chosen(s)}
    <3>1. u \in SUBSET s /\ u # s
      BY <2>2, ChosenIn
    <3>2. g[u] = h[u]
      BY <1>1, <3>1
    <3>3. g[s] = f[Chosen(s)] + g[u] /\ h[s] = f[Chosen(s)] + h[u]
      BY <2>2 DEF Adds
    <3> QED BY <3>2, <3>3
  <2> QED BY <2>1, <2>2
<1> HIDE DEF G
<1>2. \A s \in SUBSET T : s \in G
  BY <1>1, SetInduction
<1> QED BY <1>2 DEF G

LEMMA AddsPart ==
    ASSUME NEW T, NEW f, NEW g, Adds(g, f, T), NEW U \in SUBSET T
    PROVE  Adds(g, f, U)
BY DEF Adds

\* The recursion has a solution.
LEMMA AddsExist ==
    ASSUME NEW S, IsFiniteSet(S), NEW f, \A x \in S : f[x] \in Nat
    PROVE  \E g \in [SUBSET S -> Nat] : Adds(g, f, S)
<1> DEFINE G == {T \in SUBSET S : \E g \in [SUBSET T -> Nat] : Adds(g, f, T)}
           Of(U) == CHOOSE g \in [SUBSET U -> Nat] : Adds(g, f, U)
<1>1. ASSUME NEW T \in SUBSET S, \A U \in SUBSET T : U # T => U \in G
      PROVE  T \in G
  <2>1. ASSUME NEW U \in SUBSET T, U # T
        PROVE  Of(U) \in [SUBSET U -> Nat] /\ Adds(Of(U), f, U)
    BY <1>1, <2>1
  <2> DEFINE Rest(s) == s \ {Chosen(s)}
             value(s) == IF s = {} THEN 0 ELSE f[Chosen(s)] + Of(Rest(s))[Rest(s)]
             g == [s \in SUBSET T |-> value(s)]
  <2> HIDE DEF Of
  <2>2. ASSUME NEW s \in SUBSET T, s # {}
        PROVE  /\ Rest(s) \in SUBSET T /\ Rest(s) # T /\ Chosen(s) \in S
               /\ Of(Rest(s))[Rest(s)] \in Nat
    <3>1. Chosen(s) \in s
      BY <2>2, ChosenIn
    <3>2. Rest(s) \in SUBSET T /\ Rest(s) # T /\ Chosen(s) \in S
      BY <3>1
    <3> HIDE DEF Rest
    <3>3. Of(Rest(s)) \in [SUBSET Rest(s) -> Nat]
      BY <2>1, <3>2
    <3> QED BY <3>2, <3>3
  <2> HIDE DEF Rest
  <2>3. g \in [SUBSET T -> Nat]
    <3>1. ASSUME NEW s \in SUBSET T PROVE value(s) \in Nat
      <4>1. CASE s = {}
        BY <4>1
      <4>2. CASE s # {}
        BY <2>2, <4>2
      <4> QED BY <4>1, <4>2
    <3> HIDE DEF value
    <3> QED BY <3>1
  <2>4. ASSUME NEW U \in SUBSET T, U # T PROVE value(U) = Of(U)[U]
    <3>1. Adds(Of(U), f, U) /\ U \in SUBSET U
      BY <2>1, <2>4
    <3>2. CASE U = {}
      BY <3>1, <3>2 DEF Adds
    <3>3. CASE U # {}
      <4>1. Of(U)[U] = f[Chosen(U)] + Of(U)[Rest(U)]
        BY <3>1, <3>3 DEF Adds, Rest
      <4>2. Rest(U) \in SUBSET U /\ Rest(U) \in SUBSET T /\ Rest(U) # T
        BY <2>2, <3>3 DEF Rest
      <4>3. Adds(Of(U), f, Rest(U)) /\ Adds(Of(Rest(U)), f, Rest(U))
        BY <2>1, <3>1, <4>2, AddsPart
      <4>4. IsFiniteSet(Rest(U))
        BY <4>2, FS_Subset
      <4>5. Of(U)[Rest(U)] = Of(Rest(U))[Rest(U)]
        BY <4>3, <4>4, AddsAgree
      <4> QED BY <3>3, <4>1, <4>5
    <3> QED BY <3>2, <3>3
  <2>5. Adds(g, f, T)
    <3> SUFFICES ASSUME NEW s \in SUBSET T
                 PROVE  g[s] = IF s = {} THEN 0 ELSE f[Chosen(s)] + g[s \ {Chosen(s)}]
      BY DEF Adds
    <3>1. CASE s = {}
      BY <3>1
    <3>2. CASE s # {}
      <4>1. g[s] = f[Chosen(s)] + Of(Rest(s))[Rest(s)]
        BY <3>2
      <4>2. Rest(s) \in SUBSET T /\ Rest(s) # T
        BY <2>2, <3>2
      <4> HIDE DEF value
      <4>3. g[Rest(s)] = Of(Rest(s))[Rest(s)]
        BY <2>4, <4>2
      <4> QED BY <3>2, <4>1, <4>3 DEF Rest
    <3> QED BY <3>1, <3>2
  <2> HIDE DEF g
  <2> QED BY <2>3, <2>5
<1> HIDE DEF G
<1>2. S \in G
  BY <1>1, SetInduction
<1> QED BY <1>2 DEF G

\* What SumFunctionOnSet computes.
LEMMA SumView ==
    ASSUME NEW I, IsFiniteSet(I), NEW f, \A x \in I : f[x] \in Nat
    PROVE  \E g \in [SUBSET I -> Nat] : Adds(g, f, I) /\ SumFunctionOnSet(f, I) = g[I]
<1> DEFINE Eq(g) == g = [s \in SUBSET I |->
                IF s = {} THEN 0 ELSE f[Chosen(s)] + g[s \ {Chosen(s)}]]
           run == CHOOSE g : Eq(g)
<1>1. PICK g \in [SUBSET I -> Nat] : Adds(g, f, I)
  BY AddsExist
<1>2. Eq(g)
  <2> DEFINE h == [s \in SUBSET I |-> IF s = {} THEN 0 ELSE f[Chosen(s)] + g[s \ {Chosen(s)}]]
  <2>1. \A s \in SUBSET I : g[s] = h[s]
    BY <1>1 DEF Adds
  <2>2. DOMAIN g = SUBSET I /\ DOMAIN h = SUBSET I /\ g = [s \in SUBSET I |-> g[s]]
        /\ h = [s \in SUBSET I |-> h[s]]
    OBVIOUS
  <2> HIDE DEF h
  <2>3. g = h
    BY <2>1, <2>2
  <2> QED BY <2>3 DEF h
<1>3. SumFunctionOnSet(f, I) = run[I]
  BY DEF SumFunctionOnSet, FoldFunctionOnSet, MapThenFoldSet, Chosen
<1>4. Eq(run)
  <2> HIDE DEF Eq
  <2> QED BY <1>2
<1> HIDE DEF run
<1>5. Adds(run, f, I)
  BY <1>4 DEF Adds
<1>6. run[I] = g[I]
  BY <1>1, <1>5, AddsAgree
<1> QED BY <1>1, <1>3, <1>6

\* Only the values added matter.
LEMMA SumSame ==
    ASSUME NEW I, IsFiniteSet(I), NEW f, NEW h, \A x \in I : f[x] \in Nat /\ h[x] = f[x]
    PROVE  SumFunctionOnSet(h, I) = SumFunctionOnSet(f, I) /\ SumFunctionOnSet(f, I) \in Nat
<1>1. PICK a \in [SUBSET I -> Nat] : Adds(a, f, I) /\ SumFunctionOnSet(f, I) = a[I]
  BY SumView
<1>2. PICK b \in [SUBSET I -> Nat] : Adds(b, h, I) /\ SumFunctionOnSet(h, I) = b[I]
  BY SumView
<1>3. Adds(b, f, I)
  BY <1>2, ChosenIn DEF Adds
<1>4. a[I] = b[I]
  BY <1>1, <1>3, AddsAgree
<1> QED BY <1>1, <1>2, <1>4

\* One more in one place is one more in the sum.
LEMMA SumOneMore ==
    ASSUME NEW I, IsFiniteSet(I), NEW f, NEW h, NEW c \in I,
           \A x \in I : f[x] \in Nat /\ h[x] = IF x = c THEN f[x] + 1 ELSE f[x]
    PROVE  SumFunctionOnSet(h, I) = SumFunctionOnSet(f, I) + 1
<1>1. PICK a \in [SUBSET I -> Nat] : Adds(a, f, I) /\ SumFunctionOnSet(f, I) = a[I]
  BY SumView
<1>2. \A x \in I : h[x] \in Nat
  OBVIOUS
<1>3. PICK b \in [SUBSET I -> Nat] : Adds(b, h, I) /\ SumFunctionOnSet(h, I) = b[I]
  BY <1>2, SumView
<1> DEFINE G == {s \in SUBSET I : b[s] = IF c \in s THEN a[s] + 1 ELSE a[s]}
<1>4. ASSUME NEW s \in SUBSET I, \A u \in SUBSET s : u # s => u \in G
      PROVE  s \in G
  <2>1. CASE s = {}
    BY <1>1, <1>3, <2>1 DEF Adds
  <2>2. CASE s # {}
    <3> DEFINE x == Chosen(s)
               u == s \ {x}
    <3>1. x \in s /\ x \in I /\ u \in SUBSET s /\ u # s /\ u \in SUBSET I
      BY <2>2, ChosenIn
    <3>2. a[s] = f[x] + a[u] /\ b[s] = h[x] + b[u]
      BY <1>1, <1>3, <2>2 DEF Adds
    <3>3. b[u] = IF c \in u THEN a[u] + 1 ELSE a[u]
      BY <1>4, <3>1
    <3>4. a[u] \in Nat /\ f[x] \in Nat /\ h[x] = IF x = c THEN f[x] + 1 ELSE f[x]
      BY <3>1
    <3>5. CASE x = c
      BY <3>1, <3>2, <3>3, <3>4, <3>5
    <3>6. CASE x # c
      <4>1. c \in s <=> c \in u
        BY <3>6
      <4> HIDE DEF u, x
      <4> QED BY <3>2, <3>3, <3>4, <3>6, <4>1 DEF G
    <3> QED BY <3>5, <3>6
  <2> QED BY <2>1, <2>2
<1> HIDE DEF G
<1>5. I \in G
  BY <1>4, SetInduction
<1> QED BY <1>1, <1>3, <1>5 DEF G

-----------------------------------------------------------------------------
(***************************************************************************)
(* The rollups are nested: a request counts its event in the finer bucket  *)
(* before it counts it in the wider one that contains it.                  *)
(***************************************************************************)
Fine(n) == Granularities[n]
Wide(n) == Granularities[n + 1]

\* The buckets a wider one is made of.
Parts(n, b) == {c \in BucketsOf(Fine(n)) : BucketStart(c, Wide(n)) = b}

\* The requests that have counted their event in one of them only.
Between(n, b) == {r \in Request : /\ handler[r].pc = "rollup"
                                  /\ handler[r].next = n + 1
                                  /\ BucketStart(handler[r].msg.time, Wide(n)) = b}

NestedInv == \A n \in 1 .. 3 : \A b \in BucketsOf(Wide(n)) :
    rollup[Wide(n)][b] + Cardinality(Between(n, b))
        <= SumFunctionOnSet(rollup[Fine(n)], Parts(n, b))

LEMMA BucketBounds ==
    ASSUME NEW t \in Nat, NEW g \in Granularity
    PROVE  /\ BucketStart(t, g) \in Nat /\ BucketStart(t, g) <= t
           /\ Minutes[g] \in Nat /\ t < BucketStart(t, g) + Minutes[g]
<1>1. CASE g = "1m"
  BY <1>1 DEF BucketStart, Minutes, Granularity
<1>2. CASE g = "5m"
  BY <1>2 DEF BucketStart, Minutes, Granularity
<1>3. CASE g = "1h"
  BY <1>3 DEF BucketStart, Minutes, Granularity
<1>4. CASE g = "1d"
  BY <1>4 DEF BucketStart, Minutes, Granularity
<1> QED BY <1>1, <1>2, <1>3, <1>4 DEF Granularity

\* The bucket of a time lies within the wider bucket of that time.
LEMMA BucketOfBucket ==
    ASSUME NEW t \in Nat, NEW n \in 1 .. 3
    PROVE  BucketStart(BucketStart(t, Fine(n)), Wide(n)) = BucketStart(t, Wide(n))
<1>1. CASE n = 1
  BY <1>1 DEF Fine, Wide, Granularities, BucketStart, Minutes, Granularity
<1>2. CASE n = 2
  BY <1>2 DEF Fine, Wide, Granularities, BucketStart, Minutes, Granularity
<1>3. CASE n = 3
  BY <1>3 DEF Fine, Wide, Granularities, BucketStart, Minutes, Granularity
<1> QED BY <1>1, <1>2, <1>3

LEMMA NestedNames ==
    ASSUME NEW n \in 1 .. 3
    PROVE  /\ Fine(n) \in Granularity /\ Wide(n) \in Granularity /\ Fine(n) # Wide(n)
           /\ n \in 1 .. 4 /\ n + 1 \in 1 .. 4
           /\ BucketsOf(Fine(n)) \subseteq Bucket /\ BucketsOf(Wide(n)) \subseteq Bucket
<1>1. Fine(n) \in Granularity /\ Wide(n) \in Granularity /\ Fine(n) # Wide(n)
  BY DEF Fine, Wide, Granularities, Granularity
<1> QED BY <1>1 DEF Bucket

\* A wider bucket is made of finitely many, whatever the messages.
LEMMA PartsFinite ==
    ASSUME NEW n \in 1 .. 3, NEW b \in BucketsOf(Wide(n))
    PROVE  IsFiniteSet(Parts(n, b)) /\ Parts(n, b) \subseteq Bucket
<1>1. PICK m \in Message : b = BucketStart(m.time, Wide(n))
  BY DEF BucketsOf
<1>2. b \in Nat /\ Minutes[Wide(n)] \in Nat
  BY <1>1, MessageAssumption, NestedNames, BucketBounds
<1>3. Parts(n, b) \subseteq b .. b + Minutes[Wide(n)]
  <2> SUFFICES ASSUME NEW c \in Parts(n, b) PROVE c \in b .. b + Minutes[Wide(n)]
    OBVIOUS
  <2>1. PICK k \in Message : c = BucketStart(k.time, Fine(n))
    BY DEF Parts, BucketsOf
  <2>2. c \in Nat
    BY <2>1, MessageAssumption, NestedNames, BucketBounds
  <2>3. BucketStart(c, Wide(n)) = b
    BY DEF Parts
  <2>4. b <= c /\ c < b + Minutes[Wide(n)]
    BY <2>2, <2>3, NestedNames, BucketBounds
  <2> QED BY <1>2, <2>2, <2>4
<1>4. IsFiniteSet(b .. b + Minutes[Wide(n)])
  BY <1>2, FS_Interval
<1> QED BY <1>3, <1>4, FS_Subset, NestedNames DEF Parts

LEMMA BetweenFinite ==
    ASSUME NEW n, NEW b
    PROVE  IsFiniteSet(Between(n, b)) /\ Cardinality(Between(n, b)) \in Nat
<1>1. Between(n, b) \subseteq Request
  BY DEF Between
<1> QED BY <1>1, RequestAssumption, FS_Subset, FS_CardinalityType

\* A step that counts nothing and takes no request to a wider rollup.
LEMMA NestedKept ==
    ASSUME TypeOK, NestedInv, UNCHANGED rollup,
           \A q \in Request : \/ handler'[q] = handler[q]
                              \/ handler'[q].pc # "rollup"
                              \/ handler'[q].next = 1
    PROVE  NestedInv'
<1> SUFFICES ASSUME NEW n \in 1 .. 3, NEW b \in BucketsOf(Wide(n))
             PROVE  rollup[Wide(n)][b] + Cardinality(Between(n, b)')
                       <= SumFunctionOnSet(rollup[Fine(n)], Parts(n, b))
  BY DEF NestedInv
<1>1. Between(n, b)' \subseteq Between(n, b)
  BY DEF Between
<1>2. /\ Cardinality(Between(n, b)') <= Cardinality(Between(n, b))
      /\ Cardinality(Between(n, b)') \in Nat
  BY <1>1, BetweenFinite, FS_Subset, FS_CardinalityType
<1>3. rollup[Wide(n)][b] \in Nat
  BY NestedNames DEF TypeOK
<1>4. /\ IsFiniteSet(Parts(n, b))
      /\ \A c \in Parts(n, b) : rollup[Fine(n)][c] \in Nat
  BY PartsFinite, NestedNames DEF TypeOK
<1>5. SumFunctionOnSet(rollup[Fine(n)], Parts(n, b)) \in Nat
  BY <1>4, SumSame
<1>6. rollup[Wide(n)][b] + Cardinality(Between(n, b))
        <= SumFunctionOnSet(rollup[Fine(n)], Parts(n, b))
  BY DEF NestedInv
<1> QED BY <1>2, <1>3, <1>5, <1>6, BetweenFinite

\* What a rollup does to the buckets at two granularities that follow each other:
\* the finer one grows and the request is between, or the wider one grows and it
\* no longer is.
LEMMA UpsertNested ==
    ASSUME TypeOK, NestedInv, NEW r \in Request, UpsertRollup(r)
    PROVE  NestedInv'
<1> DEFINE h == handler[r]
<1>1. PICK k \in 1 .. 4, g \in Granularity, b \in Bucket, m \in Message :
      /\ k = h.next /\ m = h.msg /\ h.pc = "rollup"
      /\ g = Granularities[k] /\ b = BucketStart(m.time, g)
      /\ rollup'[g] = [rollup[g] EXCEPT ![b] = rollup[g][b] + 1]
      /\ \A f \in Granularity \ {g} : rollup'[f] = rollup[f]
      /\ \A q \in Request \ {r} : handler'[q] = handler[q]
      /\ handler'[r].msg = m
      /\ \/ k < 4 /\ handler'[r].pc = "rollup" /\ handler'[r].next = k + 1
         \/ k = 4 /\ handler'[r].pc = "downstream"
  <2> DEFINE g == Granularities[h.next]
             b == BucketStart(h.msg.time, g)
  <2>1. /\ h.pc = "rollup" /\ h.next \in 1 .. 4 /\ h.msg \in Message
        /\ g \in Granularity /\ b \in Bucket
        /\ rollup'[g] = [rollup[g] EXCEPT ![b] = rollup[g][b] + 1]
        /\ \A f \in Granularity \ {g} : rollup'[f] = rollup[f]
        /\ \A q \in Request \ {r} : handler'[q] = handler[q]
        /\ handler'[r].msg = h.msg
        /\ \/ h.next < 4 /\ handler'[r].pc = "rollup" /\ handler'[r].next = h.next + 1
           \/ h.next = 4 /\ handler'[r].pc = "downstream"
    BY UpsertView
  <2> QED BY <2>1
<1>2. rollup \in [Granularity -> [Bucket -> Nat]]
  BY DEF TypeOK
<1> SUFFICES ASSUME NEW n \in 1 .. 3, NEW c \in BucketsOf(Wide(n))
             PROVE  rollup'[Wide(n)][c] + Cardinality(Between(n, c)')
                       <= SumFunctionOnSet(rollup'[Fine(n)], Parts(n, c))
  BY DEF NestedInv
<1>3. PICK fine \in Granularity, wide \in Granularity :
        fine = Fine(n) /\ wide = Wide(n) /\ fine # wide /\ n \in 1 .. 4 /\ n + 1 \in 1 .. 4
  BY NestedNames
<1>4. c \in Bucket /\ rollup[wide][c] \in Nat
  BY <1>2, <1>3, NestedNames
<1>5. /\ IsFiniteSet(Parts(n, c)) /\ Parts(n, c) \subseteq Bucket
      /\ \A x \in Parts(n, c) : rollup[fine][x] \in Nat
  BY <1>2, PartsFinite
<1>6. rollup[wide][c] + Cardinality(Between(n, c))
        <= SumFunctionOnSet(rollup[fine], Parts(n, c))
  BY <1>3 DEF NestedInv
<1>7. SumFunctionOnSet(rollup[fine], Parts(n, c)) \in Nat
  BY <1>5, SumSame
<1>8. CASE k = n
  <2>1. fine = g /\ rollup'[wide] = rollup[wide]
    BY <1>1, <1>3, <1>8 DEF Fine
  <2>2. r \notin Between(n, c)
    <3>1. handler[r].next = n /\ n # n + 1
      BY <1>1, <1>8
    <3> QED BY <3>1 DEF Between
  <2>3. handler'[r].pc = "rollup" /\ handler'[r].next = n + 1
    BY <1>1, <1>8
  <2>4. b \in BucketsOf(Fine(n)) /\ BucketStart(b, Wide(n)) = BucketStart(m.time, Wide(n))
    <3>1. b = BucketStart(m.time, Fine(n)) /\ m.time \in Nat
      BY <1>1, <1>3, <2>1, MessageAssumption
    <3>2. b \in BucketsOf(Fine(n))
      BY <3>1 DEF BucketsOf
    <3>3. BucketStart(BucketStart(m.time, Fine(n)), Wide(n)) = BucketStart(m.time, Wide(n))
      BY <3>1, BucketOfBucket
    <3> QED BY <3>1, <3>2, <3>3
  <2>5. CASE BucketStart(m.time, Wide(n)) = c
    <3>1. Between(n, c)' = Between(n, c) \cup {r}
      BY <1>1, <2>3, <2>5 DEF Between
    <3>2. Cardinality(Between(n, c)') = Cardinality(Between(n, c)) + 1
      BY <2>2, <3>1, BetweenFinite, FS_AddElement
    <3>3. b \in Parts(n, c)
      BY <2>4, <2>5 DEF Parts
    <3>4. \A x \in Parts(n, c) :
            rollup'[fine][x] = IF x = b THEN rollup[fine][x] + 1 ELSE rollup[fine][x]
      BY <1>1, <1>2, <1>5, <2>1
    <3>5. SumFunctionOnSet(rollup'[fine], Parts(n, c))
            = SumFunctionOnSet(rollup[fine], Parts(n, c)) + 1
      BY <1>5, <3>3, <3>4, SumOneMore
    <3> QED BY <1>3, <1>4, <1>6, <1>7, <2>1, <3>2, <3>5, BetweenFinite
  <2>6. CASE BucketStart(m.time, Wide(n)) # c
    <3>1. Between(n, c)' = Between(n, c)
      BY <1>1, <2>2, <2>6 DEF Between
    <3>2. b \notin Parts(n, c)
      BY <2>4, <2>6 DEF Parts
    <3>3. \A x \in Parts(n, c) : rollup'[fine][x] = rollup[fine][x]
      BY <1>1, <1>2, <1>5, <2>1, <3>2
    <3>4. SumFunctionOnSet(rollup'[fine], Parts(n, c))
            = SumFunctionOnSet(rollup[fine], Parts(n, c))
      BY <1>5, <3>3, SumSame
    <3> QED BY <1>3, <1>6, <2>1, <3>1, <3>4
  <2> QED BY <2>5, <2>6
<1>9. CASE k = n + 1
  <2>1. wide = g /\ rollup'[fine] = rollup[fine]
    BY <1>1, <1>3, <1>9 DEF Wide
  <2>2. r \notin Between(n, c)'
    BY <1>1, <1>9 DEF Between
  <2>3. CASE b = c
    <3>1. r \in Between(n, c)
      BY <1>1, <1>3, <1>9, <2>1, <2>3 DEF Between
    <3>2. Between(n, c)' = Between(n, c) \ {r}
      BY <1>1, <2>2 DEF Between
    <3>3. Cardinality(Between(n, c)') = Cardinality(Between(n, c)) - 1
      BY <3>1, <3>2, BetweenFinite, FS_RemoveElement
    <3>4. rollup'[wide][c] = rollup[wide][c] + 1
      BY <1>1, <1>2, <1>4, <2>1, <2>3
    <3> QED BY <1>3, <1>4, <1>6, <2>1, <3>3, <3>4, BetweenFinite
  <2>4. CASE b # c
    <3>1. Between(n, c)' = Between(n, c)
      BY <1>1, <1>3, <2>1, <2>2, <2>4 DEF Between
    <3>2. rollup'[wide][c] = rollup[wide][c]
      BY <1>1, <1>2, <1>4, <2>1, <2>4
    <3> QED BY <1>3, <1>6, <2>1, <3>1, <3>2
  <2> QED BY <2>3, <2>4
<1>10. CASE k # n /\ k # n + 1
  <2>1. fine # g /\ wide # g
    BY <1>1, <1>3, <1>10, OneAfterTheOther DEF Fine, Wide
  <2>2. rollup'[fine] = rollup[fine] /\ rollup'[wide] = rollup[wide]
    BY <1>1, <2>1
  <2>3. r \notin Between(n, c) /\ r \notin Between(n, c)'
    BY <1>1, <1>10 DEF Between
  <2>4. Between(n, c)' = Between(n, c)
    BY <1>1, <2>3 DEF Between
  <2> QED BY <1>3, <1>6, <2>2, <2>4
<1> QED BY <1>8, <1>9, <1>10

LEMMA NestedInit == Init => NestedInv
<1> SUFFICES ASSUME Init, NEW n \in 1 .. 3, NEW b \in BucketsOf(Wide(n))
             PROVE  rollup[Wide(n)][b] + Cardinality(Between(n, b))
                       <= SumFunctionOnSet(rollup[Fine(n)], Parts(n, b))
  BY DEF NestedInv
<1>1. Between(n, b) = {}
  BY DEF Init, Between
<1>2. Cardinality(Between(n, b)) = 0 /\ rollup[Wide(n)][b] = 0
  BY <1>1, NestedNames, FS_EmptySet DEF Init
<1>3. \A c \in Parts(n, b) : rollup[Fine(n)][c] \in Nat
  BY InitTyped, PartsFinite, NestedNames DEF TypeOK
<1>4. SumFunctionOnSet(rollup[Fine(n)], Parts(n, b)) \in Nat
  BY <1>3, PartsFinite, SumSame
<1> QED BY <1>2, <1>4

LEMMA NestedStep == TypeOK /\ NestedInv /\ [Next]_vars => NestedInv'
<1> SUFFICES ASSUME TypeOK, NestedInv, [Next]_vars PROVE NestedInv'
  OBVIOUS
<1>0. handler \in [Request -> HandlerState]
  BY DEF TypeOK
<1>1. CASE UNCHANGED vars
  BY <1>1, NestedKept DEF vars, tables
<1>2. CASE Restart
  <2>1. UNCHANGED rollup /\ \A q \in Request : handler'[q] = handler[q] \/ handler'[q].pc # "rollup"
    BY <1>2 DEF Restart, ProcessEnds, tables
  <2> QED BY <2>1, NestedKept
<1>3. ASSUME NEW r \in Request, Answer(r), UNCHANGED rollup PROVE NestedInv'
  <2>1. \A q \in Request : handler'[q] = handler[q] \/ handler'[q].pc # "rollup"
    BY <1>0, <1>3 DEF Answer
  <2> QED BY <1>3, <2>1, NestedKept
<1>4. ASSUME NEW r \in Request, NEW pc \in Storing, handler[r].pc \in Storing,
             Goto(r, pc), UNCHANGED rollup
      PROVE  NestedInv'
  <2>1. \A q \in Request : handler'[q] = handler[q] \/ handler'[q].pc # "rollup"
    BY <1>4, MovedOn DEF Storing
  <2> QED BY <1>4, <2>1, NestedKept
<1>5. ASSUME NEW r \in Request, NEW m \in Message, Accept(r, m) PROVE NestedInv'
  <2>1. UNCHANGED rollup /\ \A q \in Request : handler'[q] = handler[q] \/ handler'[q].pc # "rollup"
    BY <1>0, <1>5 DEF Accept, tables
  <2> QED BY <2>1, NestedKept
<1>6. ASSUME NEW r \in Request, NEW e \in Request, Reevaluate(r, e) PROVE NestedInv'
  <2>1. UNCHANGED rollup /\ \A q \in Request : handler'[q] = handler[q] \/ handler'[q].pc # "rollup"
    BY <1>0, <1>6 DEF Reevaluate, tables
  <2> QED BY <2>1, NestedKept
<1>7. ASSUME NEW r \in Request, Project(r) PROVE NestedInv'
  <2> DEFINE h == handler[r]
  <2>1. h.pc \in View /\ h.pc \in Storing /\ UNCHANGED rollup
    BY <1>7 DEF Project, View, Storing
  <2>2. CASE h.pc # "branch" /\ Goto(r, NextView[h.pc])
    <3>1. NextView[h.pc] \in Storing
      BY <2>1, <2>2 DEF NextView, View, Storing
    <3> QED BY <1>4, <2>1, <2>2, <3>1
  <2>3. CASE Answer(r)
    BY <1>3, <2>1, <2>3
  <2>4. CASE Goto(r, "downstream")
    BY <1>4, <2>1, <2>4 DEF Storing
  <2>5. CASE handler' = [handler EXCEPT ![r] =
                [pc |-> "rollup", msg |-> h.msg, event |-> h.event, fresh |-> TRUE,
                 findings |-> h.findings, next |-> 1]]
    <3>1. \A q \in Request : handler'[q] = handler[q] \/ handler'[q].next = 1
      BY <1>0, <2>5
    <3> QED BY <2>1, <3>1, NestedKept
  <2> QED BY <1>7, <2>2, <2>3, <2>4, <2>5 DEF Project
<1>8. ASSUME NEW r \in Request, NEW m \in Message,
             \/ RejectSource(r, m) \/ DropTransportDuplicate(r, m)
             \/ RejectUndecodable(r, m) \/ DropCanonicalDuplicate(r, m)
      PROVE  NestedInv'
  BY <1>3, <1>8 DEF RejectSource, DropTransportDuplicate, RejectUndecodable,
                    DropCanonicalDuplicate, tables
<1>9. ASSUME NEW r \in Request, SaveRaw(r) \/ SaveEvent(r) \/ Downstream(r)
      PROVE  NestedInv'
  BY <1>3, <1>4, <1>9 DEF SaveRaw, SaveEvent, Downstream, tables, Storing
<1> QED
  BY <1>1, <1>2, <1>5, <1>6, <1>7, <1>8, <1>9, UpsertNested DEF Next, Receive, Store

\* A bucket never holds more samples than the finer buckets it is made of, even
\* when requests overlap or the process ends between two rollups.
THEOREM NestedHolds == Spec => []RollupsNested
<1>1. TypeOK /\ NestedInv => RollupsNested
  <2> SUFFICES ASSUME TypeOK, NestedInv, NEW n \in 1 .. 3, NEW b \in BucketsOf(Wide(n))
               PROVE  rollup[Wide(n)][b] <= SumFunctionOnSet(rollup[Fine(n)], Parts(n, b))
    BY DEF RollupsNested, Parts, Fine, Wide, Granularities
  <2>1. rollup[Wide(n)][b] \in Nat
    BY NestedNames DEF TypeOK
  <2>2. \A c \in Parts(n, b) : rollup[Fine(n)][c] \in Nat
    BY PartsFinite, NestedNames DEF TypeOK
  <2>3. SumFunctionOnSet(rollup[Fine(n)], Parts(n, b)) \in Nat
    BY <2>2, PartsFinite, SumSame
  <2>4. rollup[Wide(n)][b] + Cardinality(Between(n, b))
          <= SumFunctionOnSet(rollup[Fine(n)], Parts(n, b))
    BY DEF NestedInv
  <2> QED BY <2>1, <2>3, <2>4, BetweenFinite
<1>2. Spec => []NestedInv
  BY NestedInit, NestedStep, TypeCorrect, PTL DEF Spec
<1> QED BY <1>1, <1>2, TypeCorrect, PTL
=============================================================================

----------------------------- MODULE Rules_proofs ------------------------------
(***************************************************************************)
(* Proofs about Rules: every event is judged by one reading of the rules,  *)
(* matches become recommendations, neither matches nor decisions are lost, *)
(* and the maps summarise what was judged, for any events, requests,       *)
(* patches and bounds.                                                     *)
(***************************************************************************)
EXTENDS Rules, TLAPS

ContextState ==
    [pc: {"context"}, event: Event, rules: SUBSET Rule, limit: [Rule -> Nat]]
TraceState ==
    [pc: {"trace"}, event: Event, rules: SUBSET Rule, limit: [Rule -> Nat],
     previous: Event \cup {None}, peak: Nat, starts: SUBSET Event,
     todo: SUBSET Rule, matched: SUBSET Rule]
RecommendState ==
    [pc: {"recommend"}, event: Event, rules: SUBSET Rule, todo: SUBSET Rule]

\* What a record of HandlerState with a given pc looks like.
LEMMA HandlerShape ==
    ASSUME NEW h \in HandlerState
    PROVE  /\ h.pc \in {"new", "lost", "done", "rules", "context", "trace", "recommend"}
           /\ h.pc \in {"done", "rules"} => h.event \in Event
           /\ h.pc = "context" => h \in ContextState
           /\ h.pc = "trace" => h \in TraceState
           /\ h.pc = "recommend" => h \in RecommendState
BY DEF HandlerState, ContextState, TraceState, RecommendState

\* The records a handler can be set to.
LEMMA MakeHandler ==
    /\ [pc |-> "new"] \in HandlerState /\ [pc |-> "lost"] \in HandlerState
    /\ \A e \in Event : /\ [pc |-> "done", event |-> e] \in HandlerState
                        /\ [pc |-> "rules", event |-> e] \in HandlerState
    /\ ContextState \subseteq HandlerState
    /\ TraceState \subseteq HandlerState
    /\ RecommendState \subseteq HandlerState
BY DEF HandlerState, ContextState, TraceState, RecommendState

\* What a record of DeskState with a given pc looks like.
LEMMA DeskShape ==
    ASSUME NEW d \in DeskState
    PROVE  /\ d.pc \in {"new", "done", "lost", "patch", "decide"}
           /\ d.pc = "patch" => d.patch \in Patch /\ d.row \in Config
           /\ d.pc = "decide" => /\ d.key \in Key /\ d.decision \in Decision
                                 /\ d.row \in Recommendation
BY DEF DeskState

\* The records the state of an operator request can be set to.
LEMMA MakeDesk ==
    /\ \A pc \in {"new", "done", "lost"} : [pc |-> pc] \in DeskState
    /\ \A p \in Patch, row \in Config :
          [pc |-> "patch", patch |-> p, row |-> row] \in DeskState
    /\ \A k \in Key, d \in Decision, row \in Recommendation :
          [pc |-> "decide", key |-> k, decision |-> d, row |-> row] \in DeskState
BY DEF DeskState

\* The first of some rules is one of them.
LEMMA FirstIsOne ==
    ASSUME NEW S \in SUBSET Rule, S # {}
    PROVE  First(S) \in S /\ First(S) \in Rule
<1> DEFINE P(i) == RuleOrder[i] \in S /\ \A j \in 1 .. i - 1 : RuleOrder[j] \notin S
<1>1. \E i \in 1 .. 9 : RuleOrder[i] \in S
  BY DEF Rule
<1>2. \E i \in 1 .. 9 : P(i)
  <2>1. CASE RuleOrder[1] \in S
    BY <2>1
  <2>2. CASE RuleOrder[1] \notin S /\ RuleOrder[2] \in S
    BY <2>2
  <2>3. CASE RuleOrder[1] \notin S /\ RuleOrder[2] \notin S /\ RuleOrder[3] \in S
    BY <2>3
  <2>4. CASE /\ RuleOrder[1] \notin S /\ RuleOrder[2] \notin S /\ RuleOrder[3] \notin S
             /\ RuleOrder[4] \in S
    BY <2>4
  <2>5. CASE /\ RuleOrder[1] \notin S /\ RuleOrder[2] \notin S /\ RuleOrder[3] \notin S
             /\ RuleOrder[4] \notin S /\ RuleOrder[5] \in S
    BY <2>5
  <2>6. CASE /\ RuleOrder[1] \notin S /\ RuleOrder[2] \notin S /\ RuleOrder[3] \notin S
             /\ RuleOrder[4] \notin S /\ RuleOrder[5] \notin S /\ RuleOrder[6] \in S
    BY <2>6
  <2>7. CASE /\ \A j \in 1 .. 6 : RuleOrder[j] \notin S
             /\ RuleOrder[7] \in S
    BY <2>7
  <2>8. CASE /\ \A j \in 1 .. 7 : RuleOrder[j] \notin S
             /\ RuleOrder[8] \in S
    BY <2>8
  <2>9. CASE \A j \in 1 .. 8 : RuleOrder[j] \notin S
    BY <1>1, <2>9
  <2> QED BY <2>1, <2>2, <2>3, <2>4, <2>5, <2>6, <2>7, <2>8, <2>9
<1>3. P(CHOOSE i \in 1 .. 9 : P(i))
  BY <1>2
<1> QED BY <1>3 DEF First

-----------------------------------------------------------------------------
\* What the types say of an event.
LEMMA EventTypes ==
    ASSUME NEW e \in Event
    PROVE  /\ e.time \in Nat /\ e.kw \in Nat \cup {None}
           /\ e.running \in BOOLEAN /\ e.grid \in BOOLEAN /\ e.anomaly \in BOOLEAN
           /\ Kw(e) \in Nat
           /\ e.device \in Device /\ e.site \in Site
           /\ <<e.site, Day(e)>> \in SiteDay
           /\ e # None
BY EventAssumption DEF Kw, Device, Site, SiteDay

LEMMA KeyType ==
    ASSUME NEW e \in Event, NEW rule \in Rule
    PROVE  KeyOf(rule, e) \in Key
BY EventTypes DEF Key, KeyOf

\* A verdict is true or false.
LEMMA VerdictType ==
    ASSUME NEW h \in TraceState, NEW rule \in Rule
    PROVE  Matches(rule, h) \in BOOLEAN
BY Zenon DEF Matches

LEMMA DefaultType == DefaultLimit \in [Rule -> Nat]
BY DEF DefaultLimit

\* Merging a patch into a row gives a row.
LEMMA MergedType ==
    ASSUME NEW row \in Config, NEW patch \in Patch
    PROVE  patch.rule \in Rule /\ Merged(row, patch) \in Config
BY PatchAssumption DEF Merged, Config

LEMMA DecidedType ==
    ASSUME NEW row \in Recommendation, NEW stored \in Recommendation, NEW d \in Decision
    PROVE  /\ DecisionOn(stored, row, d) \in Recommendation
           /\ DecisionOn(stored, row, d).event = stored.event
           /\ DecisionOn(stored, row, d).status = StatusOf(d)
<1>1. CASE d = "approve"
  BY <1>1 DEF DecisionOn, Decided, Recommendation, StatusOf
<1>2. CASE d = "reject"
  BY <1>2 DEF DecisionOn, Decided, Recommendation, StatusOf
<1>3. CASE d = "resolve"
  BY <1>3 DEF DecisionOn, Decided, Recommendation, StatusOf
<1> QED BY <1>1, <1>2, <1>3 DEF Decision

LEMMA NewRowType ==
    ASSUME NEW r \in Request, NEW rule
    PROVE  /\ NewRecommendation(r, rule) \in Recommendation
           /\ NewRecommendation(r, rule).event = r
           /\ NewRecommendation(r, rule).status = "open"
           /\ \A row \in Recommendation :
                LET new == Refreshed(row, NewRecommendation(r, rule))
                IN  new \in Recommendation /\ new.event = r /\ new.status = row.status
BY DEF NewRecommendation, Recommendation, Refreshed

\* What the end of the process leaves of a request is a state of one.
LEMMA EndedType ==
    /\ \A h \in HandlerState : Ended(h) \in HandlerState
    /\ \A d \in DeskState : Ended(d) \in DeskState
BY MakeHandler, MakeDesk DEF Ended

-----------------------------------------------------------------------------
(* Types. *)

\* A decision under way is about a row that is there: rows are never deleted.
DeskInv == \A o \in Operator :
    desk[o].pc = "decide" => recommendation[desk[o].key] \in Recommendation

LEMMA InitType == Init => TypeOK
<1> SUFFICES ASSUME Init PROVE TypeOK
  OBVIOUS
<1>1. config \in [Rule -> Config]
  BY DefaultType DEF Init, Config
<1>2. handler \in [Request -> HandlerState] /\ desk \in [Operator -> DeskState]
  BY MakeHandler, MakeDesk DEF Init
<1>3. restarts \in 0 .. MaxRestarts
  BY BoundAssumption DEF Init
<1> QED BY <1>1, <1>2, <1>3 DEF Init, EmptyMaps, TypeOK

\* The steps of a request.
LEMMA JudgeType ==
    ASSUME TypeOK, NEW r \in Request, Judge(r)
    PROVE  TypeOK'
<1> DEFINE h == handler[r]
<1>h. h \in HandlerState
  BY DEF TypeOK
<1>1. CASE \E e \in Event : Arrive(r, e)
  <2>1. PICK e \in Event : Arrive(r, e)
    BY <1>1
  <2>2. handler' \in [Request -> HandlerState]
    BY <2>1, MakeHandler DEF Arrive, TypeOK
  <2> QED BY <2>1, <2>2 DEF Arrive, TypeOK, tables
<1>2. CASE ReadRules(r)
  <2>1. h.event \in Event
    BY <1>2, <1>h, HandlerShape DEF ReadRules
  <2>2. [rule \in Rule |-> config[rule].limit] \in [Rule -> Nat]
    BY DEF TypeOK, Config
  <2>3. [pc |-> "context", event |-> h.event,
         rules |-> {rule \in Rule : config[rule].enabled},
         limit |-> [rule \in Rule |-> config[rule].limit]] \in ContextState
    BY <2>1, <2>2 DEF ContextState
  <2>4. handler' \in [Request -> HandlerState]
    BY <1>2, <2>3, MakeHandler DEF ReadRules, TypeOK
  <2> QED BY <1>2, <2>4 DEF ReadRules, TypeOK, tables, memory
<1>3. CASE BuildContext(r)
  <2>1. h \in ContextState
    BY <1>3, <1>h, HandlerShape DEF BuildContext
  <2>2. /\ h.event \in Event /\ h.rules \in SUBSET Rule /\ h.limit \in [Rule -> Nat]
    BY <2>1 DEF ContextState
  <2>3. /\ previous[h.event.device] \in Event \cup {None}
        /\ peak[<<h.event.site, Day(h.event)>>] \in Nat
        /\ RecentStarts(h.event) \in SUBSET Event
    BY <2>2, EventTypes DEF TypeOK, RecentStarts
  <2>4. [pc |-> "trace", event |-> h.event, rules |-> h.rules, limit |-> h.limit,
         previous |-> previous[h.event.device],
         peak |-> peak[<<h.event.site, Day(h.event)>>],
         starts |-> RecentStarts(h.event), todo |-> h.rules, matched |-> {}]
            \in TraceState
    BY <2>2, <2>3 DEF TraceState
  <2>5. handler' \in [Request -> HandlerState]
    BY <1>3, <2>4, MakeHandler DEF BuildContext, TypeOK
  <2> QED BY <1>3, <2>5 DEF BuildContext, TypeOK, tables, memory
<1>4. CASE SaveTrace(r)
  <2> DEFINE rule == First(h.todo)
             matched == Matches(rule, h)
  <2>1. h \in TraceState /\ h.todo # {}
    BY <1>4, <1>h, HandlerShape DEF SaveTrace
  <2>2. rule \in Rule
    BY <2>1, FirstIsOne DEF TraceState
  <2>3. matched \in BOOLEAN
    BY <2>1, <2>2, VerdictType
  <2>4. TraceRow(r, rule, matched) \in Trace
    BY <2>2, <2>3 DEF TraceRow, Trace
  <2>5. [h EXCEPT !.todo = @ \ {rule},
                  !.matched = IF matched THEN @ \cup {rule} ELSE @] \in TraceState
    <3> HIDE DEF rule, matched
    <3> QED BY <2>1, <2>2 DEF TraceState
  <2>6. handler' \in [Request -> HandlerState]
    BY <1>4, <2>5, MakeHandler DEF SaveTrace, TypeOK
  <2>7. trace' \subseteq Trace
    BY <1>4, <2>4 DEF SaveTrace, TypeOK
  <2> QED BY <1>4, <2>6, <2>7 DEF SaveTrace, TypeOK, memory
<1>5. CASE UpdateRuntimeState(r)
  <2>1. h \in TraceState
    BY <1>5, <1>h, HandlerShape DEF UpdateRuntimeState
  <2>2. h.event \in Event /\ h.rules \in SUBSET Rule /\ h.matched \in SUBSET Rule
    BY <2>1 DEF TraceState
  <2>3. [pc |-> "recommend", event |-> h.event, rules |-> h.rules,
         todo |-> h.matched] \in RecommendState
    BY <2>2 DEF RecommendState
  <2>4. handler' \in [Request -> HandlerState]
    BY <1>5, <2>3, MakeHandler DEF UpdateRuntimeState, TypeOK
  <2>5. RecentStarts(h.event) \in SUBSET Event
    BY <2>2, EventTypes DEF TypeOK, RecentStarts
  <2>6. /\ previous' \in [Device -> Event \cup {None}]
        /\ peak' \in [SiteDay -> Nat] /\ starts' \in [Device -> SUBSET Event]
    BY <1>5, <2>2, <2>5, EventTypes DEF UpdateRuntimeState, MapsAfter, TypeOK
  <2>7. updates' \in Seq(Event)
    BY <1>5, <2>2 DEF UpdateRuntimeState, TypeOK
  <2> QED BY <1>5, <2>4, <2>6, <2>7 DEF UpdateRuntimeState, TypeOK, tables
<1>6. CASE Upsert(r)
  <2> DEFINE rule == First(h.todo)
             key == KeyOf(rule, h.event)
             new == NewRecommendation(r, rule)
  <2>1. h \in RecommendState /\ h.todo # {}
    BY <1>6, <1>h, HandlerShape DEF Upsert
  <2>2. rule \in Rule /\ h.event \in Event
    BY <2>1, FirstIsOne DEF RecommendState
  <2>3. key \in Key
    BY <2>2, KeyType
  <2>4. [h EXCEPT !.todo = @ \ {rule}] \in RecommendState
    <3> HIDE DEF rule
    <3> QED BY <2>1 DEF RecommendState
  <2>5. handler' \in [Request -> HandlerState]
    BY <1>6, <2>4, MakeHandler DEF Upsert, TypeOK
  <2>6. recommendation' \in [Key -> Recommendation \cup {None}]
    <3>1. new \in Recommendation
      BY NewRowType
    <3>2. \A row \in Recommendation : Refreshed(row, new) \in Recommendation
      BY NewRowType
    <3>3. recommendation' = [recommendation EXCEPT ![key] =
              IF @ = None THEN new ELSE Refreshed(@, new)]
      BY <1>6 DEF Upsert
    <3> HIDE DEF new, key
    <3> QED BY <3>1, <3>2, <3>3 DEF TypeOK
  <2>7. written' \in [Key -> [event: Request \cup {None}, decision: Decision \cup {None}]]
    <3>1. written' = [written EXCEPT ![key].event = r]
      BY <1>6 DEF Upsert
    <3> HIDE DEF key
    <3> QED BY <3>1 DEF TypeOK
  <2> QED BY <1>6, <2>5, <2>6, <2>7 DEF Upsert, TypeOK, memory
<1>7. CASE Answer(r)
  <2>1. h.event \in Event
    BY <1>7, <1>h, HandlerShape DEF Answer, RecommendState
  <2>2. handler' \in [Request -> HandlerState]
    BY <1>7, <2>1, MakeHandler DEF Answer, TypeOK
  <2> QED BY <1>7, <2>2 DEF Answer, TypeOK, tables, memory
<1> QED BY <1>1, <1>2, <1>3, <1>4, <1>5, <1>6, <1>7 DEF Judge

\* The steps of an operator.
LEMMA OperatorType ==
    ASSUME TypeOK, DeskInv, NEW o \in Operator, PatchRule(o) \/ Decide(o)
    PROVE  TypeOK'
<1> DEFINE d == desk[o]
<1>d. d \in DeskState
  BY DEF TypeOK
<1>1. CASE \E patch \in Patch : ReadRule(o, patch)
  <2>1. PICK patch \in Patch : ReadRule(o, patch)
    BY <1>1
  <2>2. config[patch.rule] \in Config
    BY PatchAssumption DEF TypeOK
  <2>3. desk' \in [Operator -> DeskState]
    BY <2>1, <2>2, MakeDesk DEF ReadRule, TypeOK
  <2> QED BY <2>1, <2>3 DEF ReadRule, TypeOK, tables, memory
<1>2. CASE WriteRule(o)
  <2>1. d.patch \in Patch /\ d.row \in Config
    BY <1>2, <1>d, DeskShape DEF WriteRule
  <2>2. d.patch.rule \in Rule /\ Merged(d.row, d.patch) \in Config
    BY <2>1, MergedType
  <2>3. config' \in [Rule -> Config]
    BY <1>2, <2>2 DEF WriteRule, TypeOK
  <2>4. desk' \in [Operator -> DeskState]
    BY <1>2, MakeDesk DEF WriteRule, TypeOK
  <2> QED BY <1>2, <2>3, <2>4 DEF WriteRule, TypeOK, memory
<1>3. CASE \E key \in Key, decision \in Decision : ReadRecommendation(o, key, decision)
  <2>1. PICK key \in Key, decision \in Decision : ReadRecommendation(o, key, decision)
    BY <1>3
  <2>2. recommendation[key] \in Recommendation
    BY <2>1 DEF ReadRecommendation, TypeOK
  <2>3. desk' \in [Operator -> DeskState]
    BY <2>1, <2>2, MakeDesk DEF ReadRecommendation, TypeOK
  <2> QED BY <2>1, <2>3 DEF ReadRecommendation, TypeOK, tables, memory
<1>4. CASE WriteDecision(o)
  <2>1. d.key \in Key /\ d.decision \in Decision /\ d.row \in Recommendation
    BY <1>4, <1>d, DeskShape DEF WriteDecision
  <2>2. recommendation[d.key] \in Recommendation
    BY <1>4 DEF WriteDecision, DeskInv
  <2>3. DecisionOn(recommendation[d.key], d.row, d.decision) \in Recommendation
    BY <2>1, <2>2, DecidedType
  <2>4. recommendation' \in [Key -> Recommendation \cup {None}]
    BY <1>4, <2>1, <2>3 DEF WriteDecision, TypeOK
  <2>5. written' \in [Key -> [event: Request \cup {None}, decision: Decision \cup {None}]]
    BY <1>4, <2>1 DEF WriteDecision, TypeOK
  <2>6. desk' \in [Operator -> DeskState]
    BY <1>4, MakeDesk DEF WriteDecision, TypeOK
  <2> QED BY <1>4, <2>4, <2>5, <2>6 DEF WriteDecision, TypeOK, memory
<1> QED BY <1>1, <1>2, <1>3, <1>4 DEF PatchRule, Decide

\* The end of the process.
LEMMA ProcessEndsType ==
    ASSUME TypeOK, ProcessEnds
    PROVE  TypeOK'
<1>1. handler' \in [Request -> HandlerState] /\ desk' \in [Operator -> DeskState]
  BY EndedType DEF ProcessEnds, Restart, TypeOK
<1>2. restarts' \in 0 .. MaxRestarts
  BY BoundAssumption DEF ProcessEnds, TypeOK
<1> QED BY <1>1, <1>2 DEF ProcessEnds, Restart, TypeOK, tables

LEMMA TypeStep ==
    ASSUME TypeOK, DeskInv, [Next]_vars
    PROVE  TypeOK'
<1>1. CASE UNCHANGED vars
  BY <1>1 DEF TypeOK, vars, tables, memory
<1>2. CASE Next
  BY <1>2, JudgeType, OperatorType, ProcessEndsType DEF Next
<1> QED BY <1>1, <1>2

-----------------------------------------------------------------------------
(* Traces and recommendations. *)

\* What a request, its traces and the recommendations have to do with each
\* other at each point: a request that saves traces has one of every rule it
\* is done with, and remembers which of them matched; one that recommends has
\* one of every rule it read, and what matched is still to be recommended or
\* has been.
TracesComplete(r, rules) ==
    /\ {t.rule : t \in TracesOf(r)} = rules
    /\ \A t, u \in TracesOf(r) : t.rule = u.rule => t = u

Recommended(r, e, todo) == \A t \in TracesOf(r) :
    t.matched => t.rule \in todo \/ recommendation[KeyOf(t.rule, e)] # None

TraceInv(r) ==
    LET h == handler[r] IN
    /\ h.pc \in {"new", "rules", "context"} => TracesOf(r) = {}
    /\ h.pc = "trace" =>
        /\ h.todo \subseteq h.rules
        /\ TracesComplete(r, h.rules \ h.todo)
        /\ \A rule \in h.matched : TraceRow(r, rule, TRUE) \in trace
        /\ \A t \in TracesOf(r) : t.matched => t.rule \in h.matched
    /\ h.pc = "recommend" =>
        /\ TracesComplete(r, h.rules)
        /\ \A rule \in h.todo : TraceRow(r, rule, TRUE) \in trace
        /\ Recommended(r, h.event, h.todo)
    /\ h.pc = "done" => Recommended(r, h.event, {})

\* A row shows what was written last, and one that is not there has not been
\* decided on.
RowsInv == \A k \in Key :
    /\ recommendation[k] # None =>
        /\ TraceRow(recommendation[k].event, k[1], TRUE) \in trace
        /\ recommendation[k].event = written[k].event
        /\ recommendation[k].status = StatusOf(written[k].decision)
    /\ recommendation[k] = None => written[k].decision = None

Inv == TypeOK /\ DeskInv /\ RowsInv /\ \A r \in Request : TraceInv(r)

\* What other requests do leaves the relation of a request to its traces alone.
LEMMA TraceInvKept ==
    ASSUME TypeOK, NEW q \in Request, TraceInv(q),
           handler'[q] = handler[q], TracesOf(q)' = TracesOf(q),
           \A k \in Key : recommendation[k] # None => recommendation'[k] # None
    PROVE  TraceInv(q)'
<1> DEFINE h == handler[q]
<1>1. h \in HandlerState
  BY DEF TypeOK
<1>2. \A t \in TracesOf(q) : t.rule \in Rule
  BY DEF TracesOf, TypeOK, Trace
<1>3. \A rule : TraceRow(q, rule, TRUE) \in trace => TraceRow(q, rule, TRUE) \in trace'
  BY DEF TracesOf, TraceRow
<1>4. ASSUME NEW e \in Event, NEW todo, Recommended(q, e, todo)
      PROVE  Recommended(q, e, todo)'
  BY <1>2, <1>4, KeyType DEF Recommended
<1>5. \A rules : TracesComplete(q, rules) => TracesComplete(q, rules)'
  BY DEF TracesComplete
<1>6. h.pc \in {"recommend", "done"} => h.event \in Event
  BY <1>1, HandlerShape DEF RecommendState
<1>7. CASE h.pc = "trace"
  BY <1>3, <1>5, <1>7 DEF TraceInv
<1>8. CASE h.pc = "recommend"
  BY <1>3, <1>4, <1>5, <1>6, <1>8 DEF TraceInv
<1>9. CASE h.pc = "done"
  BY <1>4, <1>6, <1>9 DEF TraceInv
<1>10. CASE h.pc \notin {"trace", "recommend", "done"}
  BY <1>10 DEF TraceInv
<1> QED BY <1>7, <1>8, <1>9, <1>10

LEMMA InitInv == Init => Inv
<1> SUFFICES ASSUME Init PROVE Inv
  OBVIOUS
<1>1. DeskInv
  BY DEF Init, DeskInv
<1>2. RowsInv
  BY DEF Init, RowsInv
<1>3. \A r \in Request : TraceInv(r)
  BY DEF Init, TraceInv, TracesOf
<1> QED BY <1>1, <1>2, <1>3, InitType DEF Inv

\* A recommendation that is there stays there.
LEMMA RowsStay ==
    ASSUME TypeOK, DeskInv, [Next]_vars, NEW k \in Key, recommendation[k] # None
    PROVE  recommendation'[k] # None
<1>1. CASE \E r \in Request : Upsert(r)
  <2>1. PICK r \in Request : Upsert(r)
    BY <1>1
  <2> DEFINE key == KeyOf(First(handler[r].todo), handler[r].event)
             new == NewRecommendation(r, First(handler[r].todo))
  <2>2. recommendation[k] \in Recommendation
    BY DEF TypeOK
  <2>3. Refreshed(recommendation[k], new) \in Recommendation
    BY <2>2, NewRowType
  <2>4. recommendation' = [recommendation EXCEPT ![key] =
            IF @ = None THEN new ELSE Refreshed(@, new)]
    BY <2>1 DEF Upsert
  <2>5. recommendation'[k] \in {recommendation[k], Refreshed(recommendation[k], new)}
    <3> HIDE DEF key, new
    <3> QED BY <2>4 DEF TypeOK
  <2> QED BY <2>2, <2>3, <2>5, NoneAssumption
<1>2. CASE \E o \in Operator : WriteDecision(o)
  <2>1. PICK o \in Operator : WriteDecision(o)
    BY <1>2
  <2> DEFINE d == desk[o]
  <2>2. d.key \in Key /\ d.decision \in Decision /\ d.row \in Recommendation
    BY <2>1, DeskShape DEF WriteDecision, TypeOK
  <2>3. recommendation[d.key] \in Recommendation
    BY <2>1 DEF WriteDecision, DeskInv
  <2>4. DecisionOn(recommendation[d.key], d.row, d.decision) \in Recommendation
    BY <2>2, <2>3, DecidedType
  <2> QED BY <2>1, <2>2, <2>4, NoneAssumption DEF WriteDecision, TypeOK
<1>3. CASE UNCHANGED recommendation
  BY <1>3
<1> QED BY <1>1, <1>2, <1>3
    DEF Next, Judge, PatchRule, Decide, ProcessEnds, Restart, vars, tables,
        Arrive, ReadRules, BuildContext, SaveTrace, UpdateRuntimeState, Answer,
        ReadRule, WriteRule, ReadRecommendation

LEMMA DeskStep ==
    ASSUME TypeOK, DeskInv, [Next]_vars
    PROVE  DeskInv'
<1> SUFFICES ASSUME NEW o \in Operator, desk'[o].pc = "decide"
             PROVE  recommendation'[desk'[o].key] \in Recommendation
  BY DEF DeskInv
<1>1. TypeOK'
  BY TypeStep
<1>2. desk'[o].key \in Key
  BY <1>1, DeskShape DEF TypeOK
<1>3. recommendation[desk'[o].key] # None
  <2>1. CASE desk'[o] = desk[o]
    BY <2>1, NoneAssumption DEF DeskInv
  <2>2. CASE desk'[o] # desk[o]
    <3>1. CASE \E k \in Key, decision \in Decision : ReadRecommendation(o, k, decision)
      BY <3>1 DEF ReadRecommendation, TypeOK
    <3>2. CASE ProcessEnds
      BY <3>2, <2>2 DEF ProcessEnds, Restart, Ended
    <3>3. CASE \E p \in Operator : WriteDecision(p) \/ WriteRule(p)
               \/ \E patch \in Patch : ReadRule(p, patch)
      BY <3>3, <2>2 DEF WriteDecision, WriteRule, ReadRule, TypeOK
    <3>4. CASE \E p \in Operator : \E k \in Key, decision \in Decision :
                  ReadRecommendation(p, k, decision)
      BY <3>4, <3>1, <2>2 DEF ReadRecommendation, TypeOK
    <3>5. CASE UNCHANGED desk
      BY <3>5, <2>2
    <3> QED BY <3>1, <3>2, <3>3, <3>4, <3>5
        DEF Next, Judge, PatchRule, Decide, vars,
            Arrive, ReadRules, BuildContext, SaveTrace, UpdateRuntimeState, Upsert, Answer
  <2> QED BY <2>1, <2>2
<1>4. recommendation'[desk'[o].key] # None
  BY <1>2, <1>3, RowsStay
<1> QED BY <1>1, <1>2, <1>4 DEF TypeOK

\* A step of a request keeps what relates it to its own traces.
LEMMA JudgeOwn ==
    ASSUME TypeOK, DeskInv, NEW r \in Request, TraceInv(r), Judge(r)
    PROVE  TraceInv(r)'
<1> DEFINE h == handler[r]
<1>h. h \in HandlerState
  BY DEF TypeOK
<1>t. \A t \in TracesOf(r) : t \in Trace /\ t.event = r /\ t = TraceRow(r, t.rule, t.matched)
  BY DEF TracesOf, TypeOK, Trace, TraceRow
<1>1. CASE \E e \in Event : Arrive(r, e)
  <2>1. PICK e \in Event : Arrive(r, e)
    BY <1>1
  <2>2. handler'[r].pc = "rules" /\ TracesOf(r)' = TracesOf(r)
    BY <2>1 DEF Arrive, TypeOK, TracesOf, tables
  <2> QED BY <2>1, <2>2 DEF TraceInv, Arrive
<1>2. CASE ReadRules(r)
  <2>1. handler'[r].pc = "context" /\ TracesOf(r)' = TracesOf(r)
    BY <1>2 DEF ReadRules, TypeOK, TracesOf, tables
  <2> QED BY <1>2, <2>1 DEF TraceInv, ReadRules
<1>3. CASE BuildContext(r)
  <2>1. /\ handler'[r].pc = "trace" /\ handler'[r].todo = h.rules
        /\ handler'[r].rules = h.rules /\ handler'[r].matched = {}
        /\ TracesOf(r)' = TracesOf(r)
    BY <1>3 DEF BuildContext, TypeOK, TracesOf, tables
  <2>2. TracesOf(r) = {}
    BY <1>3 DEF TraceInv, BuildContext
  <2> QED BY <2>1, <2>2 DEF TraceInv, TracesComplete
<1>4. CASE SaveTrace(r)
  <2> DEFINE rule == First(h.todo)
             matched == Matches(rule, h)
             row == TraceRow(r, rule, matched)
  <2>1. h \in TraceState /\ h.pc = "trace" /\ h.todo # {}
    BY <1>4, <1>h, HandlerShape DEF SaveTrace
  <2>2. rule \in h.todo /\ rule \in Rule
    BY <2>1, FirstIsOne DEF TraceState
  <2>3. matched \in BOOLEAN
    BY <2>1, <2>2, VerdictType
  <2>4. trace' = trace \cup {row}
    BY <1>4 DEF SaveTrace
  <2>5. handler'[r] = [h EXCEPT !.todo = @ \ {rule},
                                !.matched = IF matched THEN @ \cup {rule} ELSE @]
    BY <1>4 DEF SaveTrace, TypeOK
  <2>6. /\ handler'[r].pc = "trace" /\ handler'[r].rules = h.rules
        /\ handler'[r].todo = h.todo \ {rule}
        /\ handler'[r].matched = IF matched THEN h.matched \cup {rule} ELSE h.matched
    <3> HIDE DEF rule, matched
    <3> QED BY <2>1, <2>5 DEF TraceState
  <2>7. TracesOf(r)' = TracesOf(r) \cup {row}
    BY <2>4 DEF TracesOf, TraceRow
  <2>8. row.rule = rule /\ row.matched = matched
    BY DEF TraceRow
  <2>9. row = TraceRow(r, rule, TRUE) \/ ~matched
    BY <2>3
  <2> HIDE DEF rule, matched, row
  <2>10. /\ h.todo \subseteq h.rules
         /\ TracesComplete(r, h.rules \ h.todo)
         /\ \A u \in h.matched : TraceRow(r, u, TRUE) \in trace
         /\ \A t \in TracesOf(r) : t.matched => t.rule \in h.matched
    BY <2>1 DEF TraceInv
  <2>12. TracesComplete(r, h.rules \ h.todo)'
         <=> /\ {t.rule : t \in TracesOf(r)'} = h'.rules \ h'.todo
             /\ \A t, u \in TracesOf(r)' : t.rule = u.rule => t = u
    BY DEF TracesComplete
  <2>13. TracesComplete(r, h.rules \ h.todo)'
    <3>1. {t.rule : t \in TracesOf(r)} = h.rules \ h.todo
      BY <2>10 DEF TracesComplete
    <3>2. {t.rule : t \in TracesOf(r)'} = (h.rules \ h.todo) \cup {rule}
      BY <2>7, <2>8, <3>1
    <3>3. \A t \in TracesOf(r) : t.rule # rule
      BY <2>2, <3>1
    <3>4. \A t, u \in TracesOf(r)' : t.rule = u.rule => t = u
      BY <2>7, <2>8, <2>10, <3>3 DEF TracesComplete
    <3> QED BY <2>2, <2>6, <2>10, <2>12, <3>2, <3>4
  <2>14. \A u \in handler'[r].matched : TraceRow(r, u, TRUE) \in trace'
    <3>1. CASE matched
      <4>1. TraceRow(r, rule, TRUE) \in trace'
        BY <2>4, <2>9, <3>1
      <4>2. handler'[r].matched = h.matched \cup {rule}
        BY <2>6, <3>1
      <4> QED BY <2>4, <2>10, <4>1, <4>2
    <3>2. CASE ~matched
      BY <2>4, <2>6, <2>10, <3>2
    <3> QED BY <3>1, <3>2
  <2>15. \A t \in TracesOf(r)' : t.matched => t.rule \in handler'[r].matched
    BY <2>6, <2>7, <2>8, <2>10
  <2> QED BY <2>6, <2>10, <2>13, <2>14, <2>15 DEF TraceInv


<1>5. CASE UpdateRuntimeState(r)
  <2>1. /\ h.pc = "trace" /\ h.todo = {}
        /\ handler'[r] = [pc |-> "recommend", event |-> h.event,
                          rules |-> h.rules, todo |-> h.matched]
        /\ trace' = trace /\ recommendation' = recommendation
    BY <1>5 DEF UpdateRuntimeState, TypeOK, tables
  <2>2. TracesOf(r)' = TracesOf(r)
    BY <2>1 DEF TracesOf
  <2>3. /\ TracesComplete(r, h.rules)
        /\ \A rule \in h.matched : TraceRow(r, rule, TRUE) \in trace
        /\ \A t \in TracesOf(r) : t.matched => t.rule \in h.matched
    BY <2>1 DEF TraceInv
  <2>4. /\ handler'[r].pc = "recommend" /\ handler'[r].rules = h.rules
        /\ handler'[r].todo = h.matched
    BY <2>1
  <2>5. TracesComplete(r, h.rules)'
    BY <2>2, <2>3, <2>4 DEF TracesComplete
  <2>6. Recommended(r, h.event, h.todo)'
    BY <2>2, <2>3, <2>4 DEF Recommended
  <2>7. \A rule \in handler'[r].todo : TraceRow(r, rule, TRUE) \in trace'
    BY <2>1, <2>3, <2>4
  <2> QED BY <2>4, <2>5, <2>6, <2>7 DEF TraceInv
<1>6. CASE Upsert(r)
  <2> DEFINE rule == First(h.todo)
             key == KeyOf(rule, h.event)
  <2>1. h \in RecommendState /\ h.pc = "recommend" /\ h.todo # {}
    BY <1>6, <1>h, HandlerShape DEF Upsert
  <2>2. rule \in Rule /\ h.event \in Event
    BY <2>1, FirstIsOne DEF RecommendState
  <2>3. handler'[r] = [h EXCEPT !.todo = @ \ {rule}]
    BY <1>6 DEF Upsert, TypeOK
  <2>4. /\ handler'[r].pc = "recommend" /\ handler'[r].event = h.event
        /\ handler'[r].rules = h.rules /\ handler'[r].todo = h.todo \ {rule}
    <3> HIDE DEF rule
    <3> QED BY <2>1, <2>3 DEF RecommendState
  <2>5. TracesOf(r)' = TracesOf(r) /\ trace' = trace
    BY <1>6 DEF Upsert, TracesOf
  <2>6. recommendation'[key] # None
    <3> DEFINE new == NewRecommendation(r, rule)
    <3>1. key \in Key
      BY <2>2, KeyType
    <3>2. recommendation'[key] = IF recommendation[key] = None THEN new
                                 ELSE Refreshed(recommendation[key], new)
      BY <1>6, <3>1 DEF Upsert, TypeOK
    <3>3. recommendation'[key] \in Recommendation
      BY <3>1, <3>2, NewRowType DEF TypeOK
    <3> QED BY <3>3, NoneAssumption
  <2>7. \A k \in Key : recommendation[k] # None => recommendation'[k] # None
    <3>1. [Next]_vars
      BY <1>6 DEF Next, Judge
    <3> QED BY <3>1, RowsStay
  <2>8. /\ TracesComplete(r, h.rules)
        /\ \A u \in h.todo : TraceRow(r, u, TRUE) \in trace
        /\ Recommended(r, h.event, h.todo)
    BY <2>1 DEF TraceInv
  <2>9. ASSUME NEW t \in TracesOf(r)', t.matched
        PROVE  t.rule \in handler'[r].todo
               \/ recommendation'[KeyOf(t.rule, handler'[r].event)] # None
    <3>1. t \in TracesOf(r) /\ t.rule \in Rule
      BY <1>t, <2>5 DEF Trace
    <3>2. t.rule \in h.todo \/ recommendation[KeyOf(t.rule, h.event)] # None
      BY <2>8, <2>9, <3>1 DEF Recommended
    <3>3. KeyOf(t.rule, h.event) \in Key
      BY <2>2, <3>1, KeyType
    <3>4. CASE t.rule = rule
      BY <2>4, <2>6, <3>4
    <3>5. CASE t.rule # rule
      <4> HIDE DEF rule
      <4> QED BY <2>4, <2>7, <3>2, <3>3, <3>5
    <3> QED BY <3>4, <3>5
  <2>10. Recommended(r, h.event, h.todo)'
    BY <2>9 DEF Recommended
  <2>11. TracesComplete(r, h.rules)'
    BY <2>4, <2>5, <2>8 DEF TracesComplete
  <2>12. \A u \in handler'[r].todo : TraceRow(r, u, TRUE) \in trace'
    <3> HIDE DEF rule
    <3> QED BY <2>4, <2>5, <2>8
  <2> QED BY <2>4, <2>10, <2>11, <2>12 DEF TraceInv
<1>7. CASE Answer(r)
  <2>1. /\ h.pc = "recommend" /\ h.todo = {}
        /\ handler'[r] = [pc |-> "done", event |-> h.event]
        /\ trace' = trace /\ recommendation' = recommendation
    BY <1>7 DEF Answer, TypeOK, tables
  <2>2. TracesOf(r)' = TracesOf(r)
    BY <2>1 DEF TracesOf
  <2> QED BY <2>1, <2>2 DEF TraceInv, Recommended
<1> QED BY <1>1, <1>2, <1>3, <1>4, <1>5, <1>6, <1>7 DEF Judge

\* An undecided recommendation is open.
LEMMA NoDecision == StatusOf(None) = "open"
BY NoneAssumption DEF StatusOf, Decision

\* Rows keep showing what was written last.
LEMMA RowsStep ==
    ASSUME TypeOK, DeskInv, RowsInv, \A r \in Request : TraceInv(r), [Next]_vars
    PROVE  RowsInv'
<1>1. CASE \E r \in Request : Upsert(r)
  <2>1. PICK r \in Request : Upsert(r)
    BY <1>1
  <2> DEFINE h == handler[r]
             rule == First(h.todo)
             key == KeyOf(rule, h.event)
             new == NewRecommendation(r, rule)
  <2>2. h \in RecommendState /\ h.pc = "recommend" /\ h.todo # {}
    BY <2>1, HandlerShape DEF Upsert, TypeOK
  <2>3. rule \in h.todo /\ rule \in Rule /\ h.event \in Event
    BY <2>2, FirstIsOne DEF RecommendState
  <2>4. key \in Key /\ key[1] = rule
    BY <2>3, KeyType DEF KeyOf
  <2>5. TraceRow(r, rule, TRUE) \in trace /\ trace' = trace
    BY <2>1, <2>2, <2>3 DEF TraceInv, Upsert
  <2>6. /\ recommendation'[key] = IF recommendation[key] = None THEN new
                                  ELSE Refreshed(recommendation[key], new)
        /\ \A k \in Key : k # key => recommendation'[k] = recommendation[k]
    BY <2>1, <2>4 DEF Upsert, TypeOK
  <2>7. /\ written'[key].event = r /\ written'[key].decision = written[key].decision
        /\ \A k \in Key : k # key => written'[k] = written[k]
    <3>1. written' = [written EXCEPT ![key].event = r]
      BY <2>1 DEF Upsert
    <3> HIDE DEF key
    <3> QED BY <2>4, <3>1 DEF TypeOK
  <2>8. ASSUME recommendation[key] = None
        PROVE  /\ recommendation'[key] \in Recommendation
               /\ recommendation'[key].event = r
               /\ recommendation'[key].status = StatusOf(written'[key].decision)
    <3>1. written[key].decision = None
      BY <2>4, <2>8 DEF RowsInv
    <3>2. new \in Recommendation /\ new.event = r /\ new.status = "open"
      BY NewRowType
    <3> HIDE DEF key, new
    <3> QED BY <2>6, <2>7, <2>8, <3>1, <3>2, NoDecision
  <2>9. ASSUME recommendation[key] # None
        PROVE  /\ recommendation'[key] \in Recommendation
               /\ recommendation'[key].event = r
               /\ recommendation'[key].status = StatusOf(written'[key].decision)
    <3>1. recommendation[key] \in Recommendation
      BY <2>4, <2>9 DEF TypeOK
    <3>2. recommendation[key].status = StatusOf(written[key].decision)
      BY <2>4, <2>9 DEF RowsInv
    <3>3. recommendation'[key] = Refreshed(recommendation[key], new)
      BY <2>6, <2>9
    <3>4. /\ Refreshed(recommendation[key], new) \in Recommendation
          /\ Refreshed(recommendation[key], new).event = r
          /\ Refreshed(recommendation[key], new).status = recommendation[key].status
      BY <3>1, NewRowType
    <3> HIDE DEF key, new
    <3> QED BY <2>7, <3>2, <3>3, <3>4
  <2>10. ASSUME NEW k \in Key, k # key
         PROVE  recommendation'[k] = recommendation[k] /\ written'[k] = written[k]
    BY <2>6, <2>7, <2>10
  <2> HIDE DEF key, new, rule
  <2> QED BY <2>4, <2>5, <2>7, <2>8, <2>9, <2>10, NoneAssumption DEF RowsInv
<1>2. CASE \E o \in Operator : WriteDecision(o)
  <2>1. PICK o \in Operator : WriteDecision(o)
    BY <1>2
  <2> DEFINE d == desk[o]
             key == d.key
  <2>2. key \in Key /\ d.decision \in Decision /\ d.row \in Recommendation
    BY <2>1, DeskShape DEF WriteDecision, TypeOK
  <2>3. recommendation[key] \in Recommendation
    BY <2>1 DEF WriteDecision, DeskInv
  <2>4. /\ recommendation'[key] = DecisionOn(recommendation[key], d.row, d.decision)
        /\ \A k \in Key : k # key => recommendation'[k] = recommendation[k]
        /\ trace' = trace
    BY <2>1, <2>2 DEF WriteDecision, TypeOK
  <2>5. /\ written'[key].event = written[key].event /\ written'[key].decision = d.decision
        /\ \A k \in Key : k # key => written'[k] = written[k]
    <3>1. written' = [written EXCEPT ![key].decision = d.decision]
      BY <2>1 DEF WriteDecision
    <3> HIDE DEF key, d
    <3> QED BY <2>2, <3>1 DEF TypeOK
  <2>6. /\ recommendation'[key].event = recommendation[key].event
        /\ recommendation'[key].status = StatusOf(written'[key].decision)
        /\ recommendation'[key] \in Recommendation
    <3>1. LET row == DecisionOn(recommendation[key], d.row, d.decision)
          IN  /\ row \in Recommendation /\ row.event = recommendation[key].event
              /\ row.status = StatusOf(d.decision)
      BY <2>2, <2>3, DecidedType
    <3> HIDE DEF key, d
    <3> QED BY <2>4, <2>5, <3>1
  <2>7. ASSUME NEW k \in Key, k # key
        PROVE  recommendation'[k] = recommendation[k] /\ written'[k] = written[k]
    BY <2>4, <2>5, <2>7
  <2> HIDE DEF key, d
  <2> QED BY <2>2, <2>3, <2>4, <2>5, <2>6, <2>7, NoneAssumption DEF RowsInv
<1>3. CASE \E r \in Request : SaveTrace(r)
  BY <1>3 DEF SaveTrace, RowsInv
<1>4. CASE UNCHANGED <<trace, recommendation, written>>
  BY <1>4 DEF RowsInv
<1> QED BY <1>1, <1>2, <1>3, <1>4
    DEF Next, Judge, PatchRule, Decide, ProcessEnds, Restart, vars, tables,
        Arrive, ReadRules, BuildContext, UpdateRuntimeState, Answer,
        ReadRule, WriteRule, ReadRecommendation

\* A step of one request leaves the others and their traces alone.
LEMMA JudgeOthers ==
    ASSUME TypeOK, NEW r \in Request, Judge(r), NEW q \in Request, q # r
    PROVE  handler'[q] = handler[q] /\ TracesOf(q)' = TracesOf(q)
<1>1. CASE SaveTrace(r)
  BY <1>1 DEF SaveTrace, TypeOK, TracesOf, TraceRow
<1>2. CASE ~SaveTrace(r)
  BY <1>2 DEF Judge, Arrive, ReadRules, BuildContext, UpdateRuntimeState, Upsert, Answer,
              TypeOK, TracesOf, tables
<1> QED BY <1>1, <1>2

LEMMA TraceStep ==
    ASSUME TypeOK, DeskInv, [Next]_vars, NEW q \in Request, TraceInv(q)
    PROVE  TraceInv(q)'
<1>1. \A k \in Key : recommendation[k] # None => recommendation'[k] # None
  BY RowsStay
<1>2. CASE Judge(q)
  BY <1>2, JudgeOwn
<1>3. CASE \E r \in Request : r # q /\ Judge(r)
  BY <1>1, <1>3, JudgeOthers, TraceInvKept
<1>4. CASE (\E o \in Operator : PatchRule(o) \/ Decide(o)) \/ UNCHANGED vars
  <2>1. handler' = handler /\ trace' = trace
    BY <1>4 DEF PatchRule, Decide, ReadRule, WriteRule, ReadRecommendation, WriteDecision,
                vars, tables
  <2> QED BY <1>1, <2>1, TraceInvKept DEF TracesOf
<1>5. CASE ProcessEnds
  <2>1. handler'[q] = Ended(handler[q]) /\ TracesOf(q)' = TracesOf(q)
    BY <1>5 DEF ProcessEnds, Restart, TracesOf, tables
  <2>2. CASE handler[q].pc \in {"new", "done"}
    BY <1>1, <2>1, <2>2, TraceInvKept DEF Ended
  <2>3. CASE handler[q].pc \notin {"new", "done"}
    BY <2>1, <2>3 DEF Ended, TraceInv
  <2> QED BY <2>2, <2>3
<1> QED BY <1>2, <1>3, <1>4, <1>5 DEF Next

\* The inductive invariant.
LEMMA InvStep == Inv /\ [Next]_vars => Inv'
BY TypeStep, DeskStep, RowsStep, TraceStep DEF Inv

LEMMA Invariance == Spec => []Inv
BY InitInv, InvStep, PTL DEF Spec

-----------------------------------------------------------------------------
\* The state of the rules engine, of the recommendations and of the requests in
\* flight keeps its shape, whatever events, patches and decisions interleave.
THEOREM RulesTypeCorrect == Spec => []TypeOK
<1>1. Inv => TypeOK
  BY DEF Inv
<1> QED BY <1>1, Invariance, PTL

\* Every event is judged once by every rule of the reading its request made, and
\* by no other, for any number of requests and patches (rules-engine.service.ts:48-74).
THEOREM JudgedHolds == Spec => []JudgedByOneReading
<1>1. Inv => JudgedByOneReading
  BY DEF Inv, JudgedByOneReading, TraceInv, TracesComplete
<1> QED BY <1>1, Invariance, PTL

\* A recommendation rests on a matched trace, and an answered request has left a
\* recommendation for every rule its event matched (ingestion.ts:44-63).
THEOREM RecommendedHolds == Spec => []RecommendedIffMatched
<1>1. Inv => RecommendedIffMatched
  BY DEF Inv, RowsInv, RecommendedIffMatched, TraceInv, Recommended
<1> QED BY <1>1, Invariance, PTL

\* Neither a match nor a decision that was written on a recommendation is lost to
\* the other, however their requests interleave
\* (postgres-recommendation.repository.ts:72-94 and 211-235).
THEOREM KeptHolds == Spec => []MatchesAndDecisionsKept
<1>1. Inv => MatchesAndDecisionsKept
  BY DEF Inv, RowsInv, MatchesAndDecisionsKept
<1> QED BY <1>1, Invariance, PTL

-----------------------------------------------------------------------------
(***************************************************************************)
(* The maps summarise the events judged.  That the previous event of a     *)
(* device is that of its last update is kept as the existence of that      *)
(* update: the property alone says nothing while there is no last one.     *)
(***************************************************************************)
Loads(s) == {Kw(updates[i]) : i \in {j \in DOMAIN updates :
                                       <<updates[j].site, Day(updates[j])>> = s}}

LastKept == \A d \in Device : previous[d] # None =>
    \E j \in Of(d) : previous[d] = updates[j] /\ \A k \in Of(d) : k <= j

MapsInv == MapsSummarise /\ LastKept

\* What bringing the maps up to date changes: one event joins the updates, and
\* the maps change at its device and at its site's day.
LEMMA UpdateView ==
    ASSUME TypeOK, NEW r \in Request, UpdateRuntimeState(r)
    PROVE  \E e \in Event, n \in Nat :
      /\ DOMAIN updates = 1 .. n /\ DOMAIN updates' = 1 .. n + 1
      /\ updates'[n + 1] = e /\ \A i \in 1 .. n : updates'[i] = updates[i]
      /\ previous' = [previous EXCEPT ![e.device] = e]
      /\ peak'[<<e.site, Day(e)>>] =
            IF Kw(e) > peak[<<e.site, Day(e)>>] THEN Kw(e) ELSE peak[<<e.site, Day(e)>>]
      /\ \A s \in SiteDay : s # <<e.site, Day(e)>> => peak'[s] = peak[s]
      /\ starts' = [starts EXCEPT ![e.device] = RecentStarts(e) \cup
            (IF e.running /\ ~WasRunning(previous[e.device]) THEN {e} ELSE {})]
<1> DEFINE h == handler[r]
           e == h.event
           n == Len(updates)
<1>1. h \in HandlerState /\ h.pc = "trace"
  BY DEF TypeOK, UpdateRuntimeState
<1>2. e \in Event
  BY <1>1, HandlerShape DEF TraceState
<1>3. updates \in Seq(Event) /\ n \in Nat
  BY DEF TypeOK
<1>4. updates' = Append(updates, e)
  BY DEF UpdateRuntimeState
<1>5. /\ DOMAIN updates = 1 .. n /\ DOMAIN updates' = 1 .. n + 1
      /\ updates'[n + 1] = e /\ \A i \in 1 .. n : updates'[i] = updates[i]
  <2> HIDE DEF e
  <2> QED BY <1>2, <1>3, <1>4
<1>6. /\ previous' = [previous EXCEPT ![e.device] = e]
      /\ starts' = [starts EXCEPT ![e.device] = RecentStarts(e) \cup
            (IF e.running /\ ~WasRunning(previous[e.device]) THEN {e} ELSE {})]
      /\ peak' = [peak EXCEPT ![<<e.site, Day(e)>>] =
            IF Kw(e) > peak[<<e.site, Day(e)>>] THEN Kw(e) ELSE peak[<<e.site, Day(e)>>]]
  BY DEF UpdateRuntimeState, MapsAfter
<1>7. peak \in [SiteDay -> Nat] /\ <<e.site, Day(e)>> \in SiteDay
  BY <1>2, EventTypes DEF TypeOK
<1> HIDE DEF e, n
<1>8. /\ peak'[<<e.site, Day(e)>>] =
            IF Kw(e) > peak[<<e.site, Day(e)>>] THEN Kw(e) ELSE peak[<<e.site, Day(e)>>]
      /\ \A s \in SiteDay : s # <<e.site, Day(e)>> => peak'[s] = peak[s]
  BY <1>6, <1>7
<1> QED BY <1>2, <1>3, <1>5, <1>6, <1>8

\* The last start is that of the update which finds its device off.
LEMMA BeganLast ==
    ASSUME TypeOK, MapsInv, NEW d \in Device
    PROVE  (\A j \in Of(d) : (\A k \in Of(d) : k <= j) => ~updates[j].running)
              <=> ~WasRunning(previous[d])
<1>1. CASE previous[d] = None
  BY <1>1 DEF MapsInv, MapsSummarise, WasRunning
<1>2. CASE previous[d] # None
  <2>1. PICK j \in Of(d) : previous[d] = updates[j] /\ \A k \in Of(d) : k <= j
    BY <1>2 DEF MapsInv, LastKept
  <2>2. \A i \in Of(d) : (\A k \in Of(d) : k <= i) => updates[i] = previous[d]
    BY DEF MapsInv, MapsSummarise
  <2> QED BY <1>2, <2>1, <2>2 DEF WasRunning
<1> QED BY <1>1, <1>2

LEMMA UpdateSummarises ==
    ASSUME TypeOK, MapsInv, NEW r \in Request, UpdateRuntimeState(r)
    PROVE  MapsInv'
<1>1. PICK e \in Event, n \in Nat :
      /\ DOMAIN updates = 1 .. n /\ DOMAIN updates' = 1 .. n + 1
      /\ updates'[n + 1] = e /\ \A i \in 1 .. n : updates'[i] = updates[i]
      /\ previous' = [previous EXCEPT ![e.device] = e]
      /\ peak'[<<e.site, Day(e)>>] =
            IF Kw(e) > peak[<<e.site, Day(e)>>] THEN Kw(e) ELSE peak[<<e.site, Day(e)>>]
      /\ \A s \in SiteDay : s # <<e.site, Day(e)>> => peak'[s] = peak[s]
      /\ starts' = [starts EXCEPT ![e.device] = RecentStarts(e) \cup
            (IF e.running /\ ~WasRunning(previous[e.device]) THEN {e} ELSE {})]
  BY UpdateView
<1>2. /\ previous \in [Device -> Event \cup {None}] /\ starts \in [Device -> SUBSET Event]
      /\ peak \in [SiteDay -> Nat] /\ e.device \in Device /\ e # None /\ Kw(e) \in Nat
  BY EventTypes DEF TypeOK
<1>3. \A i \in 1 .. n : i \in 1 .. n + 1 /\ i # n + 1 /\ i < n + 1 /\ ~(n + 1 < i)
  OBVIOUS
<1>4. \A i \in 1 .. n + 1 : i \in 1 .. n \/ i = n + 1
  OBVIOUS
<1>5. ASSUME NEW d \in Device
      PROVE  /\ Of(d) \subseteq 1 .. n
             /\ d = e.device => Of(d)' = Of(d) \cup {n + 1}
             /\ d # e.device => Of(d)' = Of(d)
  BY <1>1, <1>3, <1>4 DEF Of
<1>6. ASSUME NEW d \in Device
      PROVE  /\ (previous'[d] = None) <=> (Of(d)' = {})
             /\ \A i \in Of(d)' : (\A j \in Of(d)' : j <= i) => previous'[d] = updates'[i]
             /\ previous'[d] # None =>
                   \E j \in Of(d)' : previous'[d] = updates'[j] /\ \A k \in Of(d)' : k <= j
  <2>1. CASE d = e.device
    <3>1. previous'[d] = e /\ Of(d)' = Of(d) \cup {n + 1}
      BY <1>1, <1>2, <1>5, <2>1
    <3>2. \A k \in Of(d)' : k <= n + 1
      BY <1>3, <1>5, <3>1
    <3>3. \A i \in Of(d)' : n + 1 <= i => i = n + 1
      BY <1>3, <1>5, <3>1
    <3> QED BY <1>1, <1>2, <3>1, <3>2, <3>3
  <2>2. CASE d # e.device
    <3>1. previous'[d] = previous[d] /\ Of(d)' = Of(d)
      BY <1>1, <1>2, <1>5, <2>2
    <3>2. \A i \in Of(d) : updates'[i] = updates[i]
      BY <1>1, <1>5
    <3> QED BY <3>1, <3>2 DEF MapsInv, MapsSummarise, LastKept
  <2> QED BY <2>1, <2>2
<1>7. ASSUME NEW i \in 1 .. n PROVE Began(i)' <=> Began(i)
  <2>1. updates'[i] = updates[i]
    BY <1>1
  <2>2. ASSUME NEW d
        PROVE  {j \in Of(d)' : j < i} = {j \in Of(d) : j < i}
    BY <1>1, <1>3, <1>4 DEF Of
  <2>3. \A d : \A j \in Of(d) : updates'[j] = updates[j]
    BY <1>1 DEF Of
  <2> QED BY <2>1, <2>2, <2>3 DEF Began
<1>8. Began(n + 1)' <=> e.running /\ ~WasRunning(previous[e.device])
  <2>1. {j \in Of(e.device)' : j < n + 1} = Of(e.device)
    BY <1>2, <1>3, <1>5
  <2>2. \A j \in Of(e.device) : updates'[j] = updates[j]
    BY <1>1, <1>2, <1>5
  <2>3. Began(n + 1)' <=> e.running /\ \A j \in Of(e.device) :
              (\A k \in Of(e.device) : k <= j) => ~updates[j].running
    BY <1>1, <2>1, <2>2 DEF Began
  <2> QED BY <1>2, <2>3, BeganLast
<1>9. ASSUME NEW i \in 1 .. n
      PROVE  StillCounted(i)' <=> /\ StillCounted(i)
                                  /\ updates[i].device = e.device =>
                                        e.time <= updates[i].time + 1440
  <2>1. updates'[i] = updates[i] /\ n + 1 > i
    BY <1>1, <1>3
  <2>2. \A j : j \in Of(updates[i].device)' <=>
            \/ j \in Of(updates[i].device)
            \/ j = n + 1 /\ updates[i].device = e.device
    BY <1>1, <1>3, <1>4 DEF Of
  <2>3. \A j \in Of(updates[i].device) : updates'[j] = updates[j]
    BY <1>1 DEF Of
  <2>4. StillCounted(i)' <=> \A j \in Of(updates[i].device)' :
              j > i => updates'[j].time <= updates[i].time + 1440
    BY <2>1 DEF StillCounted
  <2> QED BY <1>1, <2>1, <2>2, <2>3, <2>4 DEF StillCounted
<1>10. StillCounted(n + 1)'
  <2>1. \A j \in Of(e.device)' : ~(j > n + 1)
    BY <1>2, <1>3, <1>5
  <2> QED BY <1>1, <2>1 DEF StillCounted
<1>11. ASSUME NEW d \in Device
       PROVE  starts'[d] = {updates'[i] : i \in {j \in Of(d)' : Began(j)' /\ StillCounted(j)'}}
  <2> DEFINE Then == {updates[i] : i \in {j \in Of(d) : Began(j) /\ StillCounted(j)}}
             Now == {updates'[i] : i \in {j \in Of(d)' : Began(j)' /\ StillCounted(j)'}}
  <2>1. starts[d] = Then
    BY DEF MapsInv, MapsSummarise
  <2>2. \A i \in Of(d) : i \in 1 .. n /\ updates'[i] = updates[i] /\ updates[i].device = d
    BY <1>1, <1>5 DEF Of
  <2>3. CASE d # e.device
    <3>1. \A i \in Of(d) : Began(i)' = Began(i) /\ StillCounted(i)' = StillCounted(i)
      BY <1>7, <1>9, <2>2, <2>3 DEF Began, StillCounted
    <3>2. Now = Then
      BY <1>5, <2>2, <2>3, <3>1
    <3> QED BY <1>1, <1>2, <2>1, <2>3, <3>2
  <2>4. CASE d = e.device
    <3> DEFINE new == IF e.running /\ ~WasRunning(previous[d]) THEN {e} ELSE {}
    <3>1. starts'[d] = {s \in Then : e.time <= s.time + 1440} \cup new
      BY <1>1, <1>2, <2>1, <2>4 DEF RecentStarts
    <3>2. \A i \in Of(d) : Began(i)' /\ StillCounted(i)' <=>
              Began(i) /\ StillCounted(i) /\ e.time <= updates[i].time + 1440
      BY <1>7, <1>9, <2>2, <2>4
    <3>3. Began(n + 1)' /\ StillCounted(n + 1)' <=> new = {e}
      BY <1>8, <1>10, <2>4
    <3>4. Of(d)' = Of(d) \cup {n + 1} /\ updates'[n + 1] = e
      BY <1>1, <1>5, <2>4
    <3>5. new = {} \/ new = {e}
      OBVIOUS
    <3> HIDE DEF new
    <3>6. ASSUME NEW x \in Now PROVE x \in starts'[d]
      <4>1. PICK i \in Of(d)' : Began(i)' /\ StillCounted(i)' /\ x = updates'[i]
        OBVIOUS
      <4> QED BY <2>2, <3>1, <3>2, <3>3, <3>4, <4>1
    <3>7. ASSUME NEW x \in starts'[d] PROVE x \in Now
      <4>1. CASE x \in new
        BY <3>3, <3>4, <3>5, <4>1
      <4>2. CASE x \in Then /\ e.time <= x.time + 1440
        <5>1. PICK i \in Of(d) : Began(i) /\ StillCounted(i) /\ x = updates[i]
          BY <4>2
        <5> QED BY <2>2, <3>2, <3>4, <4>2, <5>1
      <4> QED BY <3>1, <4>1, <4>2
    <3> QED BY <3>6, <3>7
  <2> QED BY <2>3, <2>4
<1>12. ASSUME NEW s \in SiteDay
       PROVE  (\A load \in Loads(s)' : load <= peak'[s]) /\ peak'[s] \in Loads(s)' \cup {0}
  <2>1. (\A load \in Loads(s) : load <= peak[s]) /\ peak[s] \in Loads(s) \cup {0}
    BY DEF MapsInv, MapsSummarise, Loads
  <2>2. \A load \in Loads(s) : load \in Nat
    BY EventTypes DEF Loads, TypeOK
  <2>3. \A i \in 1 .. n : updates'[i] = updates[i]
    BY <1>1
  <2>4. CASE s = <<e.site, Day(e)>>
    <3>1. Loads(s)' = Loads(s) \cup {Kw(e)}
      BY <1>1, <1>3, <1>4, <2>3, <2>4 DEF Loads
    <3>2. peak'[s] = IF Kw(e) > peak[s] THEN Kw(e) ELSE peak[s]
      BY <1>1, <2>4
    <3>3. peak[s] \in Nat /\ Kw(e) \in Nat
      BY <1>2
    <3> QED BY <2>1, <2>2, <3>1, <3>2, <3>3
  <2>5. CASE s # <<e.site, Day(e)>>
    <3>1. Loads(s)' = Loads(s)
      BY <1>1, <1>3, <1>4, <2>3, <2>5 DEF Loads
    <3> QED BY <1>1, <2>1, <2>5, <3>1
  <2> QED BY <2>4, <2>5
<1>13. MapsSummarise'
  BY <1>6, <1>11, <1>12 DEF MapsSummarise, Loads
<1>14. LastKept'
  BY <1>6 DEF LastKept
<1> QED BY <1>13, <1>14 DEF MapsInv

LEMMA MapsInit ==
    ASSUME previous = [d \in Device |-> None], peak = [s \in SiteDay |-> 0],
           starts = [d \in Device |-> {}], updates = <<>>
    PROVE  MapsInv
<1>1. \A d : Of(d) = {}
  BY DEF Of
<1>2. \A s : Loads(s) = {}
  BY DEF Loads
<1> QED BY <1>1, <1>2 DEF MapsInv, MapsSummarise, LastKept, Loads

LEMMA MapsStep == TypeOK /\ MapsInv /\ [Next]_vars => MapsInv'
<1> SUFFICES ASSUME TypeOK, MapsInv, [Next]_vars PROVE MapsInv'
  OBVIOUS
<1>1. ASSUME UNCHANGED <<previous, peak, starts, updates>> PROVE MapsInv'
  BY <1>1 DEF MapsInv, MapsSummarise, LastKept, Of, Began, StillCounted
<1>2. CASE ProcessEnds
  <2>1. /\ previous' = [d \in Device |-> None] /\ peak' = [s \in SiteDay |-> 0]
        /\ starts' = [d \in Device |-> {}] /\ updates' = <<>>
    BY <1>2 DEF ProcessEnds, Restart
  <2>2. \A d : Of(d)' = {}
    BY <2>1 DEF Of
  <2>3. \A s : Loads(s)' = {}
    BY <2>1 DEF Loads
  <2> QED BY <2>1, <2>2, <2>3 DEF MapsInv, MapsSummarise, LastKept, Loads
<1>3. ASSUME NEW r \in Request, Judge(r) PROVE MapsInv'
  BY <1>1, <1>3, UpdateSummarises
  DEF Judge, Arrive, ReadRules, BuildContext, SaveTrace, Upsert, Answer, memory
<1>4. ASSUME NEW o \in Operator, PatchRule(o) \/ Decide(o) PROVE MapsInv'
  BY <1>1, <1>4
  DEF PatchRule, Decide, ReadRule, WriteRule, ReadRecommendation, WriteDecision, memory
<1>5. CASE UNCHANGED vars
  BY <1>1, <1>5 DEF vars, memory
<1> QED BY <1>2, <1>3, <1>4, <1>5 DEF Next

\* Previous events, peaks and starts say exactly what the events judged since the
\* process started say, in the order they were judged, although overlapping
\* requests have read the maps before (rules-engine.service.ts:109-128).
THEOREM SummaryHolds == Spec => []MapsSummarise
<1>1. Init => MapsInv
  BY MapsInit DEF Init, EmptyMaps
<1>2. MapsInv => MapsSummarise
  BY DEF MapsInv
<1>3. TypeOK /\ MapsInv /\ [Next]_vars => MapsInv'
  BY MapsStep
<1> QED BY <1>1, <1>2, <1>3, RulesTypeCorrect, PTL DEF Spec
===============================================================================

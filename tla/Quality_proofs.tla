---------------------------- MODULE Quality_proofs -----------------------------
(***************************************************************************)
(* Proofs about Quality: no fall of a counter goes unnoticed, and a        *)
(* re-evaluation only forgets, for any devices, messages and requests.     *)
(***************************************************************************)
EXTENDS Quality, FiniteSetTheorems, TLAPS

-----------------------------------------------------------------------------
(* Readings and verdicts. *)

\* What a decoder makes of a message is a reading.
LEMMA DecodedIsReading ==
    ASSUME NEW m \in Message
    PROVE  Decoded(m) \in Reading
<1>1. m.reading \in Reading /\ m.published \in Nat
  BY MessageAssumption DEF Envelope
<1>2. DecodedAcme(m) \in Reading
  <2>1. ASSUME NEW x \in Reading, NEW f \in Metric, NEW p \in Metric
        PROVE  [x EXCEPT !.frequency = f, !.powerFactor = p] \in Reading
    BY DEF Reading
  <2>2. NonZero(m.reading.frequency) \in Metric /\ NonZero(m.reading.powerFactor) \in Metric
    BY <1>1 DEF Reading, NonZero, Metric
  <2> QED BY <1>1, <2>1, <2>2 DEF DecodedAcme
<1>3. DecodedForwarded(m) \in Reading
  <2>1. ASSUME NEW x \in Reading, NEW t \in Nat
        PROVE  [x EXCEPT !.received = t] \in Reading
    BY DEF Reading
  <2> QED BY <1>1, <1>2, <2>1 DEF DecodedForwarded
<1> QED BY <1>1, <1>2, <1>3 DEF Decoded, DecodedSatec

\* The flags of each price are finitely many, and so are all of them.
LEMMA CostsFinite ==
    /\ IsFiniteSet(Costs35) /\ IsFiniteSet(Costs25) /\ IsFiniteSet(Costs20)
    /\ IsFiniteSet(Costs15) /\ IsFiniteSet(Costs10) /\ IsFiniteSet(Costs8)
<1>1. ASSUME NEW a, NEW b, NEW c, NEW d PROVE IsFiniteSet({a, b, c, d})
  <2>1. IsFiniteSet({} \cup {a})
    BY FS_EmptySet, FS_AddElement
  <2>2. IsFiniteSet(({} \cup {a}) \cup {b})
    BY <2>1, FS_AddElement
  <2>3. IsFiniteSet((({} \cup {a}) \cup {b}) \cup {c})
    BY <2>2, FS_AddElement
  <2>4. IsFiniteSet(((({} \cup {a}) \cup {b}) \cup {c}) \cup {d})
    BY <2>3, FS_AddElement
  <2>5. ((({} \cup {a}) \cup {b}) \cup {c}) \cup {d} = {a, b, c, d}
    OBVIOUS
  <2> QED BY <2>4, <2>5
<1> DEFINE four(a, b, c, d) == {a, b, c, d}
<1>2. /\ Costs35 = four("negative_kw_sign_inversion", "negative_energy_counter",
                        "timestamp_drift_critical", "timestamp_drift_critical")
      /\ Costs25 = four("voltage_out_of_range", "retrograde_meter_timestamp",
                        "counter_reset_or_rollover", "counter_reset_or_rollover")
      /\ Costs20 = four("current_out_of_range", "current_out_of_range",
                        "current_out_of_range", "current_out_of_range")
      /\ Costs15 = four("kw_missing", "current_kw_mismatch", "frequency_out_of_range",
                        "frequency_out_of_range")
      /\ Costs10 = four("missing_phase_voltage", "missing_phase_current",
                        "power_factor_out_of_range", "timestamp_drift_warning")
      /\ Costs8 = four("flatline_candidate", "frequency_drift", "frequency_drift",
                       "frequency_drift")
  BY DEF Costs35, Costs25, Costs20, Costs15, Costs10, Costs8
<1>3. \A a, b, c, d : IsFiniteSet(four(a, b, c, d))
  BY <1>1
<1> HIDE DEF four
<1> QED BY <1>2, <1>3

\* More flags take at least as many of each price.
LEMMA CountedMonotone ==
    ASSUME NEW costs, IsFiniteSet(costs), NEW A, NEW B, A \subseteq B
    PROVE  /\ Cardinality(A \cap costs) \in Nat /\ Cardinality(B \cap costs) \in Nat
           /\ Cardinality(A \cap costs) <= Cardinality(B \cap costs)
<1>1. A \cap costs \subseteq B \cap costs /\ B \cap costs \subseteq costs
  OBVIOUS
<1>2. IsFiniteSet(B \cap costs)
  BY <1>1, FS_Subset
<1>3. IsFiniteSet(A \cap costs) /\ Cardinality(A \cap costs) <= Cardinality(B \cap costs)
  BY <1>1, <1>2, FS_Subset
<1> QED BY <1>2, <1>3, FS_CardinalityType

\* More flags never lose fewer points.
LEMMA LostMonotone ==
    ASSUME NEW A, NEW B, A \subseteq B
    PROVE  Lost(A) \in Nat /\ Lost(B) \in Nat /\ Lost(A) <= Lost(B)
<1> DEFINE n(flags, costs) == Cardinality(flags \cap costs)
<1>1. ASSUME NEW costs, IsFiniteSet(costs)
      PROVE  n(A, costs) \in Nat /\ n(B, costs) \in Nat /\ n(A, costs) <= n(B, costs)
  BY <1>1, CountedMonotone
<1>2. /\ n(A, Costs35) \in Nat /\ n(B, Costs35) \in Nat /\ n(A, Costs35) <= n(B, Costs35)
      /\ n(A, Costs25) \in Nat /\ n(B, Costs25) \in Nat /\ n(A, Costs25) <= n(B, Costs25)
      /\ n(A, Costs20) \in Nat /\ n(B, Costs20) \in Nat /\ n(A, Costs20) <= n(B, Costs20)
      /\ n(A, Costs15) \in Nat /\ n(B, Costs15) \in Nat /\ n(A, Costs15) <= n(B, Costs15)
      /\ n(A, Costs10) \in Nat /\ n(B, Costs10) \in Nat /\ n(A, Costs10) <= n(B, Costs10)
      /\ n(A, Costs8) \in Nat /\ n(B, Costs8) \in Nat /\ n(A, Costs8) <= n(B, Costs8)
  BY <1>1, CostsFinite
<1>3. /\ Lost(A) = 35 * n(A, Costs35) + 25 * n(A, Costs25) + 20 * n(A, Costs20)
                     + 15 * n(A, Costs15) + 10 * n(A, Costs10) + 8 * n(A, Costs8)
      /\ Lost(B) = 35 * n(B, Costs35) + 25 * n(B, Costs25) + 20 * n(B, Costs20)
                     + 15 * n(B, Costs15) + 10 * n(B, Costs10) + 8 * n(B, Costs8)
  BY DEF Lost
<1> HIDE DEF n
<1> QED BY <1>2, <1>3

LEMMA ScoreMonotone ==
    ASSUME NEW A, NEW B, A \subseteq B
    PROVE  Score(A) \in 0 .. 100 /\ Score(B) \in 0 .. 100 /\ Score(A) >= Score(B)
BY LostMonotone DEF Score

LEMMA RankMonotone ==
    ASSUME NEW A, NEW B, A \subseteq B
    PROVE  Rank[StatusOf(A)] >= Rank[StatusOf(B)]
<1>1. Rank["good"] = 2 /\ Rank["suspicious"] = 1 /\ Rank["bad"] = 0
  BY DEF Rank
<1>2. \/ StatusOf(B) = "bad"
      \/ StatusOf(B) = "suspicious" /\ StatusOf(A) # "bad"
      \/ StatusOf(B) = "good" /\ StatusOf(A) = "good"
  BY DEF StatusOf
<1>3. StatusOf(A) \in {"good", "suspicious", "bad"}
  BY DEF StatusOf
<1> QED BY <1>1, <1>2, <1>3

LEMMA VerdictTyped ==
    ASSUME NEW x, NEW before
    PROVE  Verdict(x, before) \in VerdictType
<1>1. Flags(x, before) \in SUBSET Flag
  BY DEF Flags
<1>2. StatusOf(Flags(x, before)) \in Status
  BY DEF StatusOf, Status
<1>3. Score(Flags(x, before)) \in 0 .. 100
  BY ScoreMonotone
<1> QED BY <1>1, <1>2, <1>3 DEF Verdict, VerdictType

\* A predecessor adds flags, and only those that compare with it.
LEMMA HistoryOnlyAdds ==
    ASSUME NEW x, NEW before
    PROVE  /\ Flags(x, None) \subseteq Flags(x, before)
           /\ Flags(x, before) \ Flags(x, None) \subseteq HistoryFlag
BY DEF Flags, Contrasts, HistoryFlag

-----------------------------------------------------------------------------
(* Type correctness, with what is stored being a verdict about its reading. *)

\* Every verdict was passed on the reading it is stored with, beside some
\* predecessor or none.
Judged(event) == \E before : event.quality = Verdict(event.reading, before)

AllJudged ==
    /\ \A e \in Request : stored[e] # None => Judged(stored[e])
    /\ \A r \in Request :
         /\ handler[r].pc = "save" => Judged(handler[r].event)
         /\ handler[r].pc # "done" => stored[r] = None
         /\ handler[r].pc = "reevaluate" =>
              LET e == handler[r].of IN
              /\ handler[e].pc = "done" /\ stored[e] # None
              /\ stored[e].reading = handler[r].event.reading

Inv == TypeOK /\ AllJudged

\* What a record of HandlerState with a given pc looks like.
LEMMA HandlerShape ==
    ASSUME NEW h \in HandlerState
    PROVE  /\ h.pc = "save" => h.event \in Event
           /\ h.pc = "reevaluate" => h.event \in Event /\ h.of \in Request
BY DEF HandlerState

LEMMA MakeHandler ==
    /\ [pc |-> "done"] \in HandlerState /\ [pc |-> "new"] \in HandlerState
    /\ \A event \in Event : [pc |-> "save", event |-> event] \in HandlerState
    /\ \A event \in Event, e \in Request :
          [pc |-> "reevaluate", of |-> e, event |-> event] \in HandlerState
BY DEF HandlerState

LEMMA MakeEvent ==
    ASSUME NEW x \in Reading, NEW before
    PROVE  LET event == [reading |-> x, quality |-> Verdict(x, before)]
           IN  event \in Event /\ Judged(event)
BY VerdictTyped DEF Event, Judged

LEMMA GotoTyped ==
    ASSUME TypeOK, NEW r \in Request, NEW s \in HandlerState, Goto(r, s)
    PROVE  /\ handler' \in [Request -> HandlerState]
           /\ handler'[r] = s
           /\ \A t \in Request : t # r => handler'[t] = handler[t]
BY DEF TypeOK, Goto

LEMMA SeenTyped ==
    ASSUME TypeOK, NEW x \in Reading, NEW flags
    PROVE  SeenAfter(x, flags) \in SUBSET Int
<1>1. x.device \in Device /\ x.kwhTotal \in Int \cup {None}
  BY DEF Reading, Metric
<1> QED BY <1>1 DEF SeenAfter, TypeOK

LEMMA InitInv == Init => Inv
<1> SUFFICES ASSUME Init PROVE Inv
  OBVIOUS
<1>1. TypeOK
  BY BoundAssumption, MakeHandler DEF Init, TypeOK, NoReading, NoRawEvent, NoCounter
<1>2. AllJudged
  BY DEF Init, AllJudged
<1> QED BY <1>1, <1>2 DEF Inv

\* A new request that answers, or is about to store what it has judged.
LEMMA NewKeepsJudged ==
    ASSUME TypeOK, AllJudged, UNCHANGED stored, NEW r \in Request, handler[r].pc = "new",
           NEW s \in HandlerState, Goto(r, s), s.pc \in {"save", "done"},
           s.pc = "save" => Judged(s.event)
    PROVE  AllJudged'
<1>1. /\ handler'[r] = s
      /\ \A t \in Request : t # r => handler'[t] = handler[t]
  BY GotoTyped
<1>2. ASSUME NEW t \in Request
      PROVE  /\ handler'[t].pc = "save" => Judged(handler'[t].event)
             /\ handler'[t].pc # "done" => stored[t] = None
             /\ handler'[t].pc = "reevaluate" =>
                  LET e == handler'[t].of IN
                  /\ handler'[e].pc = "done" /\ stored[e] # None
                  /\ stored[e].reading = handler'[t].event.reading
  <2>1. CASE t = r
    BY <1>1, <2>1 DEF AllJudged
  <2>2. CASE t # r /\ handler[t].pc # "reevaluate"
    BY <1>1, <2>2 DEF AllJudged
  <2>3. CASE t # r /\ handler[t].pc = "reevaluate"
    <3>1. handler[t].of \in Request
      BY <2>3, HandlerShape DEF TypeOK
    <3>2. handler[t].of # r
      BY <2>3 DEF AllJudged
    <3> QED BY <1>1, <2>3, <3>1, <3>2 DEF AllJudged
  <2> QED BY <2>1, <2>2, <2>3
<1> QED BY <1>2 DEF AllJudged, Judged

LEMMA DecodeInv ==
    ASSUME Inv, NEW r \in Request, NEW m \in Message, NEW next, Decode(r, m, next)
    PROVE  Inv'
<1> DEFINE x == Decoded(m)
           verdict == Verdict(x, latest[x.device])
           event == [reading |-> x, quality |-> verdict]
           s == IF next = "done" THEN [pc |-> "done"] ELSE [pc |-> "save", event |-> event]
<1>0. TypeOK /\ AllJudged
  BY DEF Inv
<1>1. x \in Reading /\ x.device \in Device
  BY DecodedIsReading DEF Reading
<1>2. event \in Event /\ Judged(event)
  BY <1>1, MakeEvent
<1>3. s \in HandlerState /\ Goto(r, s) /\ handler[r].pc = "new"
  BY <1>2, MakeHandler DEF Decode
<1>4. /\ latest' = [latest EXCEPT ![x.device] = x]
      /\ seen' = [seen EXCEPT ![x.device] = SeenAfter(x, verdict.flags)]
      /\ archive' = [archive EXCEPT ![r] = "success"]
      /\ UNCHANGED <<stored, restarts>>
  BY DEF Decode, Evaluate, Remembers, Archive
<1>5. SeenAfter(x, verdict.flags) \in SUBSET Int
  BY <1>0, <1>1, SeenTyped
<1>s. s.pc = "save" => s.event = event
  OBVIOUS
<1>p. s.pc \in {"save", "done"}
  OBVIOUS
<1> HIDE DEF x, verdict, event, s
<1>6. TypeOK'
  BY <1>0, <1>1, <1>3, <1>4, <1>5, GotoTyped DEF TypeOK
<1>7. AllJudged'
  BY <1>0, <1>2, <1>3, <1>4, <1>s, <1>p, NewKeepsJudged
<1> QED BY <1>6, <1>7 DEF Inv

LEMMA RefuseInv ==
    ASSUME Inv, NEW r \in Request, NEW m \in Message, Refuse(r, m)
    PROVE  Inv'
<1>0. TypeOK /\ AllJudged
  BY DEF Inv
<1>1. Goto(r, [pc |-> "done"]) /\ handler[r].pc = "new"
  BY DEF Refuse
<1>2. TypeOK'
  BY <1>0, <1>1, MakeHandler, GotoTyped DEF Refuse, Archive, TypeOK
<1>3. AllJudged'
  BY <1>0, <1>1, MakeHandler, NewKeepsJudged DEF Refuse
<1> QED BY <1>2, <1>3 DEF Inv

LEMMA SaveInv ==
    ASSUME Inv, NEW r \in Request, SaveEvent(r)
    PROVE  Inv'
<1>0. TypeOK /\ AllJudged
  BY DEF Inv
<1>1. Goto(r, [pc |-> "done"]) /\ handler[r].pc = "save"
  BY DEF SaveEvent
<1>2. handler[r].event \in Event /\ Judged(handler[r].event) /\ stored[r] = None
  BY <1>0, <1>1, HandlerShape DEF AllJudged, TypeOK
<1>3. /\ stored'[r] = handler[r].event
      /\ \A e \in Request : e # r => stored'[e] = stored[e]
      /\ stored' \in [Request -> Event \cup {None}]
  BY <1>0, <1>2 DEF SaveEvent, TypeOK
<1>4. TypeOK'
  BY <1>0, <1>1, <1>3, MakeHandler, GotoTyped DEF SaveEvent, memory, TypeOK
<1>5. /\ handler'[r] = [pc |-> "done"]
      /\ \A t \in Request : t # r => handler'[t] = handler[t]
  BY <1>0, <1>1, MakeHandler, GotoTyped
<1>6. ASSUME NEW e \in Request, stored'[e] # None PROVE Judged(stored'[e])
  BY <1>0, <1>2, <1>3, <1>6 DEF AllJudged
<1>7. ASSUME NEW t \in Request
      PROVE  /\ handler'[t].pc = "save" => Judged(handler'[t].event)
             /\ handler'[t].pc # "done" => stored'[t] = None
             /\ handler'[t].pc = "reevaluate" =>
                  LET e == handler'[t].of IN
                  /\ handler'[e].pc = "done" /\ stored'[e] # None
                  /\ stored'[e].reading = handler'[t].event.reading
  <2>1. CASE t = r
    BY <1>5, <2>1
  <2>2. CASE t # r /\ handler[t].pc # "reevaluate"
    BY <1>0, <1>3, <1>5, <2>2 DEF AllJudged
  <2>3. CASE t # r /\ handler[t].pc = "reevaluate"
    <3>1. handler[t].of \in Request
      BY <1>0, <2>3, HandlerShape DEF TypeOK
    <3>2. handler[t].of # r
      BY <1>0, <1>2, <2>3 DEF AllJudged
    <3> QED BY <1>0, <1>3, <1>5, <2>3, <3>1, <3>2 DEF AllJudged
  <2> QED BY <2>1, <2>2, <2>3
<1>8. AllJudged'
  BY <1>6, <1>7 DEF AllJudged, Judged
<1> QED BY <1>4, <1>8 DEF Inv

LEMMA FindInv ==
    ASSUME Inv, NEW r \in Request, NEW f \in Request, FindEvent(r, f)
    PROVE  Inv'
<1> DEFINE s == [pc |-> "reevaluate", of |-> f, event |-> stored[f]]
<1>0. TypeOK /\ AllJudged
  BY DEF Inv
<1>1. Goto(r, s) /\ handler[r].pc = "new" /\ stored[f] # None
  BY DEF FindEvent
<1>2. stored[f] \in Event /\ stored[r] = None /\ handler[f].pc = "done"
  BY <1>0, <1>1 DEF TypeOK, AllJudged
<1>3. s \in HandlerState
  BY <1>2, MakeHandler
<1>4. /\ handler'[r] = s /\ handler' \in [Request -> HandlerState]
      /\ \A t \in Request : t # r => handler'[t] = handler[t]
  BY <1>0, <1>1, <1>3, GotoTyped
<1>5. TypeOK'
  BY <1>0, <1>4 DEF FindEvent, memory, TypeOK
<1>6. ASSUME NEW t \in Request
      PROVE  /\ handler'[t].pc = "save" => Judged(handler'[t].event)
             /\ handler'[t].pc # "done" => stored[t] = None
             /\ handler'[t].pc = "reevaluate" =>
                  LET e == handler'[t].of IN
                  /\ handler'[e].pc = "done" /\ stored[e] # None
                  /\ stored[e].reading = handler'[t].event.reading
  <2>1. CASE t = r
    <3>1. f # r
      BY <1>1, <1>2
    <3> QED BY <1>1, <1>2, <1>4, <2>1, <3>1
  <2>2. CASE t # r /\ handler[t].pc # "reevaluate"
    BY <1>0, <1>4, <2>2 DEF AllJudged
  <2>3. CASE t # r /\ handler[t].pc = "reevaluate"
    <3>1. handler[t].of \in Request
      BY <1>0, <2>3, HandlerShape DEF TypeOK
    <3>2. handler[t].of # r
      BY <1>0, <1>1, <2>3 DEF AllJudged
    <3> QED BY <1>0, <1>4, <2>3, <3>1, <3>2 DEF AllJudged
  <2> QED BY <2>1, <2>2, <2>3
<1>7. AllJudged'
  BY <1>0, <1>6 DEF FindEvent, AllJudged, Judged
<1> QED BY <1>5, <1>7 DEF Inv

\* What a re-evaluation writes over what.
LEMMA ReevaluationShape ==
    ASSUME Inv, NEW r \in Request, SaveReevaluated(r)
    PROVE  LET e == handler[r].of
               x == stored[e].reading
           IN  /\ handler[r].pc = "reevaluate" /\ e \in Request /\ handler[e].pc = "done"
               /\ stored[e] \in Event /\ stored[e] # None /\ x \in Reading
               /\ stored' = [stored EXCEPT ![e] = [reading |-> x, quality |-> Verdict(x, None)]]
<1>0. TypeOK /\ AllJudged
  BY DEF Inv
<1>1. handler[r].pc = "reevaluate"
  BY DEF SaveReevaluated
<1>2. handler[r].of \in Request
  BY <1>0, <1>1, HandlerShape DEF TypeOK
<1>3. /\ handler[handler[r].of].pc = "done" /\ stored[handler[r].of] # None
      /\ stored[handler[r].of].reading = handler[r].event.reading
  BY <1>0, <1>1 DEF AllJudged
<1>4. stored[handler[r].of] \in Event
  BY <1>0, <1>2, <1>3 DEF TypeOK
<1>5. stored[handler[r].of].reading \in Reading
  BY <1>4 DEF Event
<1> QED BY <1>1, <1>2, <1>3, <1>4, <1>5 DEF SaveReevaluated, Reevaluated

\* An event has a reading, which None is not.
LEMMA NoEventIsNone == None \notin Event
BY MessageAssumption

LEMMA ReevaluateInv ==
    ASSUME Inv, NEW r \in Request, SaveReevaluated(r)
    PROVE  Inv'
<1> DEFINE f == handler[r].of
           x == stored[f].reading
           new == [reading |-> x, quality |-> Verdict(x, None)]
<1>0. TypeOK /\ AllJudged
  BY DEF Inv
<1>1. /\ handler[r].pc = "reevaluate" /\ f \in Request /\ handler[f].pc = "done"
      /\ stored[f] # None /\ x \in Reading
      /\ stored' = [stored EXCEPT ![f] = new]
  BY ReevaluationShape
<1>2. new \in Event /\ Judged(new) /\ new.reading = x
  BY <1>1, MakeEvent
<1>3. new # None
  BY <1>2, NoEventIsNone
<1> HIDE DEF new
<1>4. /\ handler'[r] = [pc |-> "done"] /\ handler' \in [Request -> HandlerState]
      /\ \A t \in Request : t # r => handler'[t] = handler[t]
  BY <1>0, MakeHandler, GotoTyped DEF SaveReevaluated
<1>5. /\ stored'[f] = new
      /\ \A e \in Request : e # f => stored'[e] = stored[e]
      /\ stored' \in [Request -> Event \cup {None}]
  BY <1>0, <1>1, <1>2 DEF TypeOK
<1>6. TypeOK'
  BY <1>0, <1>4, <1>5 DEF SaveReevaluated, memory, TypeOK
<1>7. ASSUME NEW e \in Request, stored'[e] # None PROVE Judged(stored'[e])
  BY <1>0, <1>2, <1>5, <1>7 DEF AllJudged
<1>8. ASSUME NEW t \in Request
      PROVE  /\ handler'[t].pc = "save" => Judged(handler'[t].event)
             /\ handler'[t].pc # "done" => stored'[t] = None
             /\ handler'[t].pc = "reevaluate" =>
                  LET e == handler'[t].of IN
                  /\ handler'[e].pc = "done" /\ stored'[e] # None
                  /\ stored'[e].reading = handler'[t].event.reading
  <2>1. CASE t = r
    BY <1>4, <2>1
  <2>2. CASE t # r /\ handler[t].pc # "reevaluate"
    BY <1>0, <1>1, <1>4, <1>5, <2>2 DEF AllJudged
  <2>3. CASE t # r /\ handler[t].pc = "reevaluate"
    <3>1. handler[t].of \in Request
      BY <1>0, <2>3, HandlerShape DEF TypeOK
    <3>2. /\ handler[handler[t].of].pc = "done" /\ stored[handler[t].of] # None
          /\ stored[handler[t].of].reading = handler[t].event.reading
          /\ stored[t] = None
      BY <1>0, <2>3 DEF AllJudged
    <3>3. handler[t].of # r /\ t # f
      BY <1>1, <3>2
    <3>4. CASE handler[t].of = f
      <4>1. handler'[t] = handler[t] /\ handler'[handler[t].of].pc = "done"
        BY <1>4, <2>3, <3>1, <3>2, <3>3
      <4>2. stored'[handler[t].of] = new /\ new.reading = handler[t].event.reading
        BY <1>2, <1>5, <3>2, <3>4
      <4>3. stored'[t] = None
        BY <1>5, <3>2, <3>3
      <4> QED BY <1>3, <2>3, <4>1, <4>2, <4>3
    <3>5. CASE handler[t].of # f
      BY <1>4, <1>5, <2>3, <3>1, <3>2, <3>3, <3>5
    <3> QED BY <3>4, <3>5
  <2> QED BY <2>1, <2>2, <2>3
<1>9. AllJudged'
  BY <1>7, <1>8 DEF AllJudged, Judged
<1> QED BY <1>6, <1>9 DEF Inv

LEMMA RestartInv ==
    ASSUME Inv, Restart
    PROVE  Inv'
<1>0. TypeOK /\ AllJudged
  BY DEF Inv
<1>1. \A t \in Request :
        /\ handler'[t] = IF handler[t].pc = "new" THEN handler[t] ELSE [pc |-> "done"]
        /\ handler'[t].pc \in {"new", "done"}
        /\ handler'[t] \in HandlerState
  BY <1>0, MakeHandler DEF Restart, TypeOK
<1>2. handler' \in [Request -> HandlerState]
  BY <1>1 DEF Restart
<1>3. restarts' \in 0 .. MaxRestarts
  BY <1>0, BoundAssumption DEF Restart, TypeOK
<1>4. TypeOK'
  BY <1>0, <1>2, <1>3 DEF Restart, TypeOK, NoReading, NoRawEvent, NoCounter
<1>5. AllJudged'
  BY <1>0, <1>1 DEF Restart, AllJudged, Judged
<1> QED BY <1>4, <1>5 DEF Inv

LEMMA InvKept ==
    ASSUME Inv, [Next]_vars
    PROVE  Inv'
<1>1. CASE UNCHANGED vars
  BY <1>1 DEF Inv, TypeOK, AllJudged, Judged, vars, memory
<1>2. CASE Restart
  BY <1>2, RestartInv
<1>3. ASSUME NEW r \in Request, NEW m \in Message,
             PreviewOrDuplicate(r, m) \/ Accept(r, m) \/ Refuse(r, m)
      PROVE  Inv'
  BY <1>3, DecodeInv, RefuseInv DEF PreviewOrDuplicate, Accept
<1>4. ASSUME NEW r \in Request,
             SaveEvent(r) \/ SaveReevaluated(r) \/ \E e \in Request : FindEvent(r, e)
      PROVE  Inv'
  BY <1>4, SaveInv, ReevaluateInv, FindInv
<1> QED BY <1>1, <1>2, <1>3, <1>4 DEF Next

\* The state keeps its types: verdicts have known flags and scores of 0 to 100,
\* and what requests hold between statements is what their next one expects.
THEOREM QualityTypeCorrect == Spec => []TypeOK
<1>1. Inv => TypeOK
  BY DEF Inv
<1> QED BY <1>1, InitInv, InvKept, PTL DEF Spec

-----------------------------------------------------------------------------
(* Counters *)

LEMMA DecodeNotices ==
    ASSUME TypeOK, CounterDropsNoticed, NEW r \in Request, NEW m \in Message, NEW next,
           Decode(r, m, next)
    PROVE  CounterDropsNoticed'
<1> DEFINE x == Decoded(m)
           before == latest[x.device]
           flags == Verdict(x, before).flags
<1>1. /\ x.device \in Device /\ x.kwhTotal \in Int \cup {None} /\ x # None
      /\ None \notin Int
  BY DecodedIsReading, MessageAssumption DEF Reading, Metric
<1>2. /\ latest' = [latest EXCEPT ![x.device] = x]
      /\ seen' = [seen EXCEPT ![x.device] = SeenAfter(x, flags)]
  BY DEF Decode, Evaluate, Remembers
<1>3. /\ before = None \/ before.kwhTotal \in Int \cup {None}
      /\ seen[x.device] \subseteq Int
  BY <1>1 DEF TypeOK, Reading, Metric
<1>4. "counter_reset_or_rollover" \in flags
        <=> /\ before # None /\ x.kwhTotal # None /\ before.kwhTotal # None
            /\ x.kwhTotal < before.kwhTotal
  BY DEF Verdict, Flags, Shows, Contrasts, Flag, Costs25
<1> HIDE DEF x, flags
<1>5. ASSUME NEW c \in SeenAfter(x, flags)
      PROVE  x.kwhTotal # None /\ c <= x.kwhTotal
  <2>1. x.kwhTotal # None /\ x.kwhTotal \in Int
    BY <1>1, <1>5 DEF SeenAfter
  <2>2. CASE c = x.kwhTotal
    BY <2>1, <2>2
  <2>3. CASE c # x.kwhTotal
    <3>1. "counter_reset_or_rollover" \notin flags /\ c \in seen[x.device]
      BY <1>5, <2>1, <2>3 DEF SeenAfter
    <3>2. before # None /\ before.kwhTotal # None /\ c <= before.kwhTotal
      BY <1>1, <3>1 DEF CounterDropsNoticed
    <3>3. ~(x.kwhTotal < before.kwhTotal)
      BY <1>4, <2>1, <3>1, <3>2
    <3>4. before.kwhTotal \in Int /\ c \in Int
      BY <1>3, <3>1, <3>2
    <3> HIDE DEF before
    <3> QED BY <2>1, <3>2, <3>3, <3>4
  <2> QED BY <2>2, <2>3
<1>6. /\ latest'[x.device] = x /\ seen'[x.device] = SeenAfter(x, flags)
      /\ \A d \in Device : d # x.device => latest'[d] = latest[d] /\ seen'[d] = seen[d]
  BY <1>1, <1>2 DEF TypeOK
<1>7. ASSUME NEW d \in Device, NEW c \in seen'[d]
      PROVE  latest'[d] # None /\ latest'[d].kwhTotal # None /\ c <= latest'[d].kwhTotal
  <2>1. CASE d = x.device
    BY <1>1, <1>5, <1>6, <1>7, <2>1
  <2>2. CASE d # x.device
    BY <1>6, <1>7, <2>2 DEF CounterDropsNoticed
  <2> QED BY <2>1, <2>2
<1> QED BY <1>7 DEF CounterDropsNoticed

LEMMA OthersNotice ==
    ASSUME CounterDropsNoticed,
           \/ UNCHANGED vars \/ Restart
           \/ \E r \in Request :
                \/ \E m \in Message : Refuse(r, m)
                \/ SaveEvent(r) \/ SaveReevaluated(r)
                \/ \E e \in Request : FindEvent(r, e)
    PROVE  CounterDropsNoticed'
<1>1. \/ UNCHANGED <<latest, seen>>
      \/ \A d \in Device : seen'[d] = {}
  BY DEF vars, memory, Restart, NoCounter, Refuse, SaveEvent, SaveReevaluated, FindEvent
<1> QED BY <1>1 DEF CounterDropsNoticed

\* No fall of an energy counter goes unnoticed between two flagged ones, for
\* any devices and messages, previews, duplicates and late readings included
\* (telemetry-quality.service.ts:36-37 and 129-136).
THEOREM CounterDropsAreNoticed == Spec => []CounterDropsNoticed
<1>1. Init => CounterDropsNoticed
  BY DEF Init, NoCounter, CounterDropsNoticed
<1>2. TypeOK /\ CounterDropsNoticed /\ [Next]_vars => CounterDropsNoticed'
  BY DecodeNotices, OthersNotice DEF Next, PreviewOrDuplicate, Accept
<1> QED BY <1>1, <1>2, QualityTypeCorrect, PTL DEF Spec

-----------------------------------------------------------------------------
(* Re-evaluation *)

OnlyForgets(old, new) ==
    /\ new.flags \subseteq old.flags
    /\ old.flags \ new.flags \subseteq HistoryFlag
    /\ Rank[new.status] >= Rank[old.status]
    /\ new.score >= old.score

LEMMA VerdictForgets ==
    ASSUME NEW x, NEW before
    PROVE  OnlyForgets(Verdict(x, before), Verdict(x, None))
BY HistoryOnlyAdds, RankMonotone, ScoreMonotone DEF OnlyForgets, Verdict

LEMMA StepForgets ==
    ASSUME Inv, [Next]_vars, NEW e \in Request,
           stored[e] # None, stored'[e] # stored[e]
    PROVE  OnlyForgets(stored[e].quality, stored'[e].quality)
<1>0. TypeOK /\ AllJudged
  BY DEF Inv
<1>1. PICK r \in Request : SaveEvent(r) \/ SaveReevaluated(r)
  BY DEF Next, vars, Restart, PreviewOrDuplicate, Accept, Decode, Refuse, FindEvent
<1>2. CASE SaveEvent(r)
  <2>1. stored[r] = None
    BY <1>0, <1>2 DEF SaveEvent, AllJudged
  <2>2. e # r
    BY <2>1
  <2> QED BY <1>0, <1>2, <2>2 DEF SaveEvent, TypeOK
<1>3. CASE SaveReevaluated(r)
  <2>1. LET f == handler[r].of
        IN  /\ f \in Request
            /\ stored' = [stored EXCEPT ![f] = [reading |-> stored[f].reading,
                              quality |-> Verdict(stored[f].reading, None)]]
    BY <1>3, ReevaluationShape
  <2>2. e = handler[r].of
    BY <1>0, <2>1 DEF TypeOK
  <2>3. stored'[e].quality = Verdict(stored[e].reading, None)
    BY <1>0, <2>1, <2>2 DEF TypeOK
  <2>4. PICK before : stored[e].quality = Verdict(stored[e].reading, before)
    BY <1>0 DEF AllJudged, Judged
  <2> QED BY <2>3, <2>4, VerdictForgets
<1> QED BY <1>1, <1>2, <1>3

\* A re-evaluation drops flags that compare with a predecessor and nothing else,
\* and makes no status or score worse (quality.ts:19-28).
THEOREM ReevaluationForgets == Spec => ReevaluationOnlyForgets
<1>1. Inv /\ [Next]_vars =>
        \A e \in Request : stored[e] # None /\ stored'[e] # stored[e] =>
            OnlyForgets(stored[e].quality, stored'[e].quality)
  BY StepForgets
<1>2. Inv /\ [Next]_vars =>
        [\A e \in Request :
            stored[e] # None /\ stored'[e] # stored[e] =>
                LET old == stored[e].quality
                    new == stored'[e].quality
                IN  /\ new.flags \subseteq old.flags
                    /\ old.flags \ new.flags \subseteq HistoryFlag
                    /\ Rank[new.status] >= Rank[old.status]
                    /\ new.score >= old.score]_vars
  BY <1>1 DEF OnlyForgets
<1> QED BY <1>2, InitInv, InvKept, PTL DEF Spec, ReevaluationOnlyForgets
=============================================================================

------------------------------- MODULE Ingestion -------------------------------
(***************************************************************************)
(* The way of a telemetry message of one device into the database.         *)
(*                                                                         *)
(* Validation, deduplication, decoding and the ordering checks run in one  *)
(* synchronous call on maps in memory (consumer.service.ts).  What it      *)
(* accepts is then stored by a row of awaited statements, each a step of   *)
(* its own here: raw event, canonical event, three state projections, four *)
(* rollups.  A re-evaluation of a stored event runs through some of the    *)
(* same statements.  No route catches what they throw, so an error ends    *)
(* the process, and with it the requests in flight and the maps.           *)
(*                                                                         *)
(* The quality verdict, the health score and the sums of a rollup are data *)
(* of the rows and left out; so is the finding replay_backlog, which looks *)
(* at the event alone.                                                     *)
(***************************************************************************)
EXTENDS Naturals, FiniteSets, Functions

CONSTANTS
    Message,      \* the envelopes that arrive, any number of times
    Decodable,    \* those a decoder can read
    Request,      \* the requests in a behaviour; one that stores an event
                  \* lends it its name
    None,
    MaxInFlight,  \* how many requests are in flight at once
    MaxRestarts   \* bound: how often the process ends

\* A message is a record with the time of the meter in minutes, its sequence
\* number or None, whether it measures power, and a field that tells apart
\* messages with the same reading.
ASSUME MessageAssumption ==
    /\ Decodable \subseteq Message /\ None \notin Message \cup Request \cup Nat
    /\ \A m \in Message : /\ m.time \in Nat /\ m.seq \in Nat \cup {None}
                          /\ m.power \in BOOLEAN
ASSUME RequestAssumption == IsFiniteSet(Request)
ASSUME BoundAssumption == MaxInFlight \in Nat \ {0} /\ MaxRestarts \in Nat

VARIABLES
    transport,    \* memory: the messages claimed
    canonical,    \* memory: the readings claimed
    ordering,     \* memory: the last sequence number and time of the meter
    deadLetters,  \* memory: the messages refused, with the stage
    raw,          \* table raw_event_archive
    event,        \* table normalized_telemetry_events: the message of each row
    shown,        \* latest_event_id of the device, site and branch row
    rollup,       \* sample_count of each bucket
    handler,      \* what each request does next
    accepted,     \* history: the messages accepted since the process started
    restarts      \* history: how often the process ended

memory == <<transport, canonical, ordering, deadLetters, accepted>>
tables == <<raw, event, shown, rollup>>
vars == <<memory, tables, handler, restarts>>

-----------------------------------------------------------------------------
Stage == {"source_auth", "decode"}
Finding == {"sequence_gap", "out_of_order", "late_arrival"}
View == {"device", "site", "branch"}

\* Plausible bug: the rollups are updated from the widest to the finest.
GranularitiesMutant == <<"1d", "1h", "5m", "1m">>

Granularities == <<"1m", "5m", "1h", "1d">>

Granularity == {"1m", "5m", "1h", "1d"}

Minutes == [g \in Granularity |->
    CASE g = "1m" -> 1 [] g = "5m" -> 5 [] g = "1h" -> 60 [] g = "1d" -> 1440]

BucketStart(time, g) == (time \div Minutes[g]) * Minutes[g]

BucketsOf(g) == {BucketStart(m.time, g) : m \in Message}
Bucket == UNION {BucketsOf(g) : g \in Granularity}

\* device id, time of the meter and sequence number, "na" if it has none
Key(m) == <<m.time, m.seq>>

HandlerState ==
         [pc: {"new", "done", "lost"}]
    \cup [pc: {"raw", "event", "device", "site", "branch", "downstream"},
          msg: Message, event: Request, fresh: BOOLEAN, findings: SUBSET Finding]
    \cup [pc: {"rollup"}, msg: Message, event: Request, fresh: {TRUE},
          findings: SUBSET Finding, next: 1 .. 4]

TypeOK ==
    /\ transport \subseteq Message
    /\ canonical \subseteq {Key(m) : m \in Message}
    /\ ordering \in [seq: Nat \cup {None}, time: Nat \cup {None}]
    /\ deadLetters \subseteq Message \X Stage
    /\ raw \subseteq Request
    /\ event \in [Request -> Message \cup {None}]
    /\ shown \in [View -> Request \cup {None}]
    /\ rollup \in [Granularity -> [Bucket -> Nat]]
    /\ handler \in [Request -> HandlerState]
    /\ accepted \subseteq Message
    /\ restarts \in 0 .. MaxRestarts

Unordered == [seq |-> None, time |-> None]

Init ==
    /\ transport = {} /\ canonical = {} /\ deadLetters = {} /\ accepted = {}
    /\ ordering = Unordered
    /\ raw = {}
    /\ event = [r \in Request |-> None]
    /\ shown = [v \in View |-> None]
    /\ rollup = [g \in Granularity |-> [b \in Bucket |-> 0]]
    /\ handler = [r \in Request |-> [pc |-> "new"]]
    /\ restarts = 0

-----------------------------------------------------------------------------
(* The synchronous part: process. *)

InFlight == {r \in Request : handler[r].pc \notin {"new", "done", "lost"}}

Arrives(r) == handler[r].pc = "new" /\ Cardinality(InFlight) < MaxInFlight

Answer(r) == handler' = [handler EXCEPT ![r] = [pc |-> "done"]]

RejectSource(r, m) ==
    /\ Arrives(r)
    /\ deadLetters' = deadLetters \cup {<<m, "source_auth">>}
    /\ Answer(r)
    /\ UNCHANGED <<transport, canonical, ordering, accepted, tables, restarts>>

DropTransportDuplicate(r, m) ==
    /\ Arrives(r)
    /\ m \in transport
    /\ Answer(r)
    /\ UNCHANGED <<memory, tables, restarts>>

\* Plausible bug: the error of a decoder is not recognised as one.
RejectUndecodableMutant(r, m) ==
    /\ Arrives(r)
    /\ m \notin transport /\ m \notin Decodable
    /\ transport' = transport \cup {m}
    /\ deadLetters' = deadLetters \cup {<<m, "processing">>}
    /\ Answer(r)
    /\ UNCHANGED <<canonical, ordering, accepted, tables, restarts>>

RejectUndecodable(r, m) ==
    /\ Arrives(r)
    /\ m \notin transport /\ m \notin Decodable
    /\ transport' = transport \cup {m}
    /\ deadLetters' = deadLetters \cup {<<m, "decode">>}
    /\ Answer(r)
    /\ UNCHANGED <<canonical, ordering, accepted, tables, restarts>>

\* Plausible bug: a reading without a sequence number is never a duplicate.
ClaimedMutant(m) == m.seq # None /\ Key(m) \in canonical

Claimed(m) == Key(m) \in canonical

DropCanonicalDuplicate(r, m) ==
    /\ Arrives(r)
    /\ m \in Decodable \ transport /\ Claimed(m)
    /\ transport' = transport \cup {m}
    /\ Answer(r)
    /\ UNCHANGED <<canonical, ordering, deadLetters, accepted, tables, restarts>>

Findings(m) ==
    LET numbered == ordering.seq # None /\ m.seq # None IN
         {f \in {"out_of_order"} : numbered /\ m.seq < ordering.seq}
    \cup {f \in {"sequence_gap"} : numbered /\ m.seq > ordering.seq + 1}
    \cup {f \in {"late_arrival"} : ordering.time # None /\ m.time < ordering.time}

Later(old, new) == IF old = None \/ (new # None /\ new > old) THEN new ELSE old

\* Plausible bug: the last message is remembered, not the latest.
OrderingWithMutant(m) ==
    [seq |-> IF m.seq = None THEN ordering.seq ELSE m.seq, time |-> m.time]

OrderingWith(m) ==
    [seq |-> Later(ordering.seq, m.seq), time |-> Later(ordering.time, m.time)]

Accept(r, m) ==
    /\ Arrives(r)
    /\ m \in Decodable \ transport /\ ~Claimed(m)
    /\ transport' = transport \cup {m}
    /\ canonical' = canonical \cup {Key(m)}
    /\ ordering' = OrderingWith(m)
    /\ accepted' = accepted \cup {m}
    /\ handler' = [handler EXCEPT ![r] =
            [pc |-> "raw", msg |-> m, event |-> r, fresh |-> TRUE,
             findings |-> Findings(m)]]
    /\ UNCHANGED <<deadLetters, tables, restarts>>

-----------------------------------------------------------------------------
(* The statements that store it. *)

Goto(r, pc) == handler' = [handler EXCEPT ![r].pc = pc]

SaveRaw(r) ==
    /\ handler[r].pc = "raw"
    /\ raw' = raw \cup {handler[r].event}
    /\ Goto(r, "event")
    /\ UNCHANGED <<memory, event, shown, rollup, restarts>>

\* Plausible bug: the projections do not wait for the event to be stored.
SaveEventMutant(r) ==
    /\ handler[r].pc = "event"
    /\ Goto(r, "device")
    /\ \/ event' = [event EXCEPT ![handler[r].event] = handler[r].msg]
       \/ UNCHANGED event
    /\ UNCHANGED <<memory, raw, shown, rollup, restarts>>

\* The row refers to its raw event by a foreign key.
SaveEvent(r) ==
    /\ handler[r].pc = "event"
    /\ handler[r].event \in raw
    /\ event' = [event EXCEPT ![handler[r].event] = handler[r].msg]
    /\ Goto(r, "device")
    /\ UNCHANGED <<memory, raw, shown, rollup, restarts>>

NextView == [device |-> "site", site |-> "branch"]

\* The last writer wins, whatever the time of its meter.
Project(r) ==
    LET h == handler[r] IN
    /\ h.pc \in View
    /\ shown' = [shown EXCEPT ![h.pc] = h.event]
    /\ \/ h.pc # "branch" /\ Goto(r, NextView[h.pc])
       \/ h.pc = "branch" /\ ~h.fresh /\ Answer(r)
       \/ h.pc = "branch" /\ h.fresh /\ ~h.msg.power /\ Goto(r, "downstream")
       \/ /\ h.pc = "branch" /\ h.fresh /\ h.msg.power
          /\ handler' = [handler EXCEPT ![r] =
                [pc |-> "rollup", msg |-> h.msg, event |-> h.event, fresh |-> TRUE,
                 findings |-> h.findings, next |-> 1]]
    /\ UNCHANGED <<memory, raw, event, rollup, restarts>>

UpsertRollup(r) ==
    LET h == handler[r]
        g == Granularities[h.next]
    IN
    /\ h.pc = "rollup"
    /\ rollup' = [rollup EXCEPT ![g][BucketStart(h.msg.time, g)] = @ + 1]
    /\ handler' = [handler EXCEPT ![r] =
          IF h.next < 4 THEN [h EXCEPT !.next = @ + 1]
          ELSE [pc |-> "downstream", msg |-> h.msg, event |-> h.event,
                fresh |-> TRUE, findings |-> h.findings]]
    /\ UNCHANGED <<memory, raw, event, shown, restarts>>

\* Rules, recommendations and alerts (see AlertWorkflow), and the answer.
Downstream(r) ==
    /\ handler[r].pc = "downstream"
    /\ Answer(r)
    /\ UNCHANGED <<memory, tables, restarts>>

\* Plausible bug: the event is stored the way a new one is, rollups included.
ReevaluateMutant(r, e) ==
    /\ Arrives(r)
    /\ event[e] # None
    /\ handler' = [handler EXCEPT ![r] =
            [pc |-> "event", msg |-> event[e], event |-> e, fresh |-> TRUE,
             findings |-> {}]]
    /\ UNCHANGED <<memory, tables, restarts>>

\* POST /quality/re-evaluate: the row is read, judged without the history and
\* stored and projected again, but not rolled up.
Reevaluate(r, e) ==
    /\ Arrives(r)
    /\ event[e] # None
    /\ handler' = [handler EXCEPT ![r] =
            [pc |-> "event", msg |-> event[e], event |-> e, fresh |-> FALSE,
             findings |-> {}]]
    /\ UNCHANGED <<memory, tables, restarts>>

ProcessEnds ==
    /\ restarts < MaxRestarts
    /\ restarts' = restarts + 1
    /\ handler' = [r \in Request |->
            IF r \in InFlight THEN [pc |-> "lost"] ELSE handler[r]]
    /\ UNCHANGED tables

\* Plausible bug: the claims outlive the process, the requests do not.
RestartMutant ==
    /\ ProcessEnds
    /\ deadLetters' = {} /\ accepted' = {}
    /\ ordering' = Unordered
    /\ UNCHANGED <<transport, canonical>>

\* A statement threw, or the server was stopped: the maps start out empty.
Restart ==
    /\ ProcessEnds
    /\ transport' = {} /\ canonical' = {} /\ deadLetters' = {} /\ accepted' = {}
    /\ ordering' = Unordered

-----------------------------------------------------------------------------
Receive(r) ==
    \/ \E m \in Message : \/ RejectSource(r, m) \/ DropTransportDuplicate(r, m)
                          \/ RejectUndecodable(r, m)
                          \/ DropCanonicalDuplicate(r, m) \/ Accept(r, m)
    \/ \E e \in Request : Reevaluate(r, e)

Store(r) == SaveRaw(r) \/ SaveEvent(r) \/ Project(r) \/ UpsertRollup(r) \/ Downstream(r)

Next == Restart \/ \E r \in Request : Receive(r) \/ Store(r)

Spec == Init /\ [][Next]_vars

-----------------------------------------------------------------------------
(* Properties *)

Stored == {r \in Request : event[r] # None}

\* A message answered as a duplicate is not lost: whatever is claimed has been
\* stored, is being stored, or is in a dead letter.  The claims are given up
\* with the process whose requests they stand for (consumer.service.ts:51,64).
ClaimedIsStored ==
    /\ \A k \in canonical :
        \/ \E r \in Stored : Key(event[r]) = k
        \/ \E r \in InFlight : handler[r].pc \in {"raw", "event"}
                                 /\ handler[r].fresh /\ Key(handler[r].msg) = k
    /\ \A m \in transport :
        IF m \in Decodable THEN Key(m) \in canonical
                           ELSE <<m, "decode">> \in deadLetters

\* As long as the process lives, every reading counts once, in the bucket of
\* its time at each granularity, however often and under however many message
\* identifiers it arrives, and however often its event is evaluated again.
ReadingsCountOnce ==
    restarts = 0 /\ InFlight = {} =>
        \A g \in Granularity : \A b \in BucketsOf(g) :
            rollup[g][b] = Cardinality({Key(m) : m \in
                {n \in accepted : n.power /\ BucketStart(n.time, g) = b}})

\* No sample without an event: a bucket counts no more samples than there are
\* stored events with power in it, each at most once, whatever ends the process
\* and however often it is evaluated again (storage-orchestrator.service.ts:19-29).
SamplesHaveEvents ==
    \A g \in Granularity : \A b \in BucketsOf(g) :
        rollup[g][b] <= Cardinality({r \in Stored :
                          event[r].power /\ BucketStart(event[r].time, g) = b})

\* A bucket never holds more samples than the finer buckets it is made of,
\* even when requests overlap or the process ends between two rollups.
RollupsNested ==
    \A n \in 1 .. 3 :
        LET fine == <<"1m", "5m", "1h", "1d">>[n]
            wide == <<"1m", "5m", "1h", "1d">>[n + 1]
        IN  \A b \in BucketsOf(wide) :
              rollup[wide][b] <= SumFunctionOnSet(rollup[fine],
                    {c \in BucketsOf(fine) : BucketStart(c, wide) = b})

\* What the state rows show can be looked up: the event is stored, and so is
\* its raw payload (storage-orchestrator.service.ts:20-23, migration 0003).
ShownIsStored ==
    /\ Stored \subseteq raw
    /\ \A v \in View : shown[v] # None => shown[v] \in Stored

\* The findings of a message are about all messages accepted before it since
\* the process started, not only the last one (ordering.service.ts:10-48).
FindingsAreComplete ==
    [][\A r \in Request : handler[r].pc = "new" /\ handler'[r].pc = "raw" =>
         LET m == handler'[r].msg
             numbered == {n \in accepted : n.seq # None}
         IN
         /\ "late_arrival" \in handler'[r].findings
                <=> \E n \in accepted : n.time > m.time
         /\ m.seq # None =>
              /\ "out_of_order" \in handler'[r].findings
                    <=> \E n \in numbered : n.seq > m.seq
              /\ "sequence_gap" \in handler'[r].findings
                    <=> numbered # {} /\ \A n \in numbered : n.seq + 1 < m.seq]_vars
=============================================================================

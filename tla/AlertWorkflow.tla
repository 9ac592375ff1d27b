----------------------------- MODULE AlertWorkflow -----------------------------
(***************************************************************************)
(* Alerts and issues of one device.  Every processed telemetry event       *)
(* raises, repeats or resolves alerts and opens or closes the issues that  *)
(* belong to them, while operators assign issues and move them along.      *)
(*                                                                         *)
(* A request is a handler of its own and each statement it sends to        *)
(* Postgres is one step, so requests interleave between their statements.  *)
(* The state projection that precedes the workflow in the same request is  *)
(* included as far as it writes the number of open issues.  No route       *)
(* catches what a statement throws: the rejected handler ends the process, *)
(* and with it every request in flight.                                    *)
(***************************************************************************)
EXTENDS Naturals, Sequences, FiniteSets

CONSTANTS
    BuildOrder,      \* the alert types, in the order buildCandidates tests them
    AutoResolvable,  \* the alert types that healthy telemetry resolves
    Event,           \* the telemetry events; each is processed once
    Operator,        \* the requests of operators in flight
    Alert,           \* identifiers of alerts
    Issue,           \* identifiers of issues
    Transition,      \* the statuses operators move issues to
    None,            \* the issue of an unused alert, the event before the first
    Window,          \* the suppression window, in the unit of the times
    MaxInFlight,     \* how many events are in flight at once
    MaxTime,         \* bound: the greatest time of an event
    MaxFailures      \* bound: how many statements throw in one behaviour

AlertType == {BuildOrder[n] : n \in DOMAIN BuildOrder}

ASSUME AlertAssumption ==
    /\ BuildOrder \in Seq(AlertType) \ {<<>>}
    /\ AutoResolvable \subseteq AlertType /\ IsFiniteSet(Issue)
    /\ Event \cap Operator = {} /\ None \notin Issue \cup Event
    /\ Transition \subseteq {"acknowledged", "investigating", "resolved", "closed"}
    /\ Window \in Nat \ {0} /\ MaxInFlight \in Nat \ {0}
    /\ MaxTime \in Nat \ {0} /\ MaxFailures \in Nat

VARIABLES
    alert,         \* the rows of alerts
    issue,         \* the rows of issues
    openCount,     \* open_issue_count of the device, site and branch
    handler,       \* what each request has read and does next
    latest,        \* history: the last event to start, with its symptoms;
                   \*   alone: no other event was in flight when it started
    rung,          \* history: the time an alert was last notified for, by an
                   \*   event no other overlapped; 0 for never, and since an
                   \*   earlier event repeated it
    touched,       \* history: the issues an operator's request wrote to
    uncounted,     \* history: the process ended since issues were last counted
    failures       \* history: how many statements threw

history == <<rung, touched>>
crashes == <<uncounted, failures>>
vars == <<alert, issue, openCount, handler, latest, history, crashes>>

-----------------------------------------------------------------------------
Active == {"open", "suppressed"}
OpenStatus == {"open", "acknowledged", "investigating"}
IssueStatus == OpenStatus \cup {"resolved", "closed"}

AlertRow == [type: AlertType, state: Active \cup {"absent", "resolved"},
             until: 0 .. MaxTime + Window, issue: Issue \cup {None}]
IssueRow == [type: AlertType, status: IssueStatus \cup {"absent"}]

Request == Event \cup Operator

ActiveAlerts(t) == {a \in Alert : alert[a].type = t /\ alert[a].state \in Active}
OpenIssues(t) == {i \in Issue : issue[i].type = t /\ issue[i].status \in OpenStatus}

InFlight == {e \in Event : handler[e].pc \notin {"new", "done", "failed"}}

\* now: receivedAt.  types: the candidates.  todo: the places in BuildOrder of
\* those still to be handled.  found: the active alerts with the key (at most
\* one), with what was read.  heal: the alerts still to be resolved.  back:
\* where a sync returns to.
EventState == [pc: {"new", "findAlert", "findIssue", "createIssue", "sync",
                    "writeAlert", "notify", "list", "readAlert", "resolve",
                    "readIssue", "closeIssue", "done", "failed"},
               now: 0 .. MaxTime, types: SUBSET AlertType,
               todo: SUBSET DOMAIN BuildOrder, found: SUBSET Alert,
               until: 0 .. MaxTime + Window, issue: Issue \cup {None},
               heal: SUBSET Alert, back: {"writeAlert", "readAlert"}]

\* What a request holds before it starts and after it was answered.
Blank(pc) == [pc |-> pc, now |-> 0, types |-> {}, todo |-> {}, found |-> {},
              until |-> 0, issue |-> None, heal |-> {}, back |-> "writeAlert"]

OperatorState == [pc: {"idle", "opSync"}]
    \cup [pc: {"assign"}, issue: Issue, status: IssueStatus]

TypeOK ==
    /\ alert \in [Alert -> AlertRow]
    /\ issue \in [Issue -> IssueRow]
    /\ openCount \in 0 .. Cardinality(Issue)
    /\ \A e \in Event : handler[e] \in EventState
    /\ \A o \in Operator : handler[o] \in OperatorState
    /\ latest \in [event: Event \cup {None}, types: SUBSET AlertType, alone: BOOLEAN]
    /\ rung \in [Alert -> 0 .. MaxTime]
    /\ touched \subseteq Issue
    /\ uncounted \in BOOLEAN
    /\ failures \in 0 .. MaxFailures

Init ==
    /\ alert = [a \in Alert |-> [type |-> BuildOrder[1], state |-> "absent",
                                 until |-> 0, issue |-> None]]
    /\ issue = [i \in Issue |-> [type |-> BuildOrder[1], status |-> "absent"]]
    /\ openCount = 0
    /\ handler = [r \in Request |-> IF r \in Operator THEN [pc |-> "idle"]
                                                    ELSE Blank("new")]
    /\ latest = [event |-> None, types |-> {}, alone |-> FALSE]
    /\ rung = [a \in Alert |-> 0]
    /\ touched = {}
    /\ uncounted = FALSE
    /\ failures = 0

-----------------------------------------------------------------------------
(* The telemetry event: candidates, alerts and issues. *)

Goto(e, pc) == handler' = [handler EXCEPT ![e].pc = pc]

\* The request is answered.
Finish(e) == handler' = [handler EXCEPT ![e] = Blank("done")]

\* A statement threw: the process ends, nothing that was written is undone.
Restart ==
    /\ handler' = [r \in Request |->
                      CASE r \in Operator -> [pc |-> "idle"]
                        [] r \in InFlight -> Blank("failed")
                        [] OTHER -> handler[r]]
    /\ uncounted' = TRUE
    /\ UNCHANGED <<alert, issue, openCount, latest, history>>

\* The candidate a request is at: the first of those it still has to handle.
First(todo) == CHOOSE n \in todo : \A m \in todo : n <= m

Candidate(e) == BuildOrder[First(handler[e].todo)]

\* The next candidate, or the healing of what is no longer a candidate.
NextCandidate(e) ==
    LET todo == handler[e].todo \ {First(handler[e].todo)} IN
    handler' = [handler EXCEPT ![e].todo = todo, ![e].found = {},
                    ![e].until = 0, ![e].issue = None,
                    ![e].pc = IF todo = {} THEN "list" ELSE "findAlert"]

\* The state projections write zero open issues for the event's device, site
\* and branch; then the candidates are built from the event alone.  Its time,
\* receivedAt, comes with it, from the caller or from the gateway that
\* forwarded it, so the times of the events come in any order.
Process(e, types, now) ==
    /\ handler[e].pc = "new"
    /\ Cardinality(InFlight) < MaxInFlight
    /\ openCount' = 0 /\ uncounted' = FALSE
    /\ LET todo == {n \in DOMAIN BuildOrder : BuildOrder[n] \in types} IN
       handler' = [handler EXCEPT ![e].now = now, ![e].types = types,
                       ![e].todo = todo,
                       ![e].pc = IF todo = {} THEN "list" ELSE "findAlert"]
    /\ latest' = [event |-> e, types |-> types, alone |-> InFlight = {}]
    /\ UNCHANGED <<alert, issue, history, failures>>

\* An event more than an hour old is stored and then left alone.
SkipStaleReplay(e) ==
    /\ handler[e].pc = "new"
    /\ Cardinality(InFlight) < MaxInFlight
    /\ openCount' = 0 /\ uncounted' = FALSE
    /\ Finish(e)
    /\ UNCHANGED <<alert, issue, latest, history, failures>>

FindActiveAlert(e) ==
    /\ handler[e].pc = "findAlert"
    /\ LET found == ActiveAlerts(Candidate(e)) IN
       handler' = [handler EXCEPT ![e].pc = "findIssue", ![e].found = found,
           ![e].until = IF found = {} THEN 0
                        ELSE alert[CHOOSE a \in found : TRUE].until]
    /\ UNCHANGED <<alert, issue, openCount, latest, history, crashes>>

\* Plausible bug: the issue is looked up only when an alert was found.
LookUpIssueMutant(e) ==
    IF handler[e].found = {} THEN {} ELSE OpenIssues(Candidate(e))

LookUpIssue(e) == OpenIssues(Candidate(e))

FindOpenIssue(e) ==
    /\ handler[e].pc = "findIssue"
    /\ \/ \E i \in LookUpIssue(e) :
            handler' = [handler EXCEPT ![e].pc = "writeAlert", ![e].issue = i]
       \/ LookUpIssue(e) = {} /\ Goto(e, "createIssue")
    /\ UNCHANGED <<alert, issue, openCount, latest, history, crashes>>

\* Plausible bug: issues are opened in a status the queries do not know.
OpenedStatusMutant == "new"

OpenedStatus == "open"

CreateIssue(e) ==
    /\ handler[e].pc = "createIssue"
    /\ \E i \in Issue :
         /\ issue[i].status = "absent"
         /\ i = CHOOSE j \in Issue : issue[j].status = "absent"
         /\ issue' = [issue EXCEPT ![i] = [type |-> Candidate(e),
                                           status |-> OpenedStatus]]
         /\ handler' = [handler EXCEPT ![e].pc = "sync", ![e].issue = i,
                                       ![e].back = "writeAlert"]
    /\ UNCHANGED <<alert, openCount, latest, history, crashes>>

OpenIssueCount == Cardinality({i \in Issue : issue[i].status \in OpenStatus})

SyncOpenIssueCounts(e) ==
    /\ handler[e].pc = "sync"
    /\ openCount' = OpenIssueCount /\ uncounted' = FALSE
    /\ Goto(e, handler[e].back)
    /\ UNCHANGED <<alert, issue, latest, history, failures>>

\* uq_alerts_active_key: one alert in state open or suppressed per key.
KeyTaken(e) == ActiveAlerts(Candidate(e)) \ handler[e].found # {}

\* The index rejects what the request is about to write.
Conflict(e) ==
    /\ handler[e].pc = "writeAlert"
    /\ KeyTaken(e)
    /\ Restart
    /\ UNCHANGED failures

\* Plausible bug: the window is tested against the time it will end.
SuppressedMutant(e) == handler[e].until > handler[e].now + Window

Suppressed(e) == handler[e].until > handler[e].now

\* The alert that was found is repeated: it is suppressed while the window it
\* was read with lasts, and a new window begins in any case.
UpdateAlert(e) ==
    /\ handler[e].pc = "writeAlert" /\ ~KeyTaken(e)
    /\ \E a \in handler[e].found :
         alert' = [alert EXCEPT
             ![a].state = IF Suppressed(e) THEN "suppressed" ELSE "open",
             ![a].until = handler[e].now + Window,
             ![a].issue = handler[e].issue]
    /\ IF Suppressed(e) THEN NextCandidate(e)
                        ELSE Goto(e, "notify")
    /\ rung' = [a \in Alert |-> IF a \in handler[e].found /\ handler[e].now < rung[a]
                                THEN 0 ELSE rung[a]]
    /\ UNCHANGED <<issue, openCount, latest, touched, crashes>>

\* The first unused row; with none left the request waits, which bounds the
\* number of alerts and, likewise, of issues.
Unused(a) ==
    /\ alert[a].state = "absent"
    /\ a = CHOOSE b \in Alert : alert[b].state = "absent"

CreateAlert(e) ==
    /\ handler[e].pc = "writeAlert" /\ handler[e].found = {} /\ ~KeyTaken(e)
    /\ \E a \in Alert :
         /\ Unused(a)
         /\ alert' = [alert EXCEPT ![a] =
              [type |-> Candidate(e), state |-> "open",
               until |-> handler[e].now + Window, issue |-> handler[e].issue]]
         /\ handler' = [handler EXCEPT ![e].pc = "notify", ![e].found = {a}]
    /\ UNCHANGED <<issue, openCount, latest, history, crashes>>

\* No other event was in flight when e started, and none has started since.
Undisturbed(e) == latest.alone /\ latest.event = e

NotifyAlert(e) ==
    /\ handler[e].pc = "notify"
    /\ rung' = [a \in Alert |-> IF a \notin handler[e].found THEN rung[a]
                                ELSE IF Undisturbed(e) THEN handler[e].now ELSE 0]
    /\ NextCandidate(e)
    /\ UNCHANGED <<alert, issue, openCount, latest, touched, crashes>>

-----------------------------------------------------------------------------
(* The telemetry event: what the event no longer shows is resolved. *)

\* Plausible bug: alerts the event has just raised are not exempt.
HealedMutant(e) == UNION {ActiveAlerts(t) : t \in AutoResolvable}

Healed(e) == UNION {ActiveAlerts(t) : t \in AutoResolvable \ handler[e].types}

ListActiveAlerts(e) ==
    /\ handler[e].pc = "list"
    /\ handler' = [handler EXCEPT ![e].heal = Healed(e), ![e].pc = "readAlert"]
    /\ UNCHANGED <<alert, issue, openCount, latest, history, crashes>>

\* updateAlert reads the row it is about to write: its issue_id is written
\* back.  The last alert done, the request goes on to its answer.
ReadAlert(e) ==
    /\ handler[e].pc = "readAlert"
    /\ IF handler[e].heal = {} THEN Finish(e)
       ELSE \E a \in handler[e].heal :
              handler' = [handler EXCEPT ![e].pc = "resolve", ![e].found = {a},
                              ![e].heal = @ \ {a}, ![e].issue = alert[a].issue]
    /\ UNCHANGED <<alert, issue, openCount, latest, history, crashes>>

ResolveAlert(e) ==
    /\ handler[e].pc = "resolve"
    /\ alert' = [a \in Alert |-> IF a \notin handler[e].found THEN alert[a]
         ELSE [alert[a] EXCEPT !.state = "resolved", !.until = 0,
                               !.issue = handler[e].issue]]
    /\ Goto(e, "readIssue")
    /\ UNCHANGED <<issue, openCount, latest, history, crashes>>

ReadIssue(e) ==
    /\ handler[e].pc = "readIssue"
    /\ LET i == handler[e].issue IN
       Goto(e, IF issue[i].type \in AutoResolvable /\ issue[i].status \in OpenStatus
               THEN "closeIssue" ELSE "readAlert")
    /\ UNCHANGED <<alert, issue, openCount, latest, history, crashes>>

\* Plausible bug: the alert is resolved and its issue is left as it is.
CloseIssueMutant(e) ==
    /\ handler[e].pc = "closeIssue"
    /\ handler' = [handler EXCEPT ![e].pc = "sync", ![e].back = "readAlert"]
    /\ UNCHANGED <<alert, issue, openCount, latest, history, crashes>>

CloseIssue(e) ==
    /\ handler[e].pc = "closeIssue"
    /\ issue' = [issue EXCEPT ![handler[e].issue].status = "resolved"]
    /\ handler' = [handler EXCEPT ![e].pc = "sync", ![e].back = "readAlert"]
    /\ UNCHANGED <<alert, openCount, latest, history, crashes>>

\* Any statement of any request in flight may throw.
Throw ==
    /\ \E r \in Request : handler[r].pc \notin {"new", "done", "failed", "idle"}
    /\ failures < MaxFailures
    /\ failures' = failures + 1
    /\ Restart

-----------------------------------------------------------------------------
(* The requests of operators. *)

\* Any status may follow any other: transitionIssue looks only for the row.
\* Of the merged row only the status is kept here, and the patch sets it.
TransitionIssue(o, i, status) ==
    /\ handler[o].pc = "idle"
    /\ issue[i].status # "absent"
    /\ issue' = [issue EXCEPT ![i].status = status]
    /\ touched' = touched \cup {i}
    /\ Goto(o, "opSync")
    /\ UNCHANGED <<alert, openCount, latest, rung, crashes>>

\* assignIssue reads the row and writes back all of it but the assignee.
ReadForAssign(o, i) ==
    /\ handler[o].pc = "idle"
    /\ issue[i].status # "absent"
    /\ handler' = [handler EXCEPT ![o] = [pc |-> "assign", issue |-> i,
                                          status |-> issue[i].status]]
    /\ UNCHANGED <<alert, issue, openCount, latest, history, crashes>>

\* Plausible bug: an assignment, which changes no status, counts no issues.
AssignIssueMutant(o) ==
    /\ handler[o].pc = "assign"
    /\ issue' = [issue EXCEPT ![handler[o].issue].status = handler[o].status]
    /\ touched' = touched \cup {handler[o].issue}
    /\ handler' = [handler EXCEPT ![o] = [pc |-> "idle"]]
    /\ UNCHANGED <<alert, openCount, latest, rung, crashes>>

AssignIssue(o) ==
    /\ handler[o].pc = "assign"
    /\ issue' = [issue EXCEPT ![handler[o].issue].status = handler[o].status]
    /\ touched' = touched \cup {handler[o].issue}
    /\ handler' = [handler EXCEPT ![o] = [pc |-> "opSync"]]
    /\ UNCHANGED <<alert, openCount, latest, rung, crashes>>

OperatorSync(o) ==
    /\ handler[o].pc = "opSync"
    /\ openCount' = OpenIssueCount /\ uncounted' = FALSE
    /\ Goto(o, "idle")
    /\ UNCHANGED <<alert, issue, latest, history, failures>>

-----------------------------------------------------------------------------
EventStep(e) ==
    \/ \E types \in SUBSET AlertType : \E now \in 1 .. MaxTime : Process(e, types, now)
    \/ SkipStaleReplay(e)
    \/ FindActiveAlert(e) \/ FindOpenIssue(e) \/ CreateIssue(e)
    \/ SyncOpenIssueCounts(e) \/ UpdateAlert(e) \/ CreateAlert(e)
    \/ NotifyAlert(e) \/ ListActiveAlerts(e) \/ ReadAlert(e)
    \/ ResolveAlert(e) \/ ReadIssue(e) \/ CloseIssue(e) \/ Conflict(e)

OperatorStep(o) ==
    \/ \E i \in Issue : \E s \in Transition : TransitionIssue(o, i, s)
    \/ \E i \in Issue : ReadForAssign(o, i)
    \/ AssignIssue(o) \/ OperatorSync(o)

Next ==
    \/ Throw
    \/ \E e \in Event : EventStep(e)
    \/ \E o \in Operator : OperatorStep(o)

Spec == Init /\ [][Next]_vars

-----------------------------------------------------------------------------
(* Properties *)

AtRest == InFlight = {}

\* Events that overlap may open an issue each for the same key, but no more
\* than overlapped: leaving aside the issues operators wrote to, a key has at
\* most MaxInFlight open issues, one when events come one at a time
\* (findOpenIssueBySourceAlertKey before createIssue).
DuplicateIssuesBounded ==
    \A t \in AlertType : Cardinality(OpenIssues(t) \ touched) <= MaxInFlight

\* Every write of an issue is followed by a count of its own, so between
\* requests the number shown as open issues is right unless an event has set
\* it to zero since, or the process has ended since (syncOpenIssueCounts and
\* the state projection).
CountIsZeroOrRight ==
    (~uncounted /\ \A r \in Request : handler[r].pc \in {"new", "done", "idle"}) =>
        openCount \in {0, OpenIssueCount}

\* An event that no other overlaps leaves the active auto-resolvable alerts
\* at exactly its symptoms, whatever overlapped, threw or was refused by the
\* unique index before it: alerts that overlapping events revived, doubled up
\* on or left behind are repaired (generateFromTelemetry,
\* autoResolveDeviceAlerts).
AlertsFollowTelemetry ==
    AtRest /\ latest.alone /\ handler[latest.event].pc = "done" =>
        {t \in AutoResolvable : ActiveAlerts(t) # {}} = latest.types \cap AutoResolvable

\* When events come one at a time and nothing throws, the issues of a key
\* whose issues no operator wrote to are open exactly while the active alert
\* of the key refers to them.
IssuesFollowAlerts ==
    AtRest /\ failures = 0 =>
        \A i \in Issue :
            /\ issue[i].status # "absent"
            /\ \A j \in touched : issue[j].type # issue[i].type
            => (issue[i].status \in OpenStatus
                <=> \E a \in ActiveAlerts(issue[i].type) : alert[a].issue = i)

\* Once an event that no other overlapped has notified an alert, no event whose
\* time lies within the suppression window of that notification notifies it
\* again, though events may overlap, come with times in any order and decide
\* from rows read before others wrote them; until an event with an earlier
\* time repeats the alert, which moves the end of its window back
\* (suppressedUntil).
SuppressionHonoured ==
    [][\A e \in Event : \A a \in handler[e].found :
         handler[e].pc = "notify" /\ handler'[e].pc \in {"findAlert", "list"} =>
            rung[a] = 0 \/ handler[e].now >= rung[a] + Window]_vars
=============================================================================

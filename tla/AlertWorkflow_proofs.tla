------------------------- MODULE AlertWorkflow_proofs --------------------------
(***************************************************************************)
(* Proofs about alerts and issues, for any alert types, any number of      *)
(* events, operators, alerts and issues, and any bounds on the events in   *)
(* flight, on time and on failures.                                        *)
(***************************************************************************)
EXTENDS AlertWorkflow, FiniteSetTheorems, WellFoundedInduction, TLAPS

-----------------------------------------------------------------------------
(***************************************************************************)
(* The candidates.                                                         *)
(***************************************************************************)

\* A non-empty set of natural numbers has a least element: the interval below
\* it is minimal among the intervals below the elements.
LEMMA LeastNumber ==
    ASSUME NEW T, T \subseteq Nat, T # {}
    PROVE  \E n \in T : \A m \in T : n <= m
<1> DEFINE Below == {0 .. n : n \in T}
<1>1. Below \subseteq FiniteSubsetsOf(Nat) /\ Below # {}
  <2>1. ASSUME NEW n \in T PROVE 0 .. n \in FiniteSubsetsOf(Nat)
    <3>1. IsFiniteSet(0 .. n)
      BY FS_Interval
    <3> QED
      BY <3>1 DEF FiniteSubsetsOf
  <2> QED
    BY <2>1
<1>2. PICK I \in Below : \A J \in Below : ~(<<J, I>> \in StrictSubsetOrdering(Nat))
  <2> HIDE DEF Below
  <2> QED
    BY <1>1, FS_StrictSubsetOrderingWellFounded, WFMin
<1>3. PICK n \in T : I = 0 .. n
  OBVIOUS
<1>4. ASSUME NEW m \in T PROVE n <= m
  <2> SUFFICES ASSUME m < n PROVE FALSE
    OBVIOUS
  <2> DEFINE A == 0 .. m
             B == 0 .. n
  <2>1. n \in B /\ n \notin A /\ A \subseteq B /\ B \subseteq Nat
    OBVIOUS
  <2>2. ~(<<A, B>> \in StrictSubsetOrdering(Nat))
    BY <1>2, <1>3
  <2> HIDE DEF A, B
  <2> QED
    BY <2>1, <2>2 DEF StrictSubsetOrdering
<1> QED
  BY <1>4

\* A request that has candidates left is at one of them, of a known type.
LEMMA CandidateIsLeft ==
    ASSUME NEW e \in Event, handler[e].todo \in SUBSET DOMAIN BuildOrder,
           handler[e].todo # {}
    PROVE  First(handler[e].todo) \in handler[e].todo /\ Candidate(e) \in AlertType
<1>1. DOMAIN BuildOrder \subseteq Nat
  BY AlertAssumption
<1>2. \E n \in handler[e].todo : \A m \in handler[e].todo : n <= m
  BY <1>1, LeastNumber
<1> QED
  BY <1>2 DEF First, Candidate, AlertType

-----------------------------------------------------------------------------
(***************************************************************************)
(* Type correctness.  TypeOK is not inductive by itself: the type a        *)
(* request writes is that of its candidate, so it must have one.           *)
(***************************************************************************)
AtCandidate(h) ==
    \/ h.pc \in {"findAlert", "findIssue", "createIssue", "writeAlert", "notify"}
    \/ h.pc = "sync" /\ h.back = "writeAlert"

HandlerIsFunction == handler = [r \in Request |-> handler[r]]

TypeInv ==
    /\ TypeOK
    /\ HandlerIsFunction
    /\ \A e \in Event : AtCandidate(handler[e]) => handler[e].todo # {}

\* A step of one request leaves the others where they are.
OthersKept(r) ==
    /\ HandlerIsFunction'
    /\ \A q \in Request : q # r => handler'[q] = handler[q]

\* What a step of an event's request leaves in its record.
KeepsPlan(e) == /\ handler'[e].now = handler[e].now
                /\ handler'[e].types = handler[e].types
                /\ handler'[e].todo = handler[e].todo

KeepsReads(e) == /\ handler'[e].found = handler[e].found
                 /\ handler'[e].until = handler[e].until
                 /\ handler'[e].issue = handler[e].issue

KeepsHealing(e) == /\ handler'[e].heal = handler[e].heal
                   /\ handler'[e].back = handler[e].back

\* The request has moved to pc and what else it holds is well-typed.
Moved(e, pc) ==
    OthersKept(e) /\ handler'[e] \in EventState /\ handler'[e].pc = pc

EventPc == {"new", "findAlert", "findIssue", "createIssue", "sync",
            "writeAlert", "notify", "list", "readAlert", "resolve",
            "readIssue", "closeIssue", "done", "failed"}

\* The record of a request between its statements.
LEMMA EventHandler ==
    ASSUME TypeInv, NEW e \in Event
    PROVE  handler[e] \in EventState /\ e \in Request /\ e \notin Operator
  BY AlertAssumption DEF TypeInv, TypeOK, Request

\* A request that has not started or was answered holds nothing.
LEMMA BlankType ==
    ASSUME NEW pc \in EventPc
    PROVE  /\ Blank(pc) \in EventState /\ Blank(pc).pc = pc
           /\ Blank(pc).todo = {} /\ Blank(pc).heal = {} /\ Blank(pc).found = {}
           /\ Blank(pc).back = "writeAlert"
  BY AlertAssumption DEF Blank, EventState, EventPc

\* Going on to another statement changes nothing else that is held.
LEMMA GotoView ==
    ASSUME TypeInv, NEW e \in Event, NEW pc \in EventPc, Goto(e, pc)
    PROVE  Moved(e, pc) /\ KeepsPlan(e) /\ KeepsReads(e) /\ KeepsHealing(e)
<1>1. handler[e] \in EventState /\ e \in Request
  BY EventHandler
<1>2. OthersKept(e) /\ handler'[e] = [handler[e] EXCEPT !.pc = pc]
  BY <1>1 DEF Goto, OthersKept, TypeInv, HandlerIsFunction
<1>3. handler'[e] \in EventState
  BY <1>1, <1>2 DEF EventState, EventPc
<1> QED
  BY <1>1, <1>2, <1>3 DEF Moved, KeepsPlan, KeepsReads, KeepsHealing, EventState

\* Answering forgets what was held.
LEMMA FinishView ==
    ASSUME TypeInv, NEW e \in Event, Finish(e)
    PROVE  /\ Moved(e, "done") /\ handler'[e].heal = {}
           /\ handler'[e] = Blank("done")
<1>1. e \in Request
  BY EventHandler
<1>2. OthersKept(e) /\ handler'[e] = Blank("done")
  BY <1>1 DEF Finish, OthersKept, TypeInv, HandlerIsFunction
<1> QED
  BY <1>2, BlankType DEF Moved, EventPc

\* Going on to the next candidate, or to the healing.
LEMMA NextCandidateView ==
    ASSUME TypeInv, NEW e \in Event, NextCandidate(e)
    PROVE  LET todo == handler[e].todo \ {First(handler[e].todo)} IN
           /\ Moved(e, IF todo = {} THEN "list" ELSE "findAlert")
           /\ handler'[e].todo = todo /\ handler'[e].found = {}
           /\ handler'[e].now = handler[e].now /\ handler'[e].types = handler[e].types
           /\ KeepsHealing(e)
<1> DEFINE todo == handler[e].todo \ {First(handler[e].todo)}
           pc == IF todo = {} THEN "list" ELSE "findAlert"
<1>1. handler[e] \in EventState /\ e \in Request
  BY EventHandler
<1>2. pc \in EventPc /\ todo \in SUBSET DOMAIN BuildOrder
  BY <1>1 DEF EventPc, EventState
<1>3. handler' = [handler EXCEPT ![e].todo = todo, ![e].found = {},
                      ![e].until = 0, ![e].issue = None, ![e].pc = pc]
  BY DEF NextCandidate
<1> HIDE DEF todo, pc
<1>4. /\ OthersKept(e)
      /\ handler'[e] = [handler[e] EXCEPT !.todo = todo, !.found = {},
                            !.until = 0, !.issue = None, !.pc = pc]
  BY <1>1, <1>3 DEF OthersKept, TypeInv, HandlerIsFunction
<1>5. handler'[e] \in EventState
  <2>1. 0 \in 0 .. MaxTime + Window
    BY AlertAssumption
  <2> QED
    BY <1>1, <1>2, <1>4, <2>1 DEF EventState, EventPc
<1>6. /\ handler'[e].todo = todo /\ handler'[e].found = {}
      /\ handler'[e].now = handler[e].now /\ handler'[e].types = handler[e].types
      /\ KeepsHealing(e) /\ handler'[e].pc = pc
  BY <1>1, <1>4 DEF EventState, KeepsHealing
<1> QED
  BY <1>4, <1>5, <1>6 DEF Moved, todo, pc

\* Starting an event: it carries its time and its candidates.
LEMMA ProcessView ==
    ASSUME TypeInv, NEW e \in Event, NEW types \in SUBSET AlertType,
                    NEW now \in 1 .. MaxTime, Process(e, types, now)
    PROVE  LET todo == {n \in DOMAIN BuildOrder : BuildOrder[n] \in types} IN
           /\ Moved(e, IF todo = {} THEN "list" ELSE "findAlert")
           /\ handler'[e].todo = todo /\ handler'[e].now = now
           /\ handler'[e].types = types /\ KeepsReads(e) /\ KeepsHealing(e)
<1> DEFINE todo == {n \in DOMAIN BuildOrder : BuildOrder[n] \in types}
           pc == IF todo = {} THEN "list" ELSE "findAlert"
<1>1. handler[e] \in EventState /\ e \in Request /\ now \in 0 .. MaxTime
  BY EventHandler, AlertAssumption DEF TypeInv, TypeOK
<1>2. pc \in EventPc /\ todo \in SUBSET DOMAIN BuildOrder
  BY DEF EventPc
<1>3. handler' = [handler EXCEPT ![e].now = now, ![e].types = types,
                                 ![e].todo = todo, ![e].pc = pc]
  BY DEF Process
<1> HIDE DEF todo, pc
<1>4. /\ OthersKept(e)
      /\ handler'[e] = [handler[e] EXCEPT !.now = now, !.types = types,
                                          !.todo = todo, !.pc = pc]
  BY <1>1, <1>3 DEF OthersKept, TypeInv, HandlerIsFunction
<1>5. handler'[e] \in EventState
  BY <1>1, <1>2, <1>4 DEF EventState, EventPc
<1>6. /\ handler'[e].todo = todo /\ handler'[e].now = now
      /\ handler'[e].types = types /\ KeepsReads(e) /\ KeepsHealing(e)
      /\ handler'[e].pc = pc
  BY <1>1, <1>4 DEF EventState, KeepsReads, KeepsHealing
<1> QED
  BY <1>4, <1>5, <1>6 DEF Moved, todo, pc

\* Looking up the active alert of the candidate.
LEMMA FindAlertView ==
    ASSUME TypeInv, NEW e \in Event, FindActiveAlert(e)
    PROVE  LET found == ActiveAlerts(Candidate(e)) IN
           /\ Moved(e, "findIssue") /\ KeepsPlan(e) /\ KeepsHealing(e)
           /\ handler'[e].found = found
           /\ found # {} => handler'[e].until = alert[CHOOSE a \in found : TRUE].until
<1> DEFINE found == ActiveAlerts(Candidate(e))
           until == IF found = {} THEN 0 ELSE alert[CHOOSE a \in found : TRUE].until
<1>1. handler[e] \in EventState /\ e \in Request
  BY EventHandler
<1>2. handler' = [handler EXCEPT ![e].pc = "findIssue", ![e].found = found,
                                 ![e].until = until]
  BY DEF FindActiveAlert
<1>3. found \subseteq Alert
  BY DEF ActiveAlerts
<1>4. until \in 0 .. MaxTime + Window
  <2>1. CASE found = {}
    BY <2>1, AlertAssumption
  <2>2. CASE found # {}
    BY <1>3, <2>2 DEF TypeInv, TypeOK, AlertRow
  <2> QED
    BY <2>1, <2>2
<1>5. found # {} => until = alert[CHOOSE a \in found : TRUE].until
  OBVIOUS
<1> HIDE DEF found, until
<1>6. /\ OthersKept(e)
      /\ handler'[e] = [handler[e] EXCEPT !.pc = "findIssue", !.found = found,
                                          !.until = until]
  BY <1>1, <1>2 DEF OthersKept, TypeInv, HandlerIsFunction
<1>7. handler'[e] \in EventState
  BY <1>1, <1>3, <1>4, <1>6 DEF EventState
<1>8. /\ handler'[e].found = found /\ handler'[e].until = until
      /\ KeepsPlan(e) /\ KeepsHealing(e) /\ handler'[e].pc = "findIssue"
  BY <1>1, <1>6 DEF EventState, KeepsPlan, KeepsHealing
<1> QED
  BY <1>5, <1>6, <1>7, <1>8 DEF Moved, found

\* Looking up the open issue of the candidate: one is taken, or none is there.
LEMMA FindIssueView ==
    ASSUME TypeInv, NEW e \in Event, FindOpenIssue(e)
    PROVE  /\ KeepsPlan(e) /\ KeepsHealing(e)
           /\ handler'[e].found = handler[e].found
           /\ handler'[e].until = handler[e].until
           /\ \/ /\ Moved(e, "writeAlert")
                 /\ handler'[e].issue \in OpenIssues(Candidate(e))
              \/ /\ Moved(e, "createIssue")
                 /\ OpenIssues(Candidate(e)) = {}
<1>1. handler[e] \in EventState /\ e \in Request
  BY EventHandler
<1>2. CASE LookUpIssue(e) = {} /\ Goto(e, "createIssue")
  BY <1>2, GotoView DEF LookUpIssue, KeepsReads, EventPc
<1>3. CASE \E i \in LookUpIssue(e) :
              handler' = [handler EXCEPT ![e].pc = "writeAlert", ![e].issue = i]
  <2>1. PICK i \in OpenIssues(Candidate(e)) :
                handler' = [handler EXCEPT ![e].pc = "writeAlert", ![e].issue = i]
    BY <1>3 DEF LookUpIssue
  <2>2. i \in Issue
    BY <2>1 DEF OpenIssues
  <2>3. OthersKept(e) /\ handler'[e] = [handler[e] EXCEPT !.pc = "writeAlert", !.issue = i]
    BY <1>1, <2>1 DEF OthersKept, TypeInv, HandlerIsFunction
  <2>4. handler'[e] \in EventState
    BY <1>1, <2>2, <2>3 DEF EventState
  <2>5. /\ KeepsPlan(e) /\ KeepsHealing(e) /\ handler'[e].issue = i
        /\ handler'[e].pc = "writeAlert"
        /\ handler'[e].found = handler[e].found /\ handler'[e].until = handler[e].until
    BY <1>1, <2>3 DEF EventState, KeepsPlan, KeepsHealing
  <2> QED
    BY <2>1, <2>3, <2>4, <2>5 DEF Moved
<1> QED
  BY <1>2, <1>3 DEF FindOpenIssue

\* Opening an issue for the candidate, in a row that was not used before.
LEMMA CreateIssueView ==
    ASSUME TypeInv, NEW e \in Event, CreateIssue(e)
    PROVE  /\ Moved(e, "sync") /\ KeepsPlan(e) /\ handler'[e].back = "writeAlert"
           /\ handler'[e].found = handler[e].found
           /\ handler'[e].until = handler[e].until
           /\ handler'[e].heal = handler[e].heal
           /\ handler'[e].issue \in Issue /\ issue[handler'[e].issue].status = "absent"
           /\ issue' = [issue EXCEPT ![handler'[e].issue] =
                            [type |-> Candidate(e), status |-> "open"]]
<1>1. handler[e] \in EventState /\ e \in Request
  BY EventHandler
<1>2. PICK i \in Issue :
         /\ issue[i].status = "absent"
         /\ issue' = [issue EXCEPT ![i] = [type |-> Candidate(e), status |-> "open"]]
         /\ handler' = [handler EXCEPT ![e].pc = "sync", ![e].issue = i,
                                       ![e].back = "writeAlert"]
  BY DEF CreateIssue, OpenedStatus
<1>3. /\ OthersKept(e)
      /\ handler'[e] = [handler[e] EXCEPT !.pc = "sync", !.issue = i,
                                          !.back = "writeAlert"]
  BY <1>1, <1>2 DEF OthersKept, TypeInv, HandlerIsFunction
<1>4. handler'[e] \in EventState
  BY <1>1, <1>3 DEF EventState
<1>5. /\ KeepsPlan(e) /\ handler'[e].issue = i /\ handler'[e].back = "writeAlert"
      /\ handler'[e].found = handler[e].found /\ handler'[e].until = handler[e].until
      /\ handler'[e].heal = handler[e].heal /\ handler'[e].pc = "sync"
  BY <1>1, <1>3 DEF EventState, KeepsPlan
<1> QED
  BY <1>2, <1>3, <1>4, <1>5 DEF Moved

\* Raising an alert, in a row that was not used before.
LEMMA CreateAlertView ==
    ASSUME TypeInv, NEW e \in Event, CreateAlert(e)
    PROVE  /\ Moved(e, "notify") /\ KeepsPlan(e) /\ KeepsHealing(e)
           /\ handler'[e].issue = handler[e].issue
           /\ \E a \in Alert :
                 /\ alert[a].state = "absent" /\ handler'[e].found = {a}
                 /\ alert' = [alert EXCEPT ![a] =
                      [type |-> Candidate(e), state |-> "open",
                       until |-> handler[e].now + Window, issue |-> handler[e].issue]]
<1>1. handler[e] \in EventState /\ e \in Request
  BY EventHandler
<1>2. PICK a \in Alert :
         /\ alert[a].state = "absent"
         /\ alert' = [alert EXCEPT ![a] =
              [type |-> Candidate(e), state |-> "open",
               until |-> handler[e].now + Window, issue |-> handler[e].issue]]
         /\ handler' = [handler EXCEPT ![e].pc = "notify", ![e].found = {a}]
  BY DEF CreateAlert, Unused
<1>3. OthersKept(e) /\ handler'[e] = [handler[e] EXCEPT !.pc = "notify", !.found = {a}]
  BY <1>1, <1>2 DEF OthersKept, TypeInv, HandlerIsFunction
<1>4. handler'[e] \in EventState
  <2> DEFINE found == {a}
  <2>1. found \subseteq Alert
    OBVIOUS
  <2> HIDE DEF found
  <2>2. handler'[e] = [handler[e] EXCEPT !.pc = "notify", !.found = found]
    BY <1>3 DEF found
  <2> QED
    BY <1>1, <2>1, <2>2 DEF EventState
<1>5. /\ KeepsPlan(e) /\ KeepsHealing(e) /\ handler'[e].found = {a}
      /\ handler'[e].issue = handler[e].issue /\ handler'[e].pc = "notify"
  BY <1>1, <1>3 DEF EventState, KeepsPlan, KeepsHealing
<1> QED
  BY <1>2, <1>3, <1>4, <1>5 DEF Moved

\* Listing what is to be resolved.
LEMMA ListView ==
    ASSUME TypeInv, NEW e \in Event, ListActiveAlerts(e)
    PROVE  /\ Moved(e, "readAlert") /\ KeepsPlan(e) /\ KeepsReads(e)
           /\ handler'[e].heal = Healed(e)
<1>1. handler[e] \in EventState /\ e \in Request
  BY EventHandler
<1>2. handler' = [handler EXCEPT ![e].heal = Healed(e), ![e].pc = "readAlert"]
  BY DEF ListActiveAlerts
<1>3. Healed(e) \subseteq Alert
  BY DEF Healed, ActiveAlerts
<1>4. OthersKept(e) /\ handler'[e] = [handler[e] EXCEPT !.heal = Healed(e), !.pc = "readAlert"]
  BY <1>1, <1>2 DEF OthersKept, TypeInv, HandlerIsFunction
<1>5. handler'[e] \in EventState
  BY <1>1, <1>3, <1>4 DEF EventState
<1> QED
  BY <1>1, <1>4, <1>5 DEF Moved, EventState, KeepsPlan, KeepsReads

\* Reading the next alert to be resolved, or answering when none is left.
LEMMA ReadAlertView ==
    ASSUME TypeInv, NEW e \in Event, ReadAlert(e)
    PROVE  \/ handler[e].heal = {} /\ Finish(e)
           \/ /\ Moved(e, "resolve") /\ KeepsPlan(e)
              /\ \E a \in handler[e].heal :
                    /\ handler'[e].found = {a}
                    /\ handler'[e].heal = handler[e].heal \ {a}
                    /\ handler'[e].issue = alert[a].issue
<1>1. handler[e] \in EventState /\ e \in Request
  BY EventHandler
<1>2. CASE handler[e].heal = {} /\ Finish(e)
  BY <1>2
<1>3. CASE \E a \in handler[e].heal :
              handler' = [handler EXCEPT ![e].pc = "resolve", ![e].found = {a},
                              ![e].heal = @ \ {a}, ![e].issue = alert[a].issue]
  <2> DEFINE rest(a) == handler[e].heal \ {a}
  <2>1. PICK a \in handler[e].heal :
              handler' = [handler EXCEPT ![e].pc = "resolve", ![e].found = {a},
                              ![e].heal = rest(a), ![e].issue = alert[a].issue]
    BY <1>3
  <2>2. a \in Alert /\ rest(a) \subseteq Alert
    BY <1>1 DEF EventState
  <2>3. alert[a].issue \in Issue \cup {None}
    BY <2>2 DEF TypeInv, TypeOK, AlertRow
  <2> HIDE DEF rest
  <2>4. /\ OthersKept(e)
        /\ handler'[e] = [handler[e] EXCEPT !.pc = "resolve", !.found = {a},
                              !.heal = rest(a), !.issue = alert[a].issue]
    BY <1>1, <2>1 DEF OthersKept, TypeInv, HandlerIsFunction
  <2>5. handler'[e] \in EventState
    <3> DEFINE found == {a}
    <3>1. found \subseteq Alert
      BY <2>2
    <3> HIDE DEF found
    <3>2. handler'[e] = [handler[e] EXCEPT !.pc = "resolve", !.found = found,
                             !.heal = rest(a), !.issue = alert[a].issue]
      BY <2>4 DEF found
    <3> QED
      BY <1>1, <2>2, <2>3, <3>1, <3>2 DEF EventState
  <2>6. /\ KeepsPlan(e) /\ handler'[e].found = {a} /\ handler'[e].heal = rest(a)
        /\ handler'[e].issue = alert[a].issue /\ handler'[e].pc = "resolve"
    BY <1>1, <2>4 DEF EventState, KeepsPlan
  <2> QED
    BY <2>1, <2>4, <2>5, <2>6 DEF Moved, rest
<1> QED
  BY <1>2, <1>3 DEF ReadAlert

\* Closing the issue of an alert that was resolved.
LEMMA CloseIssueView ==
    ASSUME TypeInv, NEW e \in Event, CloseIssue(e)
    PROVE  /\ Moved(e, "sync") /\ KeepsPlan(e) /\ KeepsReads(e)
           /\ handler'[e].heal = handler[e].heal /\ handler'[e].back = "readAlert"
<1>1. handler[e] \in EventState /\ e \in Request
  BY EventHandler
<1>2. handler' = [handler EXCEPT ![e].pc = "sync", ![e].back = "readAlert"]
  BY DEF CloseIssue
<1>3. OthersKept(e) /\ handler'[e] = [handler[e] EXCEPT !.pc = "sync", !.back = "readAlert"]
  BY <1>1, <1>2 DEF OthersKept, TypeInv, HandlerIsFunction
<1>4. handler'[e] \in EventState
  BY <1>1, <1>3 DEF EventState
<1> QED
  BY <1>1, <1>3, <1>4 DEF Moved, EventState, KeepsPlan, KeepsReads

\* The end of the process: requests in flight are lost, the others are kept.
LEMMA RestartView ==
    ASSUME TypeInv, Restart
    PROVE  /\ HandlerIsFunction'
           /\ \A e \in Event : \/ handler'[e] = Blank("failed")
                               \/ handler'[e] = handler[e] /\ e \notin InFlight
           /\ \A o \in Operator : handler'[o] = [pc |-> "idle"]
           /\ InFlight' = {}
<1>1. /\ HandlerIsFunction'
      /\ \A r \in Request : handler'[r] = CASE r \in Operator -> [pc |-> "idle"]
                                            [] r \in InFlight -> Blank("failed")
                                            [] OTHER -> handler[r]
  BY DEF Restart, HandlerIsFunction
<1>2. \A e \in Event : e \in Request /\ e \notin Operator
  BY EventHandler
<1>3. \A e \in Event : handler'[e] = IF e \in InFlight THEN Blank("failed") ELSE handler[e]
  BY <1>1, <1>2
<1>4. \A o \in Operator : handler'[o] = [pc |-> "idle"]
  <2> SUFFICES ASSUME NEW o \in Operator PROVE handler'[o] = [pc |-> "idle"]
    OBVIOUS
  <2>1. o \in Request /\ o \notin InFlight
    BY AlertAssumption DEF Request, InFlight
  <2> QED
    BY <1>1, <2>1
<1>5. InFlight' = {}
  BY <1>3, BlankType DEF InFlight, EventPc
<1> QED
  BY <1>1, <1>3, <1>4, <1>5

\* The initial states are well-typed.
LEMMA TypeInit == Init => TypeInv
<1> SUFFICES ASSUME Init PROVE TypeInv
  OBVIOUS
<1>1. BuildOrder[1] \in AlertType
  BY AlertAssumption DEF AlertType
<1>2. \A e \in Event : e \in Request /\ handler[e] = Blank("new")
  BY AlertAssumption DEF Init, Request
<1>3. \A o \in Operator : handler[o] \in OperatorState
  BY DEF Init, Request, OperatorState
<1>4. HandlerIsFunction
  BY DEF Init, HandlerIsFunction
<1>5. \A e \in Event : handler[e] \in EventState /\ ~AtCandidate(handler[e])
  BY <1>2, BlankType DEF AtCandidate, EventPc
<1>6. alert \in [Alert -> AlertRow] /\ issue \in [Issue -> IssueRow]
  BY <1>1, AlertAssumption DEF Init, AlertRow, IssueRow, Active
<1>7. 0 \in 0 .. Cardinality(Issue)
  BY AlertAssumption, FS_CardinalityType
<1>8. /\ openCount \in 0 .. Cardinality(Issue)
      /\ failures \in 0 .. MaxFailures /\ rung \in [Alert -> 0 .. MaxTime]
  BY <1>7, AlertAssumption DEF Init
<1>9. /\ latest \in [event: Event \cup {None}, types: SUBSET AlertType, alone: BOOLEAN]
      /\ touched \subseteq Issue /\ uncounted \in BOOLEAN
  BY DEF Init
<1> QED
  BY <1>3, <1>4, <1>5, <1>6, <1>8, <1>9 DEF TypeInv, TypeOK

\* The number of open issues is a number of issues.
LEMMA OpenIssueCountType ==
    ASSUME NEW S, S \subseteq Issue
    PROVE  IsFiniteSet(S) /\ Cardinality(S) \in 0 .. Cardinality(Issue)
  BY AlertAssumption, FS_Subset, FS_CardinalityType

\* A step of an event's request that keeps its own record well-typed keeps the
\* records of all requests so.
LEMMA EventTypes ==
    ASSUME TypeInv, NEW e \in Event, NEW pc, Moved(e, pc),
           AtCandidate(handler'[e]) => handler'[e].todo # {}
    PROVE  /\ \A f \in Event : handler'[f] \in EventState
           /\ \A o \in Operator : handler'[o] \in OperatorState
           /\ HandlerIsFunction'
           /\ \A f \in Event : AtCandidate(handler'[f]) => handler'[f].todo # {}
<1>1. \A f \in Event : f \in Request
  BY DEF Request
<1>2. \A o \in Operator : o \in Request /\ o # e
  BY AlertAssumption DEF Request
<1> QED
  BY <1>1, <1>2 DEF TypeInv, TypeOK, Moved, OthersKept

\* The end of the process keeps the records of all requests well-typed.
LEMMA RestartTypes ==
    ASSUME TypeInv, Restart
    PROVE  /\ \A f \in Event : handler'[f] \in EventState
           /\ \A o \in Operator : handler'[o] \in OperatorState
           /\ HandlerIsFunction'
           /\ \A f \in Event : AtCandidate(handler'[f]) => handler'[f].todo # {}
<1>1. Blank("failed") \in EventState /\ ~AtCandidate(Blank("failed"))
  BY BlankType DEF AtCandidate, EventPc
<1>2. \A o \in Operator : handler'[o] \in OperatorState
  BY RestartView DEF OperatorState
<1> QED
  BY <1>1, <1>2, RestartView DEF TypeInv, TypeOK

\* Every step of an event's request keeps the state well-typed.
LEMMA TypeEventStep ==
    ASSUME TypeInv, NEW e \in Event, EventStep(e)
    PROVE  TypeInv'
<1> DEFINE h == handler[e]
           Records == /\ \A f \in Event : handler'[f] \in EventState
                      /\ \A o \in Operator : handler'[o] \in OperatorState
                      /\ HandlerIsFunction'
                      /\ \A f \in Event : AtCandidate(handler'[f]) => handler'[f].todo # {}
           Columns == UNCHANGED <<alert, issue, openCount, latest, rung,
                                  touched, uncounted, failures>>
<1> USE DEF TypeOK
<1>0. h \in EventState /\ e \in Request
  BY EventHandler
<1>1. ASSUME NEW types \in SUBSET AlertType,
             NEW now \in 1 .. MaxTime, Process(e, types, now) PROVE TypeInv'
  <2>1. handler'[e].pc # "sync" /\ (AtCandidate(handler'[e]) => handler'[e].todo # {})
    BY <1>1, ProcessView DEF AtCandidate, Moved
  <2>2. Records
    BY <1>1, <2>1, ProcessView, EventTypes
  <2>3. 0 \in 0 .. Cardinality(Issue)
    BY AlertAssumption, FS_CardinalityType
  <2> QED
    BY <1>1, <2>2, <2>3 DEF TypeInv, Process, history
<1>2. ASSUME SkipStaleReplay(e) PROVE TypeInv'
  <2>1. Finish(e)
    BY <1>2 DEF SkipStaleReplay
  <2>2. Records
    BY <2>1, FinishView, EventTypes DEF Moved, AtCandidate
  <2>3. 0 \in 0 .. Cardinality(Issue)
    BY AlertAssumption, FS_CardinalityType
  <2> QED
    BY <1>2, <2>2, <2>3 DEF TypeInv, SkipStaleReplay, history
<1>3. ASSUME FindActiveAlert(e) PROVE TypeInv'
  <2>1. Records
    BY <1>3, FindAlertView, EventTypes
       DEF FindActiveAlert, TypeInv, AtCandidate, KeepsPlan
  <2> QED
    BY <1>3, <2>1 DEF TypeInv, FindActiveAlert, history, crashes
<1>4. ASSUME FindOpenIssue(e) PROVE TypeInv'
  <2>1. h.todo # {} /\ handler'[e].todo = h.todo
    BY <1>4, FindIssueView DEF FindOpenIssue, TypeInv, AtCandidate, KeepsPlan
  <2>2. Records
    BY <1>4, <2>1, FindIssueView, EventTypes
  <2> QED
    BY <1>4, <2>2 DEF TypeInv, FindOpenIssue, history, crashes
<1>5. ASSUME CreateIssue(e) PROVE TypeInv'
  <2>1. h.todo # {} /\ handler'[e].todo = h.todo
    BY <1>5, CreateIssueView DEF CreateIssue, TypeInv, AtCandidate, KeepsPlan
  <2>2. Records
    BY <1>5, <2>1, CreateIssueView, EventTypes
  <2>3. Candidate(e) \in AlertType
    BY <1>0, <2>1, CandidateIsLeft DEF EventState
  <2>4. issue' \in [Issue -> IssueRow]
    <3>1. [type |-> Candidate(e), status |-> "open"] \in IssueRow
      BY <2>3 DEF IssueRow, IssueStatus, OpenStatus
    <3> QED
      BY <1>5, <3>1, CreateIssueView DEF TypeInv
  <2> QED
    BY <1>5, <2>2, <2>4 DEF TypeInv, CreateIssue, history, crashes
<1>6. ASSUME SyncOpenIssueCounts(e) PROVE TypeInv'
  <2>1. Goto(e, h.back) /\ h.back \in {"writeAlert", "readAlert"}
    BY <1>0, <1>6 DEF SyncOpenIssueCounts, EventState
  <2>2. /\ Moved(e, h.back) /\ handler'[e].todo = h.todo
        /\ (h.back = "writeAlert" => h.todo # {})
    BY <1>6, <2>1, GotoView DEF EventPc, SyncOpenIssueCounts, TypeInv, AtCandidate, KeepsPlan
  <2>3. Records
    BY <2>1, <2>2, EventTypes DEF Moved, AtCandidate
  <2>4. openCount' \in 0 .. Cardinality(Issue)
    BY <1>6, OpenIssueCountType DEF SyncOpenIssueCounts, OpenIssueCount
  <2> QED
    BY <1>6, <2>3, <2>4 DEF TypeInv, SyncOpenIssueCounts, history
<1>7. ASSUME UpdateAlert(e) PROVE TypeInv'
  <2>1. h.todo # {}
    BY <1>7 DEF UpdateAlert, TypeInv, AtCandidate
  <2>2. ASSUME NextCandidate(e) PROVE Records
    BY <2>2, NextCandidateView, EventTypes DEF Moved, AtCandidate
  <2>3. ASSUME Goto(e, "notify") PROVE Records
    BY <2>1, <2>3, GotoView, EventTypes DEF EventPc, KeepsPlan
  <2>4. Records
    BY <1>7, <2>2, <2>3 DEF UpdateAlert
  <2>5. PICK a \in h.found :
          alert' = [alert EXCEPT
             ![a].state = IF Suppressed(e) THEN "suppressed" ELSE "open",
             ![a].until = h.now + Window,
             ![a].issue = h.issue]
    BY <1>7 DEF UpdateAlert
  <2>6. /\ a \in Alert /\ h.now + Window \in 0 .. MaxTime + Window
        /\ h.issue \in Issue \cup {None}
    BY <1>0, AlertAssumption DEF EventState
  <2>7. alert' \in [Alert -> AlertRow]
    <3> DEFINE state == IF Suppressed(e) THEN "suppressed" ELSE "open"
               until == h.now + Window
    <3>1. state \in Active
      BY DEF Active
    <3> DEFINE row == [alert[a] EXCEPT !.state = state, !.until = until, !.issue = h.issue]
    <3>2. alert[a] \in AlertRow /\ alert' = [alert EXCEPT ![a] = row]
      BY <2>5, <2>6 DEF TypeInv
    <3>3. until \in 0 .. MaxTime + Window /\ h.issue \in Issue \cup {None}
      BY <2>6
    <3> HIDE DEF state, until, h
    <3>4. row \in AlertRow
      BY <3>1, <3>2, <3>3 DEF AlertRow
    <3> QED
      BY <3>2, <3>4 DEF TypeInv
  <2>8. rung' \in [Alert -> 0 .. MaxTime]
    BY <1>7, AlertAssumption DEF UpdateAlert, TypeInv
  <2> QED
    BY <1>7, <2>4, <2>7, <2>8 DEF TypeInv, UpdateAlert, crashes
<1>8. ASSUME CreateAlert(e) PROVE TypeInv'
  <2>1. h.todo # {} /\ handler'[e].todo = h.todo
    BY <1>8, CreateAlertView DEF CreateAlert, TypeInv, AtCandidate, KeepsPlan
  <2>2. Records
    BY <1>8, <2>1, CreateAlertView, EventTypes
  <2>3. /\ Candidate(e) \in AlertType /\ h.now + Window \in 0 .. MaxTime + Window
        /\ h.issue \in Issue \cup {None}
    BY <1>0, <2>1, CandidateIsLeft, AlertAssumption DEF EventState
  <2>4. alert' \in [Alert -> AlertRow]
    BY <1>8, <2>3, CreateAlertView DEF TypeInv, AlertRow, Active
  <2> QED
    BY <1>8, <2>2, <2>4 DEF TypeInv, CreateAlert, history, crashes
<1>9. ASSUME NotifyAlert(e) PROVE TypeInv'
  <2>1. Records
    BY <1>9, NextCandidateView, EventTypes DEF NotifyAlert, Moved, AtCandidate
  <2>2. rung' \in [Alert -> 0 .. MaxTime]
    BY <1>0, <1>9, AlertAssumption DEF NotifyAlert, EventState, TypeInv
  <2> QED
    BY <1>9, <2>1, <2>2 DEF TypeInv, NotifyAlert, crashes
<1>10. ASSUME ListActiveAlerts(e) PROVE TypeInv'
  <2>1. Records
    BY <1>10, ListView, EventTypes DEF Moved, AtCandidate
  <2> QED
    BY <1>10, <2>1 DEF TypeInv, ListActiveAlerts, history, crashes
<1>11. ASSUME ReadAlert(e) PROVE TypeInv'
  <2>1. ASSUME Finish(e) PROVE Records
    BY <2>1, FinishView, EventTypes DEF Moved, AtCandidate
  <2>2. ASSUME Moved(e, "resolve") PROVE Records
    BY <2>2, EventTypes DEF Moved, AtCandidate
  <2>3. Records
    BY <1>11, <2>1, <2>2, ReadAlertView
  <2> QED
    BY <1>11, <2>3 DEF TypeInv, ReadAlert, history, crashes
<1>12. ASSUME ResolveAlert(e) PROVE TypeInv'
  <2>1. Records
    BY <1>12, GotoView, EventTypes DEF ResolveAlert, Moved, AtCandidate, EventPc
  <2>2. alert' = [a \in Alert |-> IF a \notin h.found THEN alert[a]
           ELSE [alert[a] EXCEPT !.state = "resolved", !.until = 0, !.issue = h.issue]]
    BY <1>12 DEF ResolveAlert
  <2>3. h.issue \in Issue \cup {None} /\ 0 \in 0 .. MaxTime + Window
    BY <1>0, AlertAssumption DEF EventState
  <2>4. alert' \in [Alert -> AlertRow]
    <3> HIDE DEF h
    <3>1. ASSUME NEW row \in AlertRow
          PROVE  [row EXCEPT !.state = "resolved", !.until = 0, !.issue = h.issue] \in AlertRow
      BY <2>3 DEF AlertRow, Active
    <3> QED
      BY <2>2, <3>1 DEF TypeInv
  <2> QED
    BY <1>12, <2>1, <2>4 DEF TypeInv, ResolveAlert, history, crashes
<1>13. ASSUME ReadIssue(e) PROVE TypeInv'
  <2>1. PICK pc \in {"closeIssue", "readAlert"} : Goto(e, pc)
    BY <1>13 DEF ReadIssue
  <2>2. Records
    BY <2>1, GotoView, EventTypes DEF Moved, AtCandidate, EventPc
  <2> QED
    BY <1>13, <2>2 DEF TypeInv, ReadIssue, history, crashes
<1>14. ASSUME CloseIssue(e) PROVE TypeInv'
  <2>1. Records
    BY <1>14, CloseIssueView, EventTypes DEF Moved, AtCandidate
  <2>2. issue' \in [Issue -> IssueRow]
    BY <1>14 DEF CloseIssue, TypeInv, IssueRow, IssueStatus, OpenStatus
  <2> QED
    BY <1>14, <2>1, <2>2 DEF TypeInv, CloseIssue, history, crashes
<1>15. ASSUME Conflict(e) PROVE TypeInv'
  <2>1. Restart /\ UNCHANGED failures
    BY <1>15 DEF Conflict
  <2> QED
    BY <2>1, RestartTypes DEF TypeInv, Restart, history
<1> QED
  BY <1>1, <1>2, <1>3, <1>4, <1>5, <1>6, <1>7, <1>8, <1>9, <1>10, <1>11, <1>12,
     <1>13, <1>14, <1>15 DEF EventStep

\* A step of an event's request changes the records of other events only when
\* it ends the process.
LEMMA OthersUntouched ==
    ASSUME TypeInv, NEW e \in Event, EventStep(e)
    PROVE  \/ \A r \in Request : r # e => handler'[r] = handler[r]
           \/ Conflict(e)
<1> USE DEF Moved, OthersKept
<1>1. ASSUME NEW types \in SUBSET AlertType,
             NEW now \in 1 .. MaxTime, Process(e, types, now)
      PROVE  OthersKept(e)
  BY <1>1, ProcessView
<1>2. UpdateAlert(e) => OthersKept(e)
  BY NextCandidateView, GotoView DEF UpdateAlert, EventPc
<1>3. NotifyAlert(e) => OthersKept(e)
  BY NextCandidateView DEF NotifyAlert
<1>4. SkipStaleReplay(e) => OthersKept(e)
  BY FinishView DEF SkipStaleReplay
<1>5. ReadAlert(e) => OthersKept(e)
  BY ReadAlertView, FinishView
<1>6. ReadIssue(e) => OthersKept(e)
  <2> SUFFICES ASSUME ReadIssue(e) PROVE OthersKept(e)
    OBVIOUS
  <2>1. PICK pc \in {"closeIssue", "readAlert"} : Goto(e, pc)
    BY DEF ReadIssue
  <2> QED
    BY <2>1, GotoView DEF EventPc
<1>7. ResolveAlert(e) => OthersKept(e)
  BY GotoView DEF ResolveAlert, EventPc
<1>8. SyncOpenIssueCounts(e) => OthersKept(e)
  <2>1. handler[e].back \in EventPc
    BY EventHandler DEF EventState, EventPc
  <2> QED
    BY <2>1, GotoView DEF SyncOpenIssueCounts
<1> QED
  BY <1>1, <1>2, <1>3, <1>4, <1>5, <1>6, <1>7, <1>8, FindAlertView, FindIssueView,
     CreateIssueView, CreateAlertView, ListView, CloseIssueView DEF EventStep

\* The requests of operators: what a step leaves in the record.
LEMMA OperatorView ==
    ASSUME TypeInv, NEW o \in Operator, OperatorStep(o)
    PROVE  /\ OthersKept(o) /\ handler'[o] \in OperatorState
           /\ (\E i \in Issue, s \in Transition : TransitionIssue(o, i, s)) \/ AssignIssue(o)
                 => handler'[o].pc = "opSync"
           /\ handler[o].pc = "opSync" => OperatorSync(o)
<1>1. o \in Request /\ handler[o] \in OperatorState
  BY DEF Request, TypeInv, TypeOK
<1>2. ASSUME NEW pc \in {"idle", "opSync"}, Goto(o, pc), handler[o].pc \in {"idle", "opSync"}
      PROVE  OthersKept(o) /\ handler'[o] \in OperatorState /\ handler'[o].pc = pc
  <2>1. handler[o] \in [pc: {"idle", "opSync"}]
    BY <1>1, <1>2 DEF OperatorState
  <2>2. OthersKept(o) /\ handler'[o] = [handler[o] EXCEPT !.pc = pc]
    BY <1>1, <1>2 DEF Goto, OthersKept, TypeInv, HandlerIsFunction
  <2> QED
    BY <2>1, <2>2 DEF OperatorState
<1>3. ASSUME NEW i \in Issue, NEW s \in Transition, TransitionIssue(o, i, s)
      PROVE  OthersKept(o) /\ handler'[o] \in OperatorState /\ handler'[o].pc = "opSync"
  BY <1>2, <1>3 DEF TransitionIssue
<1>4. ASSUME NEW i \in Issue, ReadForAssign(o, i)
      PROVE  OthersKept(o) /\ handler'[o] \in OperatorState
  <2>1. issue[i].status \in IssueStatus
    BY <1>4 DEF ReadForAssign, TypeInv, TypeOK, IssueRow
  <2>2. [pc |-> "assign", issue |-> i, status |-> issue[i].status] \in OperatorState
    BY <2>1 DEF OperatorState
  <2> QED
    BY <1>1, <1>4, <2>2 DEF ReadForAssign, OthersKept, TypeInv, HandlerIsFunction
<1>5. ASSUME AssignIssue(o)
      PROVE  OthersKept(o) /\ handler'[o] \in OperatorState /\ handler'[o].pc = "opSync"
  <2>1. [pc |-> "opSync"] \in OperatorState
    BY DEF OperatorState
  <2> QED
    BY <1>1, <1>5, <2>1 DEF AssignIssue, OthersKept, TypeInv, HandlerIsFunction
<1>6. ASSUME OperatorSync(o)
      PROVE  OthersKept(o) /\ handler'[o] \in OperatorState
  BY <1>2, <1>6 DEF OperatorSync
<1>7. handler[o].pc = "opSync" => OperatorSync(o)
  BY DEF OperatorStep, TransitionIssue, ReadForAssign, AssignIssue
<1> QED
  BY <1>3, <1>4, <1>5, <1>6, <1>7 DEF OperatorStep

\* Every step of an operator's request keeps the state well-typed.
LEMMA TypeOperatorStep ==
    ASSUME TypeInv, NEW o \in Operator, OperatorStep(o)
    PROVE  TypeInv'
<1>1. /\ \A e \in Event : handler'[e] = handler[e]
      /\ \A q \in Operator : handler'[q] \in OperatorState
      /\ HandlerIsFunction'
  <2>1. \A e \in Event : e \in Request /\ e # o
    BY AlertAssumption DEF Request
  <2> QED
    BY <2>1, OperatorView DEF OthersKept, TypeInv, TypeOK, Request
<1>2. handler[o] \in OperatorState
  BY DEF TypeInv, TypeOK
<1>3. ASSUME NEW i \in Issue, NEW s \in Transition, TransitionIssue(o, i, s) PROVE TypeInv'
  <2>1. s \in IssueStatus \cup {"absent"}
    BY AlertAssumption DEF IssueStatus, OpenStatus
  <2>2. issue' \in [Issue -> IssueRow]
    BY <1>3, <2>1 DEF TransitionIssue, TypeInv, TypeOK, IssueRow
  <2> QED
    BY <1>1, <1>3, <2>2 DEF TransitionIssue, TypeInv, TypeOK, crashes
<1>4. ASSUME NEW i \in Issue, ReadForAssign(o, i) PROVE TypeInv'
  BY <1>1, <1>4 DEF ReadForAssign, TypeInv, TypeOK, history, crashes
<1>5. ASSUME AssignIssue(o) PROVE TypeInv'
  <2>1. handler[o].issue \in Issue /\ handler[o].status \in IssueStatus
    BY <1>2, <1>5 DEF AssignIssue, OperatorState
  <2>2. issue' \in [Issue -> IssueRow]
    BY <1>5, <2>1 DEF AssignIssue, TypeInv, TypeOK, IssueRow
  <2> QED
    BY <1>1, <1>5, <2>1, <2>2 DEF AssignIssue, TypeInv, TypeOK, crashes
<1>6. ASSUME OperatorSync(o) PROVE TypeInv'
  <2>1. openCount' \in 0 .. Cardinality(Issue)
    BY <1>6, OpenIssueCountType DEF OperatorSync, OpenIssueCount
  <2> QED
    BY <1>1, <1>6, <2>1 DEF OperatorSync, TypeInv, TypeOK, history
<1> QED
  BY <1>3, <1>4, <1>5, <1>6 DEF OperatorStep

\* What a step may do to the record of an event: nothing, lose it with the
\* process, or continue it with its own statement.
LEMMA EventChanges ==
    ASSUME TypeInv, [Next]_vars, NEW f \in Event
    PROVE  \/ handler'[f] = handler[f]
           \/ handler'[f] = Blank("failed")
           \/ EventStep(f) /\ ~Conflict(f)
<1>0. f \in Request
  BY DEF Request
<1>1. ASSUME Restart PROVE handler'[f] = handler[f] \/ handler'[f] = Blank("failed")
  BY <1>1, RestartView
<1>2. ASSUME NEW e \in Event, e # f, EventStep(e)
      PROVE  handler'[f] = handler[f] \/ handler'[f] = Blank("failed")
  BY <1>0, <1>1, <1>2, OthersUntouched DEF Conflict
<1>3. ASSUME NEW o \in Operator, OperatorStep(o) PROVE handler'[f] = handler[f]
  <2>1. f # o
    BY AlertAssumption
  <2> QED
    BY <1>0, <1>3, <2>1, OperatorView DEF OthersKept
<1>4. CASE UNCHANGED vars
  BY <1>4 DEF vars
<1> QED
  BY <1>1, <1>2, <1>3, <1>4 DEF Next, Throw, Conflict

\* Every step keeps the state well-typed.
LEMMA TypeStep == TypeInv /\ [Next]_vars => TypeInv'
<1> SUFFICES ASSUME TypeInv, [Next]_vars PROVE TypeInv'
  OBVIOUS
<1>1. CASE UNCHANGED vars
  BY <1>1 DEF vars, history, crashes, TypeInv, TypeOK, HandlerIsFunction
<1>2. CASE Throw
  <2>1. Restart /\ failures' \in 0 .. MaxFailures
    BY <1>2, AlertAssumption DEF Throw, TypeInv, TypeOK
  <2> QED
    BY <2>1, RestartTypes DEF TypeInv, TypeOK, Restart, history
<1> QED
  BY <1>1, <1>2, TypeEventStep, TypeOperatorStep DEF Next

\* Alerts, issues, counts and what requests hold between their statements keep
\* their types, and a request that writes an alert or an issue is at one of
\* its candidates (generateFromTelemetry), for any constants.
THEOREM AlertsTypeCorrect == Spec => []TypeOK
<1>1. TypeInv => TypeOK
  BY DEF TypeInv
<1> QED
  BY <1>1, TypeInit, TypeStep, PTL DEF Spec

-----------------------------------------------------------------------------
(***************************************************************************)
(* What requests rely on.  A request writes back the alert and the         *)
(* issue it read earlier, so the invariant says what it may still rely on: *)
(* rows in use keep their type and stay in use, what it found is at most   *)
(* one alert of its candidate's type, and its issue is one of that type.   *)
(***************************************************************************)
Raised(a) == alert[a].state # "absent"
Opened(i) == i \in Issue /\ issue[i].status # "absent"

\* An alert has been looked up for the candidate, and an issue too.
Looked(h) ==
    \/ h.pc \in {"findIssue", "createIssue", "writeAlert"}
    \/ h.pc = "sync" /\ h.back = "writeAlert"

HasIssue(h) == h.pc = "writeAlert" \/ (h.pc = "sync" /\ h.back = "writeAlert")

FoundFits(e) ==
    /\ \A a \in handler[e].found : Raised(a) /\ alert[a].type = Candidate(e)
    /\ \A a, b \in handler[e].found : a = b

IssueFits(e) ==
    Opened(handler[e].issue) /\ issue[handler[e].issue].type = Candidate(e)

Relies(e) ==
    /\ Looked(handler[e]) => FoundFits(e)
    /\ HasIssue(handler[e]) => IssueFits(e)
    /\ \A a \in handler[e].heal : Raised(a)
    /\ handler[e].pc \in {"resolve", "readIssue", "closeIssue"} => Opened(handler[e].issue)
    /\ handler[e].pc = "resolve" =>
          \A a \in handler[e].found :
             Raised(a) /\ alert[a].type = issue[handler[e].issue].type

\* An alert refers to an issue of its own type.
AlertsRefer ==
    \A a \in Alert : Raised(a) =>
        Opened(alert[a].issue) /\ issue[alert[a].issue].type = alert[a].type

AtMostOneActive ==
    \A a, b \in Alert :
        /\ alert[a].state \in Active /\ alert[b].state \in Active
        /\ alert[a].type = alert[b].type
        => a = b

AlertInv ==
    /\ TypeInv
    /\ \A e \in Event : Relies(e)
    /\ AlertsRefer
    /\ AtMostOneActive

\* Rows in use keep their type and stay in use.
RowsPersist ==
    /\ \A i \in Issue : Opened(i) => Opened(i)' /\ issue'[i].type = issue[i].type
    /\ \A a \in Alert : Raised(a) => Raised(a)' /\ alert'[a].type = alert[a].type

\* The statements that write alerts or issues; the others leave both alone.
LEMMA RowsWritten ==
    ASSUME [Next]_vars, ~UNCHANGED <<alert, issue>>
    PROVE  \/ \E e \in Event : \/ CreateIssue(e) \/ UpdateAlert(e) \/ CreateAlert(e)
                               \/ ResolveAlert(e) \/ CloseIssue(e)
           \/ \E o \in Operator : \/ \E i \in Issue, s \in Transition : TransitionIssue(o, i, s)
                                  \/ AssignIssue(o)
<1>1. ASSUME NEW e \in Event, EventStep(e), ~UNCHANGED <<alert, issue>>
      PROVE  \/ CreateIssue(e) \/ UpdateAlert(e) \/ CreateAlert(e)
             \/ ResolveAlert(e) \/ CloseIssue(e)
  <2>1. ASSUME NEW types \in SUBSET AlertType,
               NEW now \in 1 .. MaxTime, Process(e, types, now)
        PROVE  UNCHANGED <<alert, issue>>
    BY <2>1 DEF Process
  <2> QED
    BY <1>1, <2>1 DEF EventStep, SkipStaleReplay, FindActiveAlert, FindOpenIssue,
       SyncOpenIssueCounts, NotifyAlert, ListActiveAlerts, ReadAlert, ReadIssue,
       Conflict, Restart
<1>2. ASSUME NEW o \in Operator, OperatorStep(o), ~UNCHANGED <<alert, issue>>
      PROVE  \/ \E i \in Issue, s \in Transition : TransitionIssue(o, i, s)
             \/ AssignIssue(o)
  BY <1>2 DEF OperatorStep, ReadForAssign, OperatorSync
<1>3. CASE Throw \/ UNCHANGED vars
  BY <1>3 DEF Throw, Restart, vars
<1> QED
  BY <1>1, <1>2, <1>3 DEF Next

\* Every step keeps the rows in use, and their types.
LEMMA Persistence ==
    ASSUME AlertInv, [Next]_vars
    PROVE  RowsPersist
<1> USE DEF AlertInv, TypeInv, TypeOK, RowsPersist, Raised, Opened
<1>1. CASE UNCHANGED <<alert, issue>>
  BY <1>1
<1>2. ASSUME NEW e \in Event, CreateIssue(e) PROVE RowsPersist
  BY <1>2, CreateIssueView DEF CreateIssue
<1>3. ASSUME NEW e \in Event, UpdateAlert(e) PROVE RowsPersist
  <2>1. \A a \in Alert : \/ alert'[a] = alert[a]
                         \/ alert'[a].type = alert[a].type /\ alert'[a].state \in Active
    BY <1>3 DEF UpdateAlert, AlertRow, Active
  <2> QED
    BY <1>3, <2>1 DEF UpdateAlert, Active
<1>4. ASSUME NEW e \in Event, CreateAlert(e) PROVE RowsPersist
  BY <1>4, CreateAlertView DEF CreateAlert
<1>5. ASSUME NEW e \in Event, ResolveAlert(e) PROVE RowsPersist
  <2>1. \A a \in Alert : \/ alert'[a] = alert[a]
                         \/ alert'[a].type = alert[a].type /\ alert'[a].state = "resolved"
    BY <1>5 DEF ResolveAlert, AlertRow
  <2> QED
    BY <1>5, <2>1 DEF ResolveAlert
<1>6. ASSUME NEW e \in Event, CloseIssue(e) PROVE RowsPersist
  <2>1. \A i \in Issue : \/ issue'[i] = issue[i]
                         \/ issue'[i].type = issue[i].type /\ issue'[i].status = "resolved"
    BY <1>6 DEF CloseIssue, IssueRow
  <2> QED
    BY <1>6, <2>1 DEF CloseIssue
<1>7. ASSUME NEW o \in Operator, NEW i \in Issue, NEW s \in Transition, TransitionIssue(o, i, s)
      PROVE  RowsPersist
  <2>1. s # "absent"
    BY AlertAssumption
  <2>2. \A j \in Issue : \/ issue'[j] = issue[j]
                         \/ issue'[j].type = issue[j].type /\ issue'[j].status = s
    BY <1>7 DEF TransitionIssue, IssueRow
  <2> QED
    BY <1>7, <2>1, <2>2 DEF TransitionIssue
<1>8. ASSUME NEW o \in Operator, AssignIssue(o) PROVE RowsPersist
  <2> DEFINE s == handler[o].status
  <2>1. s # "absent"
    BY <1>8 DEF AssignIssue, OperatorState, IssueStatus, OpenStatus
  <2>2. \A j \in Issue : \/ issue'[j] = issue[j]
                         \/ issue'[j].type = issue[j].type /\ issue'[j].status = s
    BY <1>8 DEF AssignIssue, IssueRow
  <2> QED
    BY <1>8, <2>1, <2>2 DEF AssignIssue
<1> QED
  BY <1>1, <1>2, <1>3, <1>4, <1>5, <1>6, <1>7, <1>8, RowsWritten

\* What a request relies on stays true while others step.
LEMMA ReliesKept ==
    ASSUME AlertInv, RowsPersist, NEW f \in Event, handler'[f] = handler[f]
    PROVE  Relies(f)'
<1>1. handler[f] \in EventState
  BY EventHandler DEF AlertInv
<1>2. handler[f].found \subseteq Alert /\ handler[f].heal \subseteq Alert
  BY <1>1 DEF EventState
<1>3. Candidate(f)' = Candidate(f)
  BY DEF Candidate
<1>4. Relies(f)
  BY DEF AlertInv
<1>5. FoundFits(f) => FoundFits(f)'
  BY <1>2, <1>3 DEF FoundFits, RowsPersist
<1>6. IssueFits(f) => IssueFits(f)'
  BY <1>3 DEF IssueFits, RowsPersist, Opened
<1>7. \A a \in handler'[f].heal : Raised(a)'
  BY <1>2, <1>4 DEF Relies, RowsPersist
<1>8. handler'[f].pc \in {"resolve", "readIssue", "closeIssue"} => Opened(handler[f].issue)'
  BY <1>4 DEF Relies, RowsPersist, Opened
<1>9. ASSUME handler[f].pc = "resolve", NEW a \in handler[f].found
      PROVE  Raised(a)' /\ alert'[a].type = issue'[handler[f].issue].type
  <2>1. /\ Raised(a) /\ alert[a].type = issue[handler[f].issue].type
        /\ Opened(handler[f].issue) /\ a \in Alert
    BY <1>2, <1>4, <1>9 DEF Relies
  <2> QED
    BY <2>1 DEF RowsPersist, Opened
<1> QED
  BY <1>4, <1>5, <1>6, <1>7, <1>8, <1>9 DEF Relies

\* A step that writes no alert and no issue keeps what is said of the rows.
LEMMA QuietRows ==
    ASSUME AlertInv, UNCHANGED <<alert, issue>>
    PROVE  AlertsRefer' /\ AtMostOneActive'
  BY DEF AlertInv, AlertsRefer, AtMostOneActive, Raised, Opened

\* After each of its statements the request may rely on what it will use.
LEMMA ReliesStep ==
    ASSUME AlertInv, RowsPersist, NEW e \in Event, EventStep(e)
    PROVE  Relies(e)'
<1> DEFINE h == handler[e]
           k == handler'[e]
           Unread == /\ ~Looked(k) /\ ~HasIssue(k)
                     /\ k.pc \notin {"resolve", "readIssue", "closeIssue"}
<1>0. TypeInv /\ Relies(e) /\ h \in EventState
  BY EventHandler DEF AlertInv
<1>1. h.found \subseteq Alert /\ h.heal \subseteq Alert
  BY <1>0 DEF EventState
<1>2. KeepsPlan(e) => Candidate(e)' = Candidate(e)
  BY DEF KeepsPlan, Candidate
\* it has read nothing it still uses but the alerts it is to resolve
<1>3. ASSUME Unread, k.heal \subseteq h.heal PROVE Relies(e)'
  <2>1. \A a \in k.heal : Raised(a)'
    BY <1>0, <1>1, <1>3 DEF Relies, RowsPersist
  <2> QED
    BY <1>3, <2>1 DEF Relies
<1>4. ASSUME NEW types \in SUBSET AlertType,
             NEW now \in 1 .. MaxTime, Process(e, types, now) PROVE Relies(e)'
  BY <1>0, <1>3, <1>4, ProcessView DEF Moved, KeepsHealing, Looked, HasIssue
<1>5. ASSUME SkipStaleReplay(e) PROVE Relies(e)'
  BY <1>0, <1>3, <1>5, FinishView DEF SkipStaleReplay, Moved, Looked, HasIssue
<1>6. ASSUME FindActiveAlert(e) PROVE Relies(e)'
  <2>1. /\ k.pc = "findIssue" /\ KeepsPlan(e) /\ k.heal = h.heal
        /\ k.found = ActiveAlerts(Candidate(e)) /\ UNCHANGED <<alert, issue>>
    BY <1>0, <1>6, FindAlertView DEF Moved, KeepsHealing, FindActiveAlert
  <2>2. FoundFits(e)'
    BY <1>2, <2>1 DEF FoundFits, ActiveAlerts, Raised, AlertInv, AtMostOneActive, Active
  <2> QED
    BY <1>0, <2>1, <2>2 DEF Relies, HasIssue, Raised
<1>7. ASSUME FindOpenIssue(e) PROVE Relies(e)'
  <2>1. /\ KeepsPlan(e) /\ k.heal = h.heal /\ k.found = h.found /\ UNCHANGED <<alert, issue>>
        /\ h.pc = "findIssue"
        /\ \/ k.pc = "writeAlert" /\ k.issue \in OpenIssues(Candidate(e))
           \/ k.pc = "createIssue"
    BY <1>0, <1>7, FindIssueView DEF Moved, KeepsHealing, FindOpenIssue
  <2>2. FoundFits(e)'
    BY <1>0, <1>2, <2>1 DEF FoundFits, Relies, Looked, Raised
  <2>3. HasIssue(k) => IssueFits(e)'
    BY <1>2, <2>1 DEF HasIssue, IssueFits, Opened, OpenIssues, OpenStatus
  <2> QED
    BY <1>0, <2>1, <2>2, <2>3 DEF Relies, Raised
<1>8. ASSUME CreateIssue(e) PROVE Relies(e)'
  <2>1. /\ KeepsPlan(e) /\ k.heal = h.heal /\ k.found = h.found /\ UNCHANGED alert
        /\ h.pc = "createIssue" /\ k.pc = "sync" /\ k.back = "writeAlert"
        /\ k.issue \in Issue
        /\ issue' = [issue EXCEPT ![k.issue] = [type |-> Candidate(e), status |-> "open"]]
    BY <1>0, <1>8, CreateIssueView DEF Moved, CreateIssue
  <2>2. FoundFits(e)'
    BY <1>0, <1>2, <2>1 DEF FoundFits, Relies, Looked, Raised
  <2>3. IssueFits(e)'
    BY <1>0, <1>2, <2>1 DEF IssueFits, Opened, TypeInv, TypeOK
  <2> QED
    BY <1>0, <2>1, <2>2, <2>3 DEF Relies, Raised
<1>9. ASSUME SyncOpenIssueCounts(e) PROVE Relies(e)'
  <2>1. Goto(e, h.back) /\ h.pc = "sync" /\ UNCHANGED <<alert, issue>>
    BY <1>9 DEF SyncOpenIssueCounts
  <2>2. h.back \in {"writeAlert", "readAlert"}
    BY <1>0 DEF EventState
  <2>3. /\ k.pc = h.back /\ KeepsPlan(e) /\ KeepsReads(e) /\ KeepsHealing(e)
    BY <1>0, <2>1, <2>2, GotoView DEF EventPc, Moved
  <2>4. CASE h.back = "readAlert"
    BY <1>3, <2>3, <2>4 DEF KeepsHealing, Looked, HasIssue
  <2>5. CASE h.back = "writeAlert"
    <3>1. FoundFits(e)' /\ IssueFits(e)'
      BY <1>0, <1>2, <2>1, <2>3, <2>5
         DEF Relies, Looked, HasIssue, FoundFits, IssueFits, KeepsReads, Raised, Opened
    <3> QED
      BY <1>0, <2>1, <2>3, <2>5, <3>1 DEF Relies, KeepsHealing, Raised
  <2> QED
    BY <2>2, <2>4, <2>5
<1>10. ASSUME UpdateAlert(e) PROVE Relies(e)'
  <2>1. ASSUME NextCandidate(e) PROVE Relies(e)'
    BY <1>0, <1>3, <2>1, NextCandidateView DEF Moved, KeepsHealing, Looked, HasIssue
  <2>2. ASSUME Goto(e, "notify") PROVE Relies(e)'
    BY <1>0, <1>3, <2>2, GotoView DEF EventPc, Moved, KeepsHealing, Looked, HasIssue
  <2> QED
    BY <1>10, <2>1, <2>2 DEF UpdateAlert
<1>11. ASSUME CreateAlert(e) PROVE Relies(e)'
  BY <1>0, <1>3, <1>11, CreateAlertView DEF Moved, KeepsHealing, Looked, HasIssue
<1>12. ASSUME NotifyAlert(e) PROVE Relies(e)'
  BY <1>0, <1>3, <1>12, NextCandidateView
     DEF NotifyAlert, Moved, KeepsHealing, Looked, HasIssue
<1>13. ASSUME ListActiveAlerts(e) PROVE Relies(e)'
  <2>1. k.pc = "readAlert" /\ k.heal = Healed(e) /\ UNCHANGED alert
    BY <1>0, <1>13, ListView DEF Moved, ListActiveAlerts
  <2> QED
    BY <2>1 DEF Relies, Looked, HasIssue, Healed, ActiveAlerts, Raised, Active
<1>14. ASSUME ReadAlert(e) PROVE Relies(e)'
  <2>1. ASSUME Finish(e) PROVE Relies(e)'
    BY <1>0, <1>3, <2>1, FinishView DEF Moved, Looked, HasIssue
  <2>2. ASSUME Moved(e, "resolve"),
               NEW a \in h.heal, k.found = {a}, k.heal = h.heal \ {a},
               k.issue = alert[a].issue
        PROVE  Relies(e)'
    <3>1. a \in Alert /\ Raised(a) /\ UNCHANGED <<alert, issue>>
      BY <1>0, <1>1, <1>14 DEF Relies, ReadAlert
    <3>2. Opened(k.issue) /\ issue[k.issue].type = alert[a].type
      BY <2>2, <3>1 DEF AlertInv, AlertsRefer
    <3> QED
      BY <1>0, <2>2, <3>1, <3>2 DEF Relies, Moved, Looked, HasIssue, Raised, Opened
  <2> QED
    BY <1>0, <1>14, <2>1, <2>2, ReadAlertView
<1>15. ASSUME ResolveAlert(e) PROVE Relies(e)'
  <2>1. /\ h.pc = "resolve" /\ k.pc = "readIssue" /\ KeepsReads(e) /\ KeepsHealing(e)
        /\ UNCHANGED issue
    BY <1>0, <1>15, GotoView DEF ResolveAlert, EventPc, Moved
  <2>2. Opened(h.issue)'
    BY <1>0, <2>1 DEF Relies, KeepsReads, Opened
  <2>3. \A a \in k.heal : Raised(a)'
    BY <1>0, <1>1, <2>1 DEF Relies, KeepsHealing, RowsPersist
  <2> QED
    BY <2>1, <2>2, <2>3 DEF Relies, Looked, HasIssue
<1>16. ASSUME ReadIssue(e) PROVE Relies(e)'
  <2>1. PICK pc \in {"closeIssue", "readAlert"} : Goto(e, pc)
    BY <1>16 DEF ReadIssue
  <2>2. /\ h.pc = "readIssue" /\ k.pc = pc /\ KeepsReads(e) /\ KeepsHealing(e)
        /\ UNCHANGED <<alert, issue>>
    BY <1>0, <1>16, <2>1, GotoView DEF ReadIssue, EventPc, Moved
  <2> QED
    BY <1>0, <2>2 DEF Relies, Looked, HasIssue, KeepsReads, KeepsHealing, Raised, Opened
<1>17. ASSUME CloseIssue(e) PROVE Relies(e)'
  BY <1>0, <1>3, <1>17, CloseIssueView DEF Moved, Looked, HasIssue
<1>18. ASSUME Conflict(e) PROVE Relies(e)'
  <2>1. k = Blank("failed") \/ k = h
    BY <1>0, <1>18, RestartView DEF Conflict
  <2>2. CASE k = h
    BY <2>2, ReliesKept
  <2>3. CASE k = Blank("failed")
    BY <1>3, <2>3, BlankType DEF EventPc, Looked, HasIssue
  <2> QED
    BY <2>1, <2>2, <2>3
<1> QED
  BY <1>4, <1>5, <1>6, <1>7, <1>8, <1>9, <1>10, <1>11, <1>12, <1>13, <1>14, <1>15,
     <1>16, <1>17, <1>18 DEF EventStep

\* The statements that write alerts or issues keep the references, and two
\* alerts of a type are never active at once.
LEMMA RowsStep ==
    ASSUME AlertInv, [Next]_vars
    PROVE  AlertsRefer' /\ AtMostOneActive'
<1>0. RowsPersist
  BY Persistence
<1>1. CASE UNCHANGED <<alert, issue>>
  BY <1>1, QuietRows
\* where only issues are written, the references persist with the rows
<1>2. ASSUME UNCHANGED alert PROVE AlertsRefer' /\ AtMostOneActive'
  <2>1. \A a \in Alert : Raised(a) => /\ Opened(alert[a].issue)'
                                       /\ issue'[alert[a].issue].type = alert[a].type
    BY <1>0, <1>2 DEF AlertInv, AlertsRefer, RowsPersist, Opened
  <2> QED
    BY <1>2, <2>1 DEF AlertInv, AlertsRefer, AtMostOneActive, Raised, Opened
<1>3. ASSUME NEW e \in Event, UpdateAlert(e) PROVE AlertsRefer' /\ AtMostOneActive'
  <2> DEFINE h == handler[e]
  <2>1. TypeInv /\ Relies(e) /\ h \in EventState
    BY EventHandler DEF AlertInv
  <2>2. FoundFits(e) /\ IssueFits(e)
    BY <1>3, <2>1 DEF UpdateAlert, Relies, Looked, HasIssue
  <2>3. PICK a \in h.found :
          alert' = [alert EXCEPT
             ![a].state = IF Suppressed(e) THEN "suppressed" ELSE "open",
             ![a].until = h.now + Window,
             ![a].issue = h.issue]
    BY <1>3 DEF UpdateAlert
  <2>4. a \in Alert /\ h.found = {a} /\ alert[a].type = Candidate(e)
    BY <2>1, <2>2, <2>3 DEF FoundFits, EventState
  <2>5. /\ alert'[a].type = Candidate(e) /\ alert'[a].issue = h.issue
        /\ \A b \in Alert : b # a => alert'[b] = alert[b]
    BY <2>3, <2>4 DEF TypeInv, TypeOK, AlertRow, AlertInv
  <2>6. \A b \in Alert : b # a /\ alert[b].type = Candidate(e) => alert[b].state \notin Active
    BY <1>3, <2>4 DEF UpdateAlert, KeyTaken, ActiveAlerts
  <2>7. UNCHANGED issue
    BY <1>3 DEF UpdateAlert
  <2> HIDE DEF h
  <2>8. AlertsRefer'
    <3>1. Opened(h.issue) /\ issue[h.issue].type = Candidate(e)
      BY <2>2 DEF IssueFits, h
    <3> QED
      BY <2>5, <2>7, <3>1 DEF AlertInv, AlertsRefer, Raised, Opened
  <2>9. AtMostOneActive'
    BY <2>5, <2>6 DEF AlertInv, AtMostOneActive
  <2> QED
    BY <2>8, <2>9
<1>4. ASSUME NEW e \in Event, CreateAlert(e) PROVE AlertsRefer' /\ AtMostOneActive'
  <2> DEFINE h == handler[e]
  <2>1. TypeInv /\ Relies(e)
    BY DEF AlertInv
  <2>2. IssueFits(e)
    BY <1>4, <2>1 DEF CreateAlert, Relies, HasIssue
  <2>3. PICK a \in Alert :
          alert' = [alert EXCEPT ![a] =
             [type |-> Candidate(e), state |-> "open",
              until |-> h.now + Window, issue |-> h.issue]]
    BY <1>4, <2>1, CreateAlertView
  <2>4. /\ alert'[a].type = Candidate(e) /\ alert'[a].issue = h.issue
        /\ \A b \in Alert : b # a => alert'[b] = alert[b]
    BY <2>3 DEF TypeInv, TypeOK, AlertInv
  <2>5. \A b \in Alert : alert[b].type = Candidate(e) => alert[b].state \notin Active
    BY <1>4 DEF CreateAlert, KeyTaken, ActiveAlerts
  <2>6. UNCHANGED issue
    BY <1>4 DEF CreateAlert
  <2> HIDE DEF h
  <2>7. AlertsRefer'
    <3>1. Opened(h.issue) /\ issue[h.issue].type = Candidate(e)
      BY <2>2 DEF IssueFits, h
    <3> QED
      BY <2>4, <2>6, <3>1 DEF AlertInv, AlertsRefer, Raised, Opened
  <2>8. AtMostOneActive'
    BY <2>4, <2>5 DEF AlertInv, AtMostOneActive
  <2> QED
    BY <2>7, <2>8
<1>5. ASSUME NEW e \in Event, ResolveAlert(e) PROVE AlertsRefer' /\ AtMostOneActive'
  <2> DEFINE h == handler[e]
  <2>1. TypeInv /\ Relies(e) /\ h.pc = "resolve" /\ UNCHANGED issue
    BY <1>5 DEF AlertInv, ResolveAlert
  <2>2. \A a \in Alert :
           IF a \in h.found
           THEN /\ alert'[a].state = "resolved" /\ alert'[a].issue = h.issue
                /\ alert'[a].type = alert[a].type
           ELSE alert'[a] = alert[a]
    BY <1>5 DEF ResolveAlert, TypeInv, TypeOK, AlertRow, AlertInv
  <2>3. /\ Opened(h.issue)
        /\ \A a \in h.found : alert[a].type = issue[h.issue].type
    BY <2>1 DEF Relies
  <2> HIDE DEF h
  <2>4. AlertsRefer'
    BY <2>1, <2>2, <2>3 DEF AlertInv, AlertsRefer, Raised, Opened
  <2>5. AtMostOneActive'
    <3>1. \A a \in Alert : alert'[a].state \in Active => alert'[a] = alert[a]
      BY <2>2 DEF Active
    <3> QED
      BY <3>1 DEF AlertInv, AtMostOneActive
  <2> QED
    BY <2>4, <2>5
<1> QED
  BY <1>1, <1>2, <1>3, <1>4, <1>5, RowsWritten
     DEF CreateIssue, CloseIssue, TransitionIssue, AssignIssue

\* The invariant holds at the start: no row is in use.
LEMMA AlertInit == Init => AlertInv
<1> SUFFICES ASSUME Init PROVE AlertInv
  OBVIOUS
<1>1. TypeInv
  BY TypeInit
<1>2. \A e \in Event : handler[e] = Blank("new")
  BY AlertAssumption DEF Init, Request
<1>3. \A e \in Event : Relies(e)
  BY <1>2, BlankType DEF Relies, Looked, HasIssue, EventPc
<1>4. AlertsRefer /\ AtMostOneActive
  BY DEF Init, AlertsRefer, AtMostOneActive, Raised, Active
<1> QED
  BY <1>1, <1>3, <1>4 DEF AlertInv

\* The invariant is inductive.
LEMMA AlertStep == AlertInv /\ [Next]_vars => AlertInv'
<1> SUFFICES ASSUME AlertInv, [Next]_vars PROVE AlertInv'
  OBVIOUS
<1>1. TypeInv' /\ RowsPersist /\ AlertsRefer' /\ AtMostOneActive'
  BY TypeStep, Persistence, RowsStep DEF AlertInv
<1>2. ASSUME NEW f \in Event PROVE Relies(f)'
  <2>1. CASE handler'[f] = handler[f]
    BY <1>1, <2>1, ReliesKept
  <2>2. CASE handler'[f] = Blank("failed")
    BY <2>2, BlankType DEF Relies, Looked, HasIssue, EventPc
  <2>3. CASE EventStep(f)
    BY <1>1, <2>3, ReliesStep
  <2> QED
    BY <2>1, <2>2, <2>3, EventChanges DEF AlertInv
<1> QED
  BY <1>1, <1>2 DEF AlertInv

\* An alert in use refers to an issue that exists and is of its own type,
\* although requests write back the issue they read before (updateAlert).
THEOREM AlertsReferHolds == Spec => []AlertsRefer
<1>1. AlertInv => AlertsRefer
  BY DEF AlertInv
<1> QED
  BY <1>1, AlertInit, AlertStep, PTL DEF Spec

-----------------------------------------------------------------------------
(***************************************************************************)
(* The number of open issues that is shown.  Between the write of an issue *)
(* and the count that follows it, the request that will count is there.    *)
(***************************************************************************)
CountPending ==
    \/ \E e \in Event : handler[e].pc = "sync"
    \/ \E o \in Operator : handler[o].pc = "opSync"

Counted == uncounted \/ openCount \in {0, OpenIssueCount} \/ CountPending

\* A request that waits to count waits until it has counted.
LEMMA CountStaysPending ==
    ASSUME TypeInv, [Next]_vars, CountPending
    PROVE  \/ CountPending'
           \/ \E e \in Event : SyncOpenIssueCounts(e)
           \/ \E o \in Operator : OperatorSync(o)
           \/ uncounted'
<1>1. CASE Restart
  BY <1>1 DEF Restart
<1>2. ASSUME NEW e \in Event, handler[e].pc = "sync", ~Restart
      PROVE  handler'[e].pc = "sync" \/ SyncOpenIssueCounts(e)
  <2>1. CASE handler'[e] = handler[e]
    BY <1>2, <2>1
  <2>2. CASE EventStep(e)
    BY <1>2, <2>2 DEF EventStep, Process, SkipStaleReplay, FindActiveAlert, FindOpenIssue,
       CreateIssue, UpdateAlert, CreateAlert, NotifyAlert, ListActiveAlerts,
       ReadAlert, ResolveAlert, ReadIssue, CloseIssue, Conflict
  <2>3. ASSUME NEW f \in Event, f # e, EventStep(f) PROVE handler'[e] = handler[e]
    BY <1>2, <2>3, OthersUntouched, EventHandler DEF Conflict
  <2>4. ASSUME NEW o \in Operator, OperatorStep(o) PROVE handler'[e] = handler[e]
    <3>1. e \in Request /\ e # o
      BY EventHandler
    <3> QED
      BY <2>4, <3>1, OperatorView DEF OthersKept
  <2>5. CASE UNCHANGED vars
    BY <2>1, <2>5 DEF vars
  <2> QED
    BY <1>2, <2>1, <2>2, <2>3, <2>4, <2>5 DEF Next, Throw
<1>3. ASSUME NEW o \in Operator, handler[o].pc = "opSync", ~Restart
      PROVE  handler'[o].pc = "opSync" \/ OperatorSync(o)
  <2>0. o \in Request /\ o \notin Event
    BY AlertAssumption DEF Request
  <2>1. CASE handler'[o] = handler[o]
    BY <1>3, <2>1
  <2>2. CASE OperatorStep(o)
    BY <1>3, <2>2, OperatorView
  <2>3. ASSUME NEW f \in Event, EventStep(f) PROVE handler'[o] = handler[o]
    BY <1>3, <2>0, <2>3, OthersUntouched DEF Conflict
  <2>4. ASSUME NEW q \in Operator, q # o, OperatorStep(q) PROVE handler'[o] = handler[o]
    BY <2>0, <2>4, OperatorView DEF OthersKept
  <2>5. CASE UNCHANGED vars
    BY <2>1, <2>5 DEF vars
  <2> QED
    BY <1>3, <2>1, <2>2, <2>3, <2>4, <2>5 DEF Next, Throw
<1> QED
  BY <1>1, <1>2, <1>3 DEF CountPending

\* Every step that writes an issue leaves a request that will count, every
\* other step that writes the number writes zero or the right one.
LEMMA CountedStep == TypeInv /\ Counted /\ [Next]_vars => Counted'
<1> SUFFICES ASSUME TypeInv, Counted, [Next]_vars PROVE Counted'
  OBVIOUS
<1>1. CASE Restart
  BY <1>1 DEF Restart, Counted
<1>2. ASSUME NEW e \in Event, SyncOpenIssueCounts(e) PROVE Counted'
  BY <1>2 DEF SyncOpenIssueCounts, Counted, OpenIssueCount
<1>3. ASSUME NEW o \in Operator, OperatorSync(o) PROVE Counted'
  BY <1>3 DEF OperatorSync, Counted, OpenIssueCount
<1>4. CASE openCount' = 0
  BY <1>4 DEF Counted
<1>5. ASSUME NEW e \in Event, CreateIssue(e) \/ CloseIssue(e) PROVE Counted'
  BY <1>5, CreateIssueView, CloseIssueView DEF Moved, Counted, CountPending
<1>6. ASSUME NEW o \in Operator, OperatorStep(o),
             (\E i \in Issue, s \in Transition : TransitionIssue(o, i, s)) \/ AssignIssue(o)
      PROVE  Counted'
  BY <1>6, OperatorView DEF Counted, CountPending
<1>7. ASSUME UNCHANGED <<issue, openCount, uncounted>> PROVE Counted'
  BY <1>2, <1>3, <1>7, CountStaysPending DEF Counted, OpenIssueCount
<1>8. ASSUME NEW e \in Event, EventStep(e) PROVE Counted'
  <2>1. ASSUME NEW types \in SUBSET AlertType,
               NEW now \in 1 .. MaxTime, Process(e, types, now) PROVE Counted'
    BY <1>4, <2>1 DEF Process
  <2> QED
    BY <1>1, <1>2, <1>4, <1>5, <1>7, <1>8, <2>1
       DEF EventStep, SkipStaleReplay, FindActiveAlert, FindOpenIssue, UpdateAlert,
       CreateAlert, NotifyAlert, ListActiveAlerts, ReadAlert, ResolveAlert,
       ReadIssue, Conflict, crashes
<1>9. ASSUME NEW o \in Operator, OperatorStep(o) PROVE Counted'
  BY <1>3, <1>6, <1>7, <1>9 DEF OperatorStep, ReadForAssign, crashes
<1>10. CASE UNCHANGED vars
  BY <1>7, <1>10 DEF vars, crashes
<1> QED
  BY <1>1, <1>8, <1>9, <1>10 DEF Next, Throw

\* Between requests the number shown as open issues is right, or zero after a
\* state projection, unless the process ended since the last count
\* (syncOpenIssueCounts), for any number of overlapping requests.
THEOREM CountHolds == Spec => []CountIsZeroOrRight
<1>1. Init => Counted
  BY DEF Init, Counted
<1>2. Counted => CountIsZeroOrRight
  <2> SUFFICES ASSUME Counted, ~uncounted,
                      \A r \in Request : handler[r].pc \in {"new", "done", "idle"}
               PROVE  openCount \in {0, OpenIssueCount}
    BY DEF CountIsZeroOrRight
  <2>1. ~CountPending
    BY DEF CountPending, Request
  <2> QED
    BY <2>1 DEF Counted
<1> QED
  BY <1>1, <1>2, TypeInit, TypeStep, CountedStep, PTL DEF Spec

-----------------------------------------------------------------------------
(***************************************************************************)
(* Duplicate issues.  An event that found no issue and is about to open    *)
(* one counts like an issue it has opened: when the first event of a key   *)
(* comes to that point there is no open issue, so all there will be are    *)
(* those of events in flight.                                              *)
(***************************************************************************)
Creators(t) == {e \in Event : handler[e].pc = "createIssue" /\ Candidate(e) = t}

\* The open issues of a key that no operator wrote to.
Untouched(t) == OpenIssues(t) \ touched

RoomKept == IsFiniteSet(InFlight) /\ Cardinality(InFlight) <= MaxInFlight

DuplicatesCounted ==
    \A t \in AlertType : Cardinality(Untouched(t)) + Cardinality(Creators(t)) <= MaxInFlight

\* A step brings at most one more event in flight, and only when there is room.
LEMMA InFlightStep ==
    ASSUME TypeInv, [Next]_vars
    PROVE  \/ InFlight' \subseteq InFlight
           \/ /\ Cardinality(InFlight) < MaxInFlight
              /\ \E e \in Event : InFlight' \subseteq InFlight \cup {e}
<1> SUFFICES ASSUME NEW e \in Event, e \in InFlight', e \notin InFlight
             PROVE  /\ Cardinality(InFlight) < MaxInFlight
                    /\ InFlight' \subseteq InFlight \cup {e}
  BY DEF InFlight
<1>1. EventStep(e) /\ ~Conflict(e)
  BY EventChanges, BlankType DEF InFlight, EventPc
<1>2. Cardinality(InFlight) < MaxInFlight
  BY <1>1 DEF InFlight, EventStep, Process, SkipStaleReplay, FindActiveAlert,
     FindOpenIssue, CreateIssue, SyncOpenIssueCounts, UpdateAlert, CreateAlert,
     NotifyAlert, ListActiveAlerts, ReadAlert, ResolveAlert, ReadIssue, CloseIssue
<1>3. \A f \in Event : f # e => handler'[f] = handler[f]
  BY <1>1, OthersUntouched DEF Request
<1> QED
  BY <1>2, <1>3 DEF InFlight

\* No more events are in flight than may be at once.
LEMMA RoomStep ==
    ASSUME TypeInv, RoomKept, [Next]_vars
    PROVE  RoomKept'
<1>1. CASE InFlight' \subseteq InFlight
  BY <1>1, FS_Subset, FS_CardinalityType, AlertAssumption DEF RoomKept
<1>2. ASSUME Cardinality(InFlight) < MaxInFlight,
             NEW e \in Event, InFlight' \subseteq InFlight \cup {e}
      PROVE  RoomKept'
  <2>1. /\ IsFiniteSet(InFlight \cup {e}) /\ Cardinality(InFlight) \in Nat
        /\ Cardinality(InFlight \cup {e}) <= Cardinality(InFlight) + 1
    BY FS_AddElement, FS_CardinalityType DEF RoomKept
  <2>2. /\ IsFiniteSet(InFlight') /\ Cardinality(InFlight') \in Nat
        /\ Cardinality(InFlight') <= Cardinality(InFlight \cup {e})
        /\ Cardinality(InFlight \cup {e}) \in Nat
    BY <1>2, <2>1, FS_Subset, FS_CardinalityType
  <2> QED
    BY <1>2, <2>1, <2>2, AlertAssumption DEF RoomKept
<1> QED
  BY <1>1, <1>2, InFlightStep

\* Issues that an operator wrote to remain so.
LEMMA TouchedGrows == [Next]_vars => touched \subseteq touched'
<1> SUFFICES ASSUME [Next]_vars PROVE touched \subseteq touched'
  OBVIOUS
<1>1. ASSUME NEW e \in Event, EventStep(e) PROVE touched' = touched
  <2>1. ASSUME NEW types \in SUBSET AlertType,
               NEW now \in 1 .. MaxTime, Process(e, types, now) PROVE touched' = touched
    BY <2>1 DEF Process, history
  <2> QED
    BY <1>1, <2>1 DEF EventStep, SkipStaleReplay, FindActiveAlert, FindOpenIssue, CreateIssue,
       SyncOpenIssueCounts, UpdateAlert, CreateAlert, NotifyAlert,
       ListActiveAlerts, ReadAlert, ResolveAlert, ReadIssue, CloseIssue, Conflict,
       Restart, history
<1>2. ASSUME NEW o \in Operator, OperatorStep(o) PROVE touched \subseteq touched'
  BY <1>2 DEF OperatorStep, TransitionIssue, ReadForAssign, AssignIssue, OperatorSync, history
<1>3. CASE Throw \/ UNCHANGED vars
  BY <1>3 DEF Throw, Restart, history, vars
<1> QED
  BY <1>1, <1>2, <1>3 DEF Next

\* Where a step of an event's request may have come from.
LEMMA Arrives ==
    ASSUME TypeInv, NEW e \in Event, EventStep(e), ~Conflict(e)
    PROVE  /\ handler'[e].pc = "createIssue" => FindOpenIssue(e)
           /\ handler'[e].pc = "done" =>
                 SkipStaleReplay(e) \/ (ReadAlert(e) /\ handler[e].heal = {})
           /\ handler'[e].pc \notin {"new", "failed"}
<1> DEFINE k == handler'[e]
           Elsewhere == k.pc \notin {"createIssue", "done", "new", "failed"}
<1>1. ASSUME NEW types \in SUBSET AlertType,
             NEW now \in 1 .. MaxTime, Process(e, types, now) PROVE Elsewhere
  BY <1>1, ProcessView DEF Moved
<1>2. SkipStaleReplay(e) => k.pc = "done"
  BY FinishView DEF SkipStaleReplay, Moved
<1>3. FindActiveAlert(e) \/ CreateIssue(e) \/ CreateAlert(e) \/ ListActiveAlerts(e) => Elsewhere
  BY FindAlertView, CreateIssueView, CreateAlertView, ListView DEF Moved
<1>4. SyncOpenIssueCounts(e) => Elsewhere
  <2>1. handler[e].back \in {"writeAlert", "readAlert"}
    BY EventHandler DEF EventState
  <2> QED
    BY <2>1, GotoView DEF SyncOpenIssueCounts, Moved, EventPc
<1>5. ResolveAlert(e) => Elsewhere
  BY GotoView DEF ResolveAlert, Moved, EventPc
<1>6. UpdateAlert(e) \/ NotifyAlert(e) => Elsewhere
  BY NextCandidateView, GotoView DEF UpdateAlert, NotifyAlert, Moved, EventPc
<1>7. ReadAlert(e) => Elsewhere \/ (handler[e].heal = {} /\ k.pc = "done")
  BY ReadAlertView, FinishView DEF Moved
<1>8. CloseIssue(e) => Elsewhere
  BY CloseIssueView DEF Moved
<1>9. ReadIssue(e) => Elsewhere
  <2> SUFFICES ASSUME ReadIssue(e) PROVE Elsewhere
    OBVIOUS
  <2>1. PICK pc \in {"closeIssue", "readAlert"} : Goto(e, pc)
    BY DEF ReadIssue
  <2> QED
    BY <2>1, GotoView DEF Moved, EventPc
<1>10. FindOpenIssue(e) => k.pc \in {"createIssue", "writeAlert"}
  BY FindIssueView DEF Moved
<1> QED
  BY <1>1, <1>2, <1>3, <1>4, <1>5, <1>6, <1>7, <1>8, <1>9, <1>10 DEF EventStep

\* An event comes to open an issue for a key only when the key has none.
LEMMA CreatorsStep ==
    ASSUME TypeInv, [Next]_vars, NEW t \in AlertType
    PROVE  \/ Creators(t)' \subseteq Creators(t)
           \/ UNCHANGED <<issue, touched>> /\ OpenIssues(t) = {}
<1> SUFFICES ASSUME NEW e \in Creators(t)', e \notin Creators(t)
             PROVE  UNCHANGED <<issue, touched>> /\ OpenIssues(t) = {}
  OBVIOUS
<1>1. /\ e \in Event /\ handler'[e].pc = "createIssue" /\ Candidate(e)' = t
      /\ ~(handler[e].pc = "createIssue" /\ Candidate(e) = t)
  BY DEF Creators
<1>2. handler'[e] # handler[e] /\ handler'[e] # Blank("failed")
  BY <1>1, BlankType DEF Candidate, EventPc
<1>3. EventStep(e) /\ ~Conflict(e)
  BY <1>1, <1>2, EventChanges
<1>4. FindOpenIssue(e)
  BY <1>1, <1>3, Arrives
<1>5. KeepsPlan(e) /\ OpenIssues(Candidate(e)) = {}
  BY <1>1, <1>4, FindIssueView DEF Moved
<1>6. Candidate(e)' = Candidate(e)
  BY <1>5 DEF KeepsPlan, Candidate
<1> QED
  BY <1>1, <1>4, <1>5, <1>6 DEF FindOpenIssue, history

\* A key has one more open issue that no operator wrote to when one of the
\* events about to open one does so, and only then.
LEMMA UntouchedStep ==
    ASSUME TypeInv, [Next]_vars, NEW t \in AlertType
    PROVE  \/ Untouched(t)' \subseteq Untouched(t)
           \/ \E e \in Creators(t) :
                 /\ CreateIssue(e)
                 /\ \E i \in Issue : Untouched(t)' \subseteq Untouched(t) \cup {i}
<1> USE DEF Untouched, OpenIssues
<1>0. touched \subseteq touched'
  BY TouchedGrows
<1>1. CASE UNCHANGED issue
  BY <1>0, <1>1
<1>2. ASSUME NEW e \in Event, CreateIssue(e), Candidate(e) = t
      PROVE  /\ e \in Creators(t)
             /\ \E i \in Issue : Untouched(t)' \subseteq Untouched(t) \cup {i}
  <2>1. e \in Creators(t)
    BY <1>2 DEF Creators, CreateIssue
  <2>2. PICK i \in Issue : issue' = [issue EXCEPT ![i] = [type |-> t, status |-> "open"]]
    BY <1>2, CreateIssueView
  <2> QED
    BY <1>0, <2>1, <2>2 DEF TypeInv, TypeOK
<1>3. ASSUME NEW e \in Event, CreateIssue(e), Candidate(e) # t
      PROVE  Untouched(t)' \subseteq Untouched(t)
  <2>1. PICK i \in Issue :
           issue' = [issue EXCEPT ![i] = [type |-> Candidate(e), status |-> "open"]]
    BY <1>3, CreateIssueView
  <2> QED
    BY <1>0, <1>3, <2>1 DEF TypeInv, TypeOK
<1>4. ASSUME NEW e \in Event, CloseIssue(e) PROVE Untouched(t)' \subseteq Untouched(t)
  <2>1. \A i \in Issue : issue'[i] = issue[i] \/ issue'[i].status = "resolved"
    BY <1>4 DEF CloseIssue, TypeInv, TypeOK, IssueRow
  <2> QED
    BY <1>0, <2>1 DEF OpenStatus
<1>5. ASSUME NEW o \in Operator, NEW i \in Issue, NEW s \in Transition, TransitionIssue(o, i, s)
      PROVE  Untouched(t)' \subseteq Untouched(t)
  <2>1. /\ touched' = touched \cup {i}
        /\ \A j \in Issue : j # i => issue'[j] = issue[j]
    BY <1>5 DEF TransitionIssue, TypeInv, TypeOK
  <2> QED
    BY <2>1
<1>6. ASSUME NEW o \in Operator, AssignIssue(o) PROVE Untouched(t)' \subseteq Untouched(t)
  <2>1. /\ touched' = touched \cup {handler[o].issue}
        /\ \A j \in Issue : j # handler[o].issue => issue'[j] = issue[j]
    BY <1>6 DEF AssignIssue, TypeInv, TypeOK
  <2> QED
    BY <2>1
<1>7. ASSUME NEW e \in Event, UpdateAlert(e) \/ CreateAlert(e) \/ ResolveAlert(e)
      PROVE  UNCHANGED issue
  BY <1>7 DEF UpdateAlert, CreateAlert, ResolveAlert
<1> QED
  BY <1>1, <1>2, <1>3, <1>4, <1>5, <1>6, <1>7, RowsWritten

\* The open issues of a key and the events about to open one are, together,
\* no more than events may be in flight.
LEMMA DuplicatesStep ==
    ASSUME TypeInv, RoomKept, DuplicatesCounted, [Next]_vars
    PROVE  DuplicatesCounted'
<1> SUFFICES ASSUME NEW t \in AlertType
             PROVE  Cardinality(Untouched(t)') + Cardinality(Creators(t)') <= MaxInFlight
  BY DEF DuplicatesCounted
<1> DEFINE U == Untouched(t)
           V == Untouched(t)'
           C == Creators(t)
           D == Creators(t)'
<1>1. RoomKept' /\ TypeInv'
  BY RoomStep, TypeStep
<1>2. /\ C \subseteq InFlight /\ IsFiniteSet(InFlight)
      /\ D \subseteq InFlight' /\ IsFiniteSet(InFlight')
      /\ Cardinality(InFlight') <= MaxInFlight
  BY <1>1 DEF RoomKept, Creators, InFlight
<1>3. U \subseteq Issue /\ V \subseteq Issue /\ IsFiniteSet(Issue)
  BY AlertAssumption DEF Untouched, OpenIssues
<1>4. Cardinality(U) + Cardinality(C) <= MaxInFlight
  BY DEF DuplicatesCounted
<1>5. CASE UNCHANGED <<issue, touched>> /\ OpenIssues(t) = {}
  <2>1. V = {}
    BY <1>5 DEF Untouched, OpenIssues
  <2>2. Cardinality(V) = 0
    BY <2>1, FS_EmptySet
  <2> HIDE DEF V, D
  <2>3. IsFiniteSet(D) /\ Cardinality(D) <= Cardinality(InFlight')
    BY <1>2, FS_Subset
  <2> QED
    BY <1>2, <2>2, <2>3, FS_CardinalityType, AlertAssumption DEF V, D
<1>6. CASE D \subseteq C /\ V \subseteq U
  <2> HIDE DEF U, V, C, D
  <2>1. /\ IsFiniteSet(U) /\ IsFiniteSet(C) /\ IsFiniteSet(V) /\ IsFiniteSet(D)
        /\ Cardinality(V) <= Cardinality(U) /\ Cardinality(D) <= Cardinality(C)
    BY <1>2, <1>3, <1>6, FS_Subset
  <2> QED
    BY <1>4, <2>1, FS_CardinalityType, AlertAssumption DEF V, D
<1>7. ASSUME NEW e \in C, CreateIssue(e), NEW i \in Issue, V \subseteq U \cup {i}, D \subseteq C
      PROVE  Cardinality(V) + Cardinality(D) <= MaxInFlight
  <2>1. D \subseteq C \ {e}
    BY <1>7, CreateIssueView DEF Creators, Moved
  <2> HIDE DEF U, V, C, D
  <2>2. IsFiniteSet(U) /\ IsFiniteSet(C)
    BY <1>2, <1>3, FS_Subset
  <2>3. /\ IsFiniteSet(U \cup {i}) /\ Cardinality(U \cup {i}) <= Cardinality(U) + 1
        /\ IsFiniteSet(C \ {e}) /\ Cardinality(C \ {e}) = Cardinality(C) - 1
    BY <1>7, <2>2, FS_AddElement, FS_RemoveElement, FS_CardinalityType
  <2>4. /\ IsFiniteSet(V) /\ Cardinality(V) <= Cardinality(U \cup {i})
        /\ IsFiniteSet(D) /\ Cardinality(D) <= Cardinality(C \ {e})
    BY <1>7, <2>1, <2>3, FS_Subset
  <2>5. /\ Cardinality(U) \in Nat /\ Cardinality(V) \in Nat /\ Cardinality(C) \in Nat
        /\ Cardinality(D) \in Nat /\ Cardinality(U \cup {i}) \in Nat
    BY <2>2, <2>3, <2>4, FS_CardinalityType
  <2> QED
    BY <1>4, <2>3, <2>4, <2>5, AlertAssumption DEF U, C
<1> QED
  BY <1>5, <1>6, <1>7, CreatorsStep, UntouchedStep

\* However events overlap, a key never has more open issues than events may
\* be in flight, those operators wrote to left aside: whoever opens one found
\* none, so it overlaps all the others that did (findOpenIssueBySourceAlertKey
\* before createIssue).
THEOREM DuplicatesHold == Spec => []DuplicateIssuesBounded
<1> DEFINE Inv == TypeInv /\ RoomKept /\ DuplicatesCounted
<1>1. Init => Inv
  <2> SUFFICES ASSUME Init PROVE RoomKept /\ DuplicatesCounted
    BY TypeInit
  <2>1. TypeInv /\ \A e \in Event : handler[e] = Blank("new")
    BY TypeInit, AlertAssumption DEF Init, Request
  <2>2. InFlight = {} /\ \A t \in AlertType : Creators(t) = {}
    BY <2>1, BlankType DEF InFlight, Creators, EventPc
  <2>3. \A t \in AlertType : Untouched(t) = {}
    BY DEF Init, Untouched, OpenIssues, OpenStatus
  <2>4. IsFiniteSet(InFlight) /\ Cardinality(InFlight) = 0
    BY <2>2, FS_EmptySet
  <2>5. \A t \in AlertType : Cardinality(Untouched(t)) = 0 /\ Cardinality(Creators(t)) = 0
    <3>1. Cardinality({}) = 0
      BY FS_EmptySet
    <3> QED
      BY <2>2, <2>3, <3>1
  <2> QED
    BY <2>4, <2>5, AlertAssumption DEF RoomKept, DuplicatesCounted
<1>2. Inv /\ [Next]_vars => Inv'
  BY TypeStep, RoomStep, DuplicatesStep
<1>3. Inv => DuplicateIssuesBounded
  <2> SUFFICES ASSUME Inv, NEW t \in AlertType
               PROVE  Cardinality(OpenIssues(t) \ touched) <= MaxInFlight
    BY DEF DuplicateIssuesBounded
  <2>1. /\ Creators(t) \subseteq InFlight /\ Untouched(t) \subseteq Issue
    BY DEF Creators, InFlight, Untouched, OpenIssues
  <2>2. /\ IsFiniteSet(Creators(t)) /\ IsFiniteSet(Untouched(t))
    BY <2>1, FS_Subset, AlertAssumption DEF RoomKept
  <2>3. Cardinality(Creators(t)) \in Nat /\ Cardinality(Untouched(t)) \in Nat
    BY <2>2, FS_CardinalityType
  <2>4. Cardinality(Untouched(t)) + Cardinality(Creators(t)) <= MaxInFlight
    BY DEF DuplicatesCounted
  <2> QED
    BY <2>3, <2>4, AlertAssumption DEF Untouched
<1> QED
  BY <1>1, <1>2, <1>3, PTL DEF Spec

-----------------------------------------------------------------------------
(***************************************************************************)
(* The events no other event overlaps.  Such an event is the only one that *)
(* writes alerts: what it found is still what there is, a type it is done  *)
(* with is active, what it has to resolve is exactly what it may not leave *)
(* active, and an alert it is about to notify has the window it wrote.     *)
(***************************************************************************)
Healing(h) ==
    \/ h.pc \in {"readAlert", "resolve", "readIssue", "closeIssue"}
    \/ h.pc = "sync" /\ h.back = "readAlert"

\* The alerts that are still to be resolved.
ToHeal(h) == IF h.pc = "resolve" THEN h.heal \cup h.found ELSE h.heal

\* A type is still to be handled while a place of it is left.
Left(e, t) == \E n \in handler[e].todo : BuildOrder[n] = t

Follows(e) ==
    /\ latest.event = e /\ latest.types = handler[e].types
    /\ Looked(handler[e]) => handler[e].found = ActiveAlerts(Candidate(e))
    /\ handler[e].pc = "list" \/ Healing(handler[e]) => handler[e].todo = {}
    /\ \A t \in handler[e].types : Left(e, t) \/ ActiveAlerts(t) # {}
    /\ handler[e].pc = "notify" =>
          /\ handler[e].found # {} /\ handler[e].found \subseteq ActiveAlerts(Candidate(e))
          /\ \A a \in handler[e].found : alert[a].until = handler[e].now + Window
    /\ Healing(handler[e]) => ToHeal(handler[e]) = Healed(e)
    /\ handler[e].pc = "resolve" =>
          /\ handler[e].found # {} /\ handler[e].found \cap handler[e].heal = {}
          /\ \A a \in handler[e].found : alert[a].issue = handler[e].issue
    /\ handler[e].pc \in {"readIssue", "closeIssue"} =>
          issue[handler[e].issue].type \in AutoResolvable

LatestStarted == latest.event \in Event => handler[latest.event].pc # "new"

\* While the last event to start is undisturbed no other is in flight.
LatestAlone == latest.alone => latest.event \in Event /\ InFlight \subseteq {latest.event}

UndisturbedFollow ==
    /\ AlertInv
    /\ LatestAlone
    /\ \A e \in InFlight : Undisturbed(e) => Follows(e)

Starts(e) == \E types \in SUBSET AlertType : \E now \in 1 .. MaxTime : Process(e, types, now)

\* A step of an event that is not in flight starts it, or leaves it alone.
LEMMA Starting ==
    ASSUME TypeInv, NEW e \in Event, e \notin InFlight, EventStep(e)
    PROVE  /\ Cardinality(InFlight) < MaxInFlight
           /\ SkipStaleReplay(e) \/ Starts(e)
  BY DEF InFlight, EventStep, Process, SkipStaleReplay, FindActiveAlert, FindOpenIssue,
     CreateIssue, SyncOpenIssueCounts, UpdateAlert, CreateAlert, NotifyAlert,
     ListActiveAlerts, ReadAlert, ResolveAlert, ReadIssue, CloseIssue, Conflict, Starts

\* What starting an event says of it.
LEMMA StartsView ==
    ASSUME NEW e \in Event, Starts(e)
    PROVE  /\ latest'.event = e /\ latest'.alone = (InFlight = {})
           /\ e \notin InFlight /\ Cardinality(InFlight) < MaxInFlight
<1>1. PICK types \in SUBSET AlertType, now \in 1 .. MaxTime : Process(e, types, now)
  BY DEF Starts
<1>2. latest' = [event |-> e, types |-> types, alone |-> (InFlight = {})]
  BY <1>1 DEF Process
<1>3. latest'.event = e /\ latest'.alone = (InFlight = {})
  BY <1>2, Zenon
<1> QED
  BY <1>1, <1>3 DEF Process, InFlight

\* The last event to start is another one only when one starts.
LEMMA LatestStep ==
    ASSUME [Next]_vars
    PROVE  \/ latest' = latest
           \/ \E e \in Event : /\ Starts(e) /\ latest'.event = e
                               /\ latest'.alone => InFlight = {}
<1>1. ASSUME NEW e \in Event, Starts(e)
      PROVE  latest'.event = e /\ (latest'.alone => InFlight = {})
  BY <1>1, StartsView
<1>2. ASSUME NEW e \in Event, EventStep(e), latest' # latest
      PROVE  Starts(e)
  BY <1>2 DEF EventStep, SkipStaleReplay, FindActiveAlert, FindOpenIssue, CreateIssue,
     SyncOpenIssueCounts, UpdateAlert, CreateAlert, NotifyAlert, Starts,
     ListActiveAlerts, ReadAlert, ResolveAlert, ReadIssue, CloseIssue, Conflict, Restart
<1>3. ASSUME NEW o \in Operator, OperatorStep(o) PROVE latest' = latest
  BY <1>3 DEF OperatorStep, TransitionIssue, ReadForAssign, AssignIssue, OperatorSync
<1>4. CASE Throw \/ UNCHANGED vars
  BY <1>4 DEF Throw, Restart, vars
<1> QED
  BY <1>1, <1>2, <1>3, <1>4 DEF Next

\* An event that remains undisturbed was so before, unless it starts.
LEMMA StaysUndisturbed ==
    ASSUME [Next]_vars, NEW e \in InFlight, Undisturbed(e)'
    PROVE  Undisturbed(e)
<1>1. CASE latest' = latest
  BY <1>1 DEF Undisturbed
<1>2. ASSUME NEW f \in Event, Starts(f), latest'.event = f PROVE FALSE
  BY <1>2, StartsView DEF Undisturbed
<1> QED
  BY <1>1, <1>2, LatestStep

\* While an event remains undisturbed nobody else writes alerts or notifies.
LEMMA OthersWait ==
    ASSUME AlertInv, LatestAlone, [Next]_vars,
           NEW e \in InFlight, Undisturbed(e), Undisturbed(e)'
    PROVE  \/ EventStep(e)
           \/ /\ UNCHANGED <<alert, latest, rung>>
              /\ handler'[e] = handler[e] \/ Throw
<1>0. TypeInv /\ e \in Event /\ InFlight \subseteq {e}
  BY DEF AlertInv, InFlight, LatestAlone, Undisturbed
<1>1. ASSUME NEW f \in Event, f # e, EventStep(f)
      PROVE  UNCHANGED <<alert, latest, rung>> /\ handler'[e] = handler[e]
  <2>1. SkipStaleReplay(f) \/ Starts(f)
    BY <1>0, <1>1, Starting
  <2>2. ~Starts(f)
    BY <1>1, StartsView DEF Undisturbed
  <2>3. UNCHANGED <<alert, latest, rung>> /\ ~Restart
    BY <2>1, <2>2 DEF SkipStaleReplay, history, Restart
  <2> QED
    BY <1>0, <1>1, <2>1, <2>2, <2>3, OthersUntouched, EventHandler DEF SkipStaleReplay, Conflict
<1>2. ASSUME NEW o \in Operator, OperatorStep(o)
      PROVE  UNCHANGED <<alert, latest, rung>> /\ handler'[e] = handler[e]
  <2>1. UNCHANGED <<alert, latest, rung>>
    BY <1>2 DEF OperatorStep, TransitionIssue, ReadForAssign, AssignIssue, OperatorSync, history
  <2>2. e \in Request /\ e # o
    BY <1>0, EventHandler
  <2> QED
    BY <1>0, <1>2, <2>1, <2>2, OperatorView DEF OthersKept
<1>3. CASE Throw \/ UNCHANGED vars
  BY <1>3 DEF Throw, Restart, vars, history
<1> QED
  BY <1>1, <1>2, <1>3 DEF Next

\* How an event comes to be in flight undisturbed after a step.
LEMMA InFlightCases ==
    ASSUME AlertInv, LatestAlone, [Next]_vars, NEW e \in InFlight', Undisturbed(e)'
    PROVE  \/ InFlight = {} /\ Starts(e)
           \/ /\ e \in InFlight /\ Undisturbed(e)
              /\ handler'[e] = handler[e] /\ UNCHANGED <<alert, latest, rung>>
           \/ e \in InFlight /\ Undisturbed(e) /\ EventStep(e) /\ ~Conflict(e)
<1>1. e \in Event /\ handler'[e] # Blank("failed") /\ TypeInv
  BY BlankType DEF InFlight, EventPc, AlertInv
<1>2. CASE e \in InFlight
  <2>0. Undisturbed(e)
    BY <1>2, StaysUndisturbed
  <2>1. CASE EventStep(e)
    <3>1. ~Conflict(e)
      BY <1>2, <1>1, RestartView DEF Conflict
    <3> QED
      BY <1>2, <2>0, <2>1, <3>1
  <2>2. CASE ~EventStep(e)
    BY <1>1, <1>2, <2>0, <2>2, OthersWait, EventChanges
  <2> QED
    BY <2>1, <2>2
<1>3. CASE e \notin InFlight
  <2>1. EventStep(e)
    BY <1>1, <1>3, EventChanges DEF InFlight
  <2>2. ~SkipStaleReplay(e)
    BY <1>1, FinishView DEF SkipStaleReplay, Moved, InFlight
  <2>3. Starts(e)
    BY <1>1, <1>3, <2>1, <2>2, Starting
  <2>4. InFlight = {}
    BY <1>1, <2>3, StartsView DEF Undisturbed
  <2> QED
    BY <2>3, <2>4
<1> QED
  BY <1>2, <1>3

\* No other event is in flight beside one that remains undisturbed.
LEMMA LatestAloneStep ==
    ASSUME TypeInv, LatestAlone, [Next]_vars
    PROVE  LatestAlone'
<1> SUFFICES ASSUME latest'.alone
             PROVE  latest'.event \in Event /\ InFlight' \subseteq {latest'.event}
  BY DEF LatestAlone
<1>1. ASSUME NEW f \in InFlight', f \notin InFlight PROVE f = latest'.event
  <2>1. f \in Event /\ handler'[f].pc \notin {"done", "failed"} /\ handler'[f] # handler[f]
    BY <1>1 DEF InFlight
  <2>2. EventStep(f) /\ ~Conflict(f)
    BY <2>1, EventChanges, BlankType DEF EventPc
  <2>3. ~SkipStaleReplay(f)
    BY <2>1, FinishView DEF SkipStaleReplay, Moved
  <2> QED
    BY <1>1, <2>1, <2>2, <2>3, Starting, StartsView
<1>2. latest'.event \in Event /\ \A f \in InFlight : f = latest'.event
  BY LatestStep DEF LatestAlone
<1> QED
  BY <1>1, <1>2

\* What the event in flight knows stays true while operators step.
LEMMA FollowsKept ==
    ASSUME AlertInv, RowsPersist, NEW e \in Event, Follows(e),
           handler'[e] = handler[e], UNCHANGED <<alert, latest>>
    PROVE  Follows(e)'
<1>1. /\ Candidate(e)' = Candidate(e) /\ Healed(e)' = Healed(e)
      /\ \A t : ActiveAlerts(t)' = ActiveAlerts(t) /\ (Left(e, t)' <=> Left(e, t))
  BY DEF Candidate, Healed, ActiveAlerts, Left
<1>2. handler[e].pc \in {"readIssue", "closeIssue"} =>
         issue'[handler[e].issue].type = issue[handler[e].issue].type
  BY DEF AlertInv, Relies, RowsPersist, Opened
<1> QED
  BY <1>1, <1>2 DEF Follows

\* An event starts with all its types still to be handled.
LEMMA FollowsStart ==
    ASSUME TypeInv, NEW e \in Event, Starts(e)
    PROVE  Follows(e)'
<1>0. PICK types \in SUBSET AlertType, now \in 1 .. MaxTime : Process(e, types, now)
  BY DEF Starts
<1> DEFINE todo == {n \in DOMAIN BuildOrder : BuildOrder[n] \in types}
           k == handler'[e]
<1>1. /\ k.pc = IF todo = {} THEN "list" ELSE "findAlert"
      /\ k.todo = todo /\ k.types = types
      /\ latest'.event = e /\ latest'.types = types
  BY <1>0, ProcessView DEF Moved, Process
<1>2. ASSUME NEW t \in types PROVE Left(e, t)'
  <2>1. PICK n \in DOMAIN BuildOrder : BuildOrder[n] = t
    BY DEF AlertType
  <2> QED
    BY <1>1, <2>1 DEF Left
<1> QED
  BY <1>1, <1>2 DEF Follows, Looked, Healing

\* Going on to the next candidate when the last one is active.
LEMMA NextFollows ==
    ASSUME TypeInv, NEW e \in Event, Follows(e), NextCandidate(e), UNCHANGED latest,
           \A t : ActiveAlerts(t) # {} => ActiveAlerts(t)' # {},
           NEW c, c = Candidate(e), ActiveAlerts(c)' # {}
    PROVE  Follows(e)'
<1> DEFINE todo == handler[e].todo \ {First(handler[e].todo)}
           k == handler'[e]
<1>1. /\ k.pc = IF todo = {} THEN "list" ELSE "findAlert"
      /\ k.todo = todo /\ k.types = handler[e].types
  BY NextCandidateView DEF Moved
<1>2. ASSUME NEW t \in k.types PROVE Left(e, t)' \/ ActiveAlerts(t)' # {}
  <2>1. CASE ActiveAlerts(t) # {}
    BY <2>1
  <2>2. ASSUME NEW n \in handler[e].todo, BuildOrder[n] = t
        PROVE  Left(e, t)' \/ ActiveAlerts(t)' # {}
    <3>1. CASE n \in todo
      BY <1>1, <2>2, <3>1 DEF Left
    <3>2. CASE n = First(handler[e].todo)
      <4>1. t = c
        BY <2>2, <3>2 DEF Candidate
      <4> QED
        BY <4>1
    <3> QED
      BY <2>2, <3>1, <3>2
  <2> QED
    BY <1>1, <2>1, <2>2 DEF Follows, Left
<1> QED
  BY <1>1, <1>2 DEF Follows, Looked, Healing

\* After each of its statements the event in flight knows what it relies on.
LEMMA FollowsStep ==
    ASSUME AlertInv, RowsPersist, NEW e \in InFlight, e \in InFlight', Follows(e),
           EventStep(e), ~Conflict(e)
    PROVE  Follows(e)'
<1> DEFINE h == handler[e]
           k == handler'[e]
           c == Candidate(e)
           SameAlerts == \A t : ActiveAlerts(t)' = ActiveAlerts(t)
<1>0. TypeInv /\ e \in Event /\ h \in EventState /\ Relies(e)
  BY EventHandler DEF AlertInv, InFlight
<1>1. KeepsPlan(e) => Candidate(e)' = c /\ \A t : Left(e, t)' <=> Left(e, t)
  BY DEF KeepsPlan, Candidate, Left
<1>2. UNCHANGED alert => SameAlerts
  BY DEF ActiveAlerts
<1>3. KeepsPlan(e) /\ SameAlerts => Healed(e)' = Healed(e)
  BY DEF KeepsPlan, Healed
\* a step that keeps the plan and the active alerts keeps what is said of them
<1>4. ASSUME KeepsPlan(e), UNCHANGED latest, SameAlerts
      PROVE  /\ latest'.event = e /\ latest'.types = k.types
             /\ \A t \in k.types : Left(e, t)' \/ ActiveAlerts(t)' # {}
  BY <1>1, <1>4 DEF Follows, KeepsPlan
<1>5. ASSUME FindActiveAlert(e) PROVE Follows(e)'
  <2>1. /\ k.pc = "findIssue" /\ KeepsPlan(e) /\ k.found = ActiveAlerts(c)
        /\ UNCHANGED <<alert, latest>>
    BY <1>0, <1>5, FindAlertView DEF Moved, FindActiveAlert
  <2> QED
    BY <1>1, <1>2, <1>4, <2>1 DEF Follows, Healing
<1>6. ASSUME FindOpenIssue(e) PROVE Follows(e)'
  <2>1. /\ h.pc = "findIssue" /\ k.pc \in {"writeAlert", "createIssue"}
        /\ KeepsPlan(e) /\ k.found = h.found /\ UNCHANGED <<alert, latest>>
    BY <1>0, <1>6, FindIssueView DEF Moved, FindOpenIssue
  <2> QED
    BY <1>1, <1>2, <1>4, <2>1 DEF Follows, Healing, Looked
<1>7. ASSUME CreateIssue(e) PROVE Follows(e)'
  <2>1. /\ h.pc = "createIssue" /\ k.pc = "sync" /\ k.back = "writeAlert"
        /\ KeepsPlan(e) /\ k.found = h.found /\ UNCHANGED <<alert, latest>>
    BY <1>0, <1>7, CreateIssueView DEF Moved, CreateIssue
  <2> QED
    BY <1>1, <1>2, <1>4, <2>1 DEF Follows, Healing, Looked
<1>8. ASSUME SyncOpenIssueCounts(e) PROVE Follows(e)'
  <2>1. h.back \in {"writeAlert", "readAlert"} /\ Goto(e, h.back)
    BY <1>0, <1>8 DEF EventState, SyncOpenIssueCounts
  <2>2. /\ h.pc = "sync" /\ k.pc = h.back
        /\ KeepsPlan(e) /\ KeepsReads(e) /\ KeepsHealing(e) /\ UNCHANGED <<alert, latest>>
    BY <1>0, <1>8, <2>1, GotoView DEF Moved, SyncOpenIssueCounts, EventPc
  <2> QED
    BY <1>1, <1>2, <1>3, <1>4, <2>1, <2>2
       DEF Follows, Healing, Looked, ToHeal, KeepsPlan, KeepsReads, KeepsHealing
<1>9. ASSUME UpdateAlert(e) PROVE Follows(e)'
  <2>1. h.pc = "writeAlert" /\ h.found = ActiveAlerts(c) /\ UNCHANGED latest
    BY <1>9 DEF UpdateAlert, Follows, Looked
  <2>2. h.found # {}
    BY <1>9 DEF UpdateAlert
  <2>3. SameAlerts
    BY <1>0, <1>9, <2>1 DEF UpdateAlert, ActiveAlerts, Active, TypeInv, TypeOK, AlertRow
  <2>4. ASSUME NextCandidate(e) PROVE Follows(e)'
    BY <1>0, <2>1, <2>2, <2>3, <2>4, NextFollows
  <2>5. ASSUME Goto(e, "notify") PROVE Follows(e)'
    <3>1. k.pc = "notify" /\ KeepsPlan(e) /\ KeepsReads(e)
      BY <1>0, <2>5, GotoView DEF Moved, EventPc
    <3>2. \A a \in h.found : alert'[a].until = h.now + Window
      <4>1. /\ \A a, b \in h.found : a = b
            /\ h.found \subseteq Alert
        BY <1>0, <2>1 DEF Relies, Looked, FoundFits, EventState, TypeInv, TypeOK
      <4>2. PICK b \in h.found :
               alert' = [alert EXCEPT
                   ![b].state = IF Suppressed(e) THEN "suppressed" ELSE "open",
                   ![b].until = h.now + Window, ![b].issue = h.issue]
        BY <1>9 DEF UpdateAlert
      <4>3. b \in Alert /\ alert[b] \in AlertRow /\ alert \in [Alert -> AlertRow]
        BY <1>0, <4>1, <4>2 DEF TypeInv, TypeOK
      <4>4. alert'[b].until = h.now + Window
        BY <4>2, <4>3 DEF AlertRow
      <4> QED
        BY <4>1, <4>2, <4>4
    <3>3. \A a \in k.found : alert'[a].until = k.now + Window
      BY <3>1, <3>2 DEF KeepsPlan, KeepsReads
    <3> QED
      BY <1>1, <1>4, <2>1, <2>2, <2>3, <3>1, <3>3 DEF Follows, Healing, Looked, KeepsReads
  <2> QED
    BY <1>9, <2>4, <2>5 DEF UpdateAlert
<1>10. ASSUME CreateAlert(e) PROVE Follows(e)'
  <2>1. PICK a \in Alert :
           /\ alert[a].state = "absent" /\ k.found = {a}
           /\ alert' = [alert EXCEPT ![a] =
                [type |-> c, state |-> "open", until |-> h.now + Window, issue |-> h.issue]]
    BY <1>0, <1>10, CreateAlertView
  <2>2. k.pc = "notify" /\ KeepsPlan(e) /\ UNCHANGED latest
    BY <1>0, <1>10, CreateAlertView DEF Moved, CreateAlert
  <2>3. /\ \A b \in Alert : alert[b].state \in Active => alert'[b] = alert[b]
        /\ alert'[a].type = c /\ alert'[a].state \in Active
    BY <1>0, <2>1 DEF TypeInv, TypeOK, Active
  <2>4. \A t : ActiveAlerts(t) \subseteq ActiveAlerts(t)'
    BY <2>3 DEF ActiveAlerts
  <2>5. \A t : t = c => k.found \subseteq ActiveAlerts(t)'
    BY <2>1, <2>3 DEF ActiveAlerts
  <2>6. \A t \in k.types : Left(e, t)' \/ ActiveAlerts(t)' # {}
    BY <1>1, <2>2, <2>4 DEF Follows, KeepsPlan
  <2>7. \A b \in k.found : alert'[b].until = k.now + Window
    BY <1>0, <2>1, <2>2 DEF KeepsPlan, TypeInv, TypeOK
  <2> QED
    BY <1>1, <2>1, <2>2, <2>5, <2>6, <2>7 DEF Follows, Healing, Looked, KeepsPlan
<1>11. ASSUME NotifyAlert(e) PROVE Follows(e)'
  <2>1. h.pc = "notify" /\ NextCandidate(e) /\ UNCHANGED <<alert, latest>>
    BY <1>11 DEF NotifyAlert
  <2>2. ActiveAlerts(c) # {}
    BY <2>1 DEF Follows
  <2> QED
    BY <1>0, <1>2, <2>1, <2>2, NextFollows
<1>12. ASSUME ListActiveAlerts(e) PROVE Follows(e)'
  <2>1. /\ h.pc = "list" /\ k.pc = "readAlert" /\ k.heal = Healed(e)
        /\ KeepsPlan(e) /\ UNCHANGED <<alert, latest>>
    BY <1>0, <1>12, ListView DEF Moved, ListActiveAlerts
  <2> QED
    BY <1>1, <1>2, <1>3, <1>4, <2>1 DEF Follows, Healing, Looked, ToHeal, KeepsPlan
<1>13. ASSUME ReadAlert(e) PROVE Follows(e)'
  <2>1. ~Finish(e)
    BY <1>0, FinishView DEF Moved, InFlight
  <2>2. PICK a \in h.heal : /\ k.found = {a} /\ k.heal = h.heal \ {a}
                              /\ k.issue = alert[a].issue
    BY <1>0, <1>13, <2>1, ReadAlertView
  <2>3. /\ h.pc = "readAlert" /\ k.pc = "resolve" /\ KeepsPlan(e)
        /\ UNCHANGED <<alert, latest>>
    BY <1>0, <1>13, <2>1, ReadAlertView DEF Moved, ReadAlert
  <2>4. ToHeal(k) = ToHeal(h)
    BY <2>2, <2>3 DEF ToHeal
  <2> QED
    BY <1>1, <1>2, <1>3, <1>4, <2>2, <2>3, <2>4
       DEF Follows, Healing, Looked, KeepsPlan
<1>14. ASSUME ResolveAlert(e) PROVE Follows(e)'
  <2>1. /\ h.pc = "resolve" /\ k.pc = "readIssue" /\ KeepsPlan(e)
        /\ KeepsReads(e) /\ KeepsHealing(e) /\ UNCHANGED <<issue, latest>>
    BY <1>0, <1>14, GotoView DEF ResolveAlert, Moved, EventPc
  <2>2. /\ h.found # {} /\ h.found \cap h.heal = {}
        /\ h.heal \cup h.found = Healed(e) /\ h.todo = {}
    BY <2>1 DEF Follows, Healing, ToHeal
  <2>3. \A a \in Alert : /\ a \notin h.found => alert'[a] = alert[a]
                         /\ a \in h.found => alert'[a].state = "resolved"
    BY <1>0, <1>14 DEF ResolveAlert, TypeInv, TypeOK, AlertRow
  <2>4. \A t : ActiveAlerts(t)' = ActiveAlerts(t) \ h.found
    BY <2>3 DEF ActiveAlerts, Active
  <2>5. Healed(e)' = Healed(e) \ h.found
    BY <2>1, <2>4 DEF Healed, KeepsPlan
  <2>6. \A t \in h.types : ActiveAlerts(t)' = ActiveAlerts(t)
    <3> SUFFICES ASSUME NEW t \in h.types, NEW a \in ActiveAlerts(t), a \in h.found PROVE FALSE
      BY <2>4
    <3>1. PICK u \in AutoResolvable \ h.types : a \in ActiveAlerts(u)
      BY <2>2 DEF Healed
    <3> QED
      BY <3>1 DEF ActiveAlerts
  <2>7. issue[h.issue].type \in AutoResolvable
    <3>1. PICK a \in h.found : TRUE
      BY <2>2
    <3>2. alert[a].type = issue[h.issue].type
      BY <1>0, <2>1 DEF Relies
    <3>3. PICK u \in AutoResolvable : a \in ActiveAlerts(u)
      BY <2>2 DEF Healed
    <3> QED
      BY <3>2, <3>3 DEF ActiveAlerts
  <2>8. k.heal = Healed(e)'
    BY <2>1, <2>2, <2>5 DEF KeepsHealing
  <2> QED
    BY <1>1, <2>1, <2>2, <2>6, <2>7, <2>8
       DEF Follows, Healing, Looked, ToHeal, KeepsPlan, KeepsReads
<1>15. ASSUME ReadIssue(e) PROVE Follows(e)'
  <2>1. PICK pc \in {"closeIssue", "readAlert"} : Goto(e, pc)
    BY <1>15 DEF ReadIssue
  <2>2. /\ h.pc = "readIssue" /\ k.pc = pc /\ KeepsPlan(e) /\ KeepsReads(e)
        /\ KeepsHealing(e) /\ UNCHANGED <<alert, issue, latest>>
    BY <1>0, <1>15, <2>1, GotoView DEF ReadIssue, Moved, EventPc
  <2> QED
    BY <1>1, <1>2, <1>3, <1>4, <2>1, <2>2
       DEF Follows, Healing, Looked, ToHeal, KeepsPlan, KeepsReads, KeepsHealing
<1>16. ASSUME CloseIssue(e) PROVE Follows(e)'
  <2>1. /\ h.pc = "closeIssue" /\ k.pc = "sync" /\ k.back = "readAlert" /\ k.heal = h.heal
        /\ KeepsPlan(e) /\ UNCHANGED <<alert, latest>>
    BY <1>0, <1>16, CloseIssueView DEF Moved, CloseIssue
  <2> QED
    BY <1>1, <1>2, <1>3, <1>4, <2>1 DEF Follows, Healing, Looked, ToHeal, KeepsPlan
<1>17. ~SkipStaleReplay(e) /\ ~Starts(e)
  BY DEF SkipStaleReplay, Starts, Process, InFlight
<1> QED
  BY <1>5, <1>6, <1>7, <1>8, <1>9, <1>10, <1>11, <1>12, <1>13, <1>14, <1>15, <1>16,
     <1>17 DEF EventStep, Starts

\* What the undisturbed event knows, however it came to be in flight.
LEMMA UndisturbedStep ==
    ASSUME UndisturbedFollow, [Next]_vars
    PROVE  UndisturbedFollow'
<1>0. TypeInv /\ AlertInv /\ LatestAlone
  BY DEF UndisturbedFollow, AlertInv
<1>1. AlertInv' /\ LatestAlone' /\ RowsPersist
  BY <1>0, AlertStep, LatestAloneStep, Persistence
<1>2. ASSUME NEW e \in InFlight', Undisturbed(e)' PROVE Follows(e)'
  <2>1. e \in Event
    BY DEF InFlight
  <2>2. CASE Starts(e)
    BY <1>0, <2>1, <2>2, FollowsStart
  <2>3. CASE /\ e \in InFlight /\ Undisturbed(e)
             /\ handler'[e] = handler[e] /\ UNCHANGED <<alert, latest, rung>>
    BY <1>0, <1>1, <2>1, <2>3, FollowsKept DEF UndisturbedFollow
  <2>4. CASE e \in InFlight /\ Undisturbed(e) /\ EventStep(e) /\ ~Conflict(e)
    BY <1>0, <1>1, <1>2, <2>4, FollowsStep DEF UndisturbedFollow
  <2> QED
    BY <1>0, <1>2, <2>2, <2>3, <2>4, InFlightCases
<1> QED
  BY <1>1, <1>2 DEF UndisturbedFollow

\* With no event in flight no alert is written.
LEMMA AlertsAtRest ==
    ASSUME [Next]_vars, InFlight = {}
    PROVE  UNCHANGED alert
<1>1. ASSUME NEW e \in Event PROVE ~UpdateAlert(e) /\ ~CreateAlert(e) /\ ~ResolveAlert(e)
  BY DEF InFlight, UpdateAlert, CreateAlert, ResolveAlert
<1>2. ASSUME NEW e \in Event, CreateIssue(e) \/ CloseIssue(e) PROVE UNCHANGED alert
  BY <1>2 DEF CreateIssue, CloseIssue
<1>3. ASSUME NEW o \in Operator,
             (\E i \in Issue, s \in Transition : TransitionIssue(o, i, s)) \/ AssignIssue(o)
      PROVE  UNCHANGED alert
  BY <1>3 DEF TransitionIssue, AssignIssue
<1> QED
  BY <1>1, <1>2, <1>3, RowsWritten

\* The event that is answered leaves active exactly its own types.
LEMMA TelemetryStep ==
    ASSUME UndisturbedFollow, LatestStarted, AlertsFollowTelemetry, [Next]_vars
    PROVE  LatestStarted' /\ AlertsFollowTelemetry'
<1>0. TypeInv /\ LatestAlone
  BY DEF UndisturbedFollow, AlertInv
<1>1. ASSUME NEW e \in Event, Starts(e), latest'.event = e
      PROVE  LatestStarted' /\ AlertsFollowTelemetry'
  <2>1. handler'[e].pc \in {"list", "findAlert"}
    BY <1>0, <1>1, ProcessView DEF Moved, Starts
  <2> QED
    BY <1>1, <2>1 DEF LatestStarted, AlertsFollowTelemetry
<1>2. ASSUME latest' = latest, latest.event \in Event
      PROVE  handler'[latest.event].pc # "new"
  <2>1. handler[latest.event].pc # "new"
    BY <1>2 DEF LatestStarted
  <2> QED
    BY <1>0, <1>2, <2>1, EventChanges, Arrives, BlankType DEF EventPc
<1>3. ASSUME latest' = latest, InFlight' = {}, latest.alone,
             handler'[latest.event].pc = "done"
      PROVE  {t \in AutoResolvable : ActiveAlerts(t)' # {}} = latest.types \cap AutoResolvable
  <2> DEFINE e == latest.event
  <2>0. e \in Event /\ InFlight \subseteq {e}
    BY <1>0, <1>3 DEF LatestAlone
  <2>1. CASE handler'[e] = handler[e]
    <3>1. InFlight = {}
      BY <1>3, <2>0, <2>1 DEF InFlight
    <3>2. UNCHANGED alert
      BY <3>1, AlertsAtRest
    <3>3. \A t : ActiveAlerts(t)' = ActiveAlerts(t)
      BY <3>2 DEF ActiveAlerts
    <3> QED
      BY <1>3, <2>1, <3>1, <3>3 DEF AlertsFollowTelemetry, AtRest
  <2>2. CASE EventStep(e) /\ ~Conflict(e)
    <3>1. ~SkipStaleReplay(e)
      BY <2>0 DEF LatestStarted, SkipStaleReplay
    <3>2. ReadAlert(e) /\ handler[e].heal = {}
      BY <1>0, <1>3, <2>0, <2>2, <3>1, Arrives
    <3>3. e \in InFlight /\ handler[e].pc = "readAlert"
      BY <2>0, <3>2 DEF ReadAlert, InFlight
    <3>4. Follows(e)
      BY <1>3, <3>3 DEF UndisturbedFollow, Undisturbed
    <3>5. Healed(e) = {} /\ handler[e].todo = {}
      BY <3>2, <3>3, <3>4 DEF Follows, Healing, ToHeal
    <3>6. \A t \in AutoResolvable \ handler[e].types : ActiveAlerts(t) = {}
      BY <3>5 DEF Healed
    <3>7. \A t \in handler[e].types : ActiveAlerts(t) # {}
      BY <3>4, <3>5 DEF Follows, Left
    <3>8. latest.types = handler[e].types
      BY <3>4 DEF Follows
    <3>9. \A t : ActiveAlerts(t)' = ActiveAlerts(t)
      BY <3>2 DEF ReadAlert, ActiveAlerts
    <3> QED
      BY <3>6, <3>7, <3>8, <3>9
  <2>3. handler'[e] # Blank("failed")
    BY <1>3, BlankType DEF EventPc
  <2> QED
    BY <1>0, <1>3, <2>0, <2>1, <2>2, <2>3, EventChanges
<1>4. ASSUME latest' = latest PROVE LatestStarted' /\ AlertsFollowTelemetry'
  BY <1>2, <1>3, <1>4 DEF LatestStarted, AlertsFollowTelemetry, AtRest
<1> QED
  BY <1>1, <1>4, LatestStep

\* At the start no event is in flight and no alert is in use.
LEMMA UndisturbedInit ==
    ASSUME Init
    PROVE  /\ UndisturbedFollow /\ LatestStarted /\ AlertsFollowTelemetry
           /\ InFlight = {} /\ RoomKept
<1>1. AlertInv /\ TypeInv
  BY AlertInit, TypeInit
<1>2. \A e \in Event : handler[e] = Blank("new")
  BY AlertAssumption DEF Init, Request
<1>3. InFlight = {}
  BY <1>2, BlankType DEF InFlight, EventPc
<1>4. RoomKept
  BY <1>3, FS_EmptySet, AlertAssumption DEF RoomKept
<1>5. latest.event \notin Event /\ ~latest.alone
  BY AlertAssumption DEF Init
<1> QED
  BY <1>1, <1>3, <1>4, <1>5
     DEF UndisturbedFollow, LatestAlone, LatestStarted, AlertsFollowTelemetry

\* An event that no other overlaps leaves the active auto-resolvable alerts at
\* exactly its symptoms, for any number of events in flight before it and
\* whatever they did, threw or were refused (generateFromTelemetry,
\* autoResolveDeviceAlerts), and whatever operators do meanwhile.
THEOREM TelemetryFollowed == Spec => []AlertsFollowTelemetry
<1> DEFINE Inv == UndisturbedFollow /\ LatestStarted /\ AlertsFollowTelemetry
<1>1. Init => Inv
  BY UndisturbedInit
<1>2. Inv /\ [Next]_vars => Inv'
  BY UndisturbedStep, TelemetryStep
<1>3. Inv => AlertsFollowTelemetry
  OBVIOUS
<1> QED
  BY <1>1, <1>2, <1>3, PTL DEF Spec

-----------------------------------------------------------------------------
(***************************************************************************)
(* The suppression window.  Whatever events wrote an active alert since it *)
(* was notified, its window still ends no earlier than the notification    *)
(* demands; an event that read the end of the window keeps one that is     *)
(* late enough, for no undisturbed event can notify meanwhile.             *)
(***************************************************************************)

\* At the time t the alert may be notified.
Rested(a, t) == rung[a] = 0 \/ t >= rung[a] + Window

WindowsFit ==
    \A a \in Alert :
        /\ alert[a].state = "absent" => rung[a] = 0
        /\ alert[a].state \in Active => Rested(a, alert[a].until)

Waits(e) ==
    /\ Looked(handler[e]) => \A a \in handler[e].found : Rested(a, handler[e].until)
    /\ handler[e].pc = "notify" => \A a \in handler[e].found : Rested(a, handler[e].now)

SuppressionInv ==
    /\ UndisturbedFollow
    /\ WindowsFit
    /\ \A e \in InFlight : Waits(e)

\* No alert is taken to have been notified later than before.
Eased == \A a \in Alert : rung'[a] \in {0, rung[a]}

\* Times are numbers.
LEMMA TimeTypes ==
    ASSUME TypeInv
    PROVE  /\ Window \in Nat /\ MaxTime \in Nat
           /\ \A a \in Alert : rung[a] \in Nat /\ alert[a].until \in Nat
           /\ \A e \in Event : handler[e].now \in Nat /\ handler[e].until \in Nat
<1>1. Window \in Nat /\ MaxTime \in Nat
  BY AlertAssumption
<1>2. \A a \in Alert : rung[a] \in Nat /\ alert[a].until \in Nat
  BY <1>1 DEF TypeInv, TypeOK, AlertRow
<1>3. \A e \in Event : handler[e].now \in Nat /\ handler[e].until \in Nat
  BY <1>1 DEF TypeInv, TypeOK, EventState
<1> QED
  BY <1>1, <1>2, <1>3

\* Only an undisturbed event that notifies does not ease the alerts.
LEMMA EasedUnlessNotified ==
    ASSUME TypeInv, [Next]_vars
    PROVE  Eased \/ \E e \in Event : NotifyAlert(e) /\ Undisturbed(e)
<1>1. UNCHANGED rung => Eased
  BY DEF Eased
<1>2. ASSUME NEW e \in Event, UpdateAlert(e) \/ (NotifyAlert(e) /\ ~Undisturbed(e))
      PROVE  Eased
  BY <1>2 DEF UpdateAlert, NotifyAlert, Eased
<1>3. ASSUME NEW e \in Event, EventStep(e), ~UpdateAlert(e), ~NotifyAlert(e)
      PROVE  UNCHANGED rung
  BY <1>3 DEF EventStep, Process, SkipStaleReplay, FindActiveAlert, FindOpenIssue,
     CreateIssue, SyncOpenIssueCounts, CreateAlert, ListActiveAlerts, ReadAlert,
     ResolveAlert, ReadIssue, CloseIssue, Conflict, Restart, history
<1>4. ASSUME NEW o \in Operator, OperatorStep(o) PROVE UNCHANGED rung
  BY <1>4 DEF OperatorStep, TransitionIssue, ReadForAssign, AssignIssue, OperatorSync, history
<1>5. CASE Throw \/ UNCHANGED vars
  BY <1>1, <1>5 DEF Throw, Restart, vars, history
<1> QED
  BY <1>1, <1>2, <1>3, <1>4, <1>5 DEF Next

\* What an event knows of the alerts it holds stays true while others step.
LEMMA WaitsKept ==
    ASSUME TypeInv, LatestAlone, [Next]_vars, NEW e \in InFlight, Waits(e),
           handler'[e] = handler[e]
    PROVE  Waits(e)'
<1>1. handler[e].found \subseteq Alert /\ e \in Event
  BY EventHandler DEF InFlight, EventState
<1>2. Eased
  <2> SUFFICES ASSUME NEW f \in Event, NotifyAlert(f), Undisturbed(f) PROVE FALSE
    BY EasedUnlessNotified
  <2>1. f = e
    BY DEF NotifyAlert, InFlight, Undisturbed, LatestAlone
  <2>2. handler'[f].pc \in {"list", "findAlert"} /\ handler[f].pc = "notify"
    BY NextCandidateView DEF NotifyAlert, Moved
  <2> QED
    BY <2>1, <2>2
<1> QED
  BY <1>1, <1>2 DEF Waits, Eased, Rested

\* After each of its statements an event knows of the alerts it holds that they
\* may be notified at the time it read, or at its own.
LEMMA WaitsStep ==
    ASSUME AlertInv, WindowsFit, NEW e \in Event, EventStep(e), ~Conflict(e),
           e \in InFlight => Waits(e)
    PROVE  Waits(e)'
<1> DEFINE h == handler[e]
           k == handler'[e]
           Idle == k.pc # "notify" /\ ~Looked(k)
<1>0. TypeInv /\ h \in EventState /\ Relies(e) /\ h.found \subseteq Alert
  BY EventHandler DEF AlertInv, EventState
<1>1. Idle => Waits(e)'
  BY DEF Waits
<1>2. ASSUME UNCHANGED rung, k.found = h.found, k.until = h.until, k.pc # "notify",
             Looked(h), h.pc \notin {"new", "done", "failed"}
      PROVE  Waits(e)'
  BY <1>2 DEF Waits, InFlight, Rested
<1>3. ASSUME NEW types \in SUBSET AlertType, NEW now \in 1 .. MaxTime, Process(e, types, now)
      PROVE  Idle
  BY <1>0, <1>3, ProcessView DEF Moved, Looked
<1>4. ASSUME FindActiveAlert(e) PROVE Waits(e)'
  <2> DEFINE found == ActiveAlerts(Candidate(e))
  <2>1. /\ k.pc = "findIssue" /\ k.found = found
        /\ (found # {} => k.until = alert[CHOOSE a \in found : TRUE].until)
        /\ UNCHANGED rung
    BY <1>0, <1>4, FindAlertView DEF Moved, FindActiveAlert, history
  <2>2. ASSUME NEW a \in found PROVE a = CHOOSE b \in found : TRUE
    <3>1. \A x, y \in found : x = y
      BY DEF AlertInv, AtMostOneActive, ActiveAlerts
    <3> HIDE DEF found
    <3> QED
      BY <2>2, <3>1
  <2>3. \A a \in found : a \in Alert /\ alert[a].state \in Active
    BY DEF ActiveAlerts
  <2> HIDE DEF found
  <2>4. \A a \in k.found : Rested(a, alert[a].until) /\ alert[a].until = k.until
    BY <2>1, <2>2, <2>3 DEF WindowsFit
  <2> QED
    BY <2>1, <2>4 DEF Waits, Rested
<1>5. ASSUME FindOpenIssue(e) PROVE Waits(e)'
  BY <1>0, <1>2, <1>5, FindIssueView DEF Moved, FindOpenIssue, Looked, history
<1>6. ASSUME CreateIssue(e) PROVE Waits(e)'
  BY <1>0, <1>2, <1>6, CreateIssueView DEF Moved, CreateIssue, Looked, history
<1>7. ASSUME SyncOpenIssueCounts(e) PROVE Waits(e)'
  <2>1. h.back \in {"writeAlert", "readAlert"} /\ Goto(e, h.back)
    BY <1>0, <1>7 DEF EventState, SyncOpenIssueCounts
  <2>2. /\ h.pc = "sync" /\ k.pc = h.back /\ k.found = h.found
        /\ k.until = h.until /\ UNCHANGED rung
    BY <1>0, <1>7, <2>1, GotoView DEF Moved, SyncOpenIssueCounts, EventPc, KeepsReads, history
  <2> QED
    BY <1>1, <1>2, <2>1, <2>2 DEF Looked
<1>8. ASSUME UpdateAlert(e) PROVE Waits(e)'
  <2>1. h.pc = "writeAlert" /\ Eased
    BY <1>8 DEF UpdateAlert, Eased
  <2>2. NextCandidate(e) => Waits(e)'
    BY <1>0, <1>1, NextCandidateView DEF Moved, Looked
  <2>3. ASSUME Goto(e, "notify"), ~Suppressed(e) PROVE Waits(e)'
    <3>1. k.pc = "notify" /\ k.now = h.now /\ k.found = h.found
      BY <1>0, <2>3, GotoView DEF Moved, EventPc, KeepsPlan, KeepsReads
    <3>2. ASSUME NEW a \in h.found PROVE rung'[a] = 0 \/ h.now >= rung'[a] + Window
      <4>1. a \in Alert /\ Rested(a, h.until) /\ ~(h.until > h.now)
        BY <1>0, <2>1, <2>3 DEF Waits, Looked, InFlight, Suppressed
      <4>2. rung'[a] = 0 \/ rung'[a] = rung[a]
        BY <2>1, <4>1 DEF Eased
      <4> QED
        BY <1>0, <4>1, <4>2, TimeTypes DEF Rested
    <3> QED
      BY <3>1, <3>2 DEF Waits, Looked, Rested
  <2> QED
    BY <1>8, <2>2, <2>3 DEF UpdateAlert
<1>9. ASSUME CreateAlert(e) PROVE Waits(e)'
  <2>1. k.pc = "notify" /\ UNCHANGED rung
    BY <1>0, <1>9, CreateAlertView DEF Moved, CreateAlert, history
  <2>2. PICK a \in Alert : alert[a].state = "absent" /\ k.found = {a}
    BY <1>0, <1>9, CreateAlertView
  <2>3. rung[a] = 0
    BY <2>2 DEF WindowsFit
  <2> QED
    BY <2>1, <2>2, <2>3 DEF Waits, Looked, Rested
<1>10. ASSUME NotifyAlert(e) PROVE Idle
  BY <1>0, <1>10, NextCandidateView DEF Moved, NotifyAlert, Looked
<1>11. ASSUME ListActiveAlerts(e) PROVE Idle
  BY <1>0, <1>11, ListView DEF Moved, Looked
<1>12. ASSUME ReadAlert(e) PROVE Idle
  BY <1>0, <1>12, ReadAlertView, FinishView DEF Moved, Looked
<1>13. ASSUME ResolveAlert(e) PROVE Idle
  BY <1>0, <1>13, GotoView DEF ResolveAlert, Moved, EventPc, Looked
<1>14. ASSUME ReadIssue(e) PROVE Idle
  <2>1. PICK pc \in {"closeIssue", "readAlert"} : Goto(e, pc)
    BY <1>14 DEF ReadIssue
  <2> QED
    BY <1>0, <2>1, GotoView DEF Moved, EventPc, Looked
<1>15. ASSUME CloseIssue(e) PROVE Idle
  BY <1>0, <1>15, CloseIssueView DEF Moved, Looked
<1>16. ASSUME SkipStaleReplay(e) PROVE Idle
  BY <1>0, <1>16, FinishView DEF SkipStaleReplay, Moved, Looked
<1> QED
  BY <1>1, <1>3, <1>4, <1>5, <1>6, <1>7, <1>8, <1>9, <1>10, <1>11, <1>12, <1>13, <1>14,
     <1>15, <1>16 DEF EventStep

\* Every write of an alert leaves it a window that ends late enough.
LEMMA WindowsStep ==
    ASSUME SuppressionInv, [Next]_vars
    PROVE  WindowsFit'
<1> DEFINE Fits(a) == /\ alert[a].state = "absent" => rung[a] = 0
                      /\ alert[a].state \in Active => Rested(a, alert[a].until)
<1>0. TypeInv /\ AlertInv /\ LatestAlone
  BY DEF SuppressionInv, UndisturbedFollow, AlertInv
<1>1. ASSUME NEW a \in Alert, alert'[a] = alert[a], rung'[a] \in {0, rung[a]} PROVE Fits(a)'
  BY <1>1 DEF SuppressionInv, WindowsFit, Rested
<1>2. ASSUME NEW e \in Event, UpdateAlert(e), NEW a \in Alert PROVE Fits(a)'
  <2>1. rung'[a] = IF a \in handler[e].found /\ handler[e].now < rung[a] THEN 0 ELSE rung[a]
    BY <1>2 DEF UpdateAlert
  <2>2. \/ alert'[a] = alert[a]
        \/ /\ a \in handler[e].found /\ alert'[a].until = handler[e].now + Window
           /\ alert'[a].state \in Active
    BY <1>0, <1>2 DEF UpdateAlert, TypeInv, TypeOK, AlertRow, Active
  <2>3. a \in handler[e].found =>
           rung'[a] = 0 \/ handler[e].now + Window >= rung'[a] + Window
    BY <1>0, <2>1, TimeTypes
  <2> QED
    BY <1>1, <2>1, <2>2, <2>3 DEF Rested, Active
<1>3. ASSUME NEW e \in Event, CreateAlert(e), NEW a \in Alert PROVE Fits(a)'
  <2>1. rung'[a] = rung[a]
    BY <1>3 DEF CreateAlert, history
  <2>2. \/ alert'[a] = alert[a]
        \/ alert[a].state = "absent"
    BY <1>0, <1>3, CreateAlertView DEF TypeInv, TypeOK
  <2>3. alert[a].state = "absent" => rung'[a] = 0
    BY <2>1 DEF SuppressionInv, WindowsFit
  <2> QED
    BY <1>1, <2>1, <2>2, <2>3 DEF Rested
<1>4. ASSUME NEW e \in Event, ResolveAlert(e), NEW a \in Alert PROVE Fits(a)'
  <2>1. rung'[a] = rung[a]
    BY <1>4 DEF ResolveAlert, history
  <2>2. alert'[a] = alert[a] \/ alert'[a].state = "resolved"
    BY <1>0, <1>4 DEF ResolveAlert, TypeInv, TypeOK, AlertRow
  <2> QED
    BY <1>1, <2>1, <2>2 DEF Active
<1>5. ASSUME NEW e \in Event, NotifyAlert(e), NEW a \in Alert PROVE Fits(a)'
  <2>1. /\ e \in InFlight /\ UNCHANGED alert /\ handler[e].pc = "notify"
        /\ rung'[a] = IF a \notin handler[e].found THEN rung[a]
                      ELSE IF Undisturbed(e) THEN handler[e].now ELSE 0
    BY <1>5 DEF NotifyAlert, InFlight
  <2>2. CASE a \in handler[e].found /\ Undisturbed(e)
    <3>1. Follows(e)
      BY <2>1, <2>2 DEF SuppressionInv, UndisturbedFollow
    <3>2. alert[a].state # "absent" /\ alert[a].until = handler[e].now + Window
      BY <2>1, <2>2, <3>1 DEF Follows, ActiveAlerts, Active
    <3>3. alert[a].until >= handler[e].now + Window
      BY <1>0, <3>2, TimeTypes
    <3> QED
      BY <2>1, <2>2, <3>2, <3>3 DEF Rested
  <2> QED
    BY <1>1, <2>1, <2>2
<1>6. ASSUME NEW a \in Alert, UNCHANGED <<alert, rung>> PROVE Fits(a)'
  BY <1>1, <1>6
<1>7. ASSUME NEW e \in Event, EventStep(e), NEW a \in Alert PROVE Fits(a)'
  BY <1>2, <1>3, <1>4, <1>5, <1>6, <1>7 DEF EventStep, Process, SkipStaleReplay,
     FindActiveAlert, FindOpenIssue, CreateIssue, SyncOpenIssueCounts, ListActiveAlerts,
     ReadAlert, ReadIssue, CloseIssue, Conflict, Restart, history
<1>8. ASSUME NEW o \in Operator, OperatorStep(o) PROVE UNCHANGED <<alert, rung>>
  BY <1>8 DEF OperatorStep, TransitionIssue, ReadForAssign, AssignIssue, OperatorSync, history
<1>9. Throw \/ UNCHANGED vars => UNCHANGED <<alert, rung>>
  BY DEF Throw, Restart, vars, history
<1>10. \A a \in Alert : Fits(a)'
  BY <1>6, <1>7, <1>8, <1>9 DEF Next
<1> QED
  BY <1>10 DEF WindowsFit

\* Once an event that no other overlapped has notified an alert, no event whose
\* time lies within the window of that notification notifies it again, however
\* many events overlap and in whatever order their times come, until an event
\* with an earlier time repeats the alert (suppressedUntil): what an event read
\* several statements before is late enough still.
THEOREM SuppressionHolds == Spec => SuppressionHonoured
<1>1. Init => SuppressionInv
  <2> SUFFICES ASSUME Init PROVE SuppressionInv
    OBVIOUS
  <2>1. \A a \in Alert : rung[a] = 0
    BY DEF Init
  <2> QED
    BY <2>1, UndisturbedInit DEF SuppressionInv, WindowsFit, Rested
<1>2. SuppressionInv /\ [Next]_vars => SuppressionInv'
  <2> SUFFICES ASSUME SuppressionInv, [Next]_vars PROVE SuppressionInv'
    OBVIOUS
  <2>1. UndisturbedFollow' /\ WindowsFit'
    BY UndisturbedStep, WindowsStep DEF SuppressionInv
  <2>2. TypeInv /\ AlertInv /\ LatestAlone /\ WindowsFit
    BY DEF SuppressionInv, UndisturbedFollow, AlertInv
  <2>3. ASSUME NEW e \in InFlight' PROVE Waits(e)'
    <3>1. e \in Event /\ handler'[e] # Blank("failed")
      BY BlankType DEF InFlight, EventPc
    <3>2. e \in InFlight => Waits(e)
      BY DEF SuppressionInv
    <3>3. CASE handler'[e] = handler[e]
      <4>1. e \in InFlight
        BY <2>3, <3>1, <3>3 DEF InFlight
      <4> QED
        BY <2>2, <3>2, <3>3, <4>1, WaitsKept
    <3>4. CASE EventStep(e) /\ ~Conflict(e)
      BY <2>2, <3>1, <3>2, <3>4, WaitsStep
    <3> QED
      BY <2>2, <3>1, <3>3, <3>4, EventChanges
  <2> QED
    BY <2>1, <2>3 DEF SuppressionInv
<1>3. SuppressionInv =>
        \A e \in Event : \A a \in handler[e].found :
           handler[e].pc = "notify" /\ handler'[e].pc \in {"findAlert", "list"} =>
              rung[a] = 0 \/ handler[e].now >= rung[a] + Window
  BY DEF SuppressionInv, Waits, Rested, InFlight
<1> QED
  BY <1>1, <1>2, <1>3, PTL DEF Spec, SuppressionHonoured

-----------------------------------------------------------------------------
(***************************************************************************)
(* Issues follow alerts.  For a key whose issues no operator wrote to, the *)
(* open issues are those the active alerts refer to, except while an event *)
(* is between the write of the one and the write of the other; then the    *)
(* only open issue is the one it holds.  Events come one at a time here.   *)
(***************************************************************************)
\* Every event in flight is undisturbed.
OneAtATime == UndisturbedFollow /\ RoomKept /\ (InFlight # {} => latest.alone)

Clean(t) == \A j \in touched : issue[j].type # t

Linked(t) == OpenIssues(t) = {alert[a].issue : a \in ActiveAlerts(t)}

Closing(e, t) ==
    handler[e].pc \in {"readIssue", "closeIssue"} /\ issue[handler[e].issue].type = t

Pending(e, t) == Closing(e, t) \/ (HasIssue(handler[e]) /\ Candidate(e) = t)

LinksKey(e, t) ==
    /\ Pending(e, t) \/ Linked(t)
    /\ Pending(e, t) => OpenIssues(t) = {handler[e].issue}
    /\ Closing(e, t) => ActiveAlerts(t) = {}
    /\ handler[e].pc = "createIssue" /\ Candidate(e) = t => OpenIssues(t) = {}

KeyLinked(t) ==
    /\ InFlight = {} => Linked(t)
    /\ \A e \in InFlight : LinksKey(e, t)

TouchedOpened ==
    /\ \A i \in touched : Opened(i)
    /\ \A o \in Operator : handler[o].pc = "assign" => Opened(handler[o].issue)

CleanKeysLinked ==
    failures = 0 => \A t \in AlertType : Clean(t) => KeyLinked(t)

\* Of events that come one at a time, none is in flight beside another, and
\* what it relies on is true.
LEMMA Alone ==
    ASSUME OneAtATime, NEW e \in InFlight
    PROVE  InFlight = {e} /\ Undisturbed(e) /\ Follows(e)
  BY DEF OneAtATime, UndisturbedFollow, LatestAlone, Undisturbed

\* An event starts only when none is in flight.
LEMMA StartsAlone ==
    ASSUME MaxInFlight = 1, RoomKept, NEW e \in Event, Starts(e)
    PROVE  InFlight = {} /\ latest'.alone
<1>1. InFlight = {}
  BY StartsView, FS_EmptySet, FS_CardinalityType DEF RoomKept
<1> QED
  BY <1>1, StartsView

\* While one is in flight none starts.
LEMMA NoneStarts ==
    ASSUME MaxInFlight = 1, RoomKept, [Next]_vars, NEW e \in InFlight
    PROVE  latest' = latest
  BY LatestStep, StartsAlone

\* With room for one, events come one at a time.
LEMMA OneAtATimeStep ==
    ASSUME MaxInFlight = 1, OneAtATime, [Next]_vars
    PROVE  OneAtATime'
<1>1. TypeInv /\ UndisturbedFollow' /\ RoomKept'
  BY UndisturbedStep, RoomStep DEF OneAtATime, UndisturbedFollow, AlertInv
<1>2. ASSUME NEW e \in InFlight' PROVE latest'.alone
  <2>1. CASE InFlight # {}
    BY <2>1, NoneStarts DEF OneAtATime
  <2>2. CASE InFlight = {}
    <3>1. /\ e \in Event /\ handler'[e].pc \notin {"done", "failed"}
          /\ handler'[e] # handler[e]
      BY <1>2, <2>2 DEF InFlight
    <3>2. EventStep(e)
      BY <1>1, <3>1, EventChanges, BlankType DEF EventPc
    <3>3. ~SkipStaleReplay(e)
      BY <1>1, <3>1, FinishView DEF SkipStaleReplay, Moved
    <3>4. Starts(e)
      BY <1>1, <2>2, <3>1, <3>2, <3>3, Starting
    <3> QED
      BY <3>1, <3>4, StartsAlone DEF OneAtATime
  <2> QED
    BY <2>1, <2>2
<1> QED
  BY <1>1, <1>2 DEF OneAtATime

\* What a step may do to the record of an operator's request.
LEMMA OperatorChanges ==
    ASSUME TypeInv, [Next]_vars, NEW o \in Operator
    PROVE  \/ handler'[o] = handler[o]
           \/ handler'[o] = [pc |-> "idle"]
           \/ OperatorStep(o)
<1>0. o \in Request /\ o \notin Event
  BY AlertAssumption DEF Request
<1>1. ASSUME Restart PROVE handler'[o] = [pc |-> "idle"]
  BY <1>1, RestartView
<1>2. ASSUME NEW e \in Event, EventStep(e)
      PROVE  handler'[o] = handler[o] \/ handler'[o] = [pc |-> "idle"]
  BY <1>0, <1>1, <1>2, OthersUntouched DEF Conflict
<1>3. ASSUME NEW q \in Operator, q # o, OperatorStep(q) PROVE handler'[o] = handler[o]
  BY <1>0, <1>3, OperatorView DEF OthersKept
<1>4. CASE UNCHANGED vars
  BY <1>4 DEF vars
<1> QED
  BY <1>1, <1>2, <1>3, <1>4 DEF Next, Throw

\* Operators write only to issues that are in use.
LEMMA TouchedOpenedStep ==
    ASSUME AlertInv, RowsPersist, TouchedOpened, [Next]_vars
    PROVE  TouchedOpened'
<1>0. TypeInv /\ \A i : Opened(i) => Opened(i)'
  BY DEF AlertInv, RowsPersist, Opened
<1>1. \A i \in touched' : i \in touched \/ Opened(i)
  <2>1. ASSUME NEW e \in Event, EventStep(e) PROVE touched' = touched
    <3>1. ASSUME NEW types \in SUBSET AlertType,
                 NEW now \in 1 .. MaxTime, Process(e, types, now) PROVE touched' = touched
      BY <3>1 DEF Process, history
    <3> QED
      BY <2>1, <3>1 DEF EventStep, SkipStaleReplay, FindActiveAlert, FindOpenIssue,
         CreateIssue, SyncOpenIssueCounts, UpdateAlert, CreateAlert, NotifyAlert,
         ListActiveAlerts, ReadAlert, ResolveAlert, ReadIssue, CloseIssue, Conflict,
         Restart, history
  <2>2. ASSUME NEW o \in Operator, OperatorStep(o)
        PROVE  \A i \in touched' : i \in touched \/ Opened(i)
    BY <2>2 DEF OperatorStep, TransitionIssue, ReadForAssign, AssignIssue, OperatorSync,
       TouchedOpened, Opened, history
  <2>3. Throw \/ UNCHANGED vars => touched' = touched
    BY DEF Throw, Restart, vars, history
  <2> QED
    BY <2>1, <2>2, <2>3 DEF Next
<1>2. ASSUME NEW o \in Operator, handler'[o].pc = "assign"
      PROVE  \E i \in Issue : handler'[o].issue = i /\ Opened(i)
  <2>1. CASE handler'[o] = handler[o]
    BY <1>2, <2>1 DEF TouchedOpened, Opened
  <2>2. CASE OperatorStep(o)
    <3>1. ~AssignIssue(o) /\ ~(\E i \in Issue, s \in Transition : TransitionIssue(o, i, s))
      BY <1>0, <1>2, <2>2, OperatorView
    <3>2. ~OperatorSync(o)
      BY <1>0, <1>2 DEF OperatorSync, Goto, TypeInv, TypeOK, HandlerIsFunction, Request,
         OperatorState
    <3>3. PICK i \in Issue : ReadForAssign(o, i)
      BY <2>2, <3>1, <3>2 DEF OperatorStep
    <3> QED
      BY <1>0, <3>3 DEF ReadForAssign, Opened, TypeInv, HandlerIsFunction, Request
  <2> QED
    BY <1>0, <1>2, <2>1, <2>2, OperatorChanges
<1> QED
  BY <1>0, <1>1, <1>2 DEF TouchedOpened, Opened

\* A key that no operator has written to yet was so before.
LEMMA CleanBefore ==
    ASSUME AlertInv, RowsPersist, TouchedOpened, [Next]_vars, NEW t, Clean(t)'
    PROVE  Clean(t)
  BY TouchedGrows DEF Clean, TouchedOpened, RowsPersist, Opened

\* Only the event that opens or closes an issue changes the open issues of a
\* key that no operator wrote to.
LEMMA OpenIssuesKept ==
    ASSUME TypeInv, [Next]_vars, NEW t, Clean(t)',
           \A e \in Event : ~CreateIssue(e) /\ ~CloseIssue(e)
    PROVE  OpenIssues(t)' = OpenIssues(t)
<1>1. CASE UNCHANGED issue
  BY <1>1 DEF OpenIssues
<1>2. ASSUME NEW j \in Issue, j \in touched',
             \A i \in Issue : i # j => issue'[i] = issue[i],
             issue'[j].type = issue[j].type
      PROVE  OpenIssues(t)' = OpenIssues(t)
  BY <1>2 DEF Clean, OpenIssues
<1>3. ASSUME NEW o \in Operator, NEW i \in Issue, NEW s \in Transition, TransitionIssue(o, i, s)
      PROVE  OpenIssues(t)' = OpenIssues(t)
  BY <1>2, <1>3 DEF TransitionIssue, TypeInv, TypeOK, IssueRow
<1>4. ASSUME NEW o \in Operator, AssignIssue(o) PROVE OpenIssues(t)' = OpenIssues(t)
  <2>1. handler[o].issue \in Issue
    BY <1>4 DEF AssignIssue, TypeInv, TypeOK, OperatorState
  <2> QED
    BY <1>2, <1>4, <2>1 DEF AssignIssue, TypeInv, TypeOK, IssueRow
<1>5. ASSUME NEW e \in Event, UpdateAlert(e) \/ CreateAlert(e) \/ ResolveAlert(e)
      PROVE  UNCHANGED issue
  BY <1>5 DEF UpdateAlert, CreateAlert, ResolveAlert
<1> QED
  BY <1>1, <1>3, <1>4, <1>5, RowsWritten

\* What the event in flight knows of a key stays true while others step.
LEMMA LinksKept ==
    ASSUME AlertInv, RowsPersist, NEW e \in Event, NEW t, LinksKey(e, t),
           handler'[e] = handler[e], UNCHANGED alert, OpenIssues(t)' = OpenIssues(t)
    PROVE  LinksKey(e, t)'
<1>1. /\ Candidate(e)' = Candidate(e) /\ ActiveAlerts(t)' = ActiveAlerts(t)
      /\ Linked(t)' <=> Linked(t)
  BY DEF Candidate, ActiveAlerts, Linked
<1>2. Closing(e, t)' <=> Closing(e, t)
  BY DEF Closing, AlertInv, Relies, RowsPersist, Opened
<1> QED
  BY <1>1, <1>2 DEF LinksKey, Pending

\* An index on active alerts makes the links of a key at most one.
LEMMA OneLink ==
    ASSUME AlertInv, NEW t, Linked(t), NEW i \in OpenIssues(t)
    PROVE  OpenIssues(t) = {i}
<1>1. \A a, b \in ActiveAlerts(t) : a = b
  BY DEF AlertInv, AtMostOneActive, ActiveAlerts
<1> QED
  BY <1>1 DEF Linked

\* With one event at a time the index never rejects a write.
LEMMA NoConflict ==
    ASSUME NEW e \in Event, Follows(e)
    PROVE  ~Conflict(e)
  BY DEF Conflict, KeyTaken, Follows, Looked

\* After each of its statements the event in flight knows what it relies on.
LEMMA LinksStep ==
    ASSUME OneAtATime, NEW e \in InFlight, NEW t \in AlertType, LinksKey(e, t),
           EventStep(e)
    PROVE  /\ LinksKey(e, t)'
           /\ handler'[e].pc = "done" => Linked(t)'
<1> DEFINE h == handler[e]
           k == handler'[e]
           c == Candidate(e)
           Goal == LinksKey(e, t)' /\ (handler'[e].pc = "done" => Linked(t)')
           Idle == /\ k.pc \notin {"createIssue", "readIssue", "closeIssue"}
                   /\ ~HasIssue(k)
<1>0. /\ TypeInv /\ e \in Event /\ h \in EventState /\ Relies(e) /\ Follows(e)
      /\ AlertInv
  <2>1. AlertInv /\ TypeInv /\ e \in Event
    BY DEF OneAtATime, UndisturbedFollow, AlertInv, InFlight
  <2> QED
    BY <2>1, EventHandler, Alone DEF AlertInv
<1>1. KeepsPlan(e) => Candidate(e)' = c
  BY DEF KeepsPlan, Candidate
<1>2. ASSUME Idle, Linked(t)' PROVE Goal
  BY <1>2 DEF LinksKey, Pending, Closing
\* a step that writes no row, by an event that is not between two writes
<1>3. ASSUME UNCHANGED <<alert, issue>>, ~Pending(e, t), Idle PROVE Goal
  <2>1. Linked(t)'
    BY <1>3 DEF LinksKey, Linked, ActiveAlerts, OpenIssues
  <2> QED
    BY <1>2, <1>3, <2>1
<1>4. ASSUME FindActiveAlert(e) PROVE Goal
  <2>1. h.pc = "findAlert" /\ k.pc = "findIssue" /\ UNCHANGED <<alert, issue>>
    BY <1>0, <1>4, FindAlertView DEF Moved, FindActiveAlert
  <2> QED
    BY <1>3, <2>1 DEF Pending, Closing, HasIssue
<1>5. ASSUME FindOpenIssue(e) PROVE Goal
  <2>1. /\ h.pc = "findIssue" /\ KeepsPlan(e) /\ UNCHANGED <<alert, issue>>
        /\ \/ k.pc = "writeAlert" /\ k.issue \in OpenIssues(c)
           \/ k.pc = "createIssue" /\ OpenIssues(c) = {}
    BY <1>0, <1>5, FindIssueView DEF Moved, FindOpenIssue
  <2>2. Linked(t)
    BY <2>1 DEF LinksKey, Pending, Closing, HasIssue
  <2>3. /\ Linked(t)' /\ OpenIssues(t)' = OpenIssues(t)
    BY <2>1, <2>2 DEF Linked, ActiveAlerts, OpenIssues
  <2>4. k.pc = "writeAlert" /\ c = t => OpenIssues(t) = {k.issue}
    BY <1>0, <2>1, <2>2, OneLink
  <2> QED
    BY <1>1, <2>1, <2>3, <2>4 DEF LinksKey, Pending, Closing, HasIssue
<1>6. ASSUME CreateIssue(e) PROVE Goal
  <2>1. /\ h.pc = "createIssue" /\ k.pc = "sync" /\ k.back = "writeAlert"
        /\ KeepsPlan(e) /\ UNCHANGED alert
    BY <1>0, <1>6, CreateIssueView DEF Moved, CreateIssue
  <2>2. PICK i \in Issue :
           /\ k.issue = i /\ issue[i].status = "absent"
           /\ issue' = [issue EXCEPT ![i] = [type |-> c, status |-> "open"]]
    BY <1>0, <1>6, CreateIssueView
  <2>3. Linked(t) /\ (c = t => OpenIssues(t) = {})
    BY <2>1 DEF LinksKey, Pending, Closing, HasIssue
  <2>4. c = t => OpenIssues(t)' = {i}
    BY <1>0, <2>2, <2>3 DEF OpenIssues, TypeInv, TypeOK, OpenStatus
  <2>5. c # t => Linked(t)'
    <3>1. c # t => OpenIssues(t)' = OpenIssues(t)
      BY <1>0, <2>2 DEF OpenIssues, TypeInv, TypeOK, OpenStatus
    <3>2. ActiveAlerts(t)' = ActiveAlerts(t)
      BY <2>1 DEF ActiveAlerts
    <3> QED
      BY <2>1, <2>3, <3>1, <3>2 DEF Linked
  <2> QED
    BY <1>1, <2>1, <2>2, <2>4, <2>5 DEF LinksKey, Pending, Closing, HasIssue
<1>7. ASSUME SyncOpenIssueCounts(e) PROVE Goal
  <2>1. h.back \in {"writeAlert", "readAlert"} /\ Goto(e, h.back)
    BY <1>0, <1>7 DEF EventState, SyncOpenIssueCounts
  <2>2. /\ h.pc = "sync" /\ k.pc = h.back /\ KeepsPlan(e) /\ k.issue = h.issue
        /\ UNCHANGED <<alert, issue>>
    BY <1>0, <1>7, <2>1, GotoView DEF Moved, SyncOpenIssueCounts, EventPc, KeepsReads
  <2>3. CASE h.back = "readAlert"
    BY <1>3, <2>2, <2>3 DEF Pending, Closing, HasIssue
  <2>4. CASE h.back = "writeAlert"
    <3>1. OpenIssues(t)' = OpenIssues(t) /\ (Linked(t)' <=> Linked(t))
      BY <2>2 DEF Linked, ActiveAlerts, OpenIssues
    <3> QED
      BY <1>1, <2>2, <2>4, <3>1 DEF LinksKey, Pending, Closing, HasIssue
  <2> QED
    BY <2>1, <2>3, <2>4
<1>8. ASSUME UpdateAlert(e) PROVE Goal
  <2>1. /\ h.pc = "writeAlert" /\ h.found = ActiveAlerts(c) /\ UNCHANGED issue
        /\ \A a, b \in h.found : a = b
    BY <1>0, <1>8 DEF UpdateAlert, Follows, Looked, Relies, FoundFits
  <2>2. ASSUME NextCandidate(e) PROVE Idle
    BY <1>0, <2>2, NextCandidateView DEF Moved, HasIssue
  <2>3. ASSUME Goto(e, "notify") PROVE Idle
    BY <1>0, <2>3, GotoView DEF Moved, EventPc, HasIssue
  <2>4. PICK a \in h.found :
          alert' = [alert EXCEPT
             ![a].state = IF Suppressed(e) THEN "suppressed" ELSE "open",
             ![a].until = h.now + Window,
             ![a].issue = h.issue]
    BY <1>8 DEF UpdateAlert
  <2>5. a \in Alert /\ h.found = {a} /\ alert[a].type = c /\ alert[a].state \in Active
    BY <2>1, <2>4 DEF ActiveAlerts
  <2>6. /\ alert'[a].type = c /\ alert'[a].issue = h.issue /\ alert'[a].state \in Active
        /\ \A b \in Alert : b # a => alert'[b] = alert[b]
    BY <1>0, <2>4, <2>5 DEF TypeInv, TypeOK, AlertRow, Active
  <2>7. ActiveAlerts(t)' = ActiveAlerts(t) /\ OpenIssues(t)' = OpenIssues(t)
    BY <2>1, <2>5, <2>6 DEF ActiveAlerts, OpenIssues
  <2>8. Linked(t)'
    <3>1. CASE c = t
      <4>1. OpenIssues(t) = {h.issue} /\ ActiveAlerts(t) = {a}
        BY <2>1, <2>5, <3>1 DEF LinksKey, Pending, HasIssue
      <4> QED
        BY <2>6, <2>7, <4>1 DEF Linked
    <3>2. CASE c # t
      <4>1. Linked(t)
        BY <2>1, <3>2 DEF LinksKey, Pending, Closing, HasIssue
      <4>2. \A b \in ActiveAlerts(t) : alert'[b] = alert[b]
        BY <2>5, <2>6, <3>2 DEF ActiveAlerts
      <4> QED
        BY <2>7, <4>1, <4>2 DEF Linked
    <3> QED
      BY <3>1, <3>2
  <2> QED
    BY <1>2, <1>8, <2>2, <2>3, <2>8 DEF UpdateAlert
<1>9. ASSUME CreateAlert(e) PROVE Goal
  <2>1. /\ h.pc = "writeAlert" /\ ActiveAlerts(c) = {} /\ UNCHANGED issue
        /\ k.pc = "notify"
    BY <1>0, <1>9, CreateAlertView
       DEF CreateAlert, Follows, Looked, Moved
  <2>2. PICK a \in Alert :
           /\ alert[a].state = "absent"
           /\ alert' = [alert EXCEPT ![a] =
                [type |-> c, state |-> "open", until |-> h.now + Window, issue |-> h.issue]]
    BY <1>0, <1>9, CreateAlertView
  <2>3. /\ alert'[a].type = c /\ alert'[a].issue = h.issue /\ alert'[a].state \in Active
        /\ \A b \in Alert : b # a => alert'[b] = alert[b]
        /\ alert[a].state \notin Active
    BY <1>0, <2>2 DEF TypeInv, TypeOK, Active
  <2>4. OpenIssues(t)' = OpenIssues(t)
    BY <2>1 DEF OpenIssues
  <2>5. Linked(t)'
    <3>1. CASE c = t
      <4>1. OpenIssues(t) = {h.issue}
        BY <2>1, <3>1 DEF LinksKey, Pending, HasIssue
      <4>2. ActiveAlerts(t)' = {a}
        BY <2>1, <2>3, <3>1 DEF ActiveAlerts
      <4> QED
        BY <2>3, <2>4, <4>1, <4>2 DEF Linked
    <3>2. CASE c # t
      <4>1. Linked(t)
        BY <2>1, <3>2 DEF LinksKey, Pending, Closing, HasIssue
      <4>2. ActiveAlerts(t)' = ActiveAlerts(t)
        BY <2>3, <3>2 DEF ActiveAlerts
      <4>3. \A b \in ActiveAlerts(t) : alert'[b] = alert[b]
        BY <2>3 DEF ActiveAlerts
      <4> QED
        BY <2>4, <4>1, <4>2, <4>3 DEF Linked
    <3> QED
      BY <3>1, <3>2
  <2> QED
    BY <1>2, <2>1, <2>5 DEF HasIssue
<1>10. ASSUME NotifyAlert(e) PROVE Goal
  <2>1. h.pc = "notify" /\ k.pc \in {"list", "findAlert"} /\ UNCHANGED <<alert, issue>>
    BY <1>0, <1>10, NextCandidateView DEF NotifyAlert, Moved
  <2> QED
    BY <1>3, <2>1 DEF Pending, Closing, HasIssue
<1>11. ASSUME ListActiveAlerts(e) PROVE Goal
  <2>1. h.pc = "list" /\ k.pc = "readAlert" /\ UNCHANGED <<alert, issue>>
    BY <1>0, <1>11, ListView DEF Moved, ListActiveAlerts
  <2> QED
    BY <1>3, <2>1 DEF Pending, Closing, HasIssue
<1>12. ASSUME ReadAlert(e) PROVE Goal
  <2>1. h.pc = "readAlert" /\ k.pc \in {"resolve", "done"} /\ UNCHANGED <<alert, issue>>
    BY <1>0, <1>12, ReadAlertView, FinishView DEF Moved, ReadAlert
  <2> QED
    BY <1>3, <2>1 DEF Pending, Closing, HasIssue
<1>13. ASSUME ResolveAlert(e) PROVE Goal
  <2>1. /\ h.pc = "resolve" /\ k.pc = "readIssue" /\ k.issue = h.issue /\ UNCHANGED issue
    BY <1>0, <1>13, GotoView DEF ResolveAlert, Moved, EventPc, KeepsReads
  <2>2. /\ h.found # {} /\ h.found \subseteq Healed(e)
        /\ \A a \in h.found : alert[a].issue = h.issue
    BY <1>0, <2>1 DEF Follows, Healing, ToHeal
  <2>3. Linked(t)
    BY <2>1 DEF LinksKey, Pending, Closing, HasIssue
  <2>4. \A a \in Alert : /\ a \notin h.found => alert'[a] = alert[a]
                         /\ a \in h.found => alert'[a].state = "resolved"
    BY <1>0, <1>13 DEF ResolveAlert, TypeInv, TypeOK, AlertRow
  <2>5. ActiveAlerts(t)' = ActiveAlerts(t) \ h.found /\ OpenIssues(t)' = OpenIssues(t)
    BY <2>1, <2>4 DEF ActiveAlerts, OpenIssues, Active
  <2>6. \A a \in h.found : /\ a \in Alert /\ alert[a].state \in Active
                           /\ alert[a].type = issue[h.issue].type
    BY <1>0, <2>1, <2>2 DEF Relies, Healed, ActiveAlerts
  <2>7. CASE issue[h.issue].type = t
    <3>1. PICK a \in h.found : TRUE
      BY <2>2
    <3>2. a \in ActiveAlerts(t) /\ \A b \in ActiveAlerts(t) : b = a
      BY <1>0, <2>6, <2>7, <3>1 DEF ActiveAlerts, AlertInv, AtMostOneActive
    <3>3. ActiveAlerts(t)' = {}
      BY <2>5, <3>1, <3>2
    <3>4. OpenIssues(t) = {h.issue}
      BY <2>2, <2>3, <3>1, <3>2 DEF Linked
    <3> QED
      BY <2>1, <2>5, <2>7, <3>3, <3>4 DEF LinksKey, Pending, Closing
  <2>8. CASE issue[h.issue].type # t
    <3>1. ActiveAlerts(t)' = ActiveAlerts(t)
      BY <2>5, <2>6, <2>8 DEF ActiveAlerts
    <3>2. \A a \in ActiveAlerts(t) : alert'[a] = alert[a]
      BY <2>4, <2>6, <2>8 DEF ActiveAlerts
    <3>3. Linked(t)'
      BY <2>3, <2>5, <3>1, <3>2 DEF Linked
    <3> QED
      BY <2>1, <2>8, <3>3 DEF LinksKey, Pending, Closing, HasIssue
  <2> QED
    BY <2>7, <2>8
<1>14. ASSUME ReadIssue(e) PROVE Goal
  <2>1. /\ h.pc = "readIssue" /\ UNCHANGED <<alert, issue>>
        /\ Goto(e, IF /\ issue[h.issue].type \in AutoResolvable
                      /\ issue[h.issue].status \in OpenStatus
                   THEN "closeIssue" ELSE "readAlert")
    BY <1>14 DEF ReadIssue
  <2>2. /\ k.pc = IF /\ issue[h.issue].type \in AutoResolvable
                     /\ issue[h.issue].status \in OpenStatus
                  THEN "closeIssue" ELSE "readAlert"
        /\ k.issue = h.issue
    BY <1>0, <2>1, GotoView DEF Moved, EventPc, KeepsReads
  <2>3. /\ ActiveAlerts(t)' = ActiveAlerts(t) /\ OpenIssues(t)' = OpenIssues(t)
        /\ Linked(t)' <=> Linked(t)
    BY <2>1 DEF Linked, ActiveAlerts, OpenIssues
  <2>4. CASE issue[h.issue].type = t
    <3>1. OpenIssues(t) = {h.issue} /\ ActiveAlerts(t) = {}
      BY <2>1, <2>4 DEF LinksKey, Pending, Closing
    <3>2. k.pc = "closeIssue"
      BY <1>0, <2>1, <2>2, <3>1 DEF Follows, OpenIssues
    <3> QED
      BY <2>1, <2>2, <2>3, <2>4, <3>1, <3>2 DEF LinksKey, Pending, Closing
  <2>5. CASE issue[h.issue].type # t
    BY <2>1, <2>2, <2>3, <2>5 DEF LinksKey, Pending, Closing, HasIssue
  <2> QED
    BY <2>4, <2>5
<1>15. ASSUME CloseIssue(e) PROVE Goal
  <2>1. /\ h.pc = "closeIssue" /\ k.pc = "sync" /\ k.back = "readAlert"
        /\ UNCHANGED alert
        /\ issue' = [issue EXCEPT ![h.issue].status = "resolved"]
    BY <1>0, <1>15, CloseIssueView DEF Moved, CloseIssue
  <2>2. h.issue \in Issue
    BY <1>0, <2>1 DEF Relies, Opened
  <2>3. /\ issue'[h.issue].status = "resolved"
        /\ \A i \in Issue : i # h.issue => issue'[i] = issue[i]
    BY <1>0, <2>1, <2>2 DEF TypeInv, TypeOK, IssueRow
  <2>4. OpenIssues(t)' = OpenIssues(t) \ {h.issue}
    BY <2>3 DEF OpenIssues, OpenStatus
  <2>5. ActiveAlerts(t)' = ActiveAlerts(t)
    BY <2>1 DEF ActiveAlerts
  <2>6. Linked(t)'
    <3>1. CASE issue[h.issue].type = t
      <4>1. OpenIssues(t)' = {} /\ ActiveAlerts(t)' = {}
        BY <2>1, <2>4, <2>5, <3>1 DEF LinksKey, Pending, Closing
      <4> QED
        BY <4>1 DEF Linked
    <3>2. CASE issue[h.issue].type # t
      <4>1. Linked(t) /\ OpenIssues(t)' = OpenIssues(t)
        BY <2>1, <2>4, <3>2 DEF LinksKey, Pending, Closing, HasIssue, OpenIssues
      <4> QED
        BY <2>1, <2>5, <4>1 DEF Linked
    <3> QED
      BY <3>1, <3>2
  <2> QED
    BY <1>2, <2>1, <2>6 DEF HasIssue
<1>16. ~SkipStaleReplay(e) /\ ~Conflict(e) /\ ~Starts(e)
  BY <1>0, NoConflict DEF SkipStaleReplay, Starts, Process, InFlight
<1> QED
  BY <1>4, <1>5, <1>6, <1>7, <1>8, <1>9, <1>10, <1>11, <1>12, <1>13, <1>14, <1>15,
     <1>16 DEF EventStep, Starts

\* Failures are counted and never forgotten.
LEMMA FailuresStep ==
    ASSUME TypeInv, [Next]_vars, failures' = 0
    PROVE  failures = 0 /\ ~Throw
<1>1. failures \in Nat
  BY AlertAssumption DEF TypeInv, TypeOK
<1>2. Throw => failures' = failures + 1
  BY DEF Throw
<1>3. ASSUME NEW e \in Event, EventStep(e) PROVE failures' = failures
  BY <1>3 DEF EventStep, Process, SkipStaleReplay, FindActiveAlert, FindOpenIssue, CreateIssue,
     SyncOpenIssueCounts, UpdateAlert, CreateAlert, NotifyAlert, ListActiveAlerts,
     ReadAlert, ResolveAlert, ReadIssue, CloseIssue, Conflict, crashes
<1>4. ASSUME NEW o \in Operator, OperatorStep(o) PROVE failures' = failures
  BY <1>4 DEF OperatorStep, TransitionIssue, ReadForAssign, AssignIssue, OperatorSync, crashes
<1>5. UNCHANGED vars => failures' = failures
  BY DEF vars, crashes
<1> QED
  BY <1>1, <1>2, <1>3, <1>4, <1>5 DEF Next

\* With no event in flight nothing that is said of a clean key changes.
LEMMA LinkedAtRest ==
    ASSUME TypeInv, [Next]_vars, InFlight = {}, NEW t, Clean(t)', Linked(t)
    PROVE  Linked(t)'
<1>1. UNCHANGED alert
  BY AlertsAtRest
<1>2. OpenIssues(t)' = OpenIssues(t)
  BY OpenIssuesKept DEF InFlight, CreateIssue, CloseIssue
<1> QED
  BY <1>1, <1>2 DEF Linked, ActiveAlerts

\* The open issues of a clean key stay those of its active alerts.
LEMMA KeyLinkedStep ==
    ASSUME MaxInFlight = 1, OneAtATime, [Next]_vars, ~Throw,
           NEW t \in AlertType, Clean(t)', KeyLinked(t)
    PROVE  KeyLinked(t)'
<1>0. /\ AlertInv /\ TypeInv /\ RoomKept /\ LatestAlone /\ RowsPersist /\ OneAtATime'
      /\ \A e \in Event : CreateIssue(e) \/ CloseIssue(e) => e \in InFlight
  <2>1. \A e \in Event : CreateIssue(e) \/ CloseIssue(e) => e \in InFlight
    BY DEF InFlight, CreateIssue, CloseIssue
  <2> QED
    BY <2>1, Persistence, OneAtATimeStep DEF OneAtATime, UndisturbedFollow, AlertInv
<1>1. ASSUME NEW e \in InFlight' PROVE LinksKey(e, t)'
  <2>0. e \in Event
    BY DEF InFlight
  <2>1. ASSUME InFlight = {}, Starts(e)
        PROVE  LinksKey(e, t)'
    <3>1. Linked(t)'
      BY <1>0, <2>1, LinkedAtRest DEF KeyLinked
    <3>2. handler'[e].pc \in {"list", "findAlert"}
      BY <1>0, <2>0, <2>1, ProcessView DEF Moved, Starts
    <3> QED
      BY <3>1, <3>2 DEF LinksKey, Pending, Closing, HasIssue
  <2>2. ASSUME e \in InFlight, handler'[e] = handler[e], UNCHANGED <<alert, latest, rung>>
        PROVE  LinksKey(e, t)'
    <3>1. ASSUME NEW f \in Event PROVE ~CreateIssue(f) /\ ~CloseIssue(f)
      <4> SUFFICES ASSUME CreateIssue(f) \/ CloseIssue(f) PROVE FALSE
        OBVIOUS
      <4>1. f = e
        BY <1>0, <2>2, Alone
      <4>2. handler'[e].pc = "sync"
        BY <1>0, <4>1, CreateIssueView, CloseIssueView DEF Moved
      <4> QED
        BY <2>2, <4>1, <4>2 DEF CreateIssue, CloseIssue
    <3>2. OpenIssues(t)' = OpenIssues(t)
      BY <1>0, <3>1, OpenIssuesKept
    <3> QED
      BY <1>0, <2>0, <2>2, <3>2, LinksKept DEF KeyLinked
  <2>3. ASSUME e \in InFlight, EventStep(e) PROVE LinksKey(e, t)'
    BY <2>3, LinksStep DEF KeyLinked
  <2>4. Undisturbed(e)'
    BY <1>0 DEF OneAtATime, UndisturbedFollow, LatestAlone, Undisturbed
  <2> QED
    BY <1>0, <2>1, <2>2, <2>3, <2>4, InFlightCases
<1>2. ASSUME InFlight' = {} PROVE Linked(t)'
  <2>1. CASE InFlight = {}
    BY <1>0, <2>1, LinkedAtRest DEF KeyLinked
  <2>2. ASSUME NEW e \in InFlight PROVE Linked(t)'
    <3>0. e \in Event /\ Follows(e)
      BY Alone DEF InFlight
    <3>1. handler'[e] # handler[e]
      BY <1>2, <2>2 DEF InFlight
    <3>2. EventStep(e) /\ ~Conflict(e)
      <4>1. Undisturbed(e) /\ Undisturbed(e)'
        BY <1>0, Alone, NoneStarts DEF Undisturbed
      <4> QED
        BY <1>0, <3>0, <3>1, <4>1, OthersWait, NoConflict
    <3>3. handler'[e].pc = "done"
      <4>1. handler'[e].pc \in {"new", "done", "failed"}
        BY <1>2, <3>0 DEF InFlight
      <4> QED
        BY <1>0, <3>0, <3>2, <4>1, Arrives
    <3> QED
      BY <2>2, <3>2, <3>3, LinksStep DEF KeyLinked
  <2> QED
    BY <2>1, <2>2
<1> QED
  BY <1>1, <1>2 DEF KeyLinked

\* At the start no alert and no issue is in use.
LEMMA LinkInit ==
    ASSUME Init
    PROVE  TouchedOpened /\ CleanKeysLinked
<1>1. \A t : OpenIssues(t) = {} /\ ActiveAlerts(t) = {}
  BY DEF Init, OpenIssues, ActiveAlerts, OpenStatus, Active
<1>2. \A t : Linked(t)
  BY <1>1 DEF Linked
<1>3. TouchedOpened
  BY DEF Init, TouchedOpened, Request
<1> QED
  BY <1>2, <1>3, UndisturbedInit DEF CleanKeysLinked, KeyLinked

\* When events come one at a time and nothing throws, the issues of a key
\* whose issues no operator wrote to are open exactly while the active alert
\* of the key refers to them, for any number of operators that assign and move
\* the issues of other keys meanwhile (createIssue, autoResolveDeviceAlerts).
THEOREM IssuesFollow ==
    ASSUME MaxInFlight = 1
    PROVE  Spec => []IssuesFollowAlerts
<1> DEFINE Inv == OneAtATime /\ TouchedOpened /\ CleanKeysLinked
<1>1. Init => Inv
  BY UndisturbedInit, LinkInit DEF OneAtATime
<1>2. Inv /\ [Next]_vars => Inv'
  <2> SUFFICES ASSUME Inv, [Next]_vars PROVE Inv'
    OBVIOUS
  <2>1. AlertInv /\ TypeInv /\ RowsPersist
    BY Persistence DEF OneAtATime, UndisturbedFollow, AlertInv
  <2>2. OneAtATime' /\ TouchedOpened'
    BY <2>1, OneAtATimeStep, TouchedOpenedStep
  <2>3. ASSUME failures' = 0, NEW t \in AlertType, Clean(t)' PROVE KeyLinked(t)'
    <3>1. failures = 0 /\ ~Throw /\ Clean(t)
      BY <2>1, <2>3, FailuresStep, CleanBefore
    <3> QED
      BY <2>3, <3>1, KeyLinkedStep DEF CleanKeysLinked
  <2> QED
    BY <2>2, <2>3 DEF CleanKeysLinked
<1>3. Inv => IssuesFollowAlerts
  <2> SUFFICES ASSUME Inv, AtRest, failures = 0, NEW i \in Issue, issue[i].status # "absent",
                      \A j \in touched : issue[j].type # issue[i].type
               PROVE  issue[i].status \in OpenStatus
                      <=> \E a \in ActiveAlerts(issue[i].type) : alert[a].issue = i
    BY DEF IssuesFollowAlerts
  <2>1. issue[i].type \in AlertType
    BY DEF OneAtATime, UndisturbedFollow, AlertInv, TypeInv, TypeOK, IssueRow
  <2>2. Linked(issue[i].type)
    BY <2>1 DEF CleanKeysLinked, KeyLinked, Clean, AtRest
  <2>3. issue[i].status \in OpenStatus <=> i \in OpenIssues(issue[i].type)
    BY DEF OpenIssues
  <2> QED
    BY <2>2, <2>3 DEF Linked
<1> QED
  BY <1>1, <1>2, <1>3, PTL DEF Spec
=============================================================================

----------------------------- MODULE ApprovalGate ------------------------------
(***************************************************************************)
(* What the controls component promises about the approval of executions,  *)
(* with no policy rows, no guardrails and no interleaving handlers: a      *)
(* request is closed at once, or waits for a quorum of distinct approvers, *)
(* and only with that quorum is it released and finished.  The quorum may  *)
(* be lowered while a request waits.                                       *)
(***************************************************************************)
EXTENDS Naturals, FiniteSets

CONSTANTS Execution, Approver

VARIABLES
    gate,    \* where each execution stands
    votes,   \* the approvers of each execution
    quorum   \* the number of approvers each execution needs

gateVars == <<gate, votes, quorum>>

GateState == {"absent", "closed", "waiting", "released", "finished"}

GateTypeOK ==
    /\ gate \in [Execution -> GateState]
    /\ votes \in [Execution -> SUBSET Approver]
    /\ quorum \in [Execution -> Nat]

GateInit ==
    /\ gate = [e \in Execution |-> "absent"]
    /\ votes = [e \in Execution |-> {}]
    /\ quorum = [e \in Execution |-> 0]

HasQuorum(e) == Cardinality(votes[e]) >= quorum[e]

\* A request enters the gate; it is released at once only if it needs nobody.
Enter(e) ==
    /\ gate[e] = "absent"
    /\ quorum'[e] \in Nat
    /\ quorum' = [quorum EXCEPT ![e] = quorum'[e]]
    /\ \/ gate' = [gate EXCEPT ![e] = "closed"]
       \/ gate' = [gate EXCEPT ![e] = "waiting"]
       \/ quorum'[e] = 0 /\ gate' = [gate EXCEPT ![e] = "released"]
    /\ UNCHANGED votes

\* An approval is counted once per approver, and never for a closed request.
Vote(e, approver) ==
    /\ gate[e] \in {"waiting", "released", "finished"}
    /\ votes' = [votes EXCEPT ![e] = @ \cup {approver}]
    /\ UNCHANGED <<gate, quorum>>

\* The quorums of requests in the gate are lowered, never raised.
LowerQuorum ==
    /\ quorum' \in [Execution -> Nat]
    /\ \A e \in Execution : /\ quorum'[e] <= quorum[e]
                            /\ gate[e] = "absent" => quorum'[e] = quorum[e]
    /\ UNCHANGED <<gate, votes>>

\* A late approval may release a finished request once more.
Release(e) ==
    /\ gate[e] \in {"waiting", "finished"}
    /\ HasQuorum(e)
    /\ gate' = [gate EXCEPT ![e] = "released"]
    /\ UNCHANGED <<votes, quorum>>

Finish(e) ==
    /\ gate[e] = "released"
    /\ gate' = [gate EXCEPT ![e] = "finished"]
    /\ UNCHANGED <<votes, quorum>>

GateNext ==
    \/ \E e \in Execution :
          \/ Enter(e) \/ Release(e) \/ Finish(e)
          \/ \E approver \in Approver : Vote(e, approver)
    \/ LowerQuorum

GateSpec == GateInit /\ [][GateNext]_gateVars

\* What the gate is for: nothing passes without its quorum.
NothingPassesWithoutQuorum ==
    \A e \in Execution : gate[e] \in {"released", "finished"} => HasQuorum(e)
=============================================================================

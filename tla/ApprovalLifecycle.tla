-------------------------- MODULE ApprovalLifecycle --------------------------
(***************************************************************************)
(* What the approval workflow promises, without its database, its handlers *)
(* or their failures: an action is requested, an administrator decides     *)
(* once, an approved action is performed at most once, and it is reported  *)
(* as executed only after it was performed.                                *)
(***************************************************************************)
CONSTANTS
    Approvals,     \* requests for approval
    Executions     \* calls that perform a request; x.id is the request

VARIABLES
    decision,      \* [Approvals -> Decisions]
    performed,     \* the executions whose tool ran
    completed      \* the requests reported as executed

vars == <<decision, performed, completed>>

Verdicts  == {"APPROVED", "REJECTED"}
Decisions == {"none", "PENDING"} \cup Verdicts

Init ==
    /\ decision = [a \in Approvals |-> "none"]
    /\ performed = {}
    /\ completed = {}

Request(a) ==
    /\ decision[a] = "none"
    /\ decision' = [decision EXCEPT ![a] = "PENDING"]
    /\ UNCHANGED <<performed, completed>>

Decide(a, verdict) ==
    /\ decision[a] = "PENDING"
    /\ decision' = [decision EXCEPT ![a] = verdict]
    /\ UNCHANGED <<performed, completed>>

Perform(x) ==
    /\ decision[x.id] = "APPROVED"
    /\ \A y \in performed : y.id # x.id
    /\ performed' = performed \cup {x}
    /\ UNCHANGED <<decision, completed>>

Complete(a) ==
    /\ a \notin completed
    /\ \E x \in performed : x.id = a
    /\ completed' = completed \cup {a}
    /\ UNCHANGED <<decision, performed>>

Next ==
    \/ \E a \in Approvals :
          \/ Request(a)
          \/ \E verdict \in Verdicts : Decide(a, verdict)
          \/ Complete(a)
    \/ \E x \in Executions : Perform(x)

LifecycleSpec == Init /\ [][Next]_vars
==============================================================================

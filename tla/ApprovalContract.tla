-------------------------- MODULE ApprovalContract --------------------------
(***************************************************************************)
(* What the approval registry promises the person who approves, without    *)
(* threads, console sessions or command plans.                             *)
(*                                                                         *)
(* At most one preview is open.  A preview is withdrawn, or granted once;  *)
(* only a granted one writes to the show; it is concluded once, and one    *)
(* that is verified by readback is not called EXECUTED unless it wrote.    *)
(***************************************************************************)
CONSTANT Ids

VARIABLES
    state,     \* where each action is in its life
    verified,  \* actions whose success needs a native readback
    written    \* actions that have stored something in the show

vars == <<state, verified, written>>

Init ==
    /\ state = [i \in Ids |-> "NONE"]
    /\ verified \in SUBSET Ids
    /\ written = {}

\* A request is taken while no plan executes and withdraws the open preview.
Propose(i) ==
    /\ state[i] = "NONE"
    /\ \A j \in Ids : state[j] # "APPROVED"
    /\ state' = [j \in Ids |->
                   CASE j = i -> "PENDING_APPROVAL"
                     [] j # i /\ state[j] = "PENDING_APPROVAL" -> "CANCELLED"
                     [] OTHER -> state[j]]
    /\ UNCHANGED <<verified, written>>

Withdraw(i) ==
    /\ state[i] = "PENDING_APPROVAL"
    /\ state' = [state EXCEPT ![i] = "CANCELLED"]
    /\ UNCHANGED <<verified, written>>

Grant(i) ==
    /\ state[i] = "PENDING_APPROVAL"
    /\ state' = [state EXCEPT ![i] = "APPROVED"]
    /\ UNCHANGED <<verified, written>>

Write(i) ==
    /\ state[i] = "APPROVED"
    /\ written' = written \cup {i}
    /\ UNCHANGED <<state, verified>>

Conclude(i, outcome) ==
    /\ state[i] = "APPROVED"
    /\ outcome = "EXECUTED" /\ i \in verified => i \in written
    /\ state' = [state EXCEPT ![i] = outcome]
    /\ UNCHANGED <<verified, written>>

Next ==
    \E i \in Ids : \/ Propose(i) \/ Withdraw(i) \/ Grant(i) \/ Write(i)
                   \/ \E outcome \in {"EXECUTED", "FAILED"} : Conclude(i, outcome)

Spec == Init /\ [][Next]_vars

=============================================================================

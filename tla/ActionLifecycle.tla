-------------------------- MODULE ActionLifecycle --------------------------
(***************************************************************************)
(* What the action service promises of a proposed action, whatever the     *)
(* interleaving of requests: a decision first, then one reservation, under *)
(* it at most one mutation of the provider's document, and an outcome that *)
(* tells whether the mutation was made.  Expiry may overtake a reservation *)
(* but not cancel it.  ActionService implements this specification.        *)
(***************************************************************************)
EXTENDS Naturals

CONSTANT Actions

VARIABLES
    status,     \* lifecycle status, "ABSENT" before the proposal
    reserved,   \* an apply request holds the action
    mutations   \* provider mutations made for the action

vars == <<status, reserved, mutations>>

Undecided == {"PROPOSED", "APPROVED"}

Init ==
    /\ status = [a \in Actions |-> "ABSENT"]
    /\ reserved = [a \in Actions |-> FALSE]
    /\ mutations = [a \in Actions |-> 0]

Becomes(a, s) == status' = [status EXCEPT ![a] = s]

Propose(a) ==
    /\ status[a] = "ABSENT"
    /\ Becomes(a, "PROPOSED")
    /\ UNCHANGED <<reserved, mutations>>

Approve(a) ==
    /\ status[a] = "PROPOSED"
    /\ Becomes(a, "APPROVED")
    /\ UNCHANGED <<reserved, mutations>>

Reject(a) ==
    /\ status[a] \in Undecided
    /\ ~reserved[a]
    /\ Becomes(a, "REJECTED")
    /\ UNCHANGED <<reserved, mutations>>

Expire(a) ==
    /\ status[a] \in Undecided
    /\ Becomes(a, "EXPIRED")
    /\ UNCHANGED <<reserved, mutations>>

Reserve(a) ==
    /\ status[a] = "APPROVED"
    /\ ~reserved[a]
    /\ reserved' = [reserved EXCEPT ![a] = TRUE]
    /\ UNCHANGED <<status, mutations>>

Mutate(a) ==
    /\ reserved[a]
    /\ mutations[a] = 0
    /\ mutations' = [mutations EXCEPT ![a] = 1]
    /\ UNCHANGED <<status, reserved>>

(* FAILED is the only outcome that leaves open whether the mutation was     *)
(* made.                                                                    *)
Resolve(a, outcome) ==
    /\ reserved[a]
    /\ outcome = "APPLIED" => mutations[a] = 1
    /\ outcome = "CONFLICTED" => mutations[a] = 0
    /\ Becomes(a, outcome)
    /\ reserved' = [reserved EXCEPT ![a] = FALSE]
    /\ UNCHANGED mutations

Next ==
    \E a \in Actions :
        \/ Propose(a)
        \/ Approve(a)
        \/ Reject(a)
        \/ Expire(a)
        \/ Reserve(a)
        \/ Mutate(a)
        \/ \E outcome \in {"APPLIED", "CONFLICTED", "FAILED"} : Resolve(a, outcome)

Spec == Init /\ [][Next]_vars

=============================================================================

----------------------------- MODULE EventQueue -----------------------------
(***************************************************************************)
(* What the outbox promises its users, with no worker, lock, batch or      *)
(* transaction in sight: every event on its own is published, may be acted *)
(* on any number of times while it is pending, and is settled once.  It is *)
(* acknowledged only after somebody acted on it, parked only when it has   *)
(* been tried MaxAttempts times.  Several events may move in one step.     *)
(***************************************************************************)
EXTENDS Naturals

CONSTANTS Events, MaxAttempts

VARIABLES
    state,     \* the life of an event
    attempts,  \* attempts charged to it
    acted      \* whether a consumer ever acted on it

qvars == <<state, attempts, acted>>

QInit ==
    /\ state = [e \in Events |-> "none"]
    /\ attempts = [e \in Events |-> 0]
    /\ acted = [e \in Events |-> FALSE]

Stay(e) ==
    /\ state'[e] = state[e]
    /\ attempts'[e] = attempts[e]
    /\ acted'[e] = acted[e]

Publish(e) ==
    /\ state[e] = "none" /\ state'[e] = "pending"
    /\ attempts'[e] = attempts[e]
    /\ acted'[e] = acted[e]

\* A consumer acts on the event; nothing is charged or acknowledged yet.
Act(e) ==
    /\ state[e] = "pending" /\ state'[e] = "pending"
    /\ attempts'[e] = attempts[e]
    /\ acted'[e]

Charge(e, to) ==
    /\ state[e] = "pending" /\ state'[e] = to
    /\ attempts'[e] = attempts[e] + 1
    /\ acted'[e] = acted[e]

Acknowledge(e) == acted[e] /\ Charge(e, "sent")
Discard(e)     == Charge(e, "discarded")
Retry(e)       == attempts[e] + 1 < MaxAttempts /\ Charge(e, "pending")
Park(e)        == attempts[e] + 1 = MaxAttempts /\ Charge(e, "failed")

Remove(e) ==
    /\ state[e] \in {"pending", "sent", "failed", "discarded"}
    /\ state'[e] = "purged"
    /\ attempts'[e] = attempts[e]
    /\ acted'[e] = acted[e]

Move(e) ==
    \/ Stay(e) \/ Publish(e) \/ Act(e) \/ Acknowledge(e) \/ Discard(e)
    \/ Retry(e) \/ Park(e) \/ Remove(e)

QNext ==
    /\ \A e \in Events : Move(e)
    /\ DOMAIN state' = Events /\ DOMAIN attempts' = Events /\ DOMAIN acted' = Events

QSpec == QInit /\ [][QNext]_qvars
=============================================================================

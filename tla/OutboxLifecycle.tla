-------------------------- MODULE OutboxLifecycle --------------------------
(***************************************************************************)
(* What the schema promises of an occurrence in the lifecycle outbox: the  *)
(* trigger core_lifecycle_outbox_transition_guard of migration 0019.  An   *)
(* update it does not accept is aborted, so a delivery whose steps all     *)
(* implement this module never meets an abort.                             *)
(***************************************************************************)
EXTENDS Naturals

CONSTANT Occurrences

VARIABLES
    status,    \* occurrence -> status column, "absent" before the insert
    attempts,  \* occurrence -> delivery_attempts column
    lease      \* occurrence -> lease_until column

Init ==
    /\ status = [o \in Occurrences |-> "absent"]
    /\ attempts = [o \in Occurrences |-> 0]

Insert(o) ==
    status[o] = "absent" /\ status'[o] = "pending" /\ attempts'[o] = 0

Claim(o) ==
    /\ status[o] \in {"pending", "claimed"}
    /\ status'[o] = "claimed"
    /\ attempts'[o] = attempts[o] + 1

Settle(o) ==
    /\ status[o] = "claimed"
    /\ status'[o] \in {"pending", "acknowledged"}
    /\ attempts'[o] = attempts[o]

\* The trigger fires on any update, so a row at rest is not written at all.
Rest(o) ==
    /\ status'[o] = status[o]
    /\ attempts'[o] = attempts[o]
    /\ lease'[o] = lease[o]

\* A statement may write several rows; each write is checked by itself.
Write == \A o \in Occurrences : Insert(o) \/ Claim(o) \/ Settle(o) \/ Rest(o)

Spec == Init /\ [][Write]_<<status, attempts, lease>>
===========================================================================

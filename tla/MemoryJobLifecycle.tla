------------------------ MODULE MemoryJobLifecycle ------------------------
(***************************************************************************)
(* What the schema promises of a memory job, whatever code writes to it:   *)
(* the triggers memory_jobs_initial_state_guard and                        *)
(* memory_jobs_revision_guard of migration 0015.  A statement they do not  *)
(* accept is aborted, so a queue whose steps all implement this module     *)
(* never meets an abort.                                                   *)
(***************************************************************************)
EXTENDS Naturals

CONSTANT Keys

VARIABLES
    state,     \* key -> state column, "absent" before the insert
    revision   \* key -> revision column, 0 before the insert

LegalMoves ==
    [absent      |-> {"queued"},
     queued      |-> {"running", "failed", "cancelled"},
     running     |-> {"interrupted", "succeeded", "failed", "cancelled"},
     interrupted |-> {"queued", "cancelled"},
     succeeded   |-> {},
     failed      |-> {},
     cancelled   |-> {}]

Init ==
    /\ state = [k \in Keys |-> "absent"]
    /\ revision = [k \in Keys |-> 0]

Moves(k) ==
    /\ state'[k] \in LegalMoves[state[k]]
    /\ revision'[k] = revision[k] + 1

Rests(k) == state'[k] = state[k] /\ revision'[k] = revision[k]

\* One transaction may write several rows; each write is checked by itself.
Write == \A k \in Keys : Moves(k) \/ Rests(k)

Spec == Init /\ [][Write]_<<state, revision>>
===========================================================================

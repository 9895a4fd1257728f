------------------------- MODULE CredentialJournal -------------------------
(***************************************************************************)
(* The journal row of one provider credential operation and the            *)
(* transactions of the credential repository, as functions of the row.     *)
(*                                                                         *)
(* A native vault cannot take part in a SQLite transaction, so every       *)
(* native effect is bracketed by journal writes.  A row carries the plan   *)
(* (kind, the slot the operation acts on, the predecessor slot it          *)
(* replaces), the preflight observation, the status, and a summary of the  *)
(* append-only attestations: the outcome's slot status, the cleanup        *)
(* intents, the predecessor evidence and the two durability obligations.   *)
(* Slot 0 is the raw slot of a connection that no authority owns; slot n   *)
(* is derived from installation authority n.                               *)
(*                                                                         *)
(* A transaction the repository refuses leaves the row as it was, so the   *)
(* operators below return the row unchanged where the code returns Err.    *)
(* A connection's binding is immutable (upsert_provider_connection_row     *)
(* rejects any change), so the drift branch of finish is not modelled.     *)
(***************************************************************************)
EXTENDS Naturals

RawSlot == 0

Kinds == {"install", "remove_credential", "remove_for_archive"}

Observations == {"missing", "available", "unreadable"}

Statuses == {"none", "prepared", "started", "succeeded", "no_effect",
             "cleanup_required", "outcome_unknown"}

Codes == {"none", "confirmed", "absent", "unreadable", "durability_unknown",
          "predecessor_durability_unknown", "changed", "archive_failed"}

Unresolved(op) ==
    op.status \in {"prepared", "started", "cleanup_required", "outcome_unknown"}

Terminal(op) == op.status \in {"succeeded", "no_effect"}

NoOperation ==
    [kind |-> "install", slot |-> RawSlot, pred |-> RawSlot,
     preflight |-> "missing", started |-> FALSE,
     status |-> "none", code |-> "none", attested |-> "missing",
     intents |-> {}, predIntent |-> FALSE, predMissing |-> FALSE,
     slotBarrier |-> FALSE, predBarrier |-> FALSE]

HasPredecessor(op) == op.kind = "install" /\ op.pred # RawSlot

Barrier(op) == op.slotBarrier \/ op.predBarrier

ArchiveIntent(op) == "archive" \in op.intents

(* A row as prepare_..._with_install_authority inserts it. *)
Prepared(kind, slot, pred, preflight) ==
    [NoOperation EXCEPT !.kind = kind, !.slot = slot, !.pred = pred,
                        !.preflight = preflight, !.status = "prepared"]

Recorded(op, status, code, observed) ==
    [op EXCEPT !.status = status, !.code = code, !.attested = observed]

(* An unreadable preflight is attested and left unknown in the same        *)
(* transaction.                                                            *)
PreparedRemoval(kind, slot, preflight) ==
    LET op == Prepared(kind, slot, slot, preflight)
    IN  IF preflight = "unreadable"
          THEN Recorded(op, "outcome_unknown", "unreadable", "unreadable")
          ELSE op

Started(op) == [op EXCEPT !.status = "started", !.started = TRUE]

-----------------------------------------------------------------------------
(* What an observation after the cutpoint says of the operation.           *)

(* provider_credential_terminal_outcome *)
ObservedOutcome(op, observed) ==
    CASE observed = "unreadable" -> <<"outcome_unknown", "unreadable">>
      [] op.kind = "install" /\ observed = "missing" ->
           IF op.started /\ HasPredecessor(op)
             THEN <<"outcome_unknown", "changed">>
             ELSE <<"no_effect", "absent">>
      [] op.kind = "install" /\ observed = "available" ->
           IF op.started THEN <<"succeeded", "confirmed">>
                         ELSE <<"outcome_unknown", "confirmed">>
      [] op.kind # "install" /\ op.started /\ observed = "missing" ->
           <<"succeeded", "confirmed">>
      [] op.kind # "install" /\ op.started /\ observed = "available" ->
           <<"outcome_unknown", "changed">>
      [] op.kind # "install" /\ ~op.started /\ observed = "missing" ->
           <<"no_effect", IF op.preflight = "missing" THEN "absent" ELSE "changed">>
      [] OTHER ->
           IF op.preflight = "available" THEN <<"no_effect", "absent">>
                                         ELSE <<"outcome_unknown", "changed">>

(* terminal_observation_with_explicit_cleanup *)
Outcome(op, observed) ==
    CASE HasPredecessor(op) /\ observed = "available" /\ ~op.predMissing ->
           <<"outcome_unknown", "changed">>
      [] /\ op.status = "cleanup_required"
         /\ op.kind = "install"
         /\ observed = "missing"
         /\ op.intents # {}
         /\ HasPredecessor(op) => op.predMissing ->
           <<"no_effect", "changed">>
      [] OTHER -> ObservedOutcome(op, observed)

(* require_replacement_cleanup_predecessor_missing *)
PredecessorUnproved(op) ==
    /\ op.status = "cleanup_required"
    /\ HasPredecessor(op)
    /\ ~(op.predIntent /\ op.predMissing)

(* provider_credential_archive_native_no_effect returns Ok *)
ArchiveReady(op) ==
    \/ /\ ~op.started
       /\ \/ op.preflight = "missing"
          \/ /\ ArchiveIntent(op)
             /\ op.status = "cleanup_required"
             /\ op.code \in {"changed", "archive_failed"}
       /\ op.status \in {"prepared", "cleanup_required", "outcome_unknown"}
    \/ /\ op.started
       /\ op.status \in {"started", "cleanup_required", "outcome_unknown"}

ArchiveKind(op) == op.kind = "remove_for_archive" \/ ArchiveIntent(op)

(* finish_provider_credential_operation_at_stage returns early or Err *)
FinishRefused(op, observed) ==
    \/ ~Unresolved(op)
    \/ Barrier(op)
    \/ op.status = "cleanup_required" /\ observed # "missing"
    \/ observed = "missing" /\ ArchiveKind(op) /\ ArchiveReady(op)
    \/ PredecessorUnproved(op)
    \/ Outcome(op, observed) = <<op.status, op.code>>

Finish(op, observed) ==
    IF FinishRefused(op, observed)
      THEN op
      ELSE Recorded(op, Outcome(op, observed)[1], Outcome(op, observed)[2], observed)

ArchiveRefused(op) ==
    \/ ~Unresolved(op)
    \/ ~ArchiveKind(op)
    \/ Barrier(op)
    \/ PredecessorUnproved(op)
    \/ ~ArchiveReady(op)
    \/ Outcome(op, "missing")[1] \notin {"succeeded", "no_effect"}

FinishArchive(op) ==
    IF ArchiveRefused(op)
      THEN op
      ELSE Recorded(op, Outcome(op, "missing")[1], Outcome(op, "missing")[2], "missing")

(* record_provider_credential_archive_commit_failed, after the archive     *)
(* transaction was rolled back.                                            *)
ArchiveFailed(op) ==
    IF /\ ~ArchiveRefused(op)
       /\ ~(op.status = "cleanup_required" /\ op.code = "archive_failed")
       /\ \/ op.started
          \/ op.status = "prepared"
          \/ ArchiveIntent(op) /\ op.status = "cleanup_required" /\ op.code = "changed"
      THEN Recorded(op, "cleanup_required", "archive_failed", "missing")
      ELSE op

-----------------------------------------------------------------------------
(* Cleanup intents, durability obligations and predecessor evidence.       *)

Intent(archive) == IF archive THEN "archive" ELSE "remove"

(* mark_provider_credential_cleanup_required_with_outcome *)
MarkCleanup(op, code, observed, archive) ==
    [Recorded(op, "cleanup_required", code, observed)
       EXCEPT !.intents = @ \cup {Intent(archive)},
              !.started = @ \/ observed # "missing"]

MarkSlotBarrier(op, archive) ==
    [MarkCleanup(op, "durability_unknown", "unreadable", archive)
       EXCEPT !.slotBarrier = TRUE]

MarkPredecessorBarrier(op, archive) ==
    [MarkCleanup(op, "predecessor_durability_unknown", "unreadable", archive)
       EXCEPT !.predBarrier = TRUE]

(* fence_started_provider_credential_operation_for_recovery: the           *)
(* obligation names the slot whose native effect was in flight.            *)
Fence(op) ==
    IF HasPredecessor(op) /\ op.predIntent /\ ~op.predMissing
      THEN MarkPredecessorBarrier(op, ArchiveIntent(op))
      ELSE MarkSlotBarrier(op, ArchiveIntent(op))

(* persist_explicit_cleanup_intent *)
MarkExplicitCleanup(op, observed, archive) ==
    CASE op.slotBarrier -> MarkSlotBarrier(op, archive)
      [] ~op.slotBarrier /\ op.predBarrier -> MarkPredecessorBarrier(op, archive)
      [] OTHER -> MarkCleanup(op,
                              IF observed = "unreadable" THEN "unreadable" ELSE "changed",
                              observed, archive)

(* attest_provider_credential_durability_repaired_for_target: the status   *)
(* moves only when no other obligation is left.                            *)
Repaired(op) ==
    IF Barrier(op) THEN op ELSE Recorded(op, "cleanup_required", "changed", "missing")

(* Mutant of RepairSlot: the repair is attested, the obligation stays.     *)
RepairSlotKeepsBarrier(op) == Repaired(op)

RepairSlot(op) == Repaired([op EXCEPT !.slotBarrier = FALSE])

RepairPredecessor(op) == Repaired([op EXCEPT !.predBarrier = FALSE])

AttestPredecessorIntent(op) == [op EXCEPT !.predIntent = TRUE]

AttestPredecessorMissing(op) == [op EXCEPT !.predMissing = TRUE]

-----------------------------------------------------------------------------
(* The ownership projection of update_operation_status.                    *)

(* A settled cleanup, and a removal that found nothing, both say that the  *)
(* connection owns no credential.                                          *)
ProjectsRemoval(op, settled) ==
    \/ op.status = "cleanup_required" /\ op.intents # {} /\ Terminal(settled)
    \/ /\ settled.status = "no_effect"
       /\ op.kind # "install"
       /\ settled.attested = "missing"
    \/ settled.status = "succeeded" /\ op.kind # "install"

(* Mutant of ProjectsInstall: an installation without effect owns its slot. *)
ProjectsInstallWithoutEffect(op, settled) ==
    Terminal(settled) /\ op.kind = "install" /\ ~ProjectsRemoval(op, settled)

ProjectsInstall(op, settled) ==
    /\ settled.status = "succeeded"
    /\ op.kind = "install"
    /\ ~ProjectsRemoval(op, settled)

OwnershipAfter(op, settled, ownership) ==
    CASE settled = op -> ownership
      [] settled # op /\ ProjectsRemoval(op, settled) ->
           [state |-> "removed", slot |-> RawSlot]
      [] settled # op /\ ProjectsInstall(op, settled) ->
           [state |-> "owned", slot |-> op.slot]
      [] OTHER -> ownership

-----------------------------------------------------------------------------
(* What the schema and the row decoder demand of a row.                    *)

(* provider_credential_outcome_matches_attestation *)
OutcomeMatchesAttestation(op) ==
    CASE op.status = "succeeded" ->
           /\ op.code = "confirmed"
           /\ op.started
           /\ op.attested = IF op.kind = "install" THEN "available" ELSE "missing"
      [] op.status = "no_effect" /\ op.code = "absent" ->
           IF op.kind = "install"
             THEN op.attested = "missing" /\ ~(op.started /\ HasPredecessor(op))
             ELSE /\ ~op.started
                  /\ op.preflight \in {"missing", "available"}
                  /\ op.attested = op.preflight
      [] op.status = "no_effect" /\ op.code # "absent" ->
           op.code = "changed" /\ op.attested = "missing"
      [] op.status = "cleanup_required" ->
           CASE op.code = "changed" -> op.attested \in {"missing", "available"}
             [] op.code = "archive_failed" -> op.attested = "missing" /\ ArchiveKind(op)
             [] OTHER -> /\ op.code \in {"unreadable", "durability_unknown",
                                         "predecessor_durability_unknown"}
                         /\ op.attested = "unreadable"
      [] op.status = "outcome_unknown" ->
           CASE op.code = "unreadable" -> op.attested = "unreadable"
             [] op.code = "confirmed" -> op.attested = "available"
             [] OTHER -> /\ op.code = "changed"
                         /\ \/ op.attested = "available"
                            \/ HasPredecessor(op) /\ op.started /\ op.attested = "missing"
      [] OTHER -> op.code = "none"

(* validate_operation_evidence, validate_record_shape and                  *)
(* apply_provider_credential_durability_ledger accept the row.             *)
Decodes(op) ==
    /\ OutcomeMatchesAttestation(op)
    /\ op.status \in {"none", "prepared"} => ~op.started
    /\ op.status = "started" => op.started
    /\ op.kind = "install" => op.preflight = "missing"
    /\ Terminal(op) => ~Barrier(op)
    /\ op.predMissing => op.predIntent
    /\ (op.predIntent \/ op.predBarrier) => HasPredecessor(op)
    /\ HasPredecessor(op) /\ Terminal(op) /\ (op.intents # {} \/ op.status = "succeeded")
         => op.predMissing

(* The triggers provider_credential_operation_legal_transition,            *)
(* ..._outcome_attestation_guard and ..._ownership_event_insert_guard let  *)
(* the update pass.  A comparison with a NULL started_at is NULL, which    *)
(* does not fire the trigger.                                              *)
LegalTransition(old, new) ==
    /\ CASE old.status = "prepared" ->
              \/ new.status = "started" /\ (old.kind # "install" => old.preflight # "missing")
              \/ new.status \in {"no_effect", "outcome_unknown"} /\ ~new.started
              \/ /\ new.status = "cleanup_required" /\ ~new.started
                 /\ old.kind = "remove_for_archive" /\ old.preflight = "missing"
                 /\ new.code = "archive_failed"
         [] old.status \in {"started", "outcome_unknown"} ->
              new.status \in {"succeeded", "no_effect", "cleanup_required", "outcome_unknown"}
         [] old.status = "cleanup_required" ->
              \/ new.status \in {"succeeded", "no_effect", "outcome_unknown"}
              \/ new.status = "cleanup_required" /\ new.code # "confirmed" /\ new.code # "absent"
         [] OTHER -> FALSE
    /\ new.started # old.started => new.status \in {"started", "cleanup_required"}
    /\ (/\ new.status = "cleanup_required" /\ new.code = "changed"
        /\ old.code \in {"durability_unknown", "predecessor_durability_unknown"})
         => new.attested = "missing"
    /\ Terminal(new) => ~Barrier(old)
=============================================================================

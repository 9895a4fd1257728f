------------------------ MODULE CredentialOperations ------------------------
(***************************************************************************)
(* The native credential operations of one provider connection: capture    *)
(* or replace, delete, archive, the explicit cleanup of an uncertain       *)
(* operation and the recovery at startup, over the journal of              *)
(* CredentialJournal and the operating system's vault.                     *)
(*                                                                         *)
(* The provider-credential lock is held by one command from start to end   *)
(* (AppState::lock_provider_credential_operation; bootstrap holds it       *)
(* during recovery), so one command runs at a time; what makes the         *)
(* protocol hard is that the process may die, and the vault may fail,      *)
(* between any two of its steps.  proc is that command: pc names its next  *)
(* await, the other fields are its local variables.  An observation        *)
(* changes nothing, so it is part of the step that uses it.                *)
(*                                                                         *)
(* A slot has a visible content and a content that survives a power loss.  *)
(* The vault is external: an answer "ok" promises that the effect is       *)
(* durable, "error" that the slot is not in doubt, and "recovery"          *)
(* (CredentialRecoveryRequired) promises nothing.                          *)
(***************************************************************************)
EXTENDS CredentialJournal, FiniteSets

CONSTANTS
    MaxAuthorities,  \* bound: installations proposed
    MaxFaults,       \* bound: failures of the vault or of an archive commit
    MaxCrashes       \* bound: process deaths

ASSUME CredentialAssumption ==
    /\ MaxAuthorities \in Nat \ {0}
    /\ MaxFaults \in Nat
    /\ MaxCrashes \in Nat

VARIABLES
    vault,      \* slot |-> [seen, durable]: is a credential there?
    op,         \* the connection's latest journal row
    ownership,  \* provider_credential_ownership
    garbage,    \* provider_credential_slot_gc: authority |-> status
    archived,   \* provider_connections.archived_at is set
    proc,       \* the running command, or recovery
    minted,     \* authorities proposed so far
    asked,      \* history: the user asked to delete what op left behind
    unrecorded, \* history: slots of cleanups whose answer died with the process
    faults, crashes

durable == <<op, ownership, garbage, archived>>
history == <<asked, unrecorded>>
vars == <<vault, op, ownership, garbage, archived, proc, minted, history, faults, crashes>>

Authorities == 1 .. MaxAuthorities
Slots == {RawSlot} \cup Authorities

SlotState == [seen: BOOLEAN, durable: BOOLEAN]

Settled(present) == [seen |-> present, durable |-> present]

PCs == {"down", "recover", "idle", "garbage",
        "start_install", "store", "store_barrier", "observe_install", "finish_install",
        "predecessor", "delete_predecessor", "predecessor_barrier",
        "check_predecessor", "repair_predecessor",
        "missing_removal", "start_removal", "delete", "delete_barrier", "finish_removal",
        "cleanup", "cleanup_delete", "cleanup_barrier", "cleanup_check", "finish_cleanup"}

Idle == [pc |-> "idle", archive |-> FALSE, observed |-> "missing",
         repairSlot |-> FALSE, then |-> "idle"]

Down == [Idle EXCEPT !.pc = "down"]

Goto(pc) == proc' = [proc EXCEPT !.pc = pc]

(* A connection without a credential, or one whose raw slot holds a        *)
(* credential captured before the journal existed.                         *)
Init ==
    /\ op = NoOperation
    /\ \E legacy \in BOOLEAN :
         /\ vault = [s \in Slots |-> Settled(s = RawSlot /\ legacy)]
         /\ ownership = [state |-> IF legacy THEN "legacy_pending" ELSE "unowned",
                         slot |-> RawSlot]
    /\ garbage = [a \in Authorities |-> "none"]
    /\ archived = FALSE
    /\ proc = Idle
    /\ minted = 0
    /\ asked = FALSE
    /\ unrecorded = {}
    /\ faults = 0
    /\ crashes = 0

-----------------------------------------------------------------------------
(* The vault. *)

(* observe_operation: a slot reads as what it visibly holds, or, when the  *)
(* vault fails, as unreadable.                                             *)
Observe(slot, observed) ==
    \/ /\ observed = IF vault[slot].seen THEN "available" ELSE "missing"
       /\ UNCHANGED faults
    \/ /\ observed = "unreadable"
       /\ faults < MaxFaults
       /\ faults' = faults + 1

(* A native store (present) or idempotent delete (~present) that answers.  *)
Native(slot, present, answer) ==
    /\ \/ /\ answer = "ok"
          /\ vault' = [vault EXCEPT ![slot] = Settled(present)]
          /\ UNCHANGED faults
       \/ /\ answer = "error"
          /\ \/ UNCHANGED vault
             \/ vault' = [vault EXCEPT ![slot] = Settled(present)]
          /\ faults < MaxFaults
          /\ faults' = faults + 1
       \/ /\ answer = "recovery"
          /\ \E seen \in {present, vault[slot].seen}, kept \in {present, vault[slot].durable} :
               vault' = [vault EXCEPT ![slot] = [seen |-> seen, durable |-> kept]]
          /\ faults < MaxFaults
          /\ faults' = faults + 1
    /\ UNCHANGED crashes

(* The process dies before the vault answers. *)
Unanswered(slot, present) ==
    /\ crashes < MaxCrashes
    /\ crashes' = crashes + 1
    /\ \E seen \in {present, vault[slot].seen}, kept \in {present, vault[slot].durable} :
         vault' = [vault EXCEPT ![slot] = [seen |-> seen, durable |-> kept]]
    /\ proc' = Down
    /\ UNCHANGED <<durable, minted, asked, faults>>

-----------------------------------------------------------------------------
(* A settled journal row moves the ownership projection with it, and the   *)
(* trigger provider_credential_slot_gc_enqueue_superseded queues the slot  *)
(* the new ownership event supersedes.                                     *)
Journal(next) ==
    /\ op' = next
    /\ ownership' = OwnershipAfter(op, next, ownership)
    /\ garbage' = IF ownership'.slot # ownership.slot /\ ownership.slot # RawSlot
                    THEN [garbage EXCEPT ![ownership.slot] = "pending"]
                    ELSE garbage

(* finish_provider_credential_archive_at_stage: the connection row and     *)
(* the terminal status commit together, or the failure is recorded.        *)
Archive ==
    \/ /\ Journal(FinishArchive(op))
       /\ archived' = (archived \/ ~ArchiveRefused(op))
       /\ UNCHANGED faults
    \/ /\ Journal(ArchiveFailed(op))
       /\ UNCHANGED archived
       /\ faults < MaxFaults
       /\ faults' = faults + 1

-----------------------------------------------------------------------------
(* Capture or replace: capture_provider_connection_credential_with_policy. *)

(* propose_provider_credential_install_authority, the observation of the   *)
(* fresh slot, the capture and the prepare transaction.  A fresh slot that *)
(* cannot be read ends the command before any journal row exists.          *)
PrepareInstall ==
    /\ proc.pc = "idle"
    /\ ~archived
    /\ ownership.state # "legacy_pending"
    /\ ~Unresolved(op)
    /\ minted < MaxAuthorities
    /\ minted' = minted + 1
    /\ op' = Prepared("install", minted', ownership.slot, "missing")
    /\ asked' = FALSE
    /\ UNCHANGED unrecorded
    /\ Goto("start_install")
    /\ UNCHANGED <<vault, ownership, garbage, archived, faults, crashes>>

StartInstall ==
    /\ proc.pc = "start_install"
    /\ Journal(Started(op))
    /\ Goto("store")
    /\ UNCHANGED <<vault, archived, minted, history, faults, crashes>>

(* prepare_bound_store or the start transaction failed:                    *)
(* settle_pre_native_install_failure.                                      *)
SettleInstall ==
    /\ proc.pc = "start_install"
    /\ \E observed \in Observations :
         /\ Observe(op.slot, observed)
         /\ Journal(Finish(op, observed))
    /\ proc' = Idle
    /\ UNCHANGED <<vault, archived, minted, history, crashes>>

StoreCredential ==
    /\ proc.pc = "store"
    /\ \/ \E answer \in {"ok", "error", "recovery"} :
            /\ Native(op.slot, TRUE, answer)
            /\ Goto(IF answer = "recovery" THEN "store_barrier" ELSE "observe_install")
            /\ UNCHANGED <<durable, minted, history>>
       \/ Unanswered(op.slot, TRUE) /\ UNCHANGED unrecorded

(* persist_explicit_credential_recovery_barrier for the operation's slot,  *)
(* after a store, a delete or a cleanup.                                   *)
RecordSlotBarrier ==
    /\ proc.pc \in {"store_barrier", "delete_barrier", "cleanup_barrier"}
    /\ Journal(MarkSlotBarrier(op, proc.archive \/ ArchiveIntent(op)))
    /\ proc' = Idle
    /\ UNCHANGED <<vault, archived, minted, history, faults, crashes>>

(* Mutant of ObserveInstall: the predecessor is removed whatever the new   *)
(* slot shows.                                                             *)
ObserveInstallUnchecked ==
    /\ proc.pc = "observe_install"
    /\ \E observed \in Observations :
         /\ Observe(op.slot, observed)
         /\ proc' = [proc EXCEPT
                !.observed = observed,
                !.pc = IF HasPredecessor(op) THEN "predecessor" ELSE "finish_install",
                !.then = "finish_install"]
    /\ UNCHANGED <<vault, durable, minted, history, crashes>>

(* Only a slot that reads back lets the command go on to the predecessor.  *)
ObserveInstall ==
    /\ proc.pc = "observe_install"
    /\ \E observed \in Observations :
         /\ Observe(op.slot, observed)
         /\ proc' = [proc EXCEPT
                !.observed = observed,
                !.pc = IF observed = "available" /\ HasPredecessor(op)
                         THEN "predecessor" ELSE "finish_install",
                !.then = "finish_install"]
    /\ UNCHANGED <<vault, durable, minted, history, crashes>>

FinishInstall ==
    /\ proc.pc = "finish_install"
    /\ Journal(Finish(op, proc.observed))
    /\ proc' = IF op'.status = "succeeded" THEN [Idle EXCEPT !.pc = "garbage"] ELSE Idle
    /\ UNCHANGED <<vault, archived, minted, history, faults, crashes>>

-----------------------------------------------------------------------------
(* remove_replacement_predecessor, of a capture and of a cleanup.          *)

(* The delete intent is durable before the delete; a slot that reads       *)
(* missing needs none, unless its durability is in doubt.                  *)
PredecessorIntent ==
    /\ proc.pc = "predecessor"
    /\ \E observed \in Observations :
         /\ Observe(op.pred, observed)
         /\ Goto(IF observed = "missing" /\ ~op.predBarrier
                   THEN "check_predecessor" ELSE "delete_predecessor")
    /\ Journal(AttestPredecessorIntent(op))
    /\ UNCHANGED <<vault, archived, minted, history, crashes>>

InCleanup == proc.then # "finish_install"

DeletePredecessor ==
    /\ proc.pc = "delete_predecessor"
    /\ \/ \E answer \in {"ok", "error", "recovery"} :
            /\ Native(op.pred, FALSE, answer)
            /\ proc' = CASE answer = "recovery" ->
                              [proc EXCEPT !.pc = "predecessor_barrier"]
                         [] answer = "error" /\ op.predBarrier -> Idle
                         [] OTHER -> [proc EXCEPT !.pc = "check_predecessor"]
            /\ UNCHANGED <<durable, minted, history>>
       \/ /\ Unanswered(op.pred, FALSE)
          /\ unrecorded' = unrecorded \cup
                             IF InCleanup /\ ~op.predBarrier THEN {op.pred} ELSE {}

RecordPredecessorBarrier ==
    /\ proc.pc = "predecessor_barrier"
    /\ Journal(MarkPredecessorBarrier(op, ArchiveIntent(op)))
    /\ proc' = Idle
    /\ UNCHANGED <<vault, archived, minted, history, faults, crashes>>

CheckPredecessor ==
    /\ proc.pc = "check_predecessor"
    /\ \E observed \in Observations :
         /\ Observe(op.pred, observed)
         /\ IF observed = "missing"
              THEN /\ Journal(AttestPredecessorMissing(op))
                   /\ Goto(IF op.predBarrier THEN "repair_predecessor" ELSE proc.then)
              ELSE /\ UNCHANGED <<op, ownership, garbage>>
                   /\ proc' = Idle
    /\ UNCHANGED <<vault, archived, minted, history, crashes>>

RepairPredecessorSlot ==
    /\ proc.pc = "repair_predecessor"
    /\ Journal(RepairPredecessor(op))
    /\ Goto(proc.then)
    /\ UNCHANGED <<vault, archived, minted, history, faults, crashes>>

-----------------------------------------------------------------------------
(* Delete and archive: remove_provider_credential_with_policy.             *)

RemovalKind(archive) == IF archive THEN "remove_for_archive" ELSE "remove_credential"

(* With nothing to clean up, the settled slot (or the raw one) is          *)
(* observed and the removal prepared; an unreadable slot goes straight to  *)
(* the cleanup.                                                            *)
PrepareRemoval ==
    /\ proc.pc = "idle"
    /\ ~archived
    /\ ~Unresolved(op)
    /\ \E archive \in BOOLEAN, observed \in Observations :
         /\ archive \/ ownership.state # "legacy_pending"
         /\ Observe(ownership.slot, observed)
         /\ op' = PreparedRemoval(RemovalKind(archive), ownership.slot, observed)
         /\ proc' = [Idle EXCEPT
                !.archive = archive,
                !.pc = CASE observed = "unreadable" -> "cleanup"
                         [] observed = "missing" -> "missing_removal"
                         [] OTHER -> "start_removal"]
    /\ asked' = TRUE
    /\ UNCHANGED unrecorded
    /\ UNCHANGED <<vault, ownership, garbage, archived, minted, crashes>>

AfterRemoval == proc' = IF Terminal(op') THEN [Idle EXCEPT !.pc = "garbage"] ELSE Idle

FinishMissingRemoval ==
    /\ proc.pc = "missing_removal"
    /\ IF proc.archive
         THEN Archive
         ELSE /\ Journal(Finish(op, "missing"))
              /\ UNCHANGED <<archived, faults>>
    /\ AfterRemoval
    /\ UNCHANGED <<vault, minted, history, crashes>>

(* A start transaction that fails ends the command: the row stays          *)
(* prepared until the app is reopened.                                     *)
StartRemoval ==
    /\ proc.pc = "start_removal"
    /\ \/ /\ Journal(Started(op))
          /\ Goto("delete")
          /\ UNCHANGED faults
       \/ /\ faults < MaxFaults
          /\ faults' = faults + 1
          /\ proc' = Idle
          /\ UNCHANGED <<op, ownership, garbage>>
    /\ UNCHANGED <<vault, archived, minted, history, crashes>>

DeleteCredential ==
    /\ proc.pc = "delete"
    /\ \/ \E answer \in {"ok", "error", "recovery"} :
            /\ Native(op.slot, FALSE, answer)
            /\ Goto(IF answer = "recovery" THEN "delete_barrier" ELSE "finish_removal")
            /\ UNCHANGED <<durable, minted, history>>
       \/ Unanswered(op.slot, FALSE) /\ UNCHANGED unrecorded

FinishRemoval ==
    /\ proc.pc = "finish_removal"
    /\ \/ /\ proc.archive
          /\ ~vault[op.slot].seen
          /\ Archive
       \/ /\ \E observed \in Observations :
               /\ ~(proc.archive /\ observed = "missing")
               /\ Observe(op.slot, observed)
               /\ Journal(Finish(op, observed))
          /\ UNCHANGED archived
    /\ AfterRemoval
    /\ UNCHANGED <<vault, minted, history, crashes>>

-----------------------------------------------------------------------------
(* cleanup_uncertain_credential_for_explicit_delete: the user deletes a    *)
(* credential whose last operation is uncertain.                           *)

(* Mutant of BeginCleanup: every unresolved operation can be cleaned up,   *)
(* one that has not started included.                                      *)
BeginCleanupOfPrepared ==
    /\ proc.pc = "idle"
    /\ Unresolved(op)
    /\ \E archive \in BOOLEAN :
         /\ archive \/ ownership.state # "legacy_pending"
         /\ proc' = [Idle EXCEPT !.pc = "cleanup", !.archive = archive]
    /\ Journal(IF op.status = "started" THEN Fence(op) ELSE op)
    /\ asked' = TRUE
    /\ UNCHANGED unrecorded
    /\ UNCHANGED <<vault, archived, minted, faults, crashes>>

BeginCleanup ==
    /\ proc.pc = "idle"
    /\ op.status \in {"started", "outcome_unknown", "cleanup_required"}
    /\ \E archive \in BOOLEAN :
         /\ archive \/ ownership.state # "legacy_pending"
         /\ proc' = [Idle EXCEPT !.pc = "cleanup", !.archive = archive]
    /\ Journal(IF op.status = "started" THEN Fence(op) ELSE op)
    /\ asked' = TRUE
    /\ UNCHANGED unrecorded
    /\ UNCHANGED <<vault, archived, minted, faults, crashes>>

(* The observation, the durable intent, and the branch on the obligations  *)
(* the row held before it.                                                 *)
PersistCleanupIntent ==
    /\ proc.pc = "cleanup"
    /\ \E observed \in Observations :
         /\ Observe(op.slot, observed)
         /\ Journal(MarkExplicitCleanup(op, observed, proc.archive))
         /\ proc' = [proc EXCEPT
                !.observed = observed,
                !.repairSlot = op.slotBarrier,
                !.pc = IF op.predBarrier THEN "predecessor" ELSE "cleanup_delete",
                !.then = "cleanup_delete"]
    /\ UNCHANGED <<vault, archived, minted, history, crashes>>

AfterCleanupDelete ==
    [proc EXCEPT !.then = "finish_cleanup",
                 !.pc = IF HasPredecessor(op) THEN "predecessor" ELSE "finish_cleanup"]

(* Mutant of CleanupDelete: a slot that reads missing is taken for         *)
(* deleted, even when its durability is in doubt.                          *)
CleanupDeleteTrustsVisibility ==
    /\ proc.pc = "cleanup_delete"
    /\ IF proc.observed = "missing"
         THEN /\ Journal(IF proc.repairSlot THEN RepairSlot(op) ELSE op)
              /\ proc' = AfterCleanupDelete
              /\ UNCHANGED <<vault, archived, minted, history, faults, crashes>>
         ELSE \E answer \in {"ok", "error", "recovery"} :
                /\ Native(op.slot, FALSE, answer)
                /\ Goto(IF answer = "recovery" THEN "cleanup_barrier" ELSE "cleanup_check")
                /\ UNCHANGED <<durable, minted, history>>

CleanupDelete ==
    /\ proc.pc = "cleanup_delete"
    /\ \/ /\ proc.observed = "missing"
          /\ ~proc.repairSlot
          /\ proc' = AfterCleanupDelete
          /\ UNCHANGED <<vault, durable, minted, history, faults, crashes>>
       \/ /\ proc.observed # "missing" \/ proc.repairSlot
          /\ \/ \E answer \in {"ok", "error", "recovery"} :
                  /\ Native(op.slot, FALSE, answer)
                  /\ proc' = CASE answer = "recovery" ->
                                    [proc EXCEPT !.pc = "cleanup_barrier"]
                               [] answer = "error" /\ proc.repairSlot -> Idle
                               [] OTHER -> [proc EXCEPT !.pc = "cleanup_check"]
                  /\ UNCHANGED <<durable, minted, history>>
             \/ /\ Unanswered(op.slot, FALSE)
                /\ unrecorded' = unrecorded \cup IF proc.repairSlot THEN {} ELSE {op.slot}

(* Mutant of CheckCleanup: the answer of the delete is believed.           *)
CheckCleanupUnread ==
    /\ proc.pc = "cleanup_check"
    /\ Journal(IF proc.repairSlot THEN RepairSlot(op) ELSE op)
    /\ proc' = AfterCleanupDelete
    /\ UNCHANGED <<vault, archived, minted, history, faults, crashes>>

(* Only a delete that the vault confirmed discharges the obligation. *)
CheckCleanup ==
    /\ proc.pc = "cleanup_check"
    /\ \E observed \in Observations :
         /\ Observe(op.slot, observed)
         /\ IF observed = "missing"
              THEN /\ Journal(IF proc.repairSlot THEN RepairSlot(op) ELSE op)
                   /\ proc' = AfterCleanupDelete
              ELSE /\ UNCHANGED <<op, ownership, garbage>>
                   /\ proc' = Idle
    /\ UNCHANGED <<vault, archived, minted, history, crashes>>

ArchivesConnection ==
    \/ ArchiveIntent(op)
    \/ op.kind = "remove_for_archive" /\ (op.started \/ op.preflight = "missing")

FinishCleanup ==
    /\ proc.pc = "finish_cleanup"
    /\ IF ArchivesConnection
         THEN Archive
         ELSE /\ Journal(Finish(op, "missing"))
              /\ UNCHANGED <<archived, faults>>
    /\ AfterRemoval
    /\ UNCHANGED <<vault, minted, history, crashes>>

-----------------------------------------------------------------------------
(* recover_provider_credential_slot_garbage_with, at the end of a          *)
(* successful command and of recovery: a pending slot that reads missing   *)
(* is completed; one that is present or cannot be read stays.              *)
CollectGarbage ==
    /\ proc.pc = "garbage"
    /\ \E missing \in SUBSET {a \in Authorities : garbage[a] = "pending" /\ ~vault[a].seen} :
         garbage' = [a \in Authorities |-> IF a \in missing THEN "completed" ELSE garbage[a]]
    /\ proc' = Idle
    /\ UNCHANGED <<vault, op, ownership, archived, minted, history, faults, crashes>>

-----------------------------------------------------------------------------
(* Process death, and recover_provider_credential_operations at startup.   *)

(* A vault answer that a cleanup has not yet written down, and that no     *)
(* obligation in the journal stands for: the slot it is about.             *)
CleanupAnswerPending ==
    (IF proc.pc = "cleanup_barrier" /\ ~proc.repairSlot THEN {op.slot} ELSE {})
    \cup (IF proc.pc = "predecessor_barrier" /\ InCleanup /\ ~op.predBarrier
            THEN {op.pred} ELSE {})

(* A power loss takes the vault back to what was durable. *)
Crash ==
    /\ proc.pc # "down"
    /\ crashes < MaxCrashes
    /\ crashes' = crashes + 1
    /\ \/ UNCHANGED vault
       \/ vault' = [s \in Slots |-> Settled(vault[s].durable)]
    /\ proc' = Down
    /\ unrecorded' = unrecorded \cup CleanupAnswerPending
    /\ UNCHANGED <<durable, minted, asked, faults>>

(* The user reopens the app, as the error on an unresolved row asks. *)
Reopen ==
    /\ proc.pc = "idle"
    /\ op.status = "prepared"
    /\ proc' = Down
    /\ UNCHANGED <<vault, durable, minted, history, faults, crashes>>

(* A row still started says that a native effect may be in flight. *)
FenceAtStartup ==
    /\ proc.pc = "down"
    /\ Journal(IF op.status = "started" THEN Fence(op) ELSE op)
    /\ Goto("recover")
    /\ UNCHANGED <<vault, archived, minted, history, faults, crashes>>

(* Recovery observes and reconciles; it never repeats a native effect, and *)
(* leaves obligations and half-cleaned replacements to the user.  An       *)
(* archive that fails to commit fails the bootstrap.                       *)
LeftToTheUser ==
    \/ ~Unresolved(op)
    \/ Barrier(op)
    \/ HasPredecessor(op) /\ op.status = "cleanup_required"

Reconcile ==
    /\ proc.pc = "recover"
    /\ \/ /\ LeftToTheUser
          /\ Goto("garbage")
          /\ UNCHANGED <<durable, faults>>
       \/ /\ ~LeftToTheUser
          /\ ArchivesConnection
          /\ ~vault[op.slot].seen
          /\ Archive
          /\ proc' = IF Terminal(op') THEN [Idle EXCEPT !.pc = "garbage"] ELSE Down
       \/ /\ ~LeftToTheUser
          /\ \E observed \in Observations :
               /\ ~(ArchivesConnection /\ observed = "missing")
               /\ Observe(op.slot, observed)
               /\ Journal(Finish(op, observed))
          /\ Goto("garbage")
          /\ UNCHANGED archived
    /\ UNCHANGED <<vault, minted, history, crashes>>

-----------------------------------------------------------------------------
(* An archived connection takes no more commands. *)
Rest ==
    /\ archived
    /\ proc.pc = "idle"
    /\ UNCHANGED vars

Command ==
    \/ StartInstall \/ SettleInstall \/ StoreCredential \/ RecordSlotBarrier
    \/ ObserveInstall \/ FinishInstall
    \/ PredecessorIntent \/ DeletePredecessor \/ RecordPredecessorBarrier
    \/ CheckPredecessor \/ RepairPredecessorSlot
    \/ FinishMissingRemoval \/ StartRemoval \/ DeleteCredential \/ FinishRemoval
    \/ PersistCleanupIntent \/ CleanupDelete \/ CheckCleanup \/ FinishCleanup
    \/ CollectGarbage
    \/ FenceAtStartup \/ Reconcile

Next ==
    \/ PrepareInstall \/ PrepareRemoval \/ BeginCleanup \/ Reopen
    \/ Command
    \/ Crash
    \/ Rest

Spec == Init /\ [][Next]_vars

(* The command under way and recovery go on; the user deletes what is      *)
(* uncertain and reopens the app on a row left prepared.                   *)
FairSpec ==
    /\ Spec
    /\ WF_vars(Command)
    /\ WF_vars(BeginCleanup)
    /\ WF_vars(Reopen)

-----------------------------------------------------------------------------
TypeOK ==
    /\ vault \in [Slots -> SlotState]
    /\ op.kind \in Kinds /\ op.slot \in Slots /\ op.pred \in Slots
    /\ op.preflight \in Observations /\ op.started \in BOOLEAN
    /\ op.status \in Statuses /\ op.code \in Codes /\ op.attested \in Observations
    /\ op.intents \subseteq {"remove", "archive"}
    /\ ownership \in [state: {"unowned", "legacy_pending", "owned", "removed"}, slot: Slots]
    /\ garbage \in [Authorities -> {"none", "pending", "completed"}]
    /\ archived \in BOOLEAN /\ asked \in BOOLEAN /\ unrecorded \subseteq Slots
    /\ proc.pc \in PCs /\ proc.then \in PCs
    /\ minted \in 0 .. MaxAuthorities
    /\ faults \in 0 .. MaxFaults
    /\ crashes \in 0 .. MaxCrashes

(* A request may read the credential exactly when no operation is          *)
(* unresolved and the connection owns a slot                               *)
(* (ensure_provider_credential_access_settled): that slot then holds a     *)
(* credential, and a power loss will not take it away.                     *)
GrantedAccessReadsACredential ==
    ~Unresolved(op) /\ ownership.state = "owned" =>
        vault[ownership.slot] = Settled(TRUE)

(* A settled journal leaves no slot in doubt: a row becomes terminal only  *)
(* after every native effect of its operation is known to be durable, so   *)
(* that no credential comes back, or vanishes, after a power loss.  One    *)
(* death is excepted: a cleanup deletes while its row holds no obligation  *)
(* (cleanup.rs:182 writes it after the vault answered), so if the process  *)
(* dies first the next start reads the slot as missing and settles.        *)
SettledJournalIsDurable ==
    ~Unresolved(op) => \A s \in Slots \ unrecorded : vault[s].seen = vault[s].durable

(* No credential is lost from sight: every slot that holds one is owned,   *)
(* named by the unresolved operation, or queued in                         *)
(* provider_credential_slot_gc; the same death is excepted.                *)
NoOrphanCredential ==
    \A s \in Slots \ unrecorded :
        vault[s].seen \/ vault[s].durable =>
            \/ ownership.state \in {"owned", "legacy_pending"} /\ ownership.slot = s
            \/ Unresolved(op) /\ s \in {op.slot, op.pred}
            \/ s # RawSlot /\ garbage[s] = "pending"

(* Replacing a credential never loses both copies: until the user asks to  *)
(* delete what a failed replacement left behind, the old slot or the new   *)
(* one durably holds a credential (remove_replacement_predecessor runs     *)
(* only once the new slot reads back).                                     *)
ReplacementKeepsACopy ==
    HasPredecessor(op) /\ Unresolved(op) /\ ~asked =>
        \E s \in {op.slot, op.pred} : vault[s].durable

(* An archived connection holds no credential and no unfinished            *)
(* operation: the archive and the terminal status commit together, after   *)
(* the slot read missing; the same death is excepted.                      *)
ArchivedHoldsNothing ==
    archived =>
        /\ ~Unresolved(op)
        /\ ownership.state # "owned"
        /\ \A s \in Slots \ unrecorded : ~vault[s].seen

(* The journal can always be read back: the row and its attestations pass  *)
(* validate_operation_evidence, validate_record_shape and the durability   *)
(* ledger, which otherwise fail every command and the bootstrap.           *)
JournalDecodes == Decodes(op)

(* The repository never attempts an update that a trigger of migration     *)
(* 0037 aborts, so no operation gets stuck between the two.                *)
TriggersAgree ==
    [][(/\ <<op'.status, op'.code>> # <<op.status, op.code>>
        /\ Unresolved(op))
       => LegalTransition(op, op')]_op

(* Every uncertain operation is settled in the end, if the user keeps      *)
(* deleting what is uncertain and the vault works again                    *)
(* (cleanup_uncertain_credential_for_explicit_delete has a way out of      *)
(* every status).                                                          *)
UncertainSettles == Unresolved(op) ~> ~Unresolved(op)

(* The journal, the ownership projection, the connection and the vault     *)
(* agree between any two steps: every row can be read back, a granted      *)
(* access finds a credential, and an archived connection holds none.       *)
CredentialInv ==
  /\ TypeOK
  /\ JournalDecodes
  /\ GrantedAccessReadsACredential
  /\ ArchivedHoldsNothing
=============================================================================

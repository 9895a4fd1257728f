--------------------- MODULE CredentialOperationsProofs ---------------------
(***************************************************************************)
(* Proofs about the native credential operations: for every number of      *)
(* installations, vault failures and process deaths, the journal can be    *)
(* read back, a granted access finds a credential, a settled journal       *)
(* leaves no slot in doubt, no credential is lost from sight, and a        *)
(* replacement keeps a copy until the user asks for its removal.           *)
(***************************************************************************)
EXTENDS CredentialOperations, TLAPS

-----------------------------------------------------------------------------
(* The inductive invariant.                                                *)

Rows == [kind : Kinds, slot : Slots, pred : Slots, preflight : Observations,
         started : BOOLEAN, status : Statuses, code : Codes, attested : Observations,
         intents : SUBSET {"remove", "archive"}, predIntent : BOOLEAN,
         predMissing : BOOLEAN, slotBarrier : BOOLEAN, predBarrier : BOOLEAN]

Procs == [pc : PCs, archive : BOOLEAN, observed : Observations,
          repairSlot : BOOLEAN, then : PCs]

Owners == [state : {"unowned", "legacy_pending", "owned", "removed"}, slot : Slots]

Typed ==
    /\ vault \in [Slots -> SlotState]
    /\ op \in Rows
    /\ ownership \in Owners
    /\ garbage \in [Authorities -> {"none", "pending", "completed"}]
    /\ archived \in BOOLEAN /\ asked \in BOOLEAN /\ unrecorded \subseteq Slots
    /\ proc \in Procs
    /\ minted \in 0 .. MaxAuthorities
    /\ faults \in 0 .. MaxFaults
    /\ crashes \in 0 .. MaxCrashes

\* What every row in the journal satisfies, beyond what the decoder demands.
RowOK(r) ==
    /\ Decodes(r)
    /\ r.intents # {} /\ Unresolved(r) => r.status = "cleanup_required"
    /\ Barrier(r) => r.status = "cleanup_required" /\ r.intents # {}
    /\ r.status = "cleanup_required" /\ r.intents = {} =>
         r.code = "archive_failed" /\ r.kind = "remove_for_archive"
    /\ r.status = "cleanup_required"
         /\ r.code \in {"durability_unknown", "predecessor_durability_unknown"} => Barrier(r)
    /\ r.status = "prepared" => ~r.predIntent
    /\ r.status = "outcome_unknown" /\ r.predIntent => r.predMissing /\ r.started

\* The plan of the unresolved row and the connection's ownership.
PlanOK == Unresolved(op) =>
    IF op.kind = "install"
      THEN /\ op.slot # RawSlot /\ op.slot <= minted /\ op.slot # op.pred
           /\ op.pred = ownership.slot /\ ownership.state # "legacy_pending"
           /\ op.intents = {} => op.slot \notin unrecorded
      ELSE op.slot = ownership.slot

OwnerOK ==
    /\ ownership.slot <= minted
    /\ ownership.state = "owned" <=> ownership.slot # RawSlot
    /\ archived => ~Unresolved(op) /\ ownership.state \in {"unowned", "removed"}

\* What is to be minted is empty.
FreshSlots == \A s \in Slots : s > minted => vault[s] = Settled(FALSE) /\ s \notin unrecorded

\* What no native call has touched since it was granted.
Untouched ==
    /\ ~Unresolved(op) /\ ownership.state = "owned" => vault[ownership.slot] = Settled(TRUE)
    /\ Unresolved(op) /\ HasPredecessor(op) /\ ~op.predIntent => vault[op.pred] = Settled(TRUE)
    /\ Unresolved(op) /\ op.kind # "install" /\ ownership.state = "owned"
         /\ ~op.started /\ op.intents = {} => vault[op.slot] = Settled(TRUE)

\* The slots whose visible and durable contents may differ.
SlotInDoubt ==
    \/ op.slotBarrier
    \/ op.status = "started" /\ ~op.predIntent /\ proc.pc \in {"store_barrier", "delete_barrier", "down"}
    \/ proc.pc = "cleanup_barrier" /\ ~proc.repairSlot

PredecessorInDoubt ==
    /\ HasPredecessor(op)
    /\ \/ op.predBarrier
       \/ /\ op.status = "started" /\ op.predIntent /\ ~op.predMissing
          /\ proc.pc \in {"predecessor_barrier", "down"}
       \/ proc.pc = "predecessor_barrier" /\ InCleanup

DoubtIsRecorded ==
    \A s \in Slots \ unrecorded :
        \/ vault[s].seen = vault[s].durable
        \/ Unresolved(op) /\ s = op.slot /\ SlotInDoubt
        \/ Unresolved(op) /\ s = op.pred /\ PredecessorInDoubt

\* The slots that may hold a credential.
KnownSlots ==
    \A s \in Slots \ unrecorded :
        vault[s].seen \/ vault[s].durable =>
            \/ ownership.state \in {"owned", "legacy_pending"} /\ ownership.slot = s
            \/ Unresolved(op) /\ op.kind = "install" /\ op.slot = s

\* The evidence on the predecessor, and the copy that outlives it.
PredecessorOK == Unresolved(op) /\ HasPredecessor(op) =>
    /\ op.predMissing => vault[op.pred] = Settled(FALSE) \/ op.pred \in unrecorded
    /\ op.predIntent /\ ~asked => vault[op.slot].durable

VaultOK == FreshSlots /\ Untouched /\ DoubtIsRecorded /\ KnownSlots /\ PredecessorOK

-----------------------------------------------------------------------------
(* Where the command is.                                                   *)

At(S) == proc.pc \in S

Installing == At({"start_install", "store", "store_barrier", "observe_install", "finish_install"}) =>
    /\ op.kind = "install"
    /\ op.status = IF proc.pc = "start_install" THEN "prepared" ELSE "started"
    /\ proc.pc # "finish_install" => ~op.predIntent
    /\ proc.pc = "finish_install" =>
         IF proc.observed = "available"
           THEN vault[op.slot] = Settled(TRUE) /\ (HasPredecessor(op) => op.predMissing)
           ELSE ~op.predIntent /\ (proc.observed = "missing" => ~vault[op.slot].seen)

Replacing == At({"predecessor", "delete_predecessor", "predecessor_barrier",
                 "check_predecessor", "repair_predecessor"}) =>
    /\ HasPredecessor(op)
    /\ proc.then \in {"finish_install", "cleanup_delete", "finish_cleanup"}
    /\ proc.then = "finish_install" =>
         /\ op.status = "started" /\ ~op.predMissing
         /\ proc.observed = "available" /\ vault[op.slot] = Settled(TRUE)
    /\ proc.then # "finish_install" => op.status = "cleanup_required" /\ op.intents # {} /\ asked
    /\ proc.then = "cleanup_delete" =>
         /\ proc.repairSlot = op.slotBarrier
         /\ proc.observed = "missing" => ~vault[op.slot].seen
    /\ proc.then = "finish_cleanup" => ~op.slotBarrier /\ ~vault[op.slot].seen
    /\ proc.pc # "predecessor" => op.predIntent
    /\ proc.pc \in {"check_predecessor", "repair_predecessor"} /\ op.predBarrier =>
         vault[op.pred] = Settled(FALSE)
    /\ proc.pc = "repair_predecessor" => op.predBarrier /\ op.predMissing

Deleting == At({"missing_removal", "start_removal", "delete", "delete_barrier", "finish_removal"}) =>
    /\ op.kind = RemovalKind(proc.archive)
    /\ op.status = IF At({"missing_removal", "start_removal"}) THEN "prepared" ELSE "started"
    /\ proc.pc = "missing_removal" => op.preflight = "missing" /\ ~vault[op.slot].seen
    /\ proc.pc = "start_removal" => op.preflight = "available"

Cleaning == At({"cleanup", "cleanup_delete", "cleanup_barrier", "cleanup_check", "finish_cleanup"}) =>
    /\ asked
    /\ proc.pc = "cleanup" => op.status \in {"outcome_unknown", "cleanup_required"}
    /\ proc.pc # "cleanup" => op.status = "cleanup_required" /\ op.intents # {}
    /\ At({"cleanup_delete", "cleanup_barrier", "cleanup_check"}) => proc.repairSlot = op.slotBarrier
    /\ proc.pc = "cleanup_delete" /\ proc.observed = "missing" => ~vault[op.slot].seen
    /\ proc.pc = "cleanup_check" /\ proc.repairSlot => vault[op.slot] = Settled(FALSE)
    /\ proc.pc = "finish_cleanup" => ~Barrier(op) /\ ~vault[op.slot].seen

RecoveringOK == proc.pc = "recover" => op.status # "started"

CommandOK == Installing /\ Replacing /\ Deleting /\ Cleaning /\ RecoveringOK

IndInv == Typed /\ RowOK(op) /\ PlanOK /\ OwnerOK /\ VaultOK /\ CommandOK

-----------------------------------------------------------------------------
(* The journal's transactions, field by field.                             *)

\* What no transaction but a prepare changes.
SamePlan(r, n) ==
    n.kind = r.kind /\ n.slot = r.slot /\ n.pred = r.pred /\ n.preflight = r.preflight

SameEvidence(r, n) ==
    /\ n.intents = r.intents
    /\ n.predIntent = r.predIntent /\ n.predMissing = r.predMissing
    /\ n.slotBarrier = r.slotBarrier /\ n.predBarrier = r.predBarrier

Says(n, status, code, observed) ==
    n.status = status /\ n.code = code /\ n.attested = observed

\* Recorded writes the status, its code and the slot it was seen in, and nothing else.
LEMMA RecordedRow ==
    ASSUME NEW r \in Rows, NEW s \in Statuses, NEW c \in Codes, NEW o \in Observations
    PROVE  /\ Recorded(r, s, c, o) \in Rows
           /\ SamePlan(r, Recorded(r, s, c, o))
           /\ SameEvidence(r, Recorded(r, s, c, o))
           /\ Recorded(r, s, c, o).started = r.started
           /\ Says(Recorded(r, s, c, o), s, c, o)
BY DEF Recorded, Rows, SamePlan, SameEvidence, Says

\* Started moves a row to started and leaves its plan and evidence alone.
LEMMA StartedRow ==
    ASSUME NEW r \in Rows
    PROVE  /\ Started(r) \in Rows
           /\ SamePlan(r, Started(r))
           /\ SameEvidence(r, Started(r))
           /\ Started(r).started
           /\ Says(Started(r), "started", r.code, r.attested)
BY DEF Started, Rows, SamePlan, SameEvidence, Says, Statuses

\* A cleanup mark adds an intent, and starts the operation if the slot may hold something.
Marks(r, n, code, observed, archive) ==
    /\ n \in Rows /\ SamePlan(r, n)
    /\ n.intents = r.intents \cup {Intent(archive)} /\ n.intents # {}
    /\ n.started = (r.started \/ observed # "missing")
    /\ n.predIntent = r.predIntent /\ n.predMissing = r.predMissing
    /\ Says(n, "cleanup_required", code, observed)

\* The two cleanup intents are the ones the schema knows.
LEMMA IntentIsAnIntent ==
    ASSUME NEW archive \in BOOLEAN
    PROVE  Intent(archive) \in {"remove", "archive"}
BY DEF Intent

\* mark_provider_credential_cleanup_required_with_outcome leaves the obligations alone.
LEMMA MarkCleanupRow ==
    ASSUME NEW r \in Rows, NEW c \in Codes, NEW o \in Observations, NEW archive \in BOOLEAN
    PROVE  /\ Marks(r, MarkCleanup(r, c, o, archive), c, o, archive)
           /\ MarkCleanup(r, c, o, archive).slotBarrier = r.slotBarrier
           /\ MarkCleanup(r, c, o, archive).predBarrier = r.predBarrier
<1> DEFINE q == Recorded(r, "cleanup_required", c, o)
<1>1. q \in Rows /\ SamePlan(r, q) /\ SameEvidence(r, q) /\ q.started = r.started
        /\ Says(q, "cleanup_required", c, o)
  BY RecordedRow DEF Statuses
<1> DEFINE i == q.intents \cup {Intent(archive)}
           b == q.started \/ o # "missing"
<1>2. i \in SUBSET {"remove", "archive"} /\ i # {} /\ i = r.intents \cup {Intent(archive)}
  BY <1>1, IntentIsAnIntent DEF Rows, SameEvidence
<1>3. b \in BOOLEAN /\ b = (r.started \/ o # "missing")
  BY <1>1
<1>4. MarkCleanup(r, c, o, archive) = [q EXCEPT !.intents = i, !.started = b]
  BY DEF MarkCleanup
<1> HIDE DEF q, i, b
<1> DEFINE n == [q EXCEPT !.intents = i, !.started = b]
<1>5. n \in Rows
  BY <1>1, <1>2, <1>3 DEF Rows
<1>6. n.intents = i /\ n.started = b
  BY <1>1 DEF Rows
<1>7. /\ SamePlan(r, n) /\ Says(n, "cleanup_required", c, o)
      /\ n.predIntent = r.predIntent /\ n.predMissing = r.predMissing
      /\ n.slotBarrier = r.slotBarrier /\ n.predBarrier = r.predBarrier
  BY <1>1 DEF Rows, SamePlan, SameEvidence, Says
<1> HIDE DEF n
<1>8. Marks(r, n, c, o, archive)
  BY <1>2, <1>3, <1>5, <1>6, <1>7 DEF Marks
<1> QED
  BY <1>4, <1>7, <1>8 DEF n

\* The obligation of the operation's slot is written with its mark.
LEMMA MarkSlotBarrierRow ==
    ASSUME NEW r \in Rows, NEW archive \in BOOLEAN
    PROVE  /\ Marks(r, MarkSlotBarrier(r, archive), "durability_unknown", "unreadable", archive)
           /\ MarkSlotBarrier(r, archive).slotBarrier
           /\ MarkSlotBarrier(r, archive).predBarrier = r.predBarrier
<1> DEFINE q == MarkCleanup(r, "durability_unknown", "unreadable", archive)
<1>1. Marks(r, q, "durability_unknown", "unreadable", archive) /\ q.predBarrier = r.predBarrier
  BY MarkCleanupRow DEF Codes, Observations
<1>2. MarkSlotBarrier(r, archive) = [q EXCEPT !.slotBarrier = TRUE]
  BY DEF MarkSlotBarrier
<1> HIDE DEF q
<1> QED
  BY <1>1, <1>2 DEF Marks, Rows, SamePlan, Says

\* The obligation of the predecessor's slot is written with its mark.
LEMMA MarkPredecessorBarrierRow ==
    ASSUME NEW r \in Rows, NEW archive \in BOOLEAN
    PROVE  /\ Marks(r, MarkPredecessorBarrier(r, archive),
                    "predecessor_durability_unknown", "unreadable", archive)
           /\ MarkPredecessorBarrier(r, archive).predBarrier
           /\ MarkPredecessorBarrier(r, archive).slotBarrier = r.slotBarrier
<1> DEFINE q == MarkCleanup(r, "predecessor_durability_unknown", "unreadable", archive)
<1>1. Marks(r, q, "predecessor_durability_unknown", "unreadable", archive)
        /\ q.slotBarrier = r.slotBarrier
  BY MarkCleanupRow DEF Codes, Observations
<1>2. MarkPredecessorBarrier(r, archive) = [q EXCEPT !.predBarrier = TRUE]
  BY DEF MarkPredecessorBarrier
<1> HIDE DEF q
<1> QED
  BY <1>1, <1>2 DEF Marks, Rows, SamePlan, Says

-----------------------------------------------------------------------------
(* What a row that is finished says.                                       *)

\* provider_credential_terminal_outcome and terminal_observation_with_explicit_cleanup, by cases.
Reads(o, s, c, seen, status, code) == o = seen /\ s = status /\ c = code

OutcomeOfInstall(r, o, s, c) ==
    \/ Reads(o, s, c, "unreadable", "outcome_unknown", "unreadable")
    \/ /\ Reads(o, s, c, "available", "outcome_unknown", "changed")
       /\ HasPredecessor(r) /\ ~r.predMissing
    \/ /\ Reads(o, s, c, "available", "outcome_unknown", "confirmed")
       /\ ~r.started
    \/ /\ Reads(o, s, c, "available", "succeeded", "confirmed")
       /\ r.started /\ (HasPredecessor(r) => r.predMissing)
    \/ /\ Reads(o, s, c, "missing", "no_effect", "changed")
       /\ r.status = "cleanup_required" /\ r.intents # {}
       /\ HasPredecessor(r) => r.predMissing
    \/ /\ Reads(o, s, c, "missing", "outcome_unknown", "changed")
       /\ r.started /\ HasPredecessor(r)
       /\ r.status = "cleanup_required" /\ r.intents # {} => ~r.predMissing
    \/ /\ Reads(o, s, c, "missing", "no_effect", "absent")
       /\ ~(r.started /\ HasPredecessor(r))
       /\ r.status = "cleanup_required" /\ r.intents # {} =>
            HasPredecessor(r) /\ ~r.predMissing

OutcomeOfRemoval(r, o, s, c) ==
    \/ Reads(o, s, c, "unreadable", "outcome_unknown", "unreadable")
    \/ Reads(o, s, c, "missing", "succeeded", "confirmed") /\ r.started
    \/ Reads(o, s, c, "available", "outcome_unknown", "changed")
         /\ (r.started \/ r.preflight # "available")
    \/ Reads(o, s, c, "missing", "no_effect", "absent") /\ ~r.started /\ r.preflight = "missing"
    \/ Reads(o, s, c, "missing", "no_effect", "changed") /\ ~r.started /\ r.preflight # "missing"
    \/ Reads(o, s, c, "available", "no_effect", "absent") /\ ~r.started /\ r.preflight = "available"

\* The observation after an installation decides its outcome.
LEMMA InstallOutcome ==
    ASSUME NEW r \in Rows, r.kind = "install", NEW o \in Observations
    PROVE  \E s \in Statuses, c \in Codes :
               Outcome(r, o) = <<s, c>> /\ OutcomeOfInstall(r, o, s, c)
<1> DEFINE Is(s, c) == Outcome(r, o) = <<s, c>> /\ OutcomeOfInstall(r, o, s, c)
<1>1. SUFFICES \E s, c : s \in Statuses /\ c \in Codes /\ Is(s, c)
  OBVIOUS
<1>t. r.started \in BOOLEAN /\ r.predMissing \in BOOLEAN
  BY DEF Rows
<1>2. CASE HasPredecessor(r) /\ o = "available" /\ ~r.predMissing
  <2>1. Is("outcome_unknown", "changed")
    BY <1>2 DEF Outcome, OutcomeOfInstall, Reads
  <2> QED
    BY <2>1 DEF Statuses, Codes
<1>3. CASE /\ ~(HasPredecessor(r) /\ o = "available" /\ ~r.predMissing)
           /\ r.status = "cleanup_required" /\ o = "missing" /\ r.intents # {}
           /\ HasPredecessor(r) => r.predMissing
  <2>1. Is("no_effect", "changed")
    BY <1>3 DEF Outcome, OutcomeOfInstall, Reads
  <2> QED
    BY <2>1 DEF Statuses, Codes
<1>4. CASE /\ ~(HasPredecessor(r) /\ o = "available" /\ ~r.predMissing)
           /\ ~(/\ r.status = "cleanup_required" /\ o = "missing" /\ r.intents # {}
                /\ HasPredecessor(r) => r.predMissing)
  <2>1. Outcome(r, o) = ObservedOutcome(r, o)
    BY <1>4 DEF Outcome
  <2>2. CASE o = "unreadable"
    <3>1. Is("outcome_unknown", "unreadable")
      BY <2>1, <2>2 DEF ObservedOutcome, OutcomeOfInstall, Reads
    <3> QED
      BY <3>1 DEF Statuses, Codes
  <2>3. CASE o = "missing" /\ r.started /\ HasPredecessor(r)
    <3>1. Is("outcome_unknown", "changed")
      BY <1>4, <2>1, <2>3 DEF ObservedOutcome, OutcomeOfInstall, Reads
    <3> QED
      BY <3>1 DEF Statuses, Codes
  <2>4. CASE o = "missing" /\ ~(r.started /\ HasPredecessor(r))
    <3>1. Is("no_effect", "absent")
      BY <1>4, <2>1, <2>4 DEF ObservedOutcome, OutcomeOfInstall, Reads
    <3> QED
      BY <3>1 DEF Statuses, Codes
  <2>5. CASE o = "available" /\ r.started
    <3>1. Is("succeeded", "confirmed")
      BY <1>4, <2>1, <2>5 DEF ObservedOutcome, OutcomeOfInstall, Reads
    <3> QED
      BY <3>1 DEF Statuses, Codes
  <2>6. CASE o = "available" /\ ~r.started
    <3>1. Is("outcome_unknown", "confirmed")
      BY <1>4, <2>1, <2>6 DEF ObservedOutcome, OutcomeOfInstall, Reads
    <3> QED
      BY <3>1 DEF Statuses, Codes
  <2> HIDE DEF Is
  <2> QED
    BY <2>2, <2>3, <2>4, <2>5, <2>6 DEF Observations
<1> HIDE DEF Is
<1> QED
  BY <1>2, <1>3, <1>4

\* The observation after a removal decides its outcome.
LEMMA RemovalOutcome ==
    ASSUME NEW r \in Rows, r.kind # "install", NEW o \in Observations
    PROVE  \E s \in Statuses, c \in Codes :
               Outcome(r, o) = <<s, c>> /\ OutcomeOfRemoval(r, o, s, c)
<1> DEFINE Is(s, c) == Outcome(r, o) = <<s, c>> /\ OutcomeOfRemoval(r, o, s, c)
<1>1. SUFFICES \E s, c : s \in Statuses /\ c \in Codes /\ Is(s, c)
  OBVIOUS
<1>t. r.started \in BOOLEAN /\ ~HasPredecessor(r)
  BY DEF Rows, HasPredecessor
<1>2. Outcome(r, o) = ObservedOutcome(r, o)
  BY <1>t DEF Outcome
<1>3. CASE o = "unreadable"
  <2>1. Is("outcome_unknown", "unreadable")
    BY <1>2, <1>3 DEF ObservedOutcome, OutcomeOfRemoval, Reads
  <2> QED
    BY <2>1 DEF Statuses, Codes
<1>4. CASE o = "missing" /\ r.started
  <2>1. Is("succeeded", "confirmed")
    BY <1>2, <1>4 DEF ObservedOutcome, OutcomeOfRemoval, Reads
  <2> QED
    BY <2>1 DEF Statuses, Codes
<1>5. CASE o = "available" /\ (r.started \/ r.preflight # "available")
  <2>1. Is("outcome_unknown", "changed")
    BY <1>2, <1>5 DEF ObservedOutcome, OutcomeOfRemoval, Reads
  <2> QED
    BY <2>1 DEF Statuses, Codes
<1>6. CASE o = "missing" /\ ~r.started /\ r.preflight = "missing"
  <2>1. Is("no_effect", "absent")
    BY <1>2, <1>6 DEF ObservedOutcome, OutcomeOfRemoval, Reads
  <2> QED
    BY <2>1 DEF Statuses, Codes
<1>7. CASE o = "missing" /\ ~r.started /\ r.preflight # "missing"
  <2>1. Is("no_effect", "changed")
    BY <1>2, <1>7 DEF ObservedOutcome, OutcomeOfRemoval, Reads
  <2> QED
    BY <2>1 DEF Statuses, Codes
<1>8. CASE o = "available" /\ ~r.started /\ r.preflight = "available"
  <2>1. Is("no_effect", "absent")
    BY <1>2, <1>8 DEF ObservedOutcome, OutcomeOfRemoval, Reads
  <2> QED
    BY <2>1 DEF Statuses, Codes
<1> HIDE DEF Is
<1> QED
  BY <1>t, <1>3, <1>4, <1>5, <1>6, <1>7, <1>8 DEF Observations

\* What a finished row says of the operation that was finished.
Finishes(r, n, o) ==
    /\ Unresolved(r) /\ ~Barrier(r)
    /\ SamePlan(r, n) /\ SameEvidence(r, n) /\ n.started = r.started /\ n.attested = o
    /\ n.status \in {"succeeded", "no_effect", "outcome_unknown"}
    /\ r.status = "cleanup_required" =>
         Terminal(n) /\ o = "missing" /\ (HasPredecessor(r) => r.predMissing)
    /\ n.status = "succeeded" =>
         IF r.kind = "install"
           THEN o = "available" /\ r.started /\ (HasPredecessor(r) => r.predMissing)
           ELSE o = "missing" /\ r.started
    /\ n.status = "no_effect" /\ r.kind = "install" =>
         o = "missing" /\ (r.intents = {} /\ HasPredecessor(r) => ~r.predIntent)
    /\ n.status = "no_effect" /\ r.kind # "install" =>
         \/ o = "missing"
         \/ o = "available" /\ ~r.started /\ r.intents = {}

\* A predecessor's removal that is under way is not finished over.
MayFinish(r) == r.status = "started" /\ r.predIntent => r.predMissing

\* A row of the outcome of its observation is as good as the row was.
LEMMA OutcomeRow ==
    ASSUME NEW r \in Rows, RowOK(r), MayFinish(r), NEW o \in Observations,
           NEW s \in Statuses, NEW c \in Codes, Outcome(r, o) = <<s, c>>,
           Unresolved(r), ~Barrier(r), ~PredecessorUnproved(r),
           r.status = "cleanup_required" => o = "missing"
    PROVE  LET n == Recorded(r, s, c, o)
           IN  n \in Rows /\ RowOK(n) /\ Finishes(r, n, o) /\ LegalTransition(r, n)
<1> DEFINE n == Recorded(r, s, c, o)
<1>1. /\ n \in Rows /\ SamePlan(r, n) /\ SameEvidence(r, n)
      /\ n.started = r.started /\ Says(n, s, c, o)
  BY RecordedRow
<1>2. IF r.kind = "install" THEN OutcomeOfInstall(r, o, s, c) ELSE OutcomeOfRemoval(r, o, s, c)
  <2>1. CASE r.kind = "install"
    <3>1. PICK t \in Statuses, d \in Codes : Outcome(r, o) = <<t, d>> /\ OutcomeOfInstall(r, o, t, d)
      BY <2>1, InstallOutcome
    <3>2. t = s /\ d = c
      BY <3>1
    <3> QED
      BY <2>1, <3>1, <3>2
  <2>2. CASE r.kind # "install"
    <3>1. PICK t \in Statuses, d \in Codes : Outcome(r, o) = <<t, d>> /\ OutcomeOfRemoval(r, o, t, d)
      BY <2>2, RemovalOutcome
    <3>2. t = s /\ d = c
      BY <3>1
    <3> QED
      BY <2>2, <3>1, <3>2
  <2> QED
    BY <2>1, <2>2
<1> HIDE DEF n
<1>3. Finishes(r, n, o)
  <2>1. CASE r.kind = "install"
    BY <1>1, <1>2, <2>1 DEF Finishes, OutcomeOfInstall, Reads, Says, RowOK, Decodes, MayFinish,
       PredecessorUnproved, HasPredecessor, Unresolved, Terminal, Barrier, SamePlan, SameEvidence, Rows
  <2>2. CASE r.kind # "install"
    BY <1>1, <1>2, <2>2 DEF Finishes, OutcomeOfRemoval, Reads, Says, RowOK, Decodes, MayFinish,
       PredecessorUnproved, HasPredecessor, Unresolved, Terminal, Barrier, SamePlan, SameEvidence, Rows
  <2> QED
    BY <2>1, <2>2
<1>4. HasPredecessor(n) = HasPredecessor(r) /\ Barrier(n) = Barrier(r)
  BY <1>1 DEF HasPredecessor, Barrier, SamePlan, SameEvidence
<1>5. Decodes(n)
  <2>1. CASE r.kind = "install"
    BY <1>1, <1>2, <1>3, <1>4, <2>1 DEF OutcomeOfInstall, Reads, Says, RowOK, Decodes, MayFinish,
       OutcomeMatchesAttestation, PredecessorUnproved, HasPredecessor, Unresolved, Terminal, SamePlan,
       SameEvidence, Rows
  <2>2. CASE r.kind # "install"
    BY <1>1, <1>2, <1>3, <1>4, <2>2 DEF OutcomeOfRemoval, Reads, Says, RowOK, Decodes, MayFinish,
       OutcomeMatchesAttestation, PredecessorUnproved, HasPredecessor, Unresolved, Terminal, SamePlan,
       SameEvidence, Rows, Observations
  <2> QED
    BY <2>1, <2>2
<1>6. RowOK(n)
  BY <1>1, <1>3, <1>4, <1>5 DEF RowOK, Decodes, MayFinish, Finishes, Unresolved, Terminal, SamePlan, SameEvidence,
     Says, Rows
<1>7. LegalTransition(r, n)
  BY <1>1, <1>3, <1>4 DEF LegalTransition, RowOK, Decodes, Finishes, Unresolved, Terminal, SamePlan, SameEvidence,
     Says, Rows
<1> QED
  BY <1>1, <1>3, <1>6, <1>7 DEF n

\* Finish refuses, or records the outcome of what was observed.
LEMMA FinishRow ==
    ASSUME NEW r \in Rows, RowOK(r), MayFinish(r), NEW o \in Observations
    PROVE  LET n == Finish(r, o)
           IN  /\ n \in Rows /\ RowOK(n)
               /\ n = r \/ (Finishes(r, n, o) /\ LegalTransition(r, n))
<1>1. CASE FinishRefused(r, o)
  <2>1. Finish(r, o) = r
    BY <1>1 DEF Finish
  <2> QED
    BY <2>1
<1>2. CASE ~FinishRefused(r, o)
  <2>1. PICK s \in Statuses, c \in Codes : Outcome(r, o) = <<s, c>>
    BY InstallOutcome, RemovalOutcome
  <2>2. Finish(r, o) = Recorded(r, s, c, o)
    BY <1>2, <2>1 DEF Finish
  <2>3. /\ Unresolved(r) /\ ~Barrier(r) /\ ~PredecessorUnproved(r)
        /\ r.status = "cleanup_required" => o = "missing"
    BY <1>2 DEF FinishRefused
  <2> QED
    BY <2>1, <2>2, <2>3, OutcomeRow
<1> QED
  BY <1>1, <1>2

\* An archive that is not refused settles the operation.
LEMMA FinishArchiveRow ==
    ASSUME NEW r \in Rows, RowOK(r), MayFinish(r)
    PROVE  LET n == FinishArchive(r)
           IN  /\ n \in Rows /\ RowOK(n)
               /\ ArchiveRefused(r) => n = r
               /\ ~ArchiveRefused(r) =>
                    Terminal(n) /\ Finishes(r, n, "missing") /\ LegalTransition(r, n)
<1>1. CASE ArchiveRefused(r)
  BY <1>1 DEF FinishArchive
<1>2. CASE ~ArchiveRefused(r)
  <2>0. "missing" \in Observations
    BY DEF Observations
  <2>1. PICK s \in Statuses, c \in Codes : Outcome(r, "missing") = <<s, c>>
    BY <2>0, InstallOutcome, RemovalOutcome
  <2>2. FinishArchive(r) = Recorded(r, s, c, "missing")
    BY <1>2, <2>1 DEF FinishArchive
  <2>3. Unresolved(r) /\ ~Barrier(r) /\ ~PredecessorUnproved(r) /\ s \in {"succeeded", "no_effect"}
    BY <1>2, <2>1 DEF ArchiveRefused
  <2>4. Terminal(FinishArchive(r))
    BY <2>0, <2>2, <2>3, RecordedRow DEF Terminal, Says
  <2> QED
    BY <1>2, <2>0, <2>1, <2>2, <2>3, <2>4, OutcomeRow
<1> QED
  BY <1>1, <1>2

\* record_provider_credential_archive_commit_failed leaves the operation to be archived again.
Postpones(r, n) ==
    /\ Unresolved(r) /\ ~Barrier(r) /\ ArchiveKind(r)
    /\ SamePlan(r, n) /\ SameEvidence(r, n) /\ n.started = r.started
    /\ Says(n, "cleanup_required", "archive_failed", "missing")

\* Recording that the archive failed postpones the row or leaves it as it was.
LEMMA ArchiveFailedRow ==
    ASSUME NEW r \in Rows, RowOK(r)
    PROVE  LET n == ArchiveFailed(r)
           IN  /\ n \in Rows /\ RowOK(n)
               /\ n = r \/ (Postpones(r, n) /\ LegalTransition(r, n))
<1> DEFINE n == ArchiveFailed(r)
           q == Recorded(r, "cleanup_required", "archive_failed", "missing")
<1>1. CASE n = r
  BY <1>1
<1>2. CASE n # r
  <2>1. /\ n = q /\ ~ArchiveRefused(r)
        /\ \/ r.started
           \/ r.status = "prepared"
           \/ ArchiveIntent(r) /\ r.status = "cleanup_required" /\ r.code = "changed"
    BY <1>2 DEF ArchiveFailed
  <2>2. /\ q \in Rows /\ SamePlan(r, q) /\ SameEvidence(r, q) /\ q.started = r.started
        /\ Says(q, "cleanup_required", "archive_failed", "missing")
    BY RecordedRow DEF Statuses, Codes, Observations
  <2> HIDE DEF q
  <2>3. Postpones(r, q)
    BY <2>1, <2>2 DEF Postpones, ArchiveRefused
  <2>4. HasPredecessor(q) = HasPredecessor(r) /\ Barrier(q) = Barrier(r)
    BY <2>2 DEF HasPredecessor, Barrier, SamePlan, SameEvidence
  <2>5. RowOK(q)
    BY <2>2, <2>3, <2>4 DEF Postpones, RowOK, Decodes, OutcomeMatchesAttestation, ArchiveKind,
       ArchiveIntent, Says, SamePlan, SameEvidence, Unresolved, Terminal, Rows
  <2>6. LegalTransition(r, q)
    BY <2>1, <2>2, <2>3, <2>4 DEF LegalTransition, Postpones, RowOK, Decodes, ArchiveKind, ArchiveReady,
       ArchiveIntent, ArchiveRefused, Says, SamePlan, SameEvidence, Unresolved, Terminal, Rows
  <2> HIDE DEF n
  <2>7. n \in Rows /\ RowOK(n) /\ Postpones(r, n) /\ LegalTransition(r, n)
    BY <2>1, <2>2, <2>3, <2>5, <2>6
  <2> QED
    BY <2>7 DEF n
<1> QED
  BY <1>1, <1>2

\* A cleanup mark that keeps the obligations, or adds one, leaves a row that decodes.
LEMMA MarkedRow ==
    ASSUME NEW r \in Rows, RowOK(r), r.status \in {"started", "outcome_unknown", "cleanup_required"},
           NEW n, NEW c, NEW o, NEW archive \in BOOLEAN, Marks(r, n, c, o, archive),
           r.slotBarrier => n.slotBarrier, r.predBarrier => n.predBarrier,
           n.predBarrier => HasPredecessor(r),
           \/ c = "changed" /\ o \in {"missing", "available"} /\ ~Barrier(r)
           \/ c = "unreadable" /\ o = "unreadable"
           \/ /\ c \in {"durability_unknown", "predecessor_durability_unknown"}
              /\ o = "unreadable" /\ Barrier(n)
    PROVE  RowOK(n) /\ LegalTransition(r, n)
<1>1. HasPredecessor(n) = HasPredecessor(r)
  BY DEF HasPredecessor, Marks, SamePlan
<1>2. RowOK(n)
  BY <1>1 DEF RowOK, Decodes, OutcomeMatchesAttestation, Marks, Says, SamePlan, Unresolved, Terminal, Barrier, Rows
<1>3. LegalTransition(r, n)
  BY DEF LegalTransition, RowOK, Decodes, OutcomeMatchesAttestation, Marks, Says, SamePlan, Unresolved,
     Terminal, Barrier, Rows
<1> QED
  BY <1>2, <1>3

\* What every mark leaves of a row, whatever it is written for.
Cleans(r, n) ==
    /\ n \in Rows /\ RowOK(n) /\ LegalTransition(r, n)
    /\ SamePlan(r, n)
    /\ n.status = "cleanup_required" /\ n.intents # {}
    /\ n.predIntent = r.predIntent /\ n.predMissing = r.predMissing
    /\ r.started => n.started
    /\ r.slotBarrier => n.slotBarrier
    /\ r.predBarrier => n.predBarrier

\* A mark that records the obligation of the operation's slot.
LEMMA SlotBarrierCleans ==
    ASSUME NEW r \in Rows, RowOK(r), r.status \in {"started", "outcome_unknown", "cleanup_required"},
           NEW archive \in BOOLEAN
    PROVE  LET n == MarkSlotBarrier(r, archive)
           IN  Cleans(r, n) /\ n.slotBarrier /\ n.predBarrier = r.predBarrier
<1> DEFINE n == MarkSlotBarrier(r, archive)
<1>1. /\ Marks(r, n, "durability_unknown", "unreadable", archive)
      /\ n.slotBarrier /\ n.predBarrier = r.predBarrier
  BY MarkSlotBarrierRow
<1> HIDE DEF n
<1>2. RowOK(n) /\ LegalTransition(r, n)
  <2>1. n.predBarrier => HasPredecessor(r)
    BY <1>1 DEF RowOK, Decodes
  <2> QED
    BY <1>1, <2>1, MarkedRow DEF Barrier
<1>3. Cleans(r, n)
  BY <1>1, <1>2 DEF Cleans, Marks, Says
<1> QED
  BY <1>1, <1>3 DEF n

\* A mark that records the obligation of the predecessor's slot.
LEMMA PredecessorBarrierCleans ==
    ASSUME NEW r \in Rows, RowOK(r), r.status \in {"started", "outcome_unknown", "cleanup_required"},
           HasPredecessor(r), NEW archive \in BOOLEAN
    PROVE  LET n == MarkPredecessorBarrier(r, archive)
           IN  Cleans(r, n) /\ n.predBarrier /\ n.slotBarrier = r.slotBarrier
<1> DEFINE n == MarkPredecessorBarrier(r, archive)
<1>1. /\ Marks(r, n, "predecessor_durability_unknown", "unreadable", archive)
      /\ n.predBarrier /\ n.slotBarrier = r.slotBarrier
  BY MarkPredecessorBarrierRow
<1> HIDE DEF n
<1>2. RowOK(n) /\ LegalTransition(r, n)
  BY <1>1, MarkedRow DEF Barrier
<1>3. Cleans(r, n)
  BY <1>1, <1>2 DEF Cleans, Marks, Says
<1> QED
  BY <1>1, <1>3 DEF n

\* The fence's obligation names the slot whose native effect was in flight.
LEMMA FenceCleans ==
    ASSUME NEW r \in Rows, RowOK(r), r.status = "started"
    PROVE  LET n == Fence(r)
           IN  /\ Cleans(r, n)
               /\ IF HasPredecessor(r) /\ r.predIntent /\ ~r.predMissing
                    THEN n.predBarrier ELSE n.slotBarrier
<1>1. ArchiveIntent(r) \in BOOLEAN
  BY DEF ArchiveIntent
<1>2. CASE HasPredecessor(r) /\ r.predIntent /\ ~r.predMissing
  <2>1. Fence(r) = MarkPredecessorBarrier(r, ArchiveIntent(r))
    BY <1>2 DEF Fence
  <2> QED
    BY <1>1, <1>2, <2>1, PredecessorBarrierCleans
<1>3. CASE ~(HasPredecessor(r) /\ r.predIntent /\ ~r.predMissing)
  <2>1. Fence(r) = MarkSlotBarrier(r, ArchiveIntent(r))
    BY <1>3 DEF Fence
  <2> QED
    BY <1>1, <1>3, <2>1, SlotBarrierCleans
<1> QED
  BY <1>2, <1>3

\* The explicit cleanup's intent keeps the obligations as they are.
LEMMA ExplicitCleanupCleans ==
    ASSUME NEW r \in Rows, RowOK(r), r.status \in {"outcome_unknown", "cleanup_required"},
           NEW o \in Observations, NEW archive \in BOOLEAN
    PROVE  LET n == MarkExplicitCleanup(r, o, archive)
           IN  /\ Cleans(r, n)
               /\ n.slotBarrier = r.slotBarrier /\ n.predBarrier = r.predBarrier
<1> DEFINE n == MarkExplicitCleanup(r, o, archive)
<1>t. r.slotBarrier \in BOOLEAN /\ r.predBarrier \in BOOLEAN
  BY DEF Rows
<1>1. CASE r.slotBarrier
  <2>1. n = MarkSlotBarrier(r, archive)
    BY <1>1 DEF MarkExplicitCleanup
  <2> QED
    BY <1>t, <1>1, <2>1, SlotBarrierCleans
<1>2. CASE ~r.slotBarrier /\ r.predBarrier
  <2>1. n = MarkPredecessorBarrier(r, archive)
    BY <1>2 DEF MarkExplicitCleanup
  <2>2. HasPredecessor(r)
    BY <1>2 DEF RowOK, Decodes
  <2> QED
    BY <1>t, <1>2, <2>1, <2>2, PredecessorBarrierCleans
<1>3. CASE ~r.slotBarrier /\ ~r.predBarrier
  <2> DEFINE c == IF o = "unreadable" THEN "unreadable" ELSE "changed"
  <2>1. n = MarkCleanup(r, c, o, archive)
    BY <1>3 DEF MarkExplicitCleanup
  <2>2. c \in Codes
    BY DEF Codes
  <2>3. \/ c = "changed" /\ o \in {"missing", "available"}
        \/ c = "unreadable" /\ o = "unreadable"
    BY DEF Observations
  <2> HIDE DEF c
  <2>4. /\ Marks(r, n, c, o, archive)
        /\ n.slotBarrier = r.slotBarrier /\ n.predBarrier = r.predBarrier
    BY <2>1, <2>2, MarkCleanupRow
  <2> HIDE DEF n
  <2>5. RowOK(n) /\ LegalTransition(r, n)
    BY <1>3, <2>3, <2>4, MarkedRow DEF Barrier
  <2>6. Cleans(r, n)
    BY <2>4, <2>5 DEF Cleans, Marks, Says
  <2> QED
    BY <2>4, <2>6 DEF n
<1> QED
  BY <1>t, <1>1, <1>2, <1>3

\* A repaired obligation is gone, and the row moves on when no other is left.
Repairs(r, n) ==
    /\ n \in Rows /\ RowOK(n)
    /\ (n.status = r.status /\ n.code = r.code) \/ LegalTransition(r, n)
    /\ SamePlan(r, n)
    /\ n.status = "cleanup_required" /\ n.intents = r.intents /\ n.started = r.started
    /\ n.predIntent = r.predIntent /\ n.predMissing = r.predMissing

\* Attesting a repair keeps the plan and the evidence, and the cleanup stays required.
LEMMA RepairedRow ==
    ASSUME NEW r \in Rows, RowOK(r), r.status = "cleanup_required", r.intents # {},
           NEW q \in Rows, SamePlan(r, q), Says(q, r.status, r.code, r.attested),
           q.intents = r.intents, q.started = r.started,
           q.predIntent = r.predIntent, q.predMissing = r.predMissing,
           q.slotBarrier => r.slotBarrier, q.predBarrier => r.predBarrier
    PROVE  /\ Repairs(r, Repaired(q))
           /\ Repaired(q).slotBarrier = q.slotBarrier /\ Repaired(q).predBarrier = q.predBarrier
<1>1. HasPredecessor(q) = HasPredecessor(r)
  BY DEF HasPredecessor, SamePlan
<1>2. CASE Barrier(q)
  <2>1. Repaired(q) = q
    BY <1>2 DEF Repaired
  <2>2. RowOK(q)
    BY <1>1, <1>2 DEF RowOK, Decodes, OutcomeMatchesAttestation, ArchiveKind, ArchiveIntent, Says, SamePlan,
       Unresolved, Terminal, Barrier, Rows
  <2> QED
    BY <2>1, <2>2 DEF Repairs, Says
<1>3. CASE ~Barrier(q)
  <2> DEFINE n == Recorded(q, "cleanup_required", "changed", "missing")
  <2>1. Repaired(q) = n
    BY <1>3 DEF Repaired
  <2>2. /\ n \in Rows /\ SamePlan(q, n) /\ SameEvidence(q, n) /\ n.started = q.started
        /\ Says(n, "cleanup_required", "changed", "missing")
    BY RecordedRow DEF Statuses, Codes, Observations
  <2> HIDE DEF n
  <2>3. HasPredecessor(n) = HasPredecessor(r) /\ Barrier(n) = Barrier(q)
    BY <2>2 DEF HasPredecessor, Barrier, SamePlan, SameEvidence
  <2>4. RowOK(n)
    BY <1>1, <1>3, <2>2, <2>3 DEF RowOK, Decodes, OutcomeMatchesAttestation, Says, SamePlan,
       SameEvidence, Unresolved, Terminal, Barrier, Rows
  <2>5. LegalTransition(r, n)
    BY <1>3, <2>2 DEF LegalTransition, Says, SamePlan, SameEvidence, Terminal, Rows
  <2>6. Repairs(r, n) /\ n.slotBarrier = q.slotBarrier /\ n.predBarrier = q.predBarrier
    BY <2>2, <2>4, <2>5 DEF Repairs, Says, SamePlan, SameEvidence
  <2> QED
    BY <2>1, <2>6
<1> QED
  BY <1>2, <1>3

\* The repair of the operation's slot.
LEMMA RepairSlotRow ==
    ASSUME NEW r \in Rows, RowOK(r), r.status = "cleanup_required", r.intents # {}
    PROVE  /\ Repairs(r, RepairSlot(r))
           /\ ~RepairSlot(r).slotBarrier /\ RepairSlot(r).predBarrier = r.predBarrier
<1> DEFINE q == [r EXCEPT !.slotBarrier = FALSE]
<1>1. /\ q \in Rows /\ SamePlan(r, q) /\ Says(q, r.status, r.code, r.attested)
      /\ q.intents = r.intents /\ q.started = r.started
      /\ q.predIntent = r.predIntent /\ q.predMissing = r.predMissing
      /\ ~q.slotBarrier /\ q.predBarrier = r.predBarrier
  BY DEF Rows, SamePlan, Says
<1>2. RepairSlot(r) = Repaired(q)
  BY DEF RepairSlot
<1> HIDE DEF q
<1> QED
  BY <1>1, <1>2, RepairedRow

\* The repair of the predecessor's slot.
LEMMA RepairPredecessorRow ==
    ASSUME NEW r \in Rows, RowOK(r), r.status = "cleanup_required", r.intents # {}
    PROVE  /\ Repairs(r, RepairPredecessor(r))
           /\ ~RepairPredecessor(r).predBarrier
           /\ RepairPredecessor(r).slotBarrier = r.slotBarrier
<1> DEFINE q == [r EXCEPT !.predBarrier = FALSE]
<1>1. /\ q \in Rows /\ SamePlan(r, q) /\ Says(q, r.status, r.code, r.attested)
      /\ q.intents = r.intents /\ q.started = r.started
      /\ q.predIntent = r.predIntent /\ q.predMissing = r.predMissing
      /\ ~q.predBarrier /\ q.slotBarrier = r.slotBarrier
  BY DEF Rows, SamePlan, Says
<1>2. RepairPredecessor(r) = Repaired(q)
  BY DEF RepairPredecessor
<1> HIDE DEF q
<1> QED
  BY <1>1, <1>2, RepairedRow

\* The attestations about the predecessor leave everything else as it was.
Attests(r, n) ==
    /\ n \in Rows /\ RowOK(n) /\ SamePlan(r, n) /\ Says(n, r.status, r.code, r.attested)
    /\ n.started = r.started /\ n.intents = r.intents
    /\ n.slotBarrier = r.slotBarrier /\ n.predBarrier = r.predBarrier

\* The intent to delete the predecessor.
LEMMA AttestIntentRow ==
    ASSUME NEW r \in Rows, RowOK(r), HasPredecessor(r), r.status \in {"started", "cleanup_required"}
    PROVE  LET n == AttestPredecessorIntent(r)
           IN  Attests(r, n) /\ n.predIntent /\ n.predMissing = r.predMissing
<1> DEFINE n == AttestPredecessorIntent(r)
<1>1. /\ n \in Rows /\ SamePlan(r, n) /\ Says(n, r.status, r.code, r.attested)
      /\ n.started = r.started /\ n.intents = r.intents
      /\ n.slotBarrier = r.slotBarrier /\ n.predBarrier = r.predBarrier
      /\ n.predIntent /\ n.predMissing = r.predMissing
  BY DEF AttestPredecessorIntent, Rows, SamePlan, Says
<1> HIDE DEF n
<1>2. RowOK(n)
  BY <1>1 DEF RowOK, Decodes, OutcomeMatchesAttestation, ArchiveKind, ArchiveIntent, HasPredecessor, Says, SamePlan,
       Unresolved, Terminal, Barrier, Rows
<1>3. Attests(r, n)
  BY <1>1, <1>2 DEF Attests
<1> QED
  BY <1>1, <1>3 DEF n

\* The observation that the predecessor is gone.
LEMMA AttestMissingRow ==
    ASSUME NEW r \in Rows, RowOK(r), HasPredecessor(r), r.predIntent,
           r.status \in {"started", "cleanup_required"}
    PROVE  LET n == AttestPredecessorMissing(r)
           IN  Attests(r, n) /\ n.predMissing /\ n.predIntent
<1> DEFINE n == AttestPredecessorMissing(r)
<1>1. /\ n \in Rows /\ SamePlan(r, n) /\ Says(n, r.status, r.code, r.attested)
      /\ n.started = r.started /\ n.intents = r.intents
      /\ n.slotBarrier = r.slotBarrier /\ n.predBarrier = r.predBarrier
      /\ n.predMissing /\ n.predIntent
  BY DEF AttestPredecessorMissing, Rows, SamePlan, Says
<1> HIDE DEF n
<1>2. RowOK(n)
  BY <1>1 DEF RowOK, Decodes, OutcomeMatchesAttestation, ArchiveKind, ArchiveIntent, HasPredecessor, Says, SamePlan,
       Unresolved, Terminal, Barrier, Rows
<1>3. Attests(r, n)
  BY <1>1, <1>2 DEF Attests
<1> QED
  BY <1>1, <1>3 DEF n

\* The cutpoint before the native call.
LEMMA StartedIsGood ==
    ASSUME NEW r \in Rows, RowOK(r), r.status = "prepared",
           r.kind # "install" => r.preflight # "missing"
    PROVE  RowOK(Started(r)) /\ LegalTransition(r, Started(r))
<1> DEFINE n == Started(r)
<1>1. /\ n \in Rows /\ SamePlan(r, n) /\ SameEvidence(r, n) /\ n.started
      /\ Says(n, "started", r.code, r.attested)
  BY StartedRow
<1> HIDE DEF n
<1>2. HasPredecessor(n) = HasPredecessor(r) /\ Barrier(n) = Barrier(r)
  BY <1>1 DEF HasPredecessor, Barrier, SamePlan, SameEvidence
<1>3. RowOK(n)
  BY <1>1, <1>2 DEF RowOK, Decodes, OutcomeMatchesAttestation, Says, SamePlan, SameEvidence, Unresolved, Terminal, Rows
<1>4. LegalTransition(r, n)
  BY <1>1, <1>2 DEF LegalTransition, RowOK, Decodes, Says, SamePlan, SameEvidence, Terminal, Rows
<1> QED
  BY <1>3, <1>4 DEF n

-----------------------------------------------------------------------------
(* The ownership projection and the vault.                                 *)

\* Only a row that settles moves the ownership.
LEMMA OwnershipStays ==
    ASSUME NEW n, Journal(n), ~Terminal(n) \/ n = op
    PROVE  op' = n /\ ownership' = ownership /\ garbage' = garbage
<1>1. OwnershipAfter(op, n, ownership) = ownership
  BY DEF OwnershipAfter, ProjectsRemoval, ProjectsInstall, Terminal
<1> QED
  BY <1>1 DEF Journal

\* A settled row takes the ownership away, gives it, or leaves it.
LEMMA OwnershipSettles ==
    ASSUME NEW n, Journal(n), Terminal(n), n # op
    PROVE  /\ op' = n
           /\ ProjectsRemoval(op, n) => ownership' = [state |-> "removed", slot |-> RawSlot]
           /\ ProjectsInstall(op, n) => ownership' = [state |-> "owned", slot |-> op.slot]
           /\ ~ProjectsRemoval(op, n) /\ ~ProjectsInstall(op, n) => ownership' = ownership
BY DEF Journal, OwnershipAfter, ProjectsInstall

\* Slot 0 belongs to no authority.
LEMMA RawIsASlot == RawSlot \in Slots /\ RawSlot = 0 /\ Authorities \subseteq Slots
BY DEF Slots, RawSlot

\* A slot is a number, and every slot but the raw one is an authority.
LEMMA SlotsAreNumbers ==
    ASSUME NEW s \in Slots
    PROVE  s \in Nat /\ (s # RawSlot <=> s \in Authorities)
BY CredentialAssumption DEF Slots, RawSlot, Authorities

\* A journal write keeps the types of the row, the ownership and the garbage queue.
LEMMA JournalTyped ==
    ASSUME Typed, NEW n \in Rows, Journal(n)
    PROVE  /\ op' = n /\ op' \in Rows /\ ownership' \in Owners
           /\ garbage' \in [Authorities -> {"none", "pending", "completed"}]
<1>1. op' = n
  BY DEF Journal
<1>2. ownership' \in Owners
  <2>1. ownership' \in {ownership, [state |-> "removed", slot |-> RawSlot],
                        [state |-> "owned", slot |-> op.slot]}
    BY DEF Journal, OwnershipAfter
  <2>2. op.slot \in Slots
    BY DEF Typed, Rows
  <2> QED
    BY <2>1, <2>2, RawIsASlot DEF Typed, Owners
<1>3. garbage' \in [Authorities -> {"none", "pending", "completed"}]
  BY DEF Journal, Typed
<1> QED
  BY <1>1, <1>2, <1>3

\* An observation that does not fail shows what the slot visibly holds.
LEMMA ObserveFacts ==
    ASSUME Typed, NEW s \in Slots, NEW o \in Observations, Observe(s, o)
    PROVE  /\ faults' \in 0 .. MaxFaults
           /\ o = "missing" => ~vault[s].seen
           /\ o = "available" => vault[s].seen
BY CredentialAssumption DEF Observe, Typed

\* A slot holds two booleans.
LEMMA ContentIsTyped ==
    ASSUME NEW x \in SlotState
    PROVE  /\ x.seen \in BOOLEAN /\ x.durable \in BOOLEAN
           /\ \A b \in BOOLEAN : (x = Settled(b)) <=> (x.seen = b /\ x.durable = b)
BY DEF SlotState, Settled

\* The two copies of a slot of the vault, the one seen and the durable one.
LEMMA SlotIsTyped ==
    ASSUME vault \in [Slots -> SlotState], NEW s \in Slots
    PROVE  /\ vault[s] \in SlotState /\ vault[s].seen \in BOOLEAN /\ vault[s].durable \in BOOLEAN
           /\ \A b \in BOOLEAN :
                (vault[s] = Settled(b)) <=> (vault[s].seen = b /\ vault[s].durable = b)
<1>1. vault[s] \in SlotState
  OBVIOUS
<1> QED
  BY <1>1, ContentIsTyped

\* A native call, answered or not, touches one slot.
Touches(s, present) ==
    /\ vault' \in [Slots -> SlotState]
    /\ \A t \in Slots : t # s => vault'[t] = vault[t]
    /\ vault'[s].seen \in {present, vault[s].seen}
    /\ vault'[s].durable \in {present, vault[s].durable}

\* What a native vault call may do to its slot, by the answer it gives.
LEMMA NativeFacts ==
    ASSUME Typed, NEW s \in Slots, NEW present \in BOOLEAN, NEW answer, Native(s, present, answer)
    PROVE  /\ Touches(s, present)
           /\ answer = "ok" => vault'[s] = Settled(present)
           /\ answer = "error" => vault'[s] = vault[s] \/ vault'[s] = Settled(present)
           /\ faults' \in 0 .. MaxFaults /\ crashes' = crashes
<1>v. vault \in [Slots -> SlotState] /\ vault[s] \in SlotState
        /\ vault[s].seen \in BOOLEAN /\ vault[s].durable \in BOOLEAN
  BY SlotIsTyped DEF Typed
<1>s. Settled(present) \in SlotState /\ Settled(present).seen = present /\ Settled(present).durable = present
  BY DEF Settled, SlotState
<1>f. faults' \in 0 .. MaxFaults /\ crashes' = crashes
  BY CredentialAssumption DEF Native, Typed
<1>1. CASE answer = "ok"
  <2>1. vault' = [vault EXCEPT ![s] = Settled(present)]
    BY <1>1 DEF Native
  <2> QED
    BY <1>v, <1>s, <1>f, <1>1, <2>1 DEF Touches
<1>2. CASE answer = "error"
  <2>1. vault' = vault \/ vault' = [vault EXCEPT ![s] = Settled(present)]
    BY <1>2 DEF Native
  <2> QED
    BY <1>v, <1>s, <1>f, <1>2, <2>1 DEF Touches
<1>3. CASE answer = "recovery"
  <2>1. PICK seen \in {present, vault[s].seen}, kept \in {present, vault[s].durable} :
               vault' = [vault EXCEPT ![s] = [seen |-> seen, durable |-> kept]]
    BY <1>3 DEF Native
  <2>2. [seen |-> seen, durable |-> kept] \in SlotState
    BY <1>v DEF SlotState
  <2> QED
    BY <1>v, <1>f, <1>3, <2>1, <2>2 DEF Touches
<1> QED
  BY <1>1, <1>2, <1>3 DEF Native

\* A call that the process does not survive.
LEMMA UnansweredFacts ==
    ASSUME Typed, NEW s \in Slots, NEW present \in BOOLEAN, Unanswered(s, present)
    PROVE  /\ Touches(s, present)
           /\ crashes' \in 0 .. MaxCrashes /\ faults' = faults /\ proc' = Down
           /\ op' = op /\ ownership' = ownership /\ garbage' = garbage /\ archived' = archived
           /\ minted' = minted /\ asked' = asked
<1>v. vault \in [Slots -> SlotState] /\ vault[s] \in SlotState
        /\ vault[s].seen \in BOOLEAN /\ vault[s].durable \in BOOLEAN
  BY SlotIsTyped DEF Typed
<1>1. PICK seen \in {present, vault[s].seen}, kept \in {present, vault[s].durable} :
             vault' = [vault EXCEPT ![s] = [seen |-> seen, durable |-> kept]]
  BY DEF Unanswered
<1>2. [seen |-> seen, durable |-> kept] \in SlotState
  BY <1>v DEF SlotState
<1>3. Touches(s, present)
  BY <1>v, <1>1, <1>2 DEF Touches
<1> QED
  BY <1>3, CredentialAssumption DEF Unanswered, Typed, durable

-----------------------------------------------------------------------------
(* What leaves parts of the invariant alone.                               *)

\* The parts about the row, the ownership and the vault that do not look at the command.
StoreOK == PlanOK /\ OwnerOK /\ FreshSlots /\ Untouched /\ KnownSlots /\ PredecessorOK

SameStore ==
    /\ vault' = vault /\ ownership' = ownership /\ archived' = archived
    /\ minted' = minted /\ unrecorded' = unrecorded
    /\ asked => asked'

\* A step of the command that writes nothing.
LEMMA StoreStays ==
    ASSUME StoreOK, SameStore, op' = op
    PROVE  StoreOK'
<1>1. PlanOK' /\ OwnerOK'
  BY DEF StoreOK, SameStore, PlanOK, OwnerOK
<1>2. FreshSlots' /\ Untouched' /\ KnownSlots'
  BY DEF StoreOK, SameStore, FreshSlots, Untouched, KnownSlots
<1>3. PredecessorOK'
  BY DEF StoreOK, SameStore, PredecessorOK
<1> QED
  BY <1>1, <1>2, <1>3 DEF StoreOK

\* A row that stays unresolved and only gains evidence.
Progresses(r, n) ==
    /\ Unresolved(r) /\ Unresolved(n) /\ SamePlan(r, n)
    /\ n.intents = {} => r.intents = {}
    /\ r.predIntent => n.predIntent
    /\ r.started => n.started

\* Evidence on the predecessor that is new must be true.
EvidenceHolds ==
    /\ op'.predMissing =>
         op.predMissing \/ vault[op.pred] = Settled(FALSE) \/ op.pred \in unrecorded
    /\ op'.predIntent => op.predIntent \/ asked' \/ vault[op.slot].durable

\* A row that makes progress over a vault that stays.
LEMMA StoreProgresses ==
    ASSUME StoreOK, SameStore, op \in Rows, op' \in Rows, Progresses(op, op'), EvidenceHolds
    PROVE  StoreOK'
<1>1. /\ Unresolved(op) /\ Unresolved(op)' /\ HasPredecessor(op)' = HasPredecessor(op)
      /\ op'.kind = op.kind /\ op'.slot = op.slot /\ op'.pred = op.pred
  BY DEF Progresses, SamePlan, HasPredecessor, Unresolved
<1>2. PlanOK' /\ OwnerOK'
  BY <1>1 DEF StoreOK, SameStore, PlanOK, OwnerOK, Progresses
<1>3. FreshSlots' /\ KnownSlots'
  BY <1>1 DEF StoreOK, SameStore, FreshSlots, KnownSlots
<1>4. Untouched'
  BY <1>1 DEF StoreOK, SameStore, Untouched, Progresses, Rows
<1>5. PredecessorOK'
  BY <1>1 DEF StoreOK, SameStore, PredecessorOK, EvidenceHolds
<1> QED
  BY <1>2, <1>3, <1>4, <1>5 DEF StoreOK

\* The doubts that a step may not forget.
DoubtsStay ==
    /\ Unresolved(op) => Unresolved(op') /\ op'.slot = op.slot /\ op'.pred = op.pred
    /\ Unresolved(op) /\ SlotInDoubt => SlotInDoubt' \/ op.slot \in unrecorded'
    /\ Unresolved(op) /\ PredecessorInDoubt => PredecessorInDoubt' \/ op.pred \in unrecorded'

\* A step that forgets no doubt over a vault that stays.
LEMMA DoubtRemains ==
    ASSUME DoubtIsRecorded, vault' = vault, unrecorded \subseteq unrecorded', DoubtsStay
    PROVE  DoubtIsRecorded'
<1>1. SUFFICES ASSUME NEW s \in Slots \ unrecorded'
               PROVE  \/ vault[s].seen = vault[s].durable
                      \/ Unresolved(op') /\ s = op'.slot /\ SlotInDoubt'
                      \/ Unresolved(op') /\ s = op'.pred /\ PredecessorInDoubt'
  BY DEF DoubtIsRecorded, Unresolved
<1>2. \/ vault[s].seen = vault[s].durable
      \/ Unresolved(op) /\ s = op.slot /\ SlotInDoubt
      \/ Unresolved(op) /\ s = op.pred /\ PredecessorInDoubt
  BY DEF DoubtIsRecorded
<1> QED
  BY <1>2 DEF DoubtsStay

\* A command that has ended, or a process that has, has nothing to keep.
LEMMA NoCommand ==
    ASSUME proc'.pc \in {"idle", "garbage", "down"}
    PROVE  CommandOK'
BY DEF CommandOK, Installing, Replacing, Deleting, Cleaning, RecoveringOK, At

\* The parts of the invariant that speak of the store, and of the command.
LEMMA InvParts ==
    ASSUME Typed, RowOK(op), StoreOK, DoubtIsRecorded, CommandOK
    PROVE  IndInv
BY DEF IndInv, StoreOK, VaultOK

\* The invariant in the parts the action lemmas use.
LEMMA PartsOfInv ==
    ASSUME IndInv
    PROVE  Typed /\ RowOK(op) /\ StoreOK /\ DoubtIsRecorded /\ CommandOK
BY DEF IndInv, StoreOK, VaultOK

\* The values of the command's record.
LEMMA ProcFields ==
    /\ Idle \in Procs /\ Idle.pc = "idle"
    /\ Down \in Procs /\ Down.pc = "down"
    /\ [Idle EXCEPT !.pc = "garbage"] \in Procs /\ [Idle EXCEPT !.pc = "garbage"].pc = "garbage"
BY DEF Idle, Down, Procs, PCs, Observations

\* Moving to another program counter keeps the command's local variables.
LEMMA GotoFields ==
    ASSUME proc \in Procs, NEW p \in PCs, Goto(p)
    PROVE  /\ proc' \in Procs /\ proc'.pc = p /\ proc'.archive = proc.archive
           /\ proc'.observed = proc.observed /\ proc'.repairSlot = proc.repairSlot
           /\ proc'.then = proc.then
BY DEF Goto, Procs

\* The parts of a row.
LEMMA RowFields ==
    ASSUME NEW r \in Rows
    PROVE  /\ r.kind \in Kinds /\ r.slot \in Slots /\ r.pred \in Slots
           /\ r.preflight \in Observations /\ r.started \in BOOLEAN
           /\ r.status \in Statuses /\ r.code \in Codes /\ r.attested \in Observations
           /\ r.intents \subseteq {"remove", "archive"}
           /\ r.predIntent \in BOOLEAN /\ r.predMissing \in BOOLEAN
           /\ r.slotBarrier \in BOOLEAN /\ r.predBarrier \in BOOLEAN
BY DEF Rows

-----------------------------------------------------------------------------
(* A row that settles.                                                     *)

\* A row settles on what its slot was seen to hold, with nothing in doubt.
SettlesOn(n, o) ==
    /\ n \in Rows /\ Terminal(n) /\ Finishes(op, n, o) /\ Journal(n)
    /\ o = "missing" => ~vault[op.slot].seen
    /\ o = "available" => vault[op.slot].seen
    /\ vault' = vault /\ minted' = minted /\ unrecorded' = unrecorded
    /\ ~SlotInDoubt /\ ~PredecessorInDoubt
    /\ archived' => archived \/ (ArchiveKind(op) /\ o = "missing")

\* The vault, the ownership and the connection agree on a settled row.
LEMMA StoreSettles ==
    ASSUME Typed, RowOK(op), StoreOK, DoubtIsRecorded, NEW n, NEW o, SettlesOn(n, o)
    PROVE  StoreOK' /\ DoubtIsRecorded'
<1>n. /\ op' = n /\ ~Unresolved(op') /\ ~Unresolved(op)' /\ Unresolved(op)
      /\ n # op /\ vault' = vault /\ minted' = minted /\ unrecorded' = unrecorded
  BY DEF SettlesOn, Journal, Finishes, Unresolved, Terminal
<1>r. op \in Rows
  BY DEF Typed
<1>v. \A s \in Slots : vault[s].seen \in BOOLEAN /\ vault[s].durable \in BOOLEAN
        /\ (vault[s] = Settled(TRUE) <=> vault[s].seen = TRUE /\ vault[s].durable = TRUE)
        /\ (vault[s] = Settled(FALSE) <=> vault[s].seen = FALSE /\ vault[s].durable = FALSE)
  BY SlotIsTyped DEF Typed
<1>f. \A s \in Slots \ unrecorded : vault[s].seen = vault[s].durable
  BY DEF DoubtIsRecorded, SettlesOn
<1>s. op.slot \in Slots /\ op.pred \in Slots /\ ownership.slot \in Slots /\ minted \in Nat
  BY <1>r, RowFields, CredentialAssumption DEF Typed, Owners
<1>i. op.intents # {} => op.status = "cleanup_required"
  BY <1>n DEF RowOK
<1>p. op.kind = "install" /\ ownership.state \in {"owned", "legacy_pending"} =>
        ownership.state = "owned" /\ ownership.slot = op.pred /\ HasPredecessor(op)
  BY <1>n DEF StoreOK, PlanOK, OwnerOK, HasPredecessor
<1>q. op.kind # "install" => ownership.slot = op.slot
  BY <1>n DEF StoreOK, PlanOK
<1>m. HasPredecessor(op) /\ op.predMissing => vault[op.pred] = Settled(FALSE) \/ op.pred \in unrecorded
  BY <1>n DEF StoreOK, PredecessorOK
<1>k. \A s \in Slots \ unrecorded : vault[s].seen \/ vault[s].durable =>
            \/ ownership.state \in {"owned", "legacy_pending"} /\ ownership.slot = s
            \/ op.kind = "install" /\ op.slot = s
  BY DEF StoreOK, KnownSlots
<1>d. DoubtIsRecorded'
  BY <1>n, <1>f DEF DoubtIsRecorded
<1>e. PlanOK' /\ PredecessorOK' /\ FreshSlots'
  BY <1>n DEF PlanOK, PredecessorOK, FreshSlots, StoreOK
<1>a. archived' => ArchiveKind(op) /\ o = "missing"
  BY <1>n DEF SettlesOn, StoreOK, OwnerOK
<1>b. Finishes(op, n, o) /\ (o = "missing" => ~vault[op.slot].seen) /\ (o = "available" => vault[op.slot].seen)
  BY DEF SettlesOn
<1>c. n.status \in {"succeeded", "no_effect"} /\ n.kind = op.kind /\ n.attested = o
  BY DEF SettlesOn, Terminal, Finishes, SamePlan
<1>1. CASE ProjectsRemoval(op, n)
  <2>1. ownership'.state = "removed" /\ ownership'.slot = RawSlot
    BY <1>1, <1>n, OwnershipSettles DEF SettlesOn
  <2>2. o = "missing" /\ (op.kind = "install" => op.status = "cleanup_required")
    BY <1>1, <1>b, <1>c DEF ProjectsRemoval, Finishes, Terminal
  <2>3. HasPredecessor(op) => op.predMissing
    BY <1>b, <2>2 DEF Finishes, HasPredecessor
  <2>4. \A s \in Slots \ unrecorded : ~vault[s].seen /\ ~vault[s].durable
    BY <1>b, <1>f, <1>k, <1>m, <1>p, <1>q, <1>s, <1>v, <2>2, <2>3
  <2>5. OwnerOK'
    BY <1>n, <1>s, <2>1 DEF OwnerOK, RawSlot
  <2>6. KnownSlots'
    BY <1>n, <2>4 DEF KnownSlots
  <2>7. Untouched'
    BY <1>n, <2>1 DEF Untouched
  <2> QED
    BY <1>d, <1>e, <2>5, <2>6, <2>7 DEF StoreOK
<1>2. CASE ProjectsInstall(op, n)
  <2>1. ownership'.state = "owned" /\ ownership'.slot = op.slot
    BY <1>2, <1>n, OwnershipSettles DEF SettlesOn
  <2>2. /\ op.kind = "install" /\ o = "available" /\ op.intents = {}
        /\ HasPredecessor(op) => op.predMissing
    BY <1>2, <1>b, <1>c, <1>i DEF ProjectsInstall, ProjectsRemoval, Finishes, Terminal
  <2>3. op.slot # RawSlot /\ op.slot <= minted /\ op.slot \notin unrecorded
    BY <1>n, <2>2 DEF StoreOK, PlanOK
  <2>4. vault[op.slot] = Settled(TRUE)
    BY <1>b, <1>f, <1>s, <1>v, <2>2, <2>3
  <2>5. OwnerOK'
    BY <1>a, <1>n, <2>1, <2>2, <2>3 DEF OwnerOK
  <2>6. Untouched'
    BY <1>n, <2>1, <2>4 DEF Untouched
  <2>7. KnownSlots'
    <3>1. \A s \in Slots \ unrecorded : vault[s].seen \/ vault[s].durable => s = op.slot
      BY <1>k, <1>m, <1>p, <1>s, <1>v, <2>2
    <3> QED
      BY <1>n, <2>1, <3>1 DEF KnownSlots
  <2> QED
    BY <1>d, <1>e, <2>5, <2>6, <2>7 DEF StoreOK
<1>3. CASE ~ProjectsRemoval(op, n) /\ ~ProjectsInstall(op, n)
  <2>1. ownership' = ownership
    BY <1>3, <1>n, OwnershipSettles DEF SettlesOn
  <2>2. n.status = "no_effect" /\ op.intents = {}
    BY <1>3, <1>c, <1>i DEF ProjectsRemoval, ProjectsInstall, Terminal
  <2>3. op.kind = "install" => o = "missing" /\ (HasPredecessor(op) => ~op.predIntent)
    BY <1>b, <2>2 DEF Finishes
  <2>4. op.kind # "install" => o = "available" /\ ~op.started
    BY <1>3, <1>b, <1>c, <2>2 DEF Finishes, ProjectsRemoval
  <2>5. ownership.state = "owned" => vault[ownership.slot] = Settled(TRUE)
    <3>1. CASE op.kind = "install"
      BY <1>n, <1>p, <2>3, <3>1 DEF StoreOK, Untouched
    <3>2. CASE op.kind # "install"
      BY <1>n, <1>q, <2>2, <2>4, <3>2 DEF StoreOK, Untouched
    <3> QED
      BY <3>1, <3>2
  <2>6. OwnerOK'
    <3>1. ~archived'
      BY <1>a, <1>i, <2>2, <2>3, <2>4 DEF ArchiveKind, ArchiveIntent
    <3> QED
      BY <1>n, <2>1, <3>1 DEF StoreOK, OwnerOK
  <2>7. Untouched'
    BY <1>n, <2>1, <2>5 DEF Untouched
  <2>8. KnownSlots'
    <3>1. \A s \in Slots \ unrecorded : vault[s].seen \/ vault[s].durable =>
            ownership.state \in {"owned", "legacy_pending"} /\ ownership.slot = s
      BY <1>b, <1>f, <1>k, <1>s, <1>v, <2>3
    <3> QED
      BY <1>n, <2>1, <3>1 DEF KnownSlots
  <2> QED
    BY <1>d, <1>e, <2>6, <2>7, <2>8 DEF StoreOK
<1> QED
  BY <1>1, <1>2, <1>3

\* A write of the journal that no trigger of the schema aborts.
Legal ==
    (<<op'.status, op'.code>> # <<op.status, op.code>> /\ Unresolved(op)) => LegalTransition(op, op')

\* What a write of the journal must leave behind.
Kept == op' \in Rows /\ RowOK(op') /\ StoreOK' /\ DoubtIsRecorded' /\ Legal

\* Nothing is in doubt while a row is being finished.
NoDoubt == ~SlotInDoubt /\ ~PredecessorInDoubt

\* Without a doubt there is none to forget.
LEMMA NoDoubtRemains ==
    ASSUME DoubtIsRecorded, NoDoubt, vault' = vault, unrecorded' = unrecorded
    PROVE  DoubtIsRecorded'
<1>1. \A s \in Slots \ unrecorded : vault[s].seen = vault[s].durable
  BY DEF DoubtIsRecorded, NoDoubt
<1> QED
  BY <1>1 DEF DoubtIsRecorded

\* Finish, on what was observed.
LEMMA FinishKeeps ==
    ASSUME Typed, RowOK(op), StoreOK, DoubtIsRecorded, MayFinish(op), NoDoubt,
           NEW o \in Observations, Journal(Finish(op, o)),
           o = "missing" => ~vault[op.slot].seen, o = "available" => vault[op.slot].seen,
           vault' = vault, archived' = archived, minted' = minted,
           asked' = asked, unrecorded' = unrecorded
    PROVE  Kept
<1> DEFINE n == Finish(op, o)
<1>r. op \in Rows
  BY DEF Typed
<1>1. n \in Rows /\ RowOK(n) /\ (n = op \/ (Finishes(op, n, o) /\ LegalTransition(op, n)))
  BY <1>r, FinishRow
<1>j. Journal(n)
  OBVIOUS
<1> HIDE DEF n
<1>2. op' = n
  BY <1>j DEF Journal
<1>3. op' \in Rows /\ RowOK(op') /\ Legal
  BY <1>1, <1>2 DEF Legal
<1>4. CASE n = op
  <2>1. SameStore /\ op' = op
    BY <1>4, <1>j, OwnershipStays DEF SameStore
  <2> QED
    BY <1>3, <2>1, StoreStays, NoDoubtRemains DEF Kept
<1>5. CASE n # op /\ Terminal(n)
  <2>1. SettlesOn(n, o)
    BY <1>1, <1>5, <1>j DEF SettlesOn, NoDoubt
  <2> QED
    BY <1>3, <2>1, StoreSettles DEF Kept
<1>6. CASE n # op /\ ~Terminal(n)
  <2>1. ownership' = ownership
    BY <1>6, <1>j, OwnershipStays
  <2>2. SameStore
    BY <2>1 DEF SameStore
  <2>3. Progresses(op, op') /\ EvidenceHolds
    BY <1>1, <1>2, <1>6 DEF Finishes, Progresses, EvidenceHolds, SameEvidence, Unresolved, Terminal
  <2> QED
    BY <1>r, <1>3, <2>2, <2>3, StoreProgresses, NoDoubtRemains DEF Kept
<1> QED
  BY <1>4, <1>5, <1>6

\* The archive transaction, or the record of its failure, on a slot that reads missing.
LEMMA ArchiveKeeps ==
    ASSUME Typed, RowOK(op), StoreOK, DoubtIsRecorded, MayFinish(op), NoDoubt,
           Archive, ~vault[op.slot].seen,
           vault' = vault, minted' = minted, asked' = asked, unrecorded' = unrecorded
    PROVE  Kept /\ archived' \in BOOLEAN /\ faults' \in 0 .. MaxFaults /\ (\E n \in Rows : Journal(n))
<1>r. op \in Rows /\ archived \in BOOLEAN /\ faults \in 0 .. MaxFaults
  BY DEF Typed
<1>1. CASE Journal(FinishArchive(op)) /\ archived' = (archived \/ ~ArchiveRefused(op)) /\ UNCHANGED faults
  <2> DEFINE n == FinishArchive(op)
  <2>1. /\ n \in Rows /\ RowOK(n) /\ (ArchiveRefused(op) => n = op)
        /\ ~ArchiveRefused(op) => Terminal(n) /\ Finishes(op, n, "missing") /\ LegalTransition(op, n)
    BY <1>r, FinishArchiveRow
  <2>j. Journal(n) /\ op' = n
    BY <1>1 DEF Journal
  <2> HIDE DEF n
  <2>2. op' \in Rows /\ RowOK(op') /\ Legal /\ archived' \in BOOLEAN /\ faults' \in 0 .. MaxFaults
    BY <1>1, <1>r, <2>1, <2>j DEF Legal
  <2>3. CASE ArchiveRefused(op)
    <3>1. SameStore /\ op' = op
      BY <1>1, <1>r, <2>1, <2>3, <2>j, OwnershipStays DEF SameStore
    <3> QED
      BY <2>1, <2>j, <2>2, <3>1, StoreStays, NoDoubtRemains DEF Kept
  <2>4. CASE ~ArchiveRefused(op)
    <3>1. ArchiveKind(op)
      BY <2>4 DEF ArchiveRefused
    <3>2. SettlesOn(n, "missing")
      BY <2>1, <2>4, <2>j, <3>1 DEF SettlesOn, NoDoubt
    <3> QED
      BY <2>1, <2>j, <2>2, <3>2, StoreSettles DEF Kept
  <2> QED
    BY <2>3, <2>4
<1>2. CASE Journal(ArchiveFailed(op)) /\ UNCHANGED archived /\ faults < MaxFaults /\ faults' = faults + 1
  <2> DEFINE n == ArchiveFailed(op)
  <2>1. n \in Rows /\ RowOK(n) /\ (n = op \/ (Postpones(op, n) /\ LegalTransition(op, n)))
    BY <1>r, ArchiveFailedRow
  <2>j. Journal(n) /\ op' = n
    BY <1>2 DEF Journal
  <2> HIDE DEF n
  <2>2. op' \in Rows /\ RowOK(op') /\ Legal /\ archived' \in BOOLEAN /\ faults' \in 0 .. MaxFaults
    BY <1>2, <1>r, <2>1, <2>j, CredentialAssumption DEF Legal
  <2>3. n = op \/ ~Terminal(n)
    BY <2>1 DEF Postpones, Says, Terminal
  <2>4. SameStore
    BY <1>2, <2>3, <2>j, OwnershipStays DEF SameStore
  <2>5. StoreOK'
    <3>1. CASE n = op
      BY <2>4, <2>j, <3>1, StoreStays
    <3>2. CASE n # op
      <4>1. Progresses(op, op') /\ EvidenceHolds
        BY <2>1, <2>j, <3>2 DEF Postpones, Progresses, EvidenceHolds, SameEvidence, Says, Unresolved
      <4> QED
        BY <1>r, <2>2, <2>4, <4>1, StoreProgresses
    <3> QED
      BY <3>1, <3>2
  <2> QED
    BY <2>1, <2>j, <2>2, <2>5, NoDoubtRemains DEF Kept
<1> QED
  BY <1>1, <1>2 DEF Archive

-----------------------------------------------------------------------------
(* The steps that end a command.                                           *)

\* What a step has to keep.
LEMMA StepKeeps ==
    ASSUME Typed', Kept, CommandOK'
    PROVE  IndInv' /\ Legal
<1>1. RowOK(op)'
  BY DEF Kept
<1> QED
  BY <1>1 DEF IndInv, StoreOK, VaultOK, Kept

\* The types after a write of the journal that leaves the vault alone.
LEMMA JournalStepTyped ==
    ASSUME Typed, NEW n \in Rows, Journal(n), archived' \in BOOLEAN, asked' \in BOOLEAN,
           proc' \in Procs, faults' \in 0 .. MaxFaults,
           vault' = vault, minted' = minted, unrecorded' = unrecorded, crashes' = crashes
    PROVE  Typed'
<1>1. op' \in Rows /\ ownership' \in Owners /\ garbage' \in [Authorities -> {"none", "pending", "completed"}]
  BY JournalTyped
<1> QED
  BY <1>1 DEF Typed

\* settle_pre_native_install_failure.
LEMMA SettleInstallKeeps ==
    ASSUME IndInv, SettleInstall
    PROVE  IndInv' /\ Legal
<1>i. Typed /\ RowOK(op) /\ StoreOK /\ DoubtIsRecorded /\ CommandOK
  BY PartsOfInv
<1>1. PICK o \in Observations : Observe(op.slot, o) /\ Journal(Finish(op, o))
  BY DEF SettleInstall
<1>2. /\ proc.pc = "start_install" /\ proc' = Idle /\ vault' = vault /\ archived' = archived
      /\ minted' = minted /\ asked' = asked /\ unrecorded' = unrecorded /\ crashes' = crashes
  BY DEF SettleInstall, history
<1>3. op \in Rows /\ op.slot \in Slots /\ op.status = "prepared"
  BY <1>i, <1>2, RowFields DEF Typed, CommandOK, Installing, At
<1>4. MayFinish(op) /\ NoDoubt
  BY <1>i, <1>2, <1>3 DEF MayFinish, NoDoubt, RowOK, SlotInDoubt, PredecessorInDoubt, Barrier
<1>5. Kept
  BY <1>i, <1>1, <1>2, <1>3, <1>4, ObserveFacts, FinishKeeps
<1>6. Typed'
  <2>1. Finish(op, o) \in Rows
    BY <1>i, <1>3, <1>4, FinishRow
  <2> QED
    BY <1>i, <1>1, <1>2, <1>3, <2>1, ObserveFacts, ProcFields, JournalStepTyped DEF Typed
<1> QED
  BY <1>2, <1>5, <1>6, ProcFields, NoCommand, StepKeeps

\* The installation is finished on what its slot was seen to hold.
LEMMA FinishInstallKeeps ==
    ASSUME IndInv, FinishInstall
    PROVE  IndInv' /\ Legal
<1>i. Typed /\ RowOK(op) /\ StoreOK /\ DoubtIsRecorded /\ CommandOK
  BY PartsOfInv
<1> DEFINE o == proc.observed
<1>1. /\ proc.pc = "finish_install" /\ Journal(Finish(op, o))
      /\ proc' \in {Idle, [Idle EXCEPT !.pc = "garbage"]}
      /\ vault' = vault /\ archived' = archived /\ minted' = minted
      /\ asked' = asked /\ unrecorded' = unrecorded /\ faults' = faults /\ crashes' = crashes
  BY DEF FinishInstall, history
<1>2. o \in Observations
  BY <1>i DEF Typed, Procs
<1>3. op \in Rows /\ op.slot \in Slots /\ op.status = "started"
  BY <1>i, <1>1, RowFields DEF Typed, CommandOK, Installing, At
<1>4. IF o = "available"
        THEN vault[op.slot] = Settled(TRUE) /\ (HasPredecessor(op) => op.predMissing)
        ELSE ~op.predIntent /\ (o = "missing" => ~vault[op.slot].seen)
  BY <1>i, <1>1 DEF CommandOK, Installing, At
<1>5. MayFinish(op) /\ NoDoubt
  BY <1>i, <1>1, <1>3, <1>4 DEF MayFinish, NoDoubt, RowOK, Decodes, SlotInDoubt, PredecessorInDoubt, Barrier
<1>6. (o = "missing" => ~vault[op.slot].seen) /\ (o = "available" => vault[op.slot].seen)
  BY <1>4 DEF Settled
<1> HIDE DEF o
<1>7. Kept
  BY <1>i, <1>1, <1>2, <1>5, <1>6, FinishKeeps
<1>8. Typed'
  <2>1. Finish(op, o) \in Rows
    BY <1>i, <1>2, <1>3, <1>5, FinishRow
  <2> QED
    BY <1>i, <1>1, <2>1, ProcFields, JournalStepTyped DEF Typed
<1> QED
  BY <1>1, <1>7, <1>8, ProcFields, NoCommand, StepKeeps

\* Where a removal or a cleanup has come to its end.
LEMMA AfterRemovalFields ==
    ASSUME AfterRemoval
    PROVE  proc' \in Procs /\ proc'.pc \in {"idle", "garbage"}
BY ProcFields DEF AfterRemoval

\* A removal that found nothing to remove.
LEMMA FinishMissingRemovalKeeps ==
    ASSUME IndInv, FinishMissingRemoval
    PROVE  IndInv' /\ Legal
<1>i. Typed /\ RowOK(op) /\ StoreOK /\ DoubtIsRecorded /\ CommandOK
  BY PartsOfInv
<1>1. /\ proc.pc = "missing_removal" /\ AfterRemoval
      /\ vault' = vault /\ minted' = minted
      /\ asked' = asked /\ unrecorded' = unrecorded /\ crashes' = crashes
  BY DEF FinishMissingRemoval, history
<1>2. Archive \/ (Journal(Finish(op, "missing")) /\ archived' = archived /\ faults' = faults)
  BY DEF FinishMissingRemoval
<1>3. op \in Rows /\ op.slot \in Slots /\ op.status = "prepared" /\ ~vault[op.slot].seen
  BY <1>i, <1>1, RowFields DEF Typed, CommandOK, Deleting, At
<1>4. MayFinish(op) /\ NoDoubt
  BY <1>i, <1>1, <1>3 DEF MayFinish, NoDoubt, RowOK, SlotInDoubt, PredecessorInDoubt, Barrier
<1>5. Kept /\ archived' \in BOOLEAN /\ faults' \in 0 .. MaxFaults /\ (\E n \in Rows : Journal(n))
  <2>1. CASE Archive
    BY <1>i, <1>1, <1>3, <1>4, <2>1, ArchiveKeeps
  <2>2. CASE Journal(Finish(op, "missing")) /\ archived' = archived /\ faults' = faults
    <3>1. "missing" \in Observations
      BY DEF Observations
    <3> QED
      BY <1>i, <1>1, <1>3, <1>4, <2>2, <3>1, FinishKeeps, FinishRow DEF Typed
  <2> QED
    BY <1>2, <2>1, <2>2
<1>6. Typed'
  BY <1>i, <1>1, <1>5, AfterRemovalFields, JournalStepTyped DEF Typed
<1> QED
  BY <1>1, <1>5, <1>6, AfterRemovalFields, NoCommand, StepKeeps

\* A removal whose delete was answered.
LEMMA FinishRemovalKeeps ==
    ASSUME IndInv, FinishRemoval
    PROVE  IndInv' /\ Legal
<1>i. Typed /\ RowOK(op) /\ StoreOK /\ DoubtIsRecorded /\ CommandOK
  BY PartsOfInv
<1>1. /\ proc.pc = "finish_removal" /\ AfterRemoval
      /\ vault' = vault /\ minted' = minted
      /\ asked' = asked /\ unrecorded' = unrecorded /\ crashes' = crashes
  BY DEF FinishRemoval, history
<1>2. \/ ~vault[op.slot].seen /\ Archive
      \/ \E o \in Observations : Observe(op.slot, o) /\ Journal(Finish(op, o)) /\ archived' = archived
  BY DEF FinishRemoval
<1>3. op \in Rows /\ op.slot \in Slots /\ op.status = "started" /\ op.kind # "install"
  BY <1>i, <1>1, RowFields DEF Typed, CommandOK, Deleting, At, RemovalKind
<1>4. MayFinish(op) /\ NoDoubt
  BY <1>i, <1>1, <1>3 DEF MayFinish, NoDoubt, RowOK, Decodes, SlotInDoubt, PredecessorInDoubt, Barrier, HasPredecessor
<1>5. Kept /\ archived' \in BOOLEAN /\ faults' \in 0 .. MaxFaults /\ (\E n \in Rows : Journal(n))
  <2>1. CASE ~vault[op.slot].seen /\ Archive
    BY <1>i, <1>1, <1>4, <2>1, ArchiveKeeps
  <2>2. CASE \E o \in Observations : Observe(op.slot, o) /\ Journal(Finish(op, o)) /\ archived' = archived
    <3>1. PICK o \in Observations : Observe(op.slot, o) /\ Journal(Finish(op, o)) /\ archived' = archived
      BY <2>2
    <3>2. faults' \in 0 .. MaxFaults /\ Finish(op, o) \in Rows /\ archived' \in BOOLEAN
      BY <1>i, <1>3, <1>4, <3>1, ObserveFacts, FinishRow DEF Typed
    <3>3. Kept
      BY <1>i, <1>1, <1>3, <1>4, <3>1, ObserveFacts, FinishKeeps
    <3> QED
      BY <3>1, <3>2, <3>3
  <2> QED
    BY <1>2, <2>1, <2>2
<1>6. Typed'
  BY <1>i, <1>1, <1>5, AfterRemovalFields, JournalStepTyped DEF Typed
<1> QED
  BY <1>1, <1>5, <1>6, AfterRemovalFields, NoCommand, StepKeeps

\* The explicit cleanup settles its row on a slot that reads missing.
LEMMA FinishCleanupKeeps ==
    ASSUME IndInv, FinishCleanup
    PROVE  IndInv' /\ Legal
<1>i. Typed /\ RowOK(op) /\ StoreOK /\ DoubtIsRecorded /\ CommandOK
  BY PartsOfInv
<1>1. /\ proc.pc = "finish_cleanup" /\ AfterRemoval
      /\ vault' = vault /\ minted' = minted
      /\ asked' = asked /\ unrecorded' = unrecorded /\ crashes' = crashes
  BY DEF FinishCleanup, history
<1>2. Archive \/ (Journal(Finish(op, "missing")) /\ archived' = archived /\ faults' = faults)
  BY DEF FinishCleanup
<1>3. /\ op \in Rows /\ op.slot \in Slots /\ op.status = "cleanup_required"
      /\ ~vault[op.slot].seen /\ ~Barrier(op)
  BY <1>i, <1>1, RowFields DEF Typed, CommandOK, Cleaning, At
<1>4. MayFinish(op) /\ NoDoubt
  BY <1>i, <1>1, <1>3 DEF MayFinish, NoDoubt, SlotInDoubt, PredecessorInDoubt, Barrier
<1>5. Kept /\ archived' \in BOOLEAN /\ faults' \in 0 .. MaxFaults /\ (\E n \in Rows : Journal(n))
  <2>1. CASE Archive
    BY <1>i, <1>1, <1>3, <1>4, <2>1, ArchiveKeeps
  <2>2. CASE Journal(Finish(op, "missing")) /\ archived' = archived /\ faults' = faults
    <3>1. "missing" \in Observations
      BY DEF Observations
    <3> QED
      BY <1>i, <1>1, <1>3, <1>4, <2>2, <3>1, FinishKeeps, FinishRow DEF Typed
  <2> QED
    BY <1>2, <2>1, <2>2
<1>6. Typed'
  BY <1>i, <1>1, <1>5, AfterRemovalFields, JournalStepTyped DEF Typed
<1> QED
  BY <1>1, <1>5, <1>6, AfterRemovalFields, NoCommand, StepKeeps

\* Recovery reconciles what it may, and leaves the rest to the user.
LEMMA ReconcileKeeps ==
    ASSUME IndInv, Reconcile
    PROVE  IndInv' /\ Legal
<1>i. Typed /\ RowOK(op) /\ StoreOK /\ DoubtIsRecorded /\ CommandOK
  BY PartsOfInv
<1>1. /\ proc.pc = "recover" /\ vault' = vault /\ minted' = minted
      /\ asked' = asked /\ unrecorded' = unrecorded /\ crashes' = crashes
  BY DEF Reconcile, history
<1>2. op \in Rows /\ op.slot \in Slots /\ op.status # "started" /\ proc \in Procs /\ asked \in BOOLEAN
  BY <1>i, <1>1, RowFields DEF Typed, CommandOK, RecoveringOK
<1>p. "garbage" \in PCs
  BY DEF PCs
<1>3. CASE LeftToTheUser /\ Goto("garbage") /\ UNCHANGED <<durable, faults>>
  <2>1. SameStore /\ op' = op /\ proc' \in Procs /\ proc'.pc = "garbage"
    BY <1>1, <1>2, <1>3, <1>p, GotoFields DEF SameStore, durable
  <2>2. DoubtsStay
    BY <1>1, <2>1 DEF DoubtsStay, SlotInDoubt, PredecessorInDoubt
  <2>3. DoubtIsRecorded'
    BY <1>i, <1>1, <2>2, DoubtRemains
  <2>4. Kept
    BY <1>i, <1>2, <2>1, <2>3, StoreStays DEF Kept, Legal
  <2>5. Typed'
    BY <1>i, <1>1, <1>3, <2>1 DEF Typed, durable
  <2> QED
    BY <2>1, <2>4, <2>5, NoCommand, StepKeeps
<1>4. ASSUME ~LeftToTheUser PROVE MayFinish(op) /\ NoDoubt
  BY <1>1, <1>2, <1>4 DEF LeftToTheUser, MayFinish, NoDoubt, SlotInDoubt, PredecessorInDoubt, Barrier
<1>5. CASE /\ ~LeftToTheUser /\ ~vault[op.slot].seen /\ Archive
           /\ proc' = IF Terminal(op') THEN [Idle EXCEPT !.pc = "garbage"] ELSE Down
  <2>1. Kept /\ archived' \in BOOLEAN /\ faults' \in 0 .. MaxFaults /\ (\E n \in Rows : Journal(n))
    BY <1>i, <1>1, <1>4, <1>5, ArchiveKeeps
  <2>2. proc' \in Procs /\ proc'.pc \in {"garbage", "down"}
    BY <1>5, ProcFields
  <2>3. Typed'
    BY <1>i, <1>1, <1>2, <2>1, <2>2, JournalStepTyped
  <2> QED
    BY <2>1, <2>2, <2>3, NoCommand, StepKeeps
<1>6. CASE /\ ~LeftToTheUser /\ Goto("garbage") /\ UNCHANGED archived
           /\ \E o \in Observations : Observe(op.slot, o) /\ Journal(Finish(op, o))
  <2>1. PICK o \in Observations : Observe(op.slot, o) /\ Journal(Finish(op, o))
    BY <1>6
  <2>2. faults' \in 0 .. MaxFaults /\ Finish(op, o) \in Rows /\ archived' \in BOOLEAN
    BY <1>i, <1>2, <1>4, <1>6, <2>1, ObserveFacts, FinishRow DEF Typed
  <2>3. Kept
    BY <1>i, <1>1, <1>2, <1>4, <1>6, <2>1, ObserveFacts, FinishKeeps
  <2>4. proc' \in Procs /\ proc'.pc = "garbage"
    BY <1>2, <1>6, <1>p, GotoFields
  <2>5. Typed'
    BY <1>i, <1>1, <1>2, <2>1, <2>2, <2>4, JournalStepTyped
  <2> QED
    BY <2>3, <2>4, <2>5, NoCommand, StepKeeps
<1> QED
  BY <1>3, <1>5, <1>6 DEF Reconcile

-----------------------------------------------------------------------------
(* The steps that write the journal and go on.                             *)

\* A mark loses nothing of the row.
LEMMA CleansProgresses ==
    ASSUME NEW r \in Rows, NEW n, Unresolved(r), Cleans(r, n)
    PROVE  Progresses(r, n) /\ ~Terminal(n) /\ (n.predMissing => r.predMissing) /\ (n.predIntent => r.predIntent)
BY DEF Cleans, Progresses, Unresolved, Terminal

\* A write that keeps the row unresolved and forgets no doubt.
LEMMA WriteKeeps ==
    ASSUME Typed, RowOK(op), StoreOK, DoubtIsRecorded, NEW n \in Rows, Journal(n), RowOK(n),
           Progresses(op, n), EvidenceHolds, DoubtsStay, Legal,
           vault' = vault, archived' = archived, minted' = minted, unrecorded' = unrecorded,
           asked => asked'
    PROVE  Kept
<1>1. ~Terminal(n) /\ op \in Rows
  BY DEF Progresses, Unresolved, Terminal, Typed
<1>2. op' = n /\ ownership' = ownership
  BY <1>1, OwnershipStays
<1>3. SameStore
  BY <1>2 DEF SameStore
<1>4. StoreOK'
  BY <1>1, <1>2, <1>3, StoreProgresses
<1>5. DoubtIsRecorded'
  BY DoubtRemains
<1> QED
  BY <1>2, <1>4, <1>5 DEF Kept

\* A step that writes nothing and forgets no doubt.
LEMMA MoveKeeps ==
    ASSUME Typed, RowOK(op), StoreOK, DoubtIsRecorded, DoubtsStay, op' = op, ownership' = ownership,
           vault' = vault, archived' = archived, minted' = minted, unrecorded' = unrecorded,
           asked => asked'
    PROVE  Kept
<1>1. SameStore
  BY DEF SameStore
<1>2. StoreOK' /\ DoubtIsRecorded'
  BY <1>1, StoreStays, DoubtRemains
<1> QED
  BY <1>2 DEF Kept, Legal, Typed

\* The types after a step that writes nothing.
LEMMA MoveTyped ==
    ASSUME Typed, op' = op, ownership' = ownership, garbage' = garbage, archived' = archived,
           asked' \in BOOLEAN, proc' \in Procs, faults' \in 0 .. MaxFaults,
           vault' = vault, minted' = minted, unrecorded' = unrecorded, crashes' = crashes
    PROVE  Typed'
BY DEF Typed

\* The start of an installation.
LEMMA StartInstallKeeps ==
    ASSUME IndInv, StartInstall
    PROVE  IndInv' /\ Legal
<1>i. Typed /\ RowOK(op) /\ StoreOK /\ DoubtIsRecorded /\ CommandOK
  BY PartsOfInv
<1> DEFINE n == Started(op)
<1>1. /\ proc.pc = "start_install" /\ Journal(n) /\ op' = n /\ Goto("store")
      /\ vault' = vault /\ archived' = archived /\ minted' = minted
      /\ asked' = asked /\ unrecorded' = unrecorded /\ faults' = faults /\ crashes' = crashes
  BY DEF StartInstall, history, Journal
<1>2. op \in Rows /\ op.status = "prepared" /\ op.kind = "install" /\ ~op.predIntent /\ proc \in Procs
  BY <1>i, <1>1 DEF Typed, CommandOK, Installing, At
<1>3. /\ n \in Rows /\ SamePlan(op, n) /\ SameEvidence(op, n) /\ n.started /\ n.status = "started"
      /\ RowOK(n) /\ LegalTransition(op, n)
  BY <1>i, <1>2, StartedRow, StartedIsGood DEF Says
<1> HIDE DEF n
<1>4. proc' \in Procs /\ proc'.pc = "store"
  BY <1>1, <1>2, GotoFields DEF PCs
<1>5. Progresses(op, n) /\ EvidenceHolds /\ Legal
  BY <1>1, <1>2, <1>3 DEF Progresses, EvidenceHolds, Legal, SameEvidence, Unresolved
<1>6. DoubtsStay
  <2>1. ~SlotInDoubt /\ ~PredecessorInDoubt
    BY <1>i, <1>1, <1>2 DEF RowOK, SlotInDoubt, PredecessorInDoubt, Barrier
  <2> QED
    BY <1>1, <1>3, <2>1 DEF DoubtsStay, Unresolved, SamePlan
<1>7. Kept
  BY <1>i, <1>1, <1>3, <1>5, <1>6, WriteKeeps
<1>8. Typed'
  BY <1>i, <1>1, <1>3, <1>4, JournalStepTyped DEF Typed
<1>9. CommandOK'
  BY <1>1, <1>2, <1>3, <1>4 DEF CommandOK, Installing, Replacing, Deleting, Cleaning, RecoveringOK, At,
     SamePlan, SameEvidence
<1> QED
  BY <1>7, <1>8, <1>9, StepKeeps

\* The start of a removal, which may fail.
LEMMA StartRemovalKeeps ==
    ASSUME IndInv, StartRemoval
    PROVE  IndInv' /\ Legal
<1>i. Typed /\ RowOK(op) /\ StoreOK /\ DoubtIsRecorded /\ CommandOK
  BY PartsOfInv
<1>1. /\ proc.pc = "start_removal"
      /\ vault' = vault /\ archived' = archived /\ minted' = minted
      /\ asked' = asked /\ unrecorded' = unrecorded /\ crashes' = crashes
  BY DEF StartRemoval, history
<1>2. /\ op \in Rows /\ op.status = "prepared" /\ op.kind = RemovalKind(proc.archive)
      /\ op.kind # "install" /\ op.preflight = "available" /\ proc \in Procs /\ asked \in BOOLEAN
      /\ faults \in 0 .. MaxFaults
  BY <1>i, <1>1 DEF Typed, CommandOK, Deleting, At, RemovalKind
<1>3. ~SlotInDoubt /\ ~PredecessorInDoubt
  BY <1>i, <1>1, <1>2 DEF RowOK, SlotInDoubt, PredecessorInDoubt, Barrier
<1>4. CASE Journal(Started(op)) /\ Goto("delete") /\ UNCHANGED faults
  <2> DEFINE n == Started(op)
  <2>1. Journal(n) /\ op' = n
    BY <1>4 DEF Journal
  <2>2. /\ n \in Rows /\ SamePlan(op, n) /\ SameEvidence(op, n) /\ n.started /\ n.status = "started"
        /\ RowOK(n) /\ LegalTransition(op, n)
    BY <1>i, <1>2, StartedRow, StartedIsGood DEF Says
  <2> HIDE DEF n
  <2>3. proc' \in Procs /\ proc'.pc = "delete" /\ proc'.archive = proc.archive
    BY <1>2, <1>4, GotoFields DEF PCs
  <2>4. Progresses(op, n) /\ EvidenceHolds /\ Legal
    BY <1>2, <2>1, <2>2 DEF Progresses, EvidenceHolds, Legal, SameEvidence, Unresolved
  <2>5. DoubtsStay
    BY <1>3, <2>1, <2>2 DEF DoubtsStay, Unresolved, SamePlan
  <2>6. Kept
    BY <1>i, <1>1, <2>1, <2>2, <2>4, <2>5, WriteKeeps
  <2>7. Typed'
    BY <1>i, <1>1, <1>4, <2>1, <2>2, <2>3, JournalStepTyped DEF Typed
  <2>8. CommandOK'
    BY <1>2, <2>1, <2>2, <2>3 DEF CommandOK, Installing, Replacing, Deleting, Cleaning, RecoveringOK, At,
       SamePlan
  <2> QED
    BY <2>6, <2>7, <2>8, StepKeeps
<1>5. CASE /\ faults < MaxFaults /\ faults' = faults + 1 /\ proc' = Idle
           /\ UNCHANGED <<op, ownership, garbage>>
  <2>1. DoubtsStay
    BY <1>3, <1>5 DEF DoubtsStay
  <2>2. Kept
    BY <1>i, <1>1, <1>5, <2>1, MoveKeeps
  <2>3. Typed'
    BY <1>i, <1>1, <1>2, <1>5, ProcFields, MoveTyped, CredentialAssumption
  <2> QED
    BY <1>5, <2>2, <2>3, ProcFields, NoCommand, StepKeeps
<1> QED
  BY <1>4, <1>5 DEF StartRemoval

\* The obligation of the operation's slot, after an answer that promises nothing.
LEMMA RecordSlotBarrierKeeps ==
    ASSUME IndInv, RecordSlotBarrier
    PROVE  IndInv' /\ Legal
<1>i. Typed /\ RowOK(op) /\ StoreOK /\ DoubtIsRecorded /\ CommandOK
  BY PartsOfInv
<1> DEFINE n == MarkSlotBarrier(op, proc.archive \/ ArchiveIntent(op))
<1>1. /\ proc.pc \in {"store_barrier", "delete_barrier", "cleanup_barrier"} /\ Journal(n) /\ op' = n
      /\ proc' = Idle /\ vault' = vault /\ archived' = archived /\ minted' = minted
      /\ asked' = asked /\ unrecorded' = unrecorded /\ faults' = faults /\ crashes' = crashes
  BY DEF RecordSlotBarrier, history, Journal
<1>2. op \in Rows /\ op.status \in {"started", "cleanup_required"}
  BY <1>i, <1>1 DEF Typed, CommandOK, Installing, Deleting, Cleaning, At
<1>3. (proc.archive \/ ArchiveIntent(op)) \in BOOLEAN
  OBVIOUS
<1>4. Cleans(op, n) /\ n.slotBarrier /\ n.predBarrier = op.predBarrier
  BY <1>i, <1>2, <1>3, SlotBarrierCleans
<1> HIDE DEF n
<1>5. /\ n \in Rows /\ RowOK(n) /\ LegalTransition(op, n) /\ SamePlan(op, n) /\ n.status = "cleanup_required"
      /\ Unresolved(op)
  BY <1>2, <1>4 DEF Cleans, Unresolved
<1>6. Progresses(op, n) /\ EvidenceHolds /\ Legal
  BY <1>1, <1>2, <1>4, <1>5, CleansProgresses DEF EvidenceHolds, Legal
<1>7. DoubtsStay
  BY <1>1, <1>4, <1>5, ProcFields DEF DoubtsStay, Unresolved, SamePlan, SlotInDoubt, PredecessorInDoubt, HasPredecessor
<1>8. Kept
  BY <1>i, <1>1, <1>5, <1>6, <1>7, WriteKeeps
<1>9. Typed'
  BY <1>i, <1>1, <1>5, ProcFields, JournalStepTyped DEF Typed
<1> QED
  BY <1>1, <1>8, <1>9, ProcFields, NoCommand, StepKeeps

\* The obligation of the predecessor's slot.
LEMMA RecordPredecessorBarrierKeeps ==
    ASSUME IndInv, RecordPredecessorBarrier
    PROVE  IndInv' /\ Legal
<1>i. Typed /\ RowOK(op) /\ StoreOK /\ DoubtIsRecorded /\ CommandOK
  BY PartsOfInv
<1> DEFINE n == MarkPredecessorBarrier(op, ArchiveIntent(op))
<1>1. /\ proc.pc = "predecessor_barrier" /\ Journal(n) /\ op' = n
      /\ proc' = Idle /\ vault' = vault /\ archived' = archived /\ minted' = minted
      /\ asked' = asked /\ unrecorded' = unrecorded /\ faults' = faults /\ crashes' = crashes
  BY DEF RecordPredecessorBarrier, history, Journal
<1>2. op \in Rows /\ op.status \in {"started", "cleanup_required"} /\ HasPredecessor(op)
  BY <1>i, <1>1 DEF Typed, CommandOK, Replacing, At
<1>3. ArchiveIntent(op) \in BOOLEAN
  BY DEF ArchiveIntent
<1>4. Cleans(op, n) /\ n.predBarrier /\ n.slotBarrier = op.slotBarrier
  BY <1>i, <1>2, <1>3, PredecessorBarrierCleans
<1> HIDE DEF n
<1>5. /\ n \in Rows /\ RowOK(n) /\ LegalTransition(op, n) /\ SamePlan(op, n) /\ n.status = "cleanup_required"
      /\ Unresolved(op)
  BY <1>2, <1>4 DEF Cleans, Unresolved
<1>6. Progresses(op, n) /\ EvidenceHolds /\ Legal
  BY <1>1, <1>2, <1>4, <1>5, CleansProgresses DEF EvidenceHolds, Legal
<1>7. DoubtsStay
  BY <1>1, <1>2, <1>4, <1>5, ProcFields DEF DoubtsStay, Unresolved, SamePlan, SlotInDoubt, PredecessorInDoubt,
     HasPredecessor
<1>8. Kept
  BY <1>i, <1>1, <1>5, <1>6, <1>7, WriteKeeps
<1>9. Typed'
  BY <1>i, <1>1, <1>5, ProcFields, JournalStepTyped DEF Typed
<1> QED
  BY <1>1, <1>8, <1>9, ProcFields, NoCommand, StepKeeps

\* The fence of a row that is still started, if it is one.
LEMMA FenceFacts ==
    ASSUME Typed, RowOK(op), NEW n, n = (IF op.status = "started" THEN Fence(op) ELSE op), Journal(n),
           Unresolved(op), proc.pc \in {"idle", "down"}, proc'.pc \in {"cleanup", "recover"}
    PROVE  /\ n \in Rows /\ RowOK(n) /\ op' = n
           /\ Progresses(op, n) /\ EvidenceHolds /\ Legal
           /\ unrecorded' = unrecorded => DoubtsStay
           /\ n.status \in {"prepared", "outcome_unknown", "cleanup_required"}
           /\ op.status # "prepared" => n.status # "prepared"
<1>r. op \in Rows /\ op' = n
  BY DEF Typed, Journal
<1>1. CASE op.status = "started"
  <2>1. /\ Cleans(op, n)
        /\ IF HasPredecessor(op) /\ op.predIntent /\ ~op.predMissing
                    THEN n.predBarrier ELSE n.slotBarrier
    BY <1>r, <1>1, FenceCleans
  <2>2. Progresses(op, n) /\ EvidenceHolds /\ Legal
    BY <1>r, <2>1, CleansProgresses DEF EvidenceHolds, Legal, Cleans
  <2>3. n \in Rows /\ RowOK(n) /\ SamePlan(op, n) /\ n.status = "cleanup_required"
    BY <2>1 DEF Cleans
  <2>4. DoubtsStay
    BY <1>r, <2>1, <2>3 DEF Cleans, DoubtsStay, Unresolved, SamePlan, SlotInDoubt, PredecessorInDoubt, HasPredecessor,
       RowOK, Decodes
  <2> QED
    BY <1>r, <1>1, <2>2, <2>3, <2>4
<1>2. CASE op.status # "started"
  <2>1. n = op
    BY <1>2
  <2>2. Progresses(op, n) /\ EvidenceHolds /\ Legal
    BY <1>r, <2>1 DEF Progresses, EvidenceHolds, Legal, SamePlan
  <2>3. DoubtsStay
    BY <1>r, <1>2, <2>1 DEF DoubtsStay, SlotInDoubt, PredecessorInDoubt
  <2> QED
    BY <1>r, <1>2, <2>1, <2>2, <2>3 DEF Unresolved
<1> QED
  BY <1>1, <1>2

\* The start of the explicit cleanup.
LEMMA BeginCleanupKeeps ==
    ASSUME IndInv, BeginCleanup
    PROVE  IndInv' /\ Legal
<1>i. Typed /\ RowOK(op) /\ StoreOK /\ DoubtIsRecorded /\ CommandOK
  BY PartsOfInv
<1> DEFINE n == IF op.status = "started" THEN Fence(op) ELSE op
<1>1. /\ proc.pc = "idle" /\ Journal(n) /\ op.status \in {"started", "outcome_unknown", "cleanup_required"}
      /\ vault' = vault /\ archived' = archived /\ minted' = minted
      /\ asked' = TRUE /\ unrecorded' = unrecorded /\ faults' = faults /\ crashes' = crashes
  BY DEF BeginCleanup
<1>2. PICK archive \in BOOLEAN : proc' = [Idle EXCEPT !.pc = "cleanup", !.archive = archive]
  BY DEF BeginCleanup
<1>3. proc' \in Procs /\ proc'.pc = "cleanup"
  BY <1>2 DEF Idle, Procs, PCs, Observations
<1>4. Unresolved(op)
  BY <1>1 DEF Unresolved
<1> HIDE DEF n
<1>5. /\ n \in Rows /\ RowOK(n) /\ op' = n /\ Progresses(op, n) /\ EvidenceHolds /\ Legal /\ DoubtsStay
      /\ n.status \in {"outcome_unknown", "cleanup_required"}
  BY <1>i, <1>1, <1>3, <1>4, FenceFacts DEF n
<1>6. Kept
  BY <1>i, <1>1, <1>5, WriteKeeps
<1>7. Typed'
  BY <1>i, <1>1, <1>3, <1>5, JournalStepTyped DEF Typed
<1>8. CommandOK'
  BY <1>1, <1>3, <1>5 DEF CommandOK, Installing, Replacing, Deleting, Cleaning, RecoveringOK, At
<1> QED
  BY <1>6, <1>7, <1>8, StepKeeps

\* The fence at startup.
LEMMA FenceAtStartupKeeps ==
    ASSUME IndInv, FenceAtStartup
    PROVE  IndInv' /\ Legal
<1>i. Typed /\ RowOK(op) /\ StoreOK /\ DoubtIsRecorded /\ CommandOK
  BY PartsOfInv
<1> DEFINE n == IF op.status = "started" THEN Fence(op) ELSE op
<1>1. /\ proc.pc = "down" /\ Journal(n) /\ Goto("recover")
      /\ vault' = vault /\ archived' = archived /\ minted' = minted
      /\ asked' = asked /\ unrecorded' = unrecorded /\ faults' = faults /\ crashes' = crashes
  BY DEF FenceAtStartup, history
<1>2. proc' \in Procs /\ proc'.pc = "recover"
  BY <1>i, <1>1, GotoFields DEF Typed, PCs
<1>3. CASE Unresolved(op)
  <2> HIDE DEF n
  <2>1. /\ n \in Rows /\ RowOK(n) /\ op' = n /\ Progresses(op, n) /\ EvidenceHolds /\ Legal /\ DoubtsStay
        /\ n.status \in {"prepared", "outcome_unknown", "cleanup_required"}
    BY <1>i, <1>1, <1>2, <1>3, FenceFacts DEF n
  <2>2. Kept
    BY <1>i, <1>1, <2>1, WriteKeeps
  <2>3. Typed'
    BY <1>i, <1>1, <1>2, <2>1, JournalStepTyped DEF Typed
  <2>4. CommandOK'
    BY <1>1, <1>2, <2>1 DEF CommandOK, Installing, Replacing, Deleting, Cleaning, RecoveringOK, At
  <2> QED
    BY <2>2, <2>3, <2>4, StepKeeps
<1>4. CASE ~Unresolved(op)
  <2>1. n = op
    BY <1>4 DEF Unresolved
  <2> HIDE DEF n
  <2>2. op' = op /\ ownership' = ownership /\ garbage' = garbage
    BY <1>1, <2>1, OwnershipStays
  <2>3. DoubtsStay
    BY <1>4 DEF DoubtsStay
  <2>4. Kept
    BY <1>i, <1>1, <2>2, <2>3, MoveKeeps
  <2>5. Typed'
    BY <1>i, <1>1, <1>2, <2>2, MoveTyped DEF Typed
  <2>6. CommandOK'
    BY <1>2, <1>4, <2>2 DEF CommandOK, Installing, Replacing, Deleting, Cleaning, RecoveringOK, At, Unresolved
  <2> QED
    BY <2>4, <2>5, <2>6, StepKeeps
<1> QED
  BY <1>3, <1>4

-----------------------------------------------------------------------------
(* The new slot, and the predecessor's.                                    *)

\* A slot that nobody doubts holds durably what it shows.
LEMMA ShownIsDurable ==
    ASSUME DoubtIsRecorded, NEW s \in Slots \ unrecorded,
           ~(Unresolved(op) /\ s = op.slot /\ SlotInDoubt),
           ~(Unresolved(op) /\ s = op.pred /\ PredecessorInDoubt)
    PROVE  vault[s].seen = vault[s].durable
BY DEF DoubtIsRecorded

\* The new slot is read back before the predecessor is touched.
LEMMA ObserveInstallKeeps ==
    ASSUME IndInv, ObserveInstall
    PROVE  IndInv' /\ Legal
<1>i. Typed /\ RowOK(op) /\ StoreOK /\ DoubtIsRecorded /\ CommandOK
  BY PartsOfInv
<1>1. PICK o \in Observations :
        /\ Observe(op.slot, o)
        /\ proc' = [proc EXCEPT !.observed = o,
                      !.pc = IF o = "available" /\ HasPredecessor(op) THEN "predecessor" ELSE "finish_install",
                      !.then = "finish_install"]
  BY DEF ObserveInstall
<1>2. /\ proc.pc = "observe_install" /\ vault' = vault /\ op' = op /\ ownership' = ownership
      /\ garbage' = garbage /\ archived' = archived /\ minted' = minted
      /\ asked' = asked /\ unrecorded' = unrecorded /\ crashes' = crashes
  BY DEF ObserveInstall, history, durable
<1>3. /\ op \in Rows /\ op.slot \in Slots /\ op.kind = "install" /\ op.status = "started" /\ ~op.predIntent
      /\ proc \in Procs /\ Unresolved(op)
  BY <1>i, <1>2, RowFields DEF Typed, CommandOK, Installing, At, Unresolved
<1>4. /\ proc' \in Procs /\ proc'.observed = o /\ proc'.then = "finish_install"
      /\ proc'.pc = IF o = "available" /\ HasPredecessor(op) THEN "predecessor" ELSE "finish_install"
  BY <1>1, <1>3 DEF Procs, PCs
<1>5. (o = "missing" => ~vault[op.slot].seen) /\ (o = "available" => vault[op.slot].seen) /\ faults' \in 0 .. MaxFaults
  BY <1>i, <1>1, <1>3, ObserveFacts
<1>6. ~SlotInDoubt /\ ~PredecessorInDoubt /\ ~op.predMissing
  BY <1>i, <1>2, <1>3 DEF RowOK, Decodes, SlotInDoubt, PredecessorInDoubt, Barrier
<1>7. o = "available" => vault[op.slot] = Settled(TRUE)
  <2>1. op.slot \in Slots \ unrecorded
    BY <1>i, <1>3 DEF StoreOK, PlanOK, RowOK
  <2>2. vault[op.slot].seen = vault[op.slot].durable
    BY <1>i, <1>6, <2>1, ShownIsDurable
  <2> QED
    BY <1>i, <1>5, <2>1, <2>2, SlotIsTyped DEF Typed
<1>8. Kept
  <2>1. DoubtsStay
    BY <1>2, <1>6 DEF DoubtsStay
  <2> QED
    BY <1>i, <1>2, <2>1, MoveKeeps
<1>9. Typed'
  BY <1>i, <1>2, <1>4, <1>5, MoveTyped DEF Typed
<1>10. CommandOK'
  BY <1>2, <1>3, <1>4, <1>5, <1>6, <1>7 DEF CommandOK, Installing, Replacing, Deleting, Cleaning, RecoveringOK, At,
     HasPredecessor
<1> QED
  BY <1>8, <1>9, <1>10, StepKeeps

\* The intent is durable before the delete.
LEMMA PredecessorIntentKeeps ==
    ASSUME IndInv, PredecessorIntent
    PROVE  IndInv' /\ Legal
<1>i. Typed /\ RowOK(op) /\ StoreOK /\ DoubtIsRecorded /\ CommandOK
  BY PartsOfInv
<1> DEFINE n == AttestPredecessorIntent(op)
<1>1. PICK o \in Observations :
        /\ Observe(op.pred, o)
        /\ Goto(IF o = "missing" /\ ~op.predBarrier THEN "check_predecessor" ELSE "delete_predecessor")
  BY DEF PredecessorIntent
<1>2. /\ proc.pc = "predecessor" /\ Journal(n) /\ op' = n /\ vault' = vault /\ archived' = archived
      /\ minted' = minted /\ asked' = asked /\ unrecorded' = unrecorded /\ crashes' = crashes
  BY DEF PredecessorIntent, history, Journal
<1>3. op \in Rows /\ op.pred \in Slots /\ op.status \in {"started", "cleanup_required"} /\ HasPredecessor(op)
        /\ Unresolved(op) /\ proc \in Procs
  BY <1>i, <1>2, RowFields DEF Typed, CommandOK, Replacing, At, Unresolved
<1>4. Attests(op, n) /\ n.predIntent /\ n.predMissing = op.predMissing
  BY <1>i, <1>3, AttestIntentRow
<1> HIDE DEF n
<1>5. /\ n \in Rows /\ RowOK(n) /\ SamePlan(op, n) /\ n.status = op.status /\ n.code = op.code
      /\ n.started = op.started /\ n.intents = op.intents
      /\ n.slotBarrier = op.slotBarrier /\ n.predBarrier = op.predBarrier
  BY <1>4 DEF Attests, Says
<1>6. /\ proc' \in Procs /\ proc'.observed = proc.observed /\ proc'.then = proc.then
      /\ proc'.repairSlot = proc.repairSlot
      /\ proc'.pc = IF o = "missing" /\ ~op.predBarrier THEN "check_predecessor" ELSE "delete_predecessor"
  BY <1>1, <1>3, GotoFields DEF PCs
<1>7. Progresses(op, n) /\ Legal
  BY <1>2, <1>3, <1>4, <1>5 DEF Progresses, Legal, Unresolved
<1>8. EvidenceHolds
  <2>1. asked \/ vault[op.slot] = Settled(TRUE)
    BY <1>i, <1>2 DEF CommandOK, Replacing, At
  <2>2. asked' \/ vault[op.slot].durable
    BY <1>2, <2>1 DEF Settled
  <2> QED
    BY <1>2, <1>4, <2>2 DEF EvidenceHolds
<1>9. DoubtsStay
  BY <1>2, <1>3, <1>4, <1>5 DEF DoubtsStay, SlotInDoubt, PredecessorInDoubt, SamePlan, HasPredecessor, Unresolved
<1>10. Kept
  BY <1>i, <1>2, <1>5, <1>7, <1>8, <1>9, WriteKeeps
<1>11. Typed'
  <2>1. faults' \in 0 .. MaxFaults
    BY <1>i, <1>1, <1>3, ObserveFacts
  <2> QED
    BY <1>i, <1>2, <1>5, <1>6, <2>1, JournalStepTyped DEF Typed
<1>12. CommandOK'
  <2>1. HasPredecessor(op')
    BY <1>2, <1>3, <1>5 DEF HasPredecessor, SamePlan
  <2>2. Replacing'
    BY <1>i, <1>2, <1>4, <1>5, <1>6, <2>1 DEF CommandOK, Replacing, At, SamePlan, HasPredecessor
  <2> QED
    BY <1>6, <2>2 DEF CommandOK, Installing, Deleting, Cleaning, RecoveringOK, At
<1> QED
  BY <1>10, <1>11, <1>12, StepKeeps

\* The predecessor is attested missing only when it reads so.
LEMMA CheckPredecessorKeeps ==
    ASSUME IndInv, CheckPredecessor
    PROVE  IndInv' /\ Legal
<1>i. Typed /\ RowOK(op) /\ StoreOK /\ DoubtIsRecorded /\ CommandOK
  BY PartsOfInv
<1>1. PICK o \in Observations :
        /\ Observe(op.pred, o)
        /\ IF o = "missing"
              THEN /\ Journal(AttestPredecessorMissing(op))
                   /\ Goto(IF op.predBarrier THEN "repair_predecessor" ELSE proc.then)
              ELSE /\ UNCHANGED <<op, ownership, garbage>>
                   /\ proc' = Idle
  BY DEF CheckPredecessor
<1>2. /\ proc.pc = "check_predecessor" /\ vault' = vault /\ archived' = archived
      /\ minted' = minted /\ asked' = asked /\ unrecorded' = unrecorded /\ crashes' = crashes
  BY DEF CheckPredecessor, history
<1>3. /\ op \in Rows /\ op.pred \in Slots /\ op.status \in {"started", "cleanup_required"} /\ HasPredecessor(op)
      /\ Unresolved(op) /\ proc \in Procs /\ op.predIntent
  BY <1>i, <1>2, RowFields DEF Typed, CommandOK, Replacing, At, Unresolved
<1>4. faults' \in 0 .. MaxFaults /\ (o = "missing" => ~vault[op.pred].seen)
  BY <1>i, <1>1, <1>3, ObserveFacts
<1>5. CASE o # "missing"
  <2>1. op' = op /\ ownership' = ownership /\ garbage' = garbage /\ proc' = Idle
    BY <1>1, <1>5
  <2>2. DoubtsStay
    BY <1>2, <2>1 DEF DoubtsStay, SlotInDoubt, PredecessorInDoubt
  <2>3. Kept
    BY <1>i, <1>2, <2>1, <2>2, MoveKeeps
  <2>4. Typed'
    BY <1>i, <1>2, <1>4, <2>1, ProcFields, MoveTyped DEF Typed
  <2> QED
    BY <2>1, <2>3, <2>4, ProcFields, NoCommand, StepKeeps
<1>6. CASE o = "missing"
  <2> DEFINE n == AttestPredecessorMissing(op)
  <2>1. Journal(n) /\ op' = n /\ Goto(IF op.predBarrier THEN "repair_predecessor" ELSE proc.then)
    BY <1>1, <1>6 DEF Journal
  <2>2. Attests(op, n) /\ n.predMissing /\ n.predIntent
    BY <1>i, <1>3, AttestMissingRow
  <2> HIDE DEF n
  <2>3. /\ n \in Rows /\ RowOK(n) /\ SamePlan(op, n) /\ n.status = op.status /\ n.code = op.code
        /\ n.started = op.started /\ n.intents = op.intents
        /\ n.slotBarrier = op.slotBarrier /\ n.predBarrier = op.predBarrier
    BY <2>2 DEF Attests, Says
  <2>4. /\ proc.then \in {"finish_install", "cleanup_delete", "finish_cleanup"}
        /\ proc' \in Procs /\ proc'.observed = proc.observed /\ proc'.then = proc.then
        /\ proc'.repairSlot = proc.repairSlot
        /\ proc'.pc = IF op.predBarrier THEN "repair_predecessor" ELSE proc.then
    <3>1. proc.then \in {"finish_install", "cleanup_delete", "finish_cleanup"}
      BY <1>i, <1>2 DEF CommandOK, Replacing, At
    <3> QED
      BY <1>3, <2>1, <3>1, GotoFields DEF PCs
  <2>5. vault[op.pred] = Settled(FALSE) \/ op.pred \in unrecorded
    <3>1. CASE op.predBarrier
      BY <1>i, <1>2, <3>1 DEF CommandOK, Replacing, At
    <3>2. CASE ~op.predBarrier
      <4>1. SUFFICES ASSUME op.pred \notin unrecorded PROVE vault[op.pred] = Settled(FALSE)
        OBVIOUS
      <4>2. ~PredecessorInDoubt /\ op.slot # op.pred
        BY <1>i, <1>2, <1>3, <3>2 DEF PredecessorInDoubt, StoreOK, PlanOK, HasPredecessor
      <4>3. vault[op.pred].seen = vault[op.pred].durable
        BY <1>i, <1>3, <4>1, <4>2, ShownIsDurable
      <4> QED
        BY <1>i, <1>3, <1>4, <1>6, <4>3, SlotIsTyped DEF Typed
    <3> QED
      BY <3>1, <3>2
  <2>6. Progresses(op, n) /\ Legal /\ EvidenceHolds
    BY <1>3, <2>1, <2>2, <2>3, <2>5 DEF Progresses, Legal, EvidenceHolds, Unresolved
  <2>7. DoubtsStay
    BY <1>2, <1>3, <2>1, <2>3 DEF DoubtsStay, SlotInDoubt, PredecessorInDoubt, SamePlan, HasPredecessor, Unresolved
  <2>8. Kept
    BY <1>i, <1>2, <2>1, <2>3, <2>6, <2>7, WriteKeeps
  <2>9. Typed'
    BY <1>i, <1>2, <1>4, <2>1, <2>3, <2>4, JournalStepTyped DEF Typed
  <2>10. CommandOK'
    <3>1. HasPredecessor(op') /\ op'.kind = "install" /\ op'.slot = op.slot /\ op'.pred = op.pred
      BY <1>3, <2>1, <2>3 DEF HasPredecessor, SamePlan
    <3>2. Replacing
      BY <1>i DEF CommandOK
    <3>3. op.predBarrier => op.status = "cleanup_required"
      BY <1>i DEF RowOK, Barrier
    <3>4. Replacing'
      BY <1>2, <2>1, <2>2, <2>3, <2>4, <3>1, <3>2, <3>3 DEF Replacing, At
    <3>5. Installing'
      BY <1>2, <2>1, <2>2, <2>3, <2>4, <3>1, <3>2 DEF Replacing, Installing, At
    <3>6. Cleaning'
      BY <1>2, <2>1, <2>3, <2>4, <3>1, <3>2 DEF Replacing, Cleaning, At, Barrier
    <3> QED
      BY <2>4, <3>4, <3>5, <3>6 DEF CommandOK, Deleting, RecoveringOK, At
  <2> QED
    BY <2>8, <2>9, <2>10, StepKeeps
<1> QED
  BY <1>5, <1>6

\* The obligation of the predecessor's slot is discharged.
LEMMA RepairPredecessorSlotKeeps ==
    ASSUME IndInv, RepairPredecessorSlot
    PROVE  IndInv' /\ Legal
<1>i. Typed /\ RowOK(op) /\ StoreOK /\ DoubtIsRecorded /\ CommandOK
  BY PartsOfInv
<1> DEFINE n == RepairPredecessor(op)
<1>1. /\ proc.pc = "repair_predecessor" /\ Journal(n) /\ op' = n /\ Goto(proc.then)
      /\ vault' = vault /\ archived' = archived /\ minted' = minted
      /\ asked' = asked /\ unrecorded' = unrecorded /\ faults' = faults /\ crashes' = crashes
  BY DEF RepairPredecessorSlot, history, Journal
<1>2. /\ op \in Rows /\ HasPredecessor(op) /\ op.predBarrier /\ op.predMissing /\ proc \in Procs
      /\ vault[op.pred] = Settled(FALSE)
  BY <1>i, <1>1 DEF Typed, CommandOK, Replacing, At
<1>3. op.status = "cleanup_required" /\ op.intents # {} /\ Unresolved(op)
  BY <1>i, <1>2 DEF RowOK, Barrier, Unresolved
<1>4. Repairs(op, n) /\ ~n.predBarrier /\ n.slotBarrier = op.slotBarrier
  BY <1>i, <1>2, <1>3, RepairPredecessorRow
<1> HIDE DEF n
<1>5. /\ n \in Rows /\ RowOK(n) /\ SamePlan(op, n) /\ n.status = "cleanup_required"
      /\ n.intents = op.intents /\ n.started = op.started
      /\ n.predIntent = op.predIntent /\ n.predMissing = op.predMissing
  BY <1>4 DEF Repairs
<1>6. Legal
  BY <1>1, <1>4 DEF Legal, Repairs
<1>7. proc.then \in {"cleanup_delete", "finish_cleanup"} /\ asked
  BY <1>i, <1>1, <1>3 DEF CommandOK, Replacing, At
<1>8. /\ proc' \in Procs /\ proc'.observed = proc.observed /\ proc'.then = proc.then
      /\ proc'.repairSlot = proc.repairSlot /\ proc'.pc = proc.then
  BY <1>1, <1>2, <1>7, GotoFields DEF PCs
<1>9. Progresses(op, n) /\ EvidenceHolds
  BY <1>1, <1>3, <1>5 DEF Progresses, EvidenceHolds, Unresolved
<1>10. DoubtIsRecorded'
  <2>1. SUFFICES ASSUME NEW s \in Slots \ unrecorded
                 PROVE  \/ vault[s].seen = vault[s].durable
                        \/ Unresolved(op') /\ s = op'.slot /\ SlotInDoubt'
    BY <1>1 DEF DoubtIsRecorded, Unresolved
  <2>2. CASE s = op.pred
    <3>1. Settled(FALSE).seen = Settled(FALSE).durable
      BY DEF Settled
    <3> QED
      BY <1>2, <2>2, <3>1
  <2>3. CASE s # op.pred /\ vault[s].seen # vault[s].durable
    <3>1. s = op.slot /\ SlotInDoubt
      BY <1>i, <2>3 DEF DoubtIsRecorded
    <3>2. op.slotBarrier
      BY <1>1, <1>3, <3>1 DEF SlotInDoubt
    <3> QED
      BY <1>1, <1>4, <1>5, <3>1, <3>2 DEF SlotInDoubt, Unresolved, SamePlan
  <2> QED
    BY <2>2, <2>3
<1>11. Kept
  <2>1. op' = n /\ ownership' = ownership
    <3>1. ~Terminal(n)
      BY <1>5 DEF Terminal
    <3> QED
      BY <1>1, <3>1, OwnershipStays
  <2>2. StoreOK'
    BY <1>i, <1>1, <1>2, <1>5, <1>9, <2>1, StoreProgresses DEF SameStore
  <2> QED
    BY <1>5, <1>6, <1>10, <2>1, <2>2 DEF Kept
<1>12. Typed'
  BY <1>i, <1>1, <1>5, <1>8, JournalStepTyped DEF Typed
<1>13. CommandOK'
  BY <1>i, <1>1, <1>3, <1>4, <1>5, <1>7, <1>8 DEF CommandOK, Installing, Replacing, Deleting, Cleaning,
     RecoveringOK, At, Barrier, SamePlan
<1> QED
  BY <1>11, <1>12, <1>13, StepKeeps

-----------------------------------------------------------------------------
(* The explicit cleanup.                                                   *)

\* The intent of the cleanup, and the branch on the obligations.
LEMMA PersistCleanupIntentKeeps ==
    ASSUME IndInv, PersistCleanupIntent
    PROVE  IndInv' /\ Legal
<1>i. Typed /\ RowOK(op) /\ StoreOK /\ DoubtIsRecorded /\ CommandOK
  BY PartsOfInv
<1>1. PICK o \in Observations :
        /\ Observe(op.slot, o)
        /\ Journal(MarkExplicitCleanup(op, o, proc.archive))
        /\ proc' = [proc EXCEPT
                !.observed = o,
                !.repairSlot = op.slotBarrier,
                !.pc = IF op.predBarrier THEN "predecessor" ELSE "cleanup_delete",
                !.then = "cleanup_delete"]
  BY DEF PersistCleanupIntent
<1> DEFINE n == MarkExplicitCleanup(op, o, proc.archive)
<1>2. /\ proc.pc = "cleanup" /\ Journal(n) /\ op' = n /\ vault' = vault /\ archived' = archived
      /\ minted' = minted /\ asked' = asked /\ unrecorded' = unrecorded /\ crashes' = crashes
  BY <1>1 DEF PersistCleanupIntent, history, Journal
<1>3. /\ op \in Rows /\ op.slot \in Slots /\ op.slotBarrier \in BOOLEAN
      /\ op.status \in {"outcome_unknown", "cleanup_required"} /\ asked
      /\ Unresolved(op) /\ proc \in Procs /\ proc.archive \in BOOLEAN
  BY <1>i, <1>2, RowFields DEF Typed, CommandOK, Cleaning, At, Unresolved, Procs
<1>4. Cleans(op, n) /\ n.slotBarrier = op.slotBarrier /\ n.predBarrier = op.predBarrier
  BY <1>i, <1>3, ExplicitCleanupCleans
<1> HIDE DEF n
<1>5. /\ n \in Rows /\ RowOK(n) /\ SamePlan(op, n) /\ n.status = "cleanup_required" /\ n.intents # {}
      /\ LegalTransition(op, n)
  BY <1>4 DEF Cleans
<1>6. /\ proc' \in Procs /\ proc'.observed = o /\ proc'.then = "cleanup_delete" /\ proc'.repairSlot = op.slotBarrier
      /\ proc'.pc = IF op.predBarrier THEN "predecessor" ELSE "cleanup_delete"
  BY <1>1, <1>3 DEF Procs, PCs
<1>7. Progresses(op, n) /\ Legal /\ EvidenceHolds
  BY <1>2, <1>3, <1>4, <1>5, CleansProgresses DEF Legal, EvidenceHolds
<1>8. DoubtsStay
  BY <1>2, <1>3, <1>4, <1>5 DEF DoubtsStay, SlotInDoubt, PredecessorInDoubt, SamePlan, HasPredecessor, Unresolved
<1>9. Kept
  BY <1>i, <1>2, <1>5, <1>7, <1>8, WriteKeeps
<1>10. faults' \in 0 .. MaxFaults /\ (o = "missing" => ~vault[op.slot].seen)
  BY <1>i, <1>1, <1>3, ObserveFacts
<1>11. Typed'
  BY <1>i, <1>2, <1>5, <1>6, <1>10, JournalStepTyped DEF Typed
<1>12. CommandOK'
  <2>1. op.predBarrier => HasPredecessor(op')
    BY <1>i, <1>2, <1>5 DEF RowOK, Decodes, HasPredecessor, SamePlan
  <2> QED
    BY <1>2, <1>3, <1>4, <1>5, <1>6, <1>10, <2>1 DEF CommandOK, Installing, Replacing, Deleting, Cleaning,
       RecoveringOK, At, SamePlan
<1> QED
  BY <1>9, <1>11, <1>12, StepKeeps

\* Where a cleanup goes when the operation's slot is empty.
LEMMA AfterCleanupDeleteFields ==
    ASSUME proc \in Procs
    PROVE  /\ AfterCleanupDelete \in Procs /\ AfterCleanupDelete.then = "finish_cleanup"
           /\ AfterCleanupDelete.pc = IF HasPredecessor(op) THEN "predecessor" ELSE "finish_cleanup"
           /\ AfterCleanupDelete.repairSlot = proc.repairSlot
BY DEF AfterCleanupDelete, Procs, PCs

\* A slot that is empty and owes nothing lets the cleanup go on.
LEMMA CleanupGoesOn ==
    ASSUME op \in Rows, op' \in Rows, RowOK(op'), SamePlan(op, op'), proc \in Procs,
           proc' = AfterCleanupDelete,
           op'.status = "cleanup_required", op'.intents # {}, asked', ~op'.slotBarrier,
           ~vault'[op.slot].seen
    PROVE  CommandOK'
<1>1. /\ proc'.then = "finish_cleanup" /\ op'.slot = op.slot
      /\ proc'.pc = IF HasPredecessor(op) THEN "predecessor" ELSE "finish_cleanup"
      /\ HasPredecessor(op') = HasPredecessor(op)
  BY AfterCleanupDeleteFields DEF SamePlan, HasPredecessor
<1>2. op'.predBarrier => HasPredecessor(op)
  BY <1>1 DEF RowOK, Decodes
<1> QED
  BY <1>1, <1>2 DEF CommandOK, Installing, Replacing, Deleting, Cleaning, RecoveringOK, At, Barrier,
     HasPredecessor, SamePlan

\* Only a delete that the vault confirmed discharges the obligation.
LEMMA CheckCleanupKeeps ==
    ASSUME IndInv, CheckCleanup
    PROVE  IndInv' /\ Legal
<1>i. Typed /\ RowOK(op) /\ StoreOK /\ DoubtIsRecorded /\ CommandOK
  BY PartsOfInv
<1>1. PICK o \in Observations :
        /\ Observe(op.slot, o)
        /\ IF o = "missing"
              THEN /\ Journal(IF proc.repairSlot THEN RepairSlot(op) ELSE op)
                   /\ proc' = AfterCleanupDelete
              ELSE /\ UNCHANGED <<op, ownership, garbage>>
                   /\ proc' = Idle
  BY DEF CheckCleanup
<1>2. /\ proc.pc = "cleanup_check" /\ vault' = vault /\ archived' = archived
      /\ minted' = minted /\ asked' = asked /\ unrecorded' = unrecorded /\ crashes' = crashes
  BY DEF CheckCleanup, history
<1>3. /\ op \in Rows /\ op.slot \in Slots /\ op.status = "cleanup_required" /\ op.intents # {}
      /\ Unresolved(op) /\ proc \in Procs /\ asked /\ proc.repairSlot = op.slotBarrier
      /\ proc.repairSlot => vault[op.slot] = Settled(FALSE)
  BY <1>i, <1>2, RowFields DEF Typed, CommandOK, Cleaning, At, Unresolved
<1>4. faults' \in 0 .. MaxFaults /\ (o = "missing" => ~vault[op.slot].seen)
  BY <1>i, <1>1, <1>3, ObserveFacts
<1>5. CASE o # "missing"
  <2>1. op' = op /\ ownership' = ownership /\ garbage' = garbage /\ proc' = Idle
    BY <1>1, <1>5
  <2>2. DoubtsStay
    BY <1>2, <2>1 DEF DoubtsStay, SlotInDoubt, PredecessorInDoubt
  <2>3. Kept
    BY <1>i, <1>2, <2>1, <2>2, MoveKeeps
  <2>4. Typed'
    BY <1>i, <1>2, <1>4, <2>1, ProcFields, MoveTyped DEF Typed
  <2> QED
    BY <2>1, <2>3, <2>4, ProcFields, NoCommand, StepKeeps
<1>6. CASE o = "missing" /\ ~proc.repairSlot
  <2>1. Journal(op) /\ proc' = AfterCleanupDelete
    BY <1>1, <1>6
  <2>2. op' = op /\ ownership' = ownership /\ garbage' = garbage
    BY <2>1, OwnershipStays
  <2>3. DoubtsStay
    BY <1>2, <2>2 DEF DoubtsStay, SlotInDoubt, PredecessorInDoubt
  <2>4. Kept
    BY <1>i, <1>2, <2>2, <2>3, MoveKeeps
  <2>5. Typed'
    BY <1>i, <1>2, <1>3, <1>4, <2>1, <2>2, AfterCleanupDeleteFields, MoveTyped DEF Typed
  <2>6. CommandOK'
    BY <1>2, <1>i, <1>3, <1>4, <1>6, <2>1, <2>2, CleanupGoesOn DEF SamePlan
  <2> QED
    BY <2>4, <2>5, <2>6, StepKeeps
<1>7. CASE o = "missing" /\ proc.repairSlot
  <2> DEFINE n == RepairSlot(op)
  <2>1. Journal(n) /\ op' = n /\ proc' = AfterCleanupDelete
    BY <1>1, <1>7 DEF Journal
  <2>2. Repairs(op, n) /\ ~n.slotBarrier /\ n.predBarrier = op.predBarrier
    BY <1>i, <1>3, RepairSlotRow
  <2> HIDE DEF n
  <2>3. /\ n \in Rows /\ RowOK(n) /\ SamePlan(op, n) /\ n.status = "cleanup_required"
        /\ n.intents = op.intents /\ n.started = op.started
        /\ n.predIntent = op.predIntent /\ n.predMissing = op.predMissing
    BY <2>2 DEF Repairs
  <2>4. Legal
    BY <2>1, <2>2 DEF Legal, Repairs
  <2>5. Progresses(op, n) /\ EvidenceHolds
    BY <1>3, <2>1, <2>3 DEF Progresses, EvidenceHolds, Unresolved
  <2>6. DoubtIsRecorded'
    <3>1. SUFFICES ASSUME NEW s \in Slots \ unrecorded
                   PROVE  \/ vault[s].seen = vault[s].durable
                          \/ Unresolved(op') /\ s = op'.pred /\ PredecessorInDoubt'
      BY <1>2 DEF DoubtIsRecorded, Unresolved
    <3>2. CASE s = op.slot
      <4>1. Settled(FALSE).seen = Settled(FALSE).durable
        BY DEF Settled
      <4> QED
        BY <1>3, <1>7, <3>2, <4>1
    <3>3. CASE s # op.slot /\ vault[s].seen # vault[s].durable
      <4>1. s = op.pred /\ PredecessorInDoubt
        BY <1>i, <3>3 DEF DoubtIsRecorded
      <4>2. op.predBarrier /\ HasPredecessor(op)
        BY <1>2, <1>3, <4>1 DEF PredecessorInDoubt
      <4> QED
        BY <2>1, <2>2, <2>3, <4>1, <4>2 DEF PredecessorInDoubt, Unresolved, SamePlan, HasPredecessor
    <3> QED
      BY <3>2, <3>3
  <2>7. Kept
    <3>1. op' = n /\ ownership' = ownership
      <4>1. ~Terminal(n)
        BY <2>3 DEF Terminal
      <4> QED
        BY <2>1, <4>1, OwnershipStays
    <3>2. StoreOK'
      BY <1>i, <1>2, <1>3, <2>3, <2>5, <3>1, StoreProgresses DEF SameStore
    <3> QED
      BY <2>3, <2>4, <2>6, <3>1, <3>2 DEF Kept
  <2>8. Typed'
    BY <1>i, <1>2, <1>3, <1>4, <2>1, <2>3, AfterCleanupDeleteFields, JournalStepTyped DEF Typed
  <2>9. CommandOK'
    BY <1>2, <1>3, <1>4, <1>7, <2>1, <2>2, <2>3, CleanupGoesOn
  <2> QED
    BY <2>7, <2>8, <2>9, StepKeeps
<1> QED
  BY <1>5, <1>6, <1>7

-----------------------------------------------------------------------------
(* The steps that touch neither the journal's row nor the vault.           *)

\* recover_provider_credential_slot_garbage_with.
LEMMA CollectGarbageKeeps ==
    ASSUME IndInv, CollectGarbage
    PROVE  IndInv' /\ Legal
<1>i. Typed /\ RowOK(op) /\ StoreOK /\ DoubtIsRecorded /\ CommandOK
  BY PartsOfInv
<1>1. /\ proc.pc = "garbage" /\ proc' = Idle /\ vault' = vault /\ op' = op /\ ownership' = ownership
      /\ archived' = archived /\ minted' = minted /\ asked' = asked /\ unrecorded' = unrecorded
      /\ faults' = faults /\ crashes' = crashes
  BY DEF CollectGarbage, history
<1>2. garbage' \in [Authorities -> {"none", "pending", "completed"}]
  BY <1>i DEF CollectGarbage, Typed
<1>3. DoubtsStay
  BY <1>1 DEF DoubtsStay, SlotInDoubt, PredecessorInDoubt
<1>4. Kept
  BY <1>i, <1>1, <1>3, MoveKeeps
<1>5. Typed'
  BY <1>i, <1>1, <1>2, ProcFields DEF Typed
<1> QED
  BY <1>1, <1>4, <1>5, ProcFields, NoCommand, StepKeeps

\* The user reopens the application.
LEMMA ReopenKeeps ==
    ASSUME IndInv, Reopen
    PROVE  IndInv' /\ Legal
<1>i. Typed /\ RowOK(op) /\ StoreOK /\ DoubtIsRecorded /\ CommandOK
  BY PartsOfInv
<1>1. /\ proc.pc = "idle" /\ proc' = Down /\ vault' = vault /\ op' = op /\ ownership' = ownership
      /\ garbage' = garbage /\ archived' = archived /\ minted' = minted /\ asked' = asked
      /\ unrecorded' = unrecorded /\ faults' = faults /\ crashes' = crashes
  BY DEF Reopen, history, durable
<1>3. DoubtsStay
  BY <1>1 DEF DoubtsStay, SlotInDoubt, PredecessorInDoubt
<1>4. Kept
  BY <1>i, <1>1, <1>3, MoveKeeps
<1>5. Typed'
  BY <1>i, <1>1, ProcFields, MoveTyped DEF Typed
<1> QED
  BY <1>1, <1>4, <1>5, ProcFields, NoCommand, StepKeeps

\* A step that changes nothing.
LEMMA StutterKeeps ==
    ASSUME IndInv, UNCHANGED vars
    PROVE  IndInv' /\ Legal
<1>i. Typed /\ RowOK(op) /\ StoreOK /\ DoubtIsRecorded /\ CommandOK
  BY PartsOfInv
<1>1. /\ proc' = proc /\ vault' = vault /\ op' = op /\ ownership' = ownership
      /\ garbage' = garbage /\ archived' = archived /\ minted' = minted /\ asked' = asked
      /\ unrecorded' = unrecorded /\ faults' = faults /\ crashes' = crashes
  BY DEF vars, history
<1>3. DoubtsStay
  BY <1>1 DEF DoubtsStay, SlotInDoubt, PredecessorInDoubt, InCleanup
<1>4. Kept
  BY <1>i, <1>1, <1>3, MoveKeeps
<1>5. Typed'
  BY <1>i, <1>1, MoveTyped DEF Typed
<1>6. CommandOK'
  BY <1>i, <1>1 DEF CommandOK, Installing, Replacing, Deleting, Cleaning, RecoveringOK, At
<1> QED
  BY <1>4, <1>5, <1>6, StepKeeps

-----------------------------------------------------------------------------
(* The native calls.                                                       *)

SameRows ==
    /\ op' = op /\ ownership' = ownership /\ garbage' = garbage /\ archived' = archived
    /\ minted' = minted /\ asked' = asked

\* The slot that a native call may touch, and the history it may add to.
MayTouch(s, present) ==
    /\ Unresolved(op)
    /\ s = op.slot \/ (s = op.pred /\ HasPredecessor(op) /\ op.predIntent /\ ~present)
    /\ present => op.kind = "install" /\ s = op.slot
    /\ s = op.slot /\ ~present => op.kind # "install" \/ asked
    /\ s = op.slot /\ op.kind # "install" => op.started \/ op.intents # {}
    /\ unrecorded \subseteq unrecorded' /\ unrecorded' \subseteq unrecorded \cup {s}
    /\ op.slot \in unrecorded' /\ op.slot \notin unrecorded => op.intents # {}

\* What a native call leaves of the store.
LEMMA StoreTouched ==
    ASSUME Typed, StoreOK, SameRows, NEW s \in Slots, NEW present \in BOOLEAN,
           MayTouch(s, present), Touches(s, present)
    PROVE  StoreOK'
<1>v. \A t \in Slots : vault[t].seen \in BOOLEAN /\ vault[t].durable \in BOOLEAN
        /\ (vault[t] = Settled(TRUE) <=> vault[t].seen = TRUE /\ vault[t].durable = TRUE)
        /\ (vault[t] = Settled(FALSE) <=> vault[t].seen = FALSE /\ vault[t].durable = FALSE)
  BY SlotIsTyped DEF Typed
<1>w. \A t \in Slots : vault'[t].seen \in BOOLEAN /\ vault'[t].durable \in BOOLEAN
        /\ (vault'[t] = Settled(TRUE) <=> vault'[t].seen = TRUE /\ vault'[t].durable = TRUE)
        /\ (vault'[t] = Settled(FALSE) <=> vault'[t].seen = FALSE /\ vault'[t].durable = FALSE)
  <2>1. SUFFICES ASSUME NEW t \in Slots
                 PROVE  vault'[t].seen \in BOOLEAN /\ vault'[t].durable \in BOOLEAN
        /\ (vault'[t] = Settled(TRUE) <=> vault'[t].seen = TRUE /\ vault'[t].durable = TRUE)
        /\ (vault'[t] = Settled(FALSE) <=> vault'[t].seen = FALSE /\ vault'[t].durable = FALSE)
    OBVIOUS
  <2>2. vault'[t] \in SlotState
    BY DEF Touches
  <2> QED
    BY <2>2, ContentIsTyped
<1>t. /\ \A t \in Slots : t # s => vault'[t] = vault[t]
      /\ vault'[s].seen \in {present, vault[s].seen}
      /\ vault'[s].durable \in {present, vault[s].durable}
  BY DEF Touches
<1>r. op \in Rows /\ op.slot \in Slots /\ op.pred \in Slots /\ ownership.slot \in Slots
        /\ minted \in Nat /\ op.predIntent \in BOOLEAN
  BY RowFields, CredentialAssumption DEF Typed, Owners
<1>u. Unresolved(op) /\ Unresolved(op)' /\ HasPredecessor(op)' = HasPredecessor(op)
  BY DEF MayTouch, SameRows
<1>p. /\ op.kind = "install" => op.slot # op.pred /\ op.slot <= minted /\ op.pred = ownership.slot
      /\ op.kind # "install" => op.slot = ownership.slot
      /\ ownership.slot <= minted
  BY <1>u DEF StoreOK, PlanOK, OwnerOK
<1>s. s \in {op.slot, op.pred} /\ s <= minted /\ (s = op.pred => s = op.slot \/ HasPredecessor(op))
  BY <1>p DEF MayTouch, HasPredecessor
<1>1. PlanOK' /\ OwnerOK'
  <2>1. op.kind = "install" /\ op.intents = {} => op.slot \notin unrecorded'
    BY <1>u DEF MayTouch, StoreOK, PlanOK
  <2> QED
    BY <1>u, <2>1 DEF StoreOK, PlanOK, OwnerOK, SameRows
<1>2. FreshSlots'
  <2>1. SUFFICES ASSUME NEW t \in Slots, t > minted
                 PROVE  vault'[t] = Settled(FALSE) /\ t \notin unrecorded'
    BY DEF FreshSlots, SameRows
  <2>2. t # s
    BY <1>r, <1>s, <2>1, SlotsAreNumbers
  <2> QED
    BY <1>t, <2>1, <2>2 DEF StoreOK, FreshSlots, MayTouch
<1>3. Untouched'
  <2>1. HasPredecessor(op) /\ ~op.predIntent => vault'[op.pred] = Settled(TRUE)
    BY <1>p, <1>r, <1>t, <1>u DEF MayTouch, StoreOK, Untouched, HasPredecessor
  <2>2. op.kind # "install" /\ ownership.state = "owned" /\ ~op.started /\ op.intents = {} =>
          vault'[op.slot] = Settled(TRUE)
    BY <1>r, <1>t, <1>u DEF MayTouch, StoreOK, Untouched, HasPredecessor
  <2> QED
    BY <1>u, <2>1, <2>2 DEF Untouched, SameRows
<1>4. KnownSlots'
  <2>1. SUFFICES ASSUME NEW t \in Slots \ unrecorded', vault'[t].seen \/ vault'[t].durable
                 PROVE  \/ ownership.state \in {"owned", "legacy_pending"} /\ ownership.slot = t
                        \/ op.kind = "install" /\ op.slot = t
    BY <1>u DEF KnownSlots, SameRows
  <2>2. t \in Slots \ unrecorded
    BY DEF MayTouch
  <2>3. (vault[t].seen \/ vault[t].durable) \/ (t = s /\ present)
    BY <1>t, <1>v, <2>1
  <2> QED
    BY <2>2, <2>3 DEF StoreOK, KnownSlots, MayTouch
<1>5. PredecessorOK'
  <2>1. HasPredecessor(op) /\ op.predMissing => vault'[op.pred] = Settled(FALSE) \/ op.pred \in unrecorded'
    <3>1. SUFFICES ASSUME HasPredecessor(op), op.predMissing, op.pred \notin unrecorded'
                   PROVE  vault'[op.pred] = Settled(FALSE)
      OBVIOUS
    <3>2. vault[op.pred] = Settled(FALSE)
      BY <1>u, <3>1 DEF MayTouch, StoreOK, PredecessorOK
    <3>3. s = op.pred => ~present
      BY <1>p, <3>1 DEF MayTouch, HasPredecessor
    <3> QED
      BY <1>r, <1>t, <1>v, <1>w, <3>2, <3>3
  <2>2. HasPredecessor(op) /\ op.predIntent /\ ~asked => vault'[op.slot].durable
    <3>1. SUFFICES ASSUME HasPredecessor(op), op.predIntent, ~asked
                   PROVE  vault'[op.slot].durable
      OBVIOUS
    <3>2. vault[op.slot].durable
      BY <1>u, <3>1 DEF StoreOK, PredecessorOK
    <3>3. s = op.slot => present
      BY <3>1 DEF MayTouch, HasPredecessor
    <3> QED
      BY <1>r, <1>t, <3>2, <3>3
  <2> QED
    BY <1>u, <2>1, <2>2 DEF PredecessorOK, SameRows
<1> QED
  BY <1>1, <1>2, <1>3, <1>4, <1>5 DEF StoreOK

\* A native call leaves its slot settled, excused or on record as in doubt.
LEMMA DoubtTouched ==
    ASSUME DoubtIsRecorded, op' = op, NEW s \in Slots, NEW present, Touches(s, present), DoubtsStay,
           unrecorded \subseteq unrecorded',
           \/ vault'[s].seen = vault'[s].durable
           \/ s \in unrecorded'
           \/ Unresolved(op) /\ s = op.slot /\ SlotInDoubt'
           \/ Unresolved(op) /\ s = op.pred /\ PredecessorInDoubt'
    PROVE  DoubtIsRecorded'
<1>1. SUFFICES ASSUME NEW t \in Slots \ unrecorded'
               PROVE  \/ vault'[t].seen = vault'[t].durable
                      \/ Unresolved(op') /\ t = op'.slot /\ SlotInDoubt'
                      \/ Unresolved(op') /\ t = op'.pred /\ PredecessorInDoubt'
  BY DEF DoubtIsRecorded, Unresolved
<1>2. CASE t = s
  BY <1>2
<1>3. CASE t # s
  <2>1. vault'[t] = vault[t]
    BY <1>3 DEF Touches
  <2>2. \/ vault[t].seen = vault[t].durable
        \/ Unresolved(op) /\ t = op.slot /\ SlotInDoubt
        \/ Unresolved(op) /\ t = op.pred /\ PredecessorInDoubt
    BY DEF DoubtIsRecorded
  <2> QED
    BY <2>1, <2>2 DEF DoubtsStay
<1> QED
  BY <1>2, <1>3

\* The types after a native call.
LEMMA TouchTyped ==
    ASSUME Typed, SameRows, vault' \in [Slots -> SlotState], proc' \in Procs,
           faults' \in 0 .. MaxFaults, crashes' \in 0 .. MaxCrashes, unrecorded' \subseteq Slots
    PROVE  Typed'
BY DEF Typed, SameRows

\* A step that writes no row keeps the rows legal.
LEMMA TouchKeeps ==
    ASSUME Typed, RowOK(op), SameRows, StoreOK', DoubtIsRecorded'
    PROVE  Kept
BY DEF Kept, Legal, SameRows, Typed

\* An answer that settles the slot, or leaves it as it was.
LEMMA AnswerSettles ==
    ASSUME Typed, DoubtIsRecorded, NEW s \in Slots, NEW present \in BOOLEAN,
           vault'[s] = Settled(present) \/ (vault'[s] = vault[s] /\ (s \in unrecorded \/ vault[s].seen = vault[s].durable))
    PROVE  vault'[s].seen = vault'[s].durable \/ s \in unrecorded
<1>1. Settled(present).seen = Settled(present).durable
  BY DEF Settled
<1> QED
  BY <1>1

\* The native store.
LEMMA StoreCredentialKeeps ==
    ASSUME IndInv, StoreCredential
    PROVE  IndInv' /\ Legal
<1>i. Typed /\ RowOK(op) /\ StoreOK /\ DoubtIsRecorded /\ CommandOK
  BY PartsOfInv
<1>1. proc.pc = "store"
  BY DEF StoreCredential
<1>2. /\ op \in Rows /\ op.slot \in Slots /\ op.kind = "install" /\ op.status = "started" /\ ~op.predIntent
      /\ proc \in Procs /\ Unresolved(op) /\ unrecorded \subseteq Slots
  BY <1>i, <1>1, RowFields DEF Typed, CommandOK, Installing, At, Unresolved
<1>3. ~SlotInDoubt /\ ~PredecessorInDoubt
  BY <1>i, <1>1, <1>2 DEF RowOK, SlotInDoubt, PredecessorInDoubt, Barrier
<1>4. DoubtsStay \/ op' # op
  BY <1>3 DEF DoubtsStay
<1>5. op.slot \in unrecorded \/ vault[op.slot].seen = vault[op.slot].durable
  BY <1>i, <1>2, <1>3, ShownIsDurable
<1>6. ASSUME unrecorded' = unrecorded PROVE MayTouch(op.slot, TRUE)
  BY <1>2, <1>6 DEF MayTouch
<1>7. ASSUME NEW answer \in {"ok", "error", "recovery"},
             Native(op.slot, TRUE, answer),
             Goto(IF answer = "recovery" THEN "store_barrier" ELSE "observe_install"),
             UNCHANGED <<durable, minted, history>>
      PROVE  IndInv' /\ Legal
  <2>1. SameRows /\ unrecorded' = unrecorded
    BY <1>7 DEF SameRows, durable, history
  <2>2. /\ Touches(op.slot, TRUE)
        /\ answer = "ok" => vault'[op.slot] = Settled(TRUE)
        /\ answer = "error" => vault'[op.slot] = vault[op.slot] \/ vault'[op.slot] = Settled(TRUE)
        /\ faults' \in 0 .. MaxFaults /\ crashes' = crashes
    BY <1>i, <1>2, <1>7, NativeFacts
  <2>3. proc' \in Procs /\ proc'.pc = IF answer = "recovery" THEN "store_barrier" ELSE "observe_install"
    BY <1>2, <1>7, GotoFields DEF PCs
  <2>4. StoreOK'
    BY <1>i, <1>2, <1>6, <2>1, <2>2, StoreTouched
  <2>5. DoubtIsRecorded'
    <3>1. answer # "recovery" => vault'[op.slot].seen = vault'[op.slot].durable \/ op.slot \in unrecorded
      BY <1>i, <1>2, <1>5, <1>7, <2>2, AnswerSettles
    <3>2. answer = "recovery" => SlotInDoubt'
      BY <1>2, <2>1, <2>3 DEF SlotInDoubt, SameRows
    <3> QED
      BY <1>i, <1>2, <1>4, <2>1, <2>2, <3>1, <3>2, DoubtTouched DEF SameRows
  <2>6. Typed'
    BY <1>i, <1>2, <2>1, <2>2, <2>3, TouchTyped DEF Typed, Touches
  <2>7. CommandOK'
    BY <1>2, <2>1, <2>3 DEF CommandOK, Installing, Replacing, Deleting, Cleaning, RecoveringOK, At, SameRows
  <2> QED
    BY <1>i, <2>1, <2>4, <2>5, <2>6, <2>7, TouchKeeps, StepKeeps
<1>8. ASSUME Unanswered(op.slot, TRUE), UNCHANGED unrecorded
      PROVE  IndInv' /\ Legal
  <2>1. /\ Touches(op.slot, TRUE) /\ crashes' \in 0 .. MaxCrashes /\ faults' = faults /\ proc' = Down /\ SameRows
        /\ unrecorded' = unrecorded
    BY <1>i, <1>2, <1>8, UnansweredFacts DEF SameRows
  <2>2. StoreOK'
    BY <1>i, <1>2, <1>6, <2>1, StoreTouched
  <2>3. SlotInDoubt'
    BY <1>2, <2>1, ProcFields DEF SlotInDoubt, SameRows
  <2>4. DoubtIsRecorded'
    BY <1>i, <1>2, <1>4, <2>1, <2>3, DoubtTouched DEF SameRows
  <2>5. Typed'
    BY <1>i, <1>2, <2>1, ProcFields, TouchTyped DEF Typed, Touches
  <2> QED
    BY <1>i, <2>1, <2>2, <2>4, <2>5, ProcFields, NoCommand, TouchKeeps, StepKeeps
<1> QED
  BY <1>7, <1>8 DEF StoreCredential

\* The native delete of a removal.
LEMMA DeleteCredentialKeeps ==
    ASSUME IndInv, DeleteCredential
    PROVE  IndInv' /\ Legal
<1>i. Typed /\ RowOK(op) /\ StoreOK /\ DoubtIsRecorded /\ CommandOK
  BY PartsOfInv
<1>1. proc.pc = "delete"
  BY DEF DeleteCredential
<1>2. /\ op \in Rows /\ op.slot \in Slots /\ op.kind = RemovalKind(proc.archive) /\ op.kind # "install"
      /\ op.status = "started" /\ op.started /\ ~op.predIntent
      /\ proc \in Procs /\ Unresolved(op) /\ unrecorded \subseteq Slots
  BY <1>i, <1>1, RowFields DEF Typed, CommandOK, Deleting, At, Unresolved, RemovalKind, RowOK, Decodes, HasPredecessor
<1>3. ~SlotInDoubt /\ ~PredecessorInDoubt
  BY <1>i, <1>1, <1>2 DEF RowOK, SlotInDoubt, PredecessorInDoubt, Barrier
<1>4. DoubtsStay \/ op' # op
  BY <1>3 DEF DoubtsStay
<1>5. op.slot \in unrecorded \/ vault[op.slot].seen = vault[op.slot].durable
  BY <1>i, <1>2, <1>3, ShownIsDurable
<1>6. ASSUME unrecorded' = unrecorded PROVE MayTouch(op.slot, FALSE)
  BY <1>2, <1>6 DEF MayTouch
<1>7. ASSUME NEW answer \in {"ok", "error", "recovery"},
             Native(op.slot, FALSE, answer),
             Goto(IF answer = "recovery" THEN "delete_barrier" ELSE "finish_removal"),
             UNCHANGED <<durable, minted, history>>
      PROVE  IndInv' /\ Legal
  <2>1. SameRows /\ unrecorded' = unrecorded
    BY <1>7 DEF SameRows, durable, history
  <2>2. /\ Touches(op.slot, FALSE)
        /\ answer = "ok" => vault'[op.slot] = Settled(FALSE)
        /\ answer = "error" => vault'[op.slot] = vault[op.slot] \/ vault'[op.slot] = Settled(FALSE)
        /\ faults' \in 0 .. MaxFaults /\ crashes' = crashes
    BY <1>i, <1>2, <1>7, NativeFacts
  <2>3. /\ proc' \in Procs /\ proc'.archive = proc.archive
        /\ proc'.pc = IF answer = "recovery" THEN "delete_barrier" ELSE "finish_removal"
    BY <1>2, <1>7, GotoFields DEF PCs
  <2>4. StoreOK'
    BY <1>i, <1>2, <1>6, <2>1, <2>2, StoreTouched
  <2>5. DoubtIsRecorded'
    <3>1. answer # "recovery" => vault'[op.slot].seen = vault'[op.slot].durable \/ op.slot \in unrecorded
      BY <1>i, <1>2, <1>5, <1>7, <2>2, AnswerSettles
    <3>2. answer = "recovery" => SlotInDoubt'
      BY <1>2, <2>1, <2>3 DEF SlotInDoubt, SameRows
    <3> QED
      BY <1>i, <1>2, <1>4, <2>1, <2>2, <3>1, <3>2, DoubtTouched DEF SameRows
  <2>6. Typed'
    BY <1>i, <1>2, <2>1, <2>2, <2>3, TouchTyped DEF Typed, Touches
  <2>7. CommandOK'
    BY <1>2, <2>1, <2>3 DEF CommandOK, Installing, Replacing, Deleting, Cleaning, RecoveringOK, At, SameRows
  <2> QED
    BY <1>i, <2>1, <2>4, <2>5, <2>6, <2>7, TouchKeeps, StepKeeps
<1>8. ASSUME Unanswered(op.slot, FALSE), UNCHANGED unrecorded
      PROVE  IndInv' /\ Legal
  <2>1. /\ Touches(op.slot, FALSE) /\ crashes' \in 0 .. MaxCrashes /\ faults' = faults /\ proc' = Down /\ SameRows
        /\ unrecorded' = unrecorded
    BY <1>i, <1>2, <1>8, UnansweredFacts DEF SameRows
  <2>2. StoreOK'
    BY <1>i, <1>2, <1>6, <2>1, StoreTouched
  <2>3. SlotInDoubt'
    BY <1>2, <2>1, ProcFields DEF SlotInDoubt, SameRows
  <2>4. DoubtIsRecorded'
    BY <1>i, <1>2, <1>4, <2>1, <2>3, DoubtTouched DEF SameRows
  <2>5. Typed'
    BY <1>i, <1>2, <2>1, ProcFields, TouchTyped DEF Typed, Touches
  <2> QED
    BY <1>i, <2>1, <2>2, <2>4, <2>5, ProcFields, NoCommand, TouchKeeps, StepKeeps
<1> QED
  BY <1>7, <1>8 DEF DeleteCredential

\* The native delete of the predecessor.
LEMMA DeletePredecessorKeeps ==
    ASSUME IndInv, DeletePredecessor
    PROVE  IndInv' /\ Legal
<1>i. Typed /\ RowOK(op) /\ StoreOK /\ DoubtIsRecorded /\ CommandOK
  BY PartsOfInv
<1>1. proc.pc = "delete_predecessor"
  BY DEF DeletePredecessor
<1>2. /\ op \in Rows /\ op.pred \in Slots /\ HasPredecessor(op) /\ op.predIntent
      /\ op.status \in {"started", "cleanup_required"}
      /\ proc \in Procs /\ Unresolved(op) /\ unrecorded \subseteq Slots /\ Replacing
  BY <1>i, <1>1, RowFields DEF Typed, CommandOK, Replacing, At, Unresolved
<1>3. op.slot # op.pred /\ op.slot \in Slots
  BY <1>i, <1>2, RowFields DEF StoreOK, PlanOK, HasPredecessor
<1>4. ~op.predBarrier => op.pred \in unrecorded \/ vault[op.pred].seen = vault[op.pred].durable
  <2>1. ~op.predBarrier => ~PredecessorInDoubt
    BY <1>1 DEF PredecessorInDoubt
  <2> QED
    BY <1>i, <1>2, <1>3, <2>1, ShownIsDurable
<1>5. ASSUME unrecorded \subseteq unrecorded', unrecorded' \subseteq unrecorded \cup {op.pred}
      PROVE MayTouch(op.pred, FALSE)
  BY <1>2, <1>3, <1>5 DEF MayTouch
<1>6. ASSUME NEW answer \in {"ok", "error", "recovery"},
             Native(op.pred, FALSE, answer),
             proc' = CASE answer = "recovery" -> [proc EXCEPT !.pc = "predecessor_barrier"]
                         [] answer = "error" /\ op.predBarrier -> Idle
                         [] OTHER -> [proc EXCEPT !.pc = "check_predecessor"],
             UNCHANGED <<durable, minted, history>>
      PROVE  IndInv' /\ Legal
  <2>1. SameRows /\ unrecorded' = unrecorded
    BY <1>6 DEF SameRows, durable, history
  <2>2. /\ Touches(op.pred, FALSE)
        /\ answer = "ok" => vault'[op.pred] = Settled(FALSE)
        /\ answer = "error" => vault'[op.pred] = vault[op.pred] \/ vault'[op.pred] = Settled(FALSE)
        /\ faults' \in 0 .. MaxFaults /\ crashes' = crashes
    BY <1>i, <1>2, <1>6, NativeFacts
  <2>s. StoreOK'
    BY <1>i, <1>2, <1>5, <2>1, <2>2, StoreTouched
  <2>v. vault'[op.slot] = vault[op.slot]
    BY <1>3, <2>2 DEF Touches
  <2>3. CASE answer = "error" /\ op.predBarrier
    <3>1. proc' = Idle
      BY <1>6, <2>3
    <3>2. PredecessorInDoubt' /\ DoubtsStay
      BY <1>1, <1>2, <2>1, <2>3, <3>1, ProcFields DEF PredecessorInDoubt, SlotInDoubt, DoubtsStay, SameRows
    <3>3. DoubtIsRecorded'
      BY <1>i, <1>2, <2>1, <2>2, <3>2, DoubtTouched DEF SameRows
    <3>4. Typed'
      BY <1>i, <1>2, <2>1, <2>2, <3>1, ProcFields, TouchTyped DEF Typed, Touches
    <3> QED
      BY <1>i, <2>1, <2>s, <3>1, <3>3, <3>4, ProcFields, NoCommand, TouchKeeps, StepKeeps
  <2>4. CASE ~(answer = "error" /\ op.predBarrier)
    <3> DEFINE p == IF answer = "recovery" THEN "predecessor_barrier" ELSE "check_predecessor"
    <3>1. Goto(p)
      BY <1>6, <2>4 DEF Goto
    <3>2. /\ proc' \in Procs /\ proc'.pc = p /\ proc'.then = proc.then /\ proc'.observed = proc.observed
          /\ proc'.repairSlot = proc.repairSlot
      BY <1>2, <3>1, GotoFields DEF PCs
    <3>3. DoubtsStay
      BY <1>1, <1>2, <2>1, <3>2 DEF PredecessorInDoubt, SlotInDoubt, DoubtsStay, SameRows
    <3>4. answer = "recovery" => PredecessorInDoubt'
      <4>1. proc.then = "finish_install" => op.status = "started" /\ ~op.predMissing
        BY <1>1, <1>2 DEF Replacing, At
      <4> QED
        BY <1>2, <2>1, <3>2, <4>1 DEF PredecessorInDoubt, InCleanup, SameRows
    <3>5. answer # "recovery" => vault'[op.pred].seen = vault'[op.pred].durable \/ op.pred \in unrecorded
      BY <1>i, <1>2, <1>4, <1>6, <2>2, <2>4, AnswerSettles
    <3>6. DoubtIsRecorded'
      BY <1>i, <1>2, <2>1, <2>2, <3>3, <3>4, <3>5, DoubtTouched DEF SameRows
    <3>7. Typed'
      BY <1>i, <1>2, <2>1, <2>2, <3>2, TouchTyped DEF Typed, Touches
    <3>8. CommandOK'
      <4>0. /\ proc'.pc \in {"predecessor_barrier", "check_predecessor"}
            /\ proc'.pc = "check_predecessor" /\ op.predBarrier => vault'[op.pred] = Settled(FALSE)
        <5>1. answer \in {"ok", "error", "recovery"}
          BY <1>6
        <5> QED
          BY <2>2, <2>4, <3>2, <5>1
      <4>1. Replacing'
        BY <1>1, <1>2, <2>1, <2>v, <3>2, <4>0 DEF Replacing, At, SameRows
      <4> QED
        BY <3>2, <4>1 DEF CommandOK, Installing, Deleting, Cleaning, RecoveringOK, At
    <3> QED
      BY <1>i, <2>1, <2>s, <3>6, <3>7, <3>8, TouchKeeps, StepKeeps
  <2> QED
    BY <2>3, <2>4
<1>7. ASSUME Unanswered(op.pred, FALSE),
             unrecorded' = unrecorded \cup IF InCleanup /\ ~op.predBarrier THEN {op.pred} ELSE {}
      PROVE  IndInv' /\ Legal
  <2>1. Touches(op.pred, FALSE) /\ crashes' \in 0 .. MaxCrashes /\ faults' = faults /\ proc' = Down /\ SameRows
    BY <1>i, <1>2, <1>7, UnansweredFacts DEF SameRows
  <2>2. unrecorded \subseteq unrecorded' /\ unrecorded' \subseteq unrecorded \cup {op.pred} /\ unrecorded' \subseteq Slots
    BY <1>2, <1>7
  <2>3. StoreOK'
    BY <1>i, <1>2, <1>5, <2>1, <2>2, StoreTouched
  <2>4. PredecessorInDoubt' \/ op.pred \in unrecorded'
    <3>1. proc.then = "finish_install" => op.status = "started" /\ ~op.predMissing
      BY <1>1, <1>2 DEF Replacing, At
    <3> QED
      BY <1>2, <1>7, <2>1, <3>1, ProcFields DEF PredecessorInDoubt, InCleanup, SameRows
  <2>5. DoubtsStay
    BY <1>1, <1>2, <2>1, <2>4 DEF PredecessorInDoubt, SlotInDoubt, DoubtsStay, SameRows
  <2>6. DoubtIsRecorded'
    BY <1>i, <1>2, <2>1, <2>2, <2>4, <2>5, DoubtTouched DEF SameRows
  <2>7. Typed'
    BY <1>i, <2>1, <2>2, ProcFields, TouchTyped DEF Typed, Touches
  <2> QED
    BY <1>i, <2>1, <2>3, <2>6, <2>7, ProcFields, NoCommand, TouchKeeps, StepKeeps
<1> QED
  BY <1>6, <1>7 DEF DeletePredecessor

\* The native delete of the explicit cleanup, where there is something to delete.
LEMMA CleanupDeleteKeeps ==
    ASSUME IndInv, CleanupDelete
    PROVE  IndInv' /\ Legal
<1>i. Typed /\ RowOK(op) /\ StoreOK /\ DoubtIsRecorded /\ CommandOK
  BY PartsOfInv
<1>1. proc.pc = "cleanup_delete"
  BY DEF CleanupDelete
<1>2. /\ op \in Rows /\ op.slot \in Slots /\ op.status = "cleanup_required" /\ op.intents # {} /\ asked
      /\ proc.repairSlot = op.slotBarrier /\ (proc.observed = "missing" => ~vault[op.slot].seen)
      /\ proc \in Procs /\ Unresolved(op) /\ unrecorded \subseteq Slots
  BY <1>i, <1>1, RowFields DEF Typed, CommandOK, Cleaning, At, Unresolved
<1>3. ~op.slotBarrier => ~SlotInDoubt
  BY <1>1, <1>2 DEF SlotInDoubt
<1>4. ~op.slotBarrier => op.slot \in unrecorded \/ vault[op.slot].seen = vault[op.slot].durable
  <2>1. op.slot = op.pred => ~PredecessorInDoubt
    BY <1>i, <1>2 DEF StoreOK, PlanOK, PredecessorInDoubt, HasPredecessor
  <2> QED
    BY <1>i, <1>2, <1>3, <2>1, ShownIsDurable
<1>5. ASSUME unrecorded \subseteq unrecorded', unrecorded' \subseteq unrecorded \cup {op.slot}
      PROVE MayTouch(op.slot, FALSE)
  BY <1>2, <1>5 DEF MayTouch
<1>6. CASE /\ proc.observed = "missing" /\ ~proc.repairSlot
           /\ proc' = AfterCleanupDelete
           /\ UNCHANGED <<vault, durable, minted, history, faults, crashes>>
  <2>1. SameRows /\ unrecorded' = unrecorded /\ vault' = vault /\ faults' = faults /\ crashes' = crashes
    BY <1>6 DEF SameRows, durable, history
  <2>2. DoubtsStay
    BY <1>1, <1>2, <1>6, <2>1 DEF DoubtsStay, SlotInDoubt, PredecessorInDoubt, SameRows
  <2>3. Kept
    BY <1>i, <2>1, <2>2, MoveKeeps DEF SameRows
  <2>4. Typed'
    BY <1>i, <1>2, <1>6, <2>1, AfterCleanupDeleteFields, MoveTyped DEF Typed, SameRows
  <2>5. CommandOK'
    BY <1>i, <1>2, <1>6, <2>1, CleanupGoesOn DEF SamePlan, SameRows
  <2> QED
    BY <2>3, <2>4, <2>5, StepKeeps
<1>7. ASSUME NEW answer \in {"ok", "error", "recovery"},
             Native(op.slot, FALSE, answer),
             proc' = CASE answer = "recovery" -> [proc EXCEPT !.pc = "cleanup_barrier"]
                         [] answer = "error" /\ proc.repairSlot -> Idle
                         [] OTHER -> [proc EXCEPT !.pc = "cleanup_check"],
             UNCHANGED <<durable, minted, history>>
      PROVE  IndInv' /\ Legal
  <2>1. SameRows /\ unrecorded' = unrecorded
    BY <1>7 DEF SameRows, durable, history
  <2>2. /\ Touches(op.slot, FALSE)
        /\ answer = "ok" => vault'[op.slot] = Settled(FALSE)
        /\ answer = "error" => vault'[op.slot] = vault[op.slot] \/ vault'[op.slot] = Settled(FALSE)
        /\ faults' \in 0 .. MaxFaults /\ crashes' = crashes
    BY <1>i, <1>2, <1>7, NativeFacts
  <2>s. StoreOK'
    BY <1>i, <1>2, <1>5, <2>1, <2>2, StoreTouched
  <2>3. CASE answer = "error" /\ proc.repairSlot
    <3>1. proc' = Idle
      BY <1>7, <2>3
    <3>2. SlotInDoubt' /\ DoubtsStay
      BY <1>1, <1>2, <2>1, <2>3, <3>1, ProcFields DEF PredecessorInDoubt, SlotInDoubt, DoubtsStay, SameRows
    <3>3. DoubtIsRecorded'
      BY <1>i, <1>2, <2>1, <2>2, <3>2, DoubtTouched DEF SameRows
    <3>4. Typed'
      BY <1>i, <1>2, <2>1, <2>2, <3>1, ProcFields, TouchTyped DEF Typed, Touches
    <3> QED
      BY <1>i, <2>1, <2>s, <3>1, <3>3, <3>4, ProcFields, NoCommand, TouchKeeps, StepKeeps
  <2>4. CASE ~(answer = "error" /\ proc.repairSlot)
    <3> DEFINE p == IF answer = "recovery" THEN "cleanup_barrier" ELSE "cleanup_check"
    <3>1. Goto(p)
      BY <1>7, <2>4 DEF Goto
    <3>2. proc' \in Procs /\ proc'.pc = p /\ proc'.repairSlot = proc.repairSlot
      BY <1>2, <3>1, GotoFields DEF PCs
    <3>3. answer = "recovery" => SlotInDoubt'
      BY <1>2, <2>1, <3>2 DEF SlotInDoubt, SameRows
    <3>4. DoubtsStay
      BY <1>1, <1>2, <2>1 DEF PredecessorInDoubt, SlotInDoubt, DoubtsStay, SameRows
    <3>5. answer # "recovery" => vault'[op.slot].seen = vault'[op.slot].durable \/ op.slot \in unrecorded
      BY <1>i, <1>2, <1>4, <1>7, <2>2, <2>4, AnswerSettles
    <3>6. DoubtIsRecorded'
      BY <1>i, <1>2, <2>1, <2>2, <3>3, <3>4, <3>5, DoubtTouched DEF SameRows
    <3>7. Typed'
      BY <1>i, <1>2, <2>1, <2>2, <3>2, TouchTyped DEF Typed, Touches
    <3>8. CommandOK'
      <4>0. /\ proc'.pc \in {"cleanup_barrier", "cleanup_check"}
            /\ proc'.pc = "cleanup_check" /\ proc.repairSlot => vault'[op.slot] = Settled(FALSE)
        <5>1. answer \in {"ok", "error", "recovery"}
          BY <1>7
        <5> QED
          BY <2>2, <2>4, <3>2, <5>1
      <4>1. Cleaning'
        BY <1>1, <1>2, <2>1, <3>2, <4>0 DEF Cleaning, At, SameRows
      <4> QED
        BY <3>2, <4>1 DEF CommandOK, Installing, Deleting, Replacing, RecoveringOK, At
    <3> QED
      BY <1>i, <2>1, <2>s, <3>6, <3>7, <3>8, TouchKeeps, StepKeeps
  <2> QED
    BY <2>3, <2>4
<1>8. ASSUME Unanswered(op.slot, FALSE),
             unrecorded' = unrecorded \cup IF proc.repairSlot THEN {} ELSE {op.slot}
      PROVE  IndInv' /\ Legal
  <2>1. Touches(op.slot, FALSE) /\ crashes' \in 0 .. MaxCrashes /\ faults' = faults /\ proc' = Down /\ SameRows
    BY <1>i, <1>2, <1>8, UnansweredFacts DEF SameRows
  <2>2. unrecorded \subseteq unrecorded' /\ unrecorded' \subseteq unrecorded \cup {op.slot} /\ unrecorded' \subseteq Slots
    BY <1>2, <1>8
  <2>3. StoreOK'
    BY <1>i, <1>2, <1>5, <2>1, <2>2, StoreTouched
  <2>4. SlotInDoubt' \/ op.slot \in unrecorded'
    BY <1>2, <1>8, <2>1 DEF SlotInDoubt, SameRows
  <2>5. DoubtsStay
    BY <1>1, <1>2, <2>1, <2>4 DEF PredecessorInDoubt, SlotInDoubt, DoubtsStay, SameRows
  <2>6. DoubtIsRecorded'
    BY <1>i, <1>2, <2>1, <2>2, <2>4, <2>5, DoubtTouched DEF SameRows
  <2>7. Typed'
    BY <1>i, <2>1, <2>2, ProcFields, TouchTyped DEF Typed, Touches
  <2> QED
    BY <1>i, <2>1, <2>3, <2>6, <2>7, ProcFields, NoCommand, TouchKeeps, StepKeeps
<1> QED
  BY <1>6, <1>7, <1>8 DEF CleanupDelete

-----------------------------------------------------------------------------
(* A new operation, and the end of the process.                            *)

\* A row as it is prepared.
LEMMA PreparedRow ==
    ASSUME NEW k \in Kinds, NEW s \in Slots, NEW p \in Slots, NEW o \in Observations
    PROVE  LET n == Prepared(k, s, p, o)
           IN  /\ n \in Rows /\ n.kind = k /\ n.slot = s /\ n.pred = p /\ n.preflight = o
               /\ Says(n, "prepared", "none", "missing") /\ ~n.started /\ n.intents = {}
               /\ ~n.predIntent /\ ~n.predMissing /\ ~n.slotBarrier /\ ~n.predBarrier
BY DEF Prepared, NoOperation, Rows, Says, Kinds, Statuses, Codes, Observations

\* An installation of a fresh authority.
LEMMA PrepareInstallKeeps ==
    ASSUME IndInv, PrepareInstall
    PROVE  IndInv' /\ Legal
<1>i. Typed /\ RowOK(op) /\ StoreOK /\ DoubtIsRecorded /\ CommandOK
  BY PartsOfInv
<1>1. /\ proc.pc = "idle" /\ ~archived /\ ownership.state # "legacy_pending" /\ ~Unresolved(op)
      /\ minted < MaxAuthorities /\ minted' = minted + 1
      /\ op' = Prepared("install", minted', ownership.slot, "missing")
      /\ asked' = FALSE /\ unrecorded' = unrecorded /\ Goto("start_install")
      /\ vault' = vault /\ ownership' = ownership /\ garbage' = garbage /\ archived' = archived
      /\ faults' = faults /\ crashes' = crashes
  BY DEF PrepareInstall
<1>2. minted \in Nat /\ minted' \in Slots /\ minted' # RawSlot /\ minted' \in 0 .. MaxAuthorities /\ minted' > minted
        /\ minted' <= minted'
  BY <1>i, <1>1, CredentialAssumption DEF Typed, Slots, Authorities, RawSlot
<1>3. ownership.slot \in Slots /\ ownership.slot <= minted /\ ownership.slot # minted'
        /\ (ownership.slot # RawSlot => ownership.state = "owned")
  <2>1. ownership.slot \in Slots /\ ownership.slot <= minted
    BY <1>i DEF Typed, Owners, StoreOK, OwnerOK
  <2>2. ownership.slot \in Nat
    BY <2>1, SlotsAreNumbers
  <2> QED
    BY <1>i, <1>1, <1>2, <2>1, <2>2 DEF StoreOK, OwnerOK
<1>4. /\ op' \in Rows /\ op'.kind = "install" /\ op'.slot = minted' /\ op'.pred = ownership.slot
      /\ op'.preflight = "missing" /\ Says(op', "prepared", "none", "missing") /\ ~op'.started /\ op'.intents = {}
      /\ ~op'.predIntent /\ ~op'.predMissing /\ ~op'.slotBarrier /\ ~op'.predBarrier
  <2>0. PICK m \in Slots : m = minted'
    BY <1>2
  <2> DEFINE n == Prepared("install", m, ownership.slot, "missing")
  <2>1. "install" \in Kinds /\ "missing" \in Observations
    BY DEF Kinds, Observations
  <2>2. /\ n \in Rows /\ n.kind = "install" /\ n.slot = m /\ n.pred = ownership.slot
        /\ n.preflight = "missing" /\ Says(n, "prepared", "none", "missing") /\ ~n.started /\ n.intents = {}
        /\ ~n.predIntent /\ ~n.predMissing /\ ~n.slotBarrier /\ ~n.predBarrier
    BY <1>3, <2>1, PreparedRow
  <2>3. op' = n
    BY <1>1, <2>0
  <2> HIDE DEF n
  <2> QED
    BY <2>0, <2>2, <2>3
<1>5. proc' \in Procs /\ proc'.pc = "start_install"
  BY <1>i, <1>1, GotoFields DEF Typed, PCs
<1>6. RowOK(op')
  BY <1>4 DEF RowOK, Decodes, OutcomeMatchesAttestation, Unresolved, Terminal, Barrier, Says
<1>7. Unresolved(op') /\ Unresolved(op)'
  BY <1>4 DEF Unresolved, Says
<1>8. PlanOK' /\ OwnerOK'
  <2>1. minted' \notin unrecorded
    BY <1>i, <1>2 DEF StoreOK, FreshSlots
  <2>2. ownership.slot <= minted'
    <3>1. ownership.slot \in Nat
      BY <1>3, SlotsAreNumbers
    <3> QED
      BY <1>1, <1>2, <1>3, <3>1
  <2> QED
    BY <1>i, <1>1, <1>2, <1>3, <1>4, <2>1, <2>2 DEF PlanOK, OwnerOK, StoreOK
<1>9. FreshSlots'
  <2>1. SUFFICES ASSUME NEW s \in Slots, s > minted' PROVE vault[s] = Settled(FALSE) /\ s \notin unrecorded
    BY <1>1 DEF FreshSlots
  <2>2. s > minted
    BY <1>1, <1>2, <2>1, SlotsAreNumbers
  <2> QED
    BY <1>i, <2>2 DEF StoreOK, FreshSlots
<1>10. Untouched'
  <2>1. op'.pred # RawSlot => vault[op'.pred] = Settled(TRUE)
    BY <1>i, <1>1, <1>3, <1>4 DEF StoreOK, Untouched
  <2> QED
    BY <1>1, <1>4, <1>7, <2>1 DEF Untouched, HasPredecessor
<1>11. DoubtIsRecorded'
  BY <1>i, <1>1 DEF DoubtIsRecorded
<1>12. KnownSlots'
  BY <1>i, <1>1 DEF StoreOK, KnownSlots
<1>13. PredecessorOK'
  BY <1>4 DEF PredecessorOK
<1>14. Kept
  BY <1>1, <1>4, <1>6, <1>8, <1>9, <1>10, <1>11, <1>12, <1>13 DEF Kept, StoreOK, Legal
<1>15. Typed'
  BY <1>i, <1>1, <1>2, <1>4, <1>5 DEF Typed
<1>16. CommandOK'
  BY <1>4, <1>5 DEF CommandOK, Installing, Replacing, Deleting, Cleaning, RecoveringOK, At, Says
<1> QED
  BY <1>14, <1>15, <1>16, StepKeeps

\* A removal of what the connection owns, or of what its raw slot may hold.
LEMMA PrepareRemovalKeeps ==
    ASSUME IndInv, PrepareRemoval
    PROVE  IndInv' /\ Legal
<1>i. Typed /\ RowOK(op) /\ StoreOK /\ DoubtIsRecorded /\ CommandOK
  BY PartsOfInv
<1>1. PICK archive \in BOOLEAN, o \in Observations :
        /\ Observe(ownership.slot, o)
        /\ op' = PreparedRemoval(RemovalKind(archive), ownership.slot, o)
        /\ proc' = [Idle EXCEPT
                !.archive = archive,
                !.pc = CASE o = "unreadable" -> "cleanup"
                         [] o = "missing" -> "missing_removal"
                         [] OTHER -> "start_removal"]
  BY DEF PrepareRemoval
<1>2. /\ proc.pc = "idle" /\ ~archived /\ ~Unresolved(op)
      /\ asked' = TRUE /\ unrecorded' = unrecorded
      /\ vault' = vault /\ ownership' = ownership /\ garbage' = garbage /\ archived' = archived
      /\ minted' = minted /\ crashes' = crashes
  BY DEF PrepareRemoval
<1>3. ownership.slot \in Slots /\ RemovalKind(archive) \in Kinds /\ RemovalKind(archive) # "install"
  BY <1>i DEF Typed, Owners, RemovalKind, Kinds
<1>4. faults' \in 0 .. MaxFaults /\ (o = "missing" => ~vault[ownership.slot].seen)
  BY <1>i, <1>1, <1>3, ObserveFacts
<1>5. /\ proc' \in Procs /\ proc'.archive = archive
      /\ proc'.pc = IF o = "unreadable" THEN "cleanup" ELSE IF o = "missing" THEN "missing_removal" ELSE "start_removal"
  <2> DEFINE p == CASE o = "unreadable" -> "cleanup"
                    [] o = "missing" -> "missing_removal"
                    [] OTHER -> "start_removal"
  <2>1. p = IF o = "unreadable" THEN "cleanup" ELSE IF o = "missing" THEN "missing_removal" ELSE "start_removal"
    BY DEF Observations
  <2>2. proc' = [Idle EXCEPT !.archive = archive, !.pc = p]
    BY <1>1
  <2>3. p \in PCs
    BY <2>1 DEF PCs
  <2> HIDE DEF p
  <2>4. proc' \in Procs /\ proc'.archive = archive /\ proc'.pc = p
    BY <2>2, <2>3, ProcFields DEF Procs
  <2> QED
    BY <2>1, <2>4
<1>6. /\ op' \in Rows /\ op'.kind = RemovalKind(archive) /\ op'.slot = ownership.slot /\ op'.pred = ownership.slot
      /\ op'.preflight = o /\ ~op'.started /\ op'.intents = {}
      /\ ~op'.predIntent /\ ~op'.predMissing /\ ~op'.slotBarrier /\ ~op'.predBarrier
      /\ IF o = "unreadable" THEN Says(op', "outcome_unknown", "unreadable", "unreadable")
                             ELSE Says(op', "prepared", "none", "missing")
  <2> DEFINE q == Prepared(RemovalKind(archive), ownership.slot, ownership.slot, o)
  <2>1. /\ q \in Rows /\ q.kind = RemovalKind(archive) /\ q.slot = ownership.slot /\ q.pred = ownership.slot
        /\ q.preflight = o /\ Says(q, "prepared", "none", "missing") /\ ~q.started /\ q.intents = {}
        /\ ~q.predIntent /\ ~q.predMissing /\ ~q.slotBarrier /\ ~q.predBarrier
    BY <1>3, PreparedRow
  <2>2. op' = IF o = "unreadable" THEN Recorded(q, "outcome_unknown", "unreadable", "unreadable") ELSE q
    BY <1>1 DEF PreparedRemoval
  <2> HIDE DEF q
  <2>3. CASE o = "unreadable"
    <3> DEFINE n == Recorded(q, "outcome_unknown", "unreadable", "unreadable")
    <3>1. /\ n \in Rows /\ SamePlan(q, n) /\ SameEvidence(q, n) /\ n.started = q.started
          /\ Says(n, "outcome_unknown", "unreadable", "unreadable") /\ op' = n
      BY <2>1, <2>2, <2>3, RecordedRow DEF Statuses, Codes, Observations
    <3> HIDE DEF n
    <3> QED
      BY <2>1, <2>3, <3>1 DEF SamePlan, SameEvidence
  <2>4. CASE o # "unreadable"
    BY <2>1, <2>2, <2>4
  <2> QED
    BY <2>3, <2>4
<1>7. op'.status \in {"prepared", "outcome_unknown"} /\ Unresolved(op') /\ Unresolved(op)' /\ op'.kind # "install"
  BY <1>3, <1>6 DEF Unresolved, Says
<1>8. RowOK(op')
  BY <1>6, <1>7 DEF RowOK, Decodes, OutcomeMatchesAttestation, Unresolved, Terminal, Barrier, Says
<1>9. PlanOK' /\ OwnerOK'
  BY <1>i, <1>2, <1>6, <1>7 DEF PlanOK, OwnerOK, StoreOK
<1>10. FreshSlots' /\ KnownSlots'
  BY <1>i, <1>2 DEF StoreOK, FreshSlots, KnownSlots
<1>11. Untouched'
  <2>1. ownership.state = "owned" => vault[ownership.slot] = Settled(TRUE)
    BY <1>i, <1>2 DEF StoreOK, Untouched
  <2> QED
    BY <1>2, <1>6, <1>7, <2>1 DEF Untouched, HasPredecessor
<1>12. PredecessorOK' /\ DoubtIsRecorded'
  BY <1>i, <1>2, <1>7 DEF PredecessorOK, DoubtIsRecorded, HasPredecessor
<1>13. Kept
  BY <1>2, <1>6, <1>8, <1>9, <1>10, <1>11, <1>12 DEF Kept, StoreOK, Legal
<1>14. Typed'
  BY <1>i, <1>2, <1>4, <1>5, <1>6 DEF Typed
<1>15. CommandOK'
  BY <1>2, <1>4, <1>5, <1>6 DEF CommandOK, Installing, Replacing, Deleting, Cleaning, RecoveringOK, At, Says, Observations
<1> QED
  BY <1>13, <1>14, <1>15, StepKeeps

\* The process ends, perhaps with the power.
LEMMA CrashKeeps ==
    ASSUME IndInv, Crash
    PROVE  IndInv' /\ Legal
<1>i. Typed /\ RowOK(op) /\ StoreOK /\ DoubtIsRecorded /\ CommandOK
  BY PartsOfInv
<1>1. /\ crashes < MaxCrashes /\ crashes' = crashes + 1 /\ proc' = Down /\ proc.pc # "down"
      /\ vault' = vault \/ vault' = [s \in Slots |-> Settled(vault[s].durable)]
      /\ unrecorded' = unrecorded \cup CleanupAnswerPending
      /\ SameRows /\ faults' = faults
  BY DEF Crash, SameRows, durable
<1>r. op \in Rows /\ op.slot \in Slots /\ op.pred \in Slots /\ minted \in Nat /\ ownership.slot \in Slots
        /\ unrecorded \subseteq Slots
  BY <1>i, RowFields, CredentialAssumption DEF Typed, Owners
<1>v. \A s \in Slots : /\ vault[s].seen \in BOOLEAN /\ vault[s].durable \in BOOLEAN
                       /\ vault[s] = Settled(TRUE) <=> (vault[s].seen = TRUE /\ vault[s].durable = TRUE)
                       /\ vault[s] = Settled(FALSE) <=> (vault[s].seen = FALSE /\ vault[s].durable = FALSE)
  BY <1>i, SlotIsTyped DEF Typed
<1>2. \A s \in Slots : vault'[s] = vault[s] \/ vault'[s] = Settled(vault[s].durable)
  BY <1>1
<1>s. \A b \in BOOLEAN : Settled(b) \in SlotState /\ Settled(b).seen = b /\ Settled(b).durable = b
  BY DEF Settled, SlotState
<1>3. \A s \in Slots : /\ vault'[s].durable = vault[s].durable
                       /\ vault'[s].seen \in {vault[s].seen, vault[s].durable}
                       /\ vault[s] = Settled(TRUE) => vault'[s] = Settled(TRUE)
                       /\ vault[s] = Settled(FALSE) => vault'[s] = Settled(FALSE)
  BY <1>2, <1>s, <1>v
<1>4. vault' \in [Slots -> SlotState]
  BY <1>i, <1>1, <1>s, <1>v DEF Typed
<1>5. \A s \in CleanupAnswerPending :
        \/ s = op.slot /\ op.intents # {} /\ Unresolved(op)
        \/ s = op.pred /\ HasPredecessor(op) /\ Unresolved(op)
  <2>1. proc.pc = "cleanup_barrier" => op.intents # {} /\ Unresolved(op)
    BY <1>i DEF CommandOK, Cleaning, At, Unresolved
  <2>2. proc.pc = "predecessor_barrier" => HasPredecessor(op) /\ Unresolved(op)
    BY <1>i DEF CommandOK, Replacing, At, Unresolved
  <2> QED
    BY <2>1, <2>2 DEF CleanupAnswerPending
<1>6. \A s \in CleanupAnswerPending : s \in Slots /\ s <= minted /\ (op.kind = "install" /\ op.intents = {} => s # op.slot)
  <2>1. Unresolved(op) => op.slot <= minted /\ (HasPredecessor(op) => op.pred <= minted /\ op.slot # op.pred)
    BY <1>i DEF StoreOK, PlanOK, OwnerOK, HasPredecessor
  <2> QED
    BY <1>5, <1>r, <2>1
<1>7. unrecorded \subseteq unrecorded' /\ unrecorded' \subseteq Slots
  BY <1>1, <1>6, <1>r
<1>8. PlanOK' /\ OwnerOK'
  BY <1>i, <1>1, <1>6 DEF PlanOK, OwnerOK, StoreOK, SameRows
<1>9. FreshSlots'
  <2>1. SUFFICES ASSUME NEW s \in Slots, s > minted PROVE vault'[s] = Settled(FALSE) /\ s \notin unrecorded'
    BY <1>1 DEF FreshSlots, SameRows
  <2>2. ~(s <= minted)
    BY <1>r, <2>1, SlotsAreNumbers
  <2> QED
    BY <1>i, <1>1, <1>3, <1>6, <2>1, <2>2 DEF StoreOK, FreshSlots
<1>10. Untouched'
  BY <1>i, <1>1, <1>3, <1>r DEF StoreOK, Untouched, SameRows
<1>11. KnownSlots'
  <2>1. SUFFICES ASSUME NEW s \in Slots \ unrecorded', vault'[s].seen \/ vault'[s].durable
                 PROVE  \/ ownership.state \in {"owned", "legacy_pending"} /\ ownership.slot = s
                        \/ Unresolved(op) /\ op.kind = "install" /\ op.slot = s
    BY <1>1 DEF KnownSlots, SameRows
  <2>2. vault[s].seen \/ vault[s].durable
    BY <1>3, <2>1
  <2> QED
    BY <1>i, <1>7, <2>1, <2>2 DEF StoreOK, KnownSlots
<1>12. PredecessorOK'
  BY <1>i, <1>1, <1>3, <1>7, <1>r DEF StoreOK, PredecessorOK, SameRows
<1>13. DoubtIsRecorded'
  <2>1. CASE vault' = vault
    <3>1. Unresolved(op) /\ SlotInDoubt => SlotInDoubt' \/ op.slot \in unrecorded'
      BY <1>1, ProcFields DEF SlotInDoubt, SameRows, CleanupAnswerPending
    <3>2. Unresolved(op) /\ PredecessorInDoubt => PredecessorInDoubt' \/ op.pred \in unrecorded'
      BY <1>1, ProcFields DEF PredecessorInDoubt, SameRows, CleanupAnswerPending
    <3>3. DoubtsStay
      BY <1>1, <3>1, <3>2 DEF DoubtsStay, SameRows
    <3> QED
      BY <1>i, <1>7, <2>1, <3>3, DoubtRemains
  <2>2. CASE vault' = [s \in Slots |-> Settled(vault[s].durable)]
    <3>1. \A s \in Slots : vault'[s].seen = vault'[s].durable
      BY <1>s, <1>v, <2>2
    <3> QED
      BY <3>1 DEF DoubtIsRecorded
  <2> QED
    BY <1>1, <2>1, <2>2
<1>14. Kept
  BY <1>i, <1>1, <1>8, <1>9, <1>10, <1>11, <1>12, <1>13, TouchKeeps DEF StoreOK
<1>15. Typed'
  <2>1. crashes' \in 0 .. MaxCrashes /\ faults' \in 0 .. MaxFaults
    BY <1>i, <1>1, CredentialAssumption DEF Typed
  <2> QED
    BY <1>i, <1>1, <1>4, <1>7, <2>1, ProcFields, TouchTyped
<1> QED
  BY <1>1, <1>14, <1>15, ProcFields, NoCommand, StepKeeps

-----------------------------------------------------------------------------
(* The theorems.                                                           *)

\* The invariant holds of a connection as it is found.
LEMMA InitKeeps ==
    ASSUME Init
    PROVE  IndInv
<1>1. PICK legacy \in BOOLEAN :
        /\ vault = [s \in Slots |-> Settled(s = RawSlot /\ legacy)]
        /\ ownership = [state |-> IF legacy THEN "legacy_pending" ELSE "unowned", slot |-> RawSlot]
  BY DEF Init
<1>2. /\ op = NoOperation /\ garbage = [a \in Authorities |-> "none"] /\ archived = FALSE /\ proc = Idle
      /\ minted = 0 /\ asked = FALSE /\ unrecorded = {} /\ faults = 0 /\ crashes = 0
  BY DEF Init
<1>s. \A b \in BOOLEAN : Settled(b) \in SlotState /\ Settled(b).seen = b /\ Settled(b).durable = b
  BY DEF Settled, SlotState
<1>3. \A s \in Slots : vault[s] = Settled(s = RawSlot /\ legacy) /\ (s = RawSlot /\ legacy) \in BOOLEAN
  BY <1>1
<1>4. \A s \in Slots : vault[s].seen = vault[s].durable
  BY <1>s, <1>3
<1>5. ~Unresolved(op)
  BY <1>2 DEF Unresolved, NoOperation
<1>6. Typed
  <2>1. op \in Rows
    BY <1>2, RawIsASlot DEF Rows, NoOperation, Kinds, Statuses, Codes, Observations
  <2>2. ownership \in Owners
    BY <1>1, RawIsASlot DEF Owners
  <2>3. vault \in [Slots -> SlotState]
    BY <1>1, <1>s
  <2>4. garbage \in [Authorities -> {"none", "pending", "completed"}] /\ archived \in BOOLEAN /\ asked \in BOOLEAN
    BY <1>2
  <2>5. proc \in Procs
    BY <1>2, ProcFields
  <2>6. minted \in 0 .. MaxAuthorities /\ faults \in 0 .. MaxFaults /\ crashes \in 0 .. MaxCrashes
    BY <1>2, CredentialAssumption
  <2>7. unrecorded \subseteq Slots
    BY <1>2
  <2> QED
    BY <2>1, <2>2, <2>3, <2>4, <2>5, <2>6, <2>7 DEF Typed
<1>7. RowOK(op)
  BY <1>2 DEF RowOK, Decodes, OutcomeMatchesAttestation, NoOperation, Unresolved, Terminal, Barrier
<1>8. PlanOK /\ OwnerOK
  BY <1>1, <1>2, <1>5 DEF PlanOK, OwnerOK, RawSlot
<1>9. FreshSlots
  <2>1. SUFFICES ASSUME NEW s \in Slots, s > 0 PROVE vault[s] = Settled(FALSE)
    BY <1>2 DEF FreshSlots
  <2>2. s # RawSlot
    BY <2>1 DEF RawSlot
  <2>3. (s = RawSlot /\ legacy) = FALSE
    BY <2>2
  <2> QED
    BY <1>3, <2>3
<1>10. Untouched
  BY <1>1, <1>5 DEF Untouched
<1>11. DoubtIsRecorded
  BY <1>4 DEF DoubtIsRecorded
<1>12. KnownSlots
  <2>1. SUFFICES ASSUME NEW s \in Slots, vault[s].seen \/ vault[s].durable
                 PROVE  ownership.state \in {"owned", "legacy_pending"} /\ ownership.slot = s
    BY DEF KnownSlots
  <2>2. s = RawSlot /\ legacy
    BY <1>s, <1>3, <2>1
  <2> QED
    BY <1>1, <2>2
<1>13. PredecessorOK
  BY <1>5 DEF PredecessorOK
<1>14. CommandOK
  BY <1>2, ProcFields DEF CommandOK, Installing, Replacing, Deleting, Cleaning, RecoveringOK, At
<1> QED
  BY <1>6, <1>7, <1>8, <1>9, <1>10, <1>11, <1>12, <1>13, <1>14 DEF IndInv, VaultOK

\* Every step keeps the invariant, and attempts no update that a trigger aborts.
LEMMA NextKeeps ==
    ASSUME IndInv, [Next]_vars
    PROVE  IndInv' /\ Legal
<1>1. CASE UNCHANGED vars
  BY <1>1, StutterKeeps
<1>2. CASE PrepareInstall
  BY <1>2, PrepareInstallKeeps
<1>3. CASE PrepareRemoval
  BY <1>3, PrepareRemovalKeeps
<1>4. CASE BeginCleanup
  BY <1>4, BeginCleanupKeeps
<1>5. CASE Reopen
  BY <1>5, ReopenKeeps
<1>6. CASE Command
  <2>1. CASE StartInstall \/ SettleInstall \/ StoreCredential \/ RecordSlotBarrier \/ ObserveInstall \/ FinishInstall
    BY <2>1, StartInstallKeeps, SettleInstallKeeps, StoreCredentialKeeps, RecordSlotBarrierKeeps,
       ObserveInstallKeeps, FinishInstallKeeps
  <2>2. CASE PredecessorIntent \/ DeletePredecessor \/ RecordPredecessorBarrier \/ CheckPredecessor \/ RepairPredecessorSlot
    BY <2>2, PredecessorIntentKeeps, DeletePredecessorKeeps, RecordPredecessorBarrierKeeps,
       CheckPredecessorKeeps, RepairPredecessorSlotKeeps
  <2>3. CASE FinishMissingRemoval \/ StartRemoval \/ DeleteCredential \/ FinishRemoval
    BY <2>3, FinishMissingRemovalKeeps, StartRemovalKeeps, DeleteCredentialKeeps, FinishRemovalKeeps
  <2>4. CASE PersistCleanupIntent \/ CleanupDelete \/ CheckCleanup \/ FinishCleanup
    BY <2>4, PersistCleanupIntentKeeps, CleanupDeleteKeeps, CheckCleanupKeeps, FinishCleanupKeeps
  <2>5. CASE CollectGarbage \/ FenceAtStartup \/ Reconcile
    BY <2>5, CollectGarbageKeeps, FenceAtStartupKeeps, ReconcileKeeps
  <2> QED
    BY <1>6, <2>1, <2>2, <2>3, <2>4, <2>5 DEF Command
<1>7. CASE Crash
  BY <1>7, CrashKeeps
<1>8. CASE Rest
  BY <1>8, StutterKeeps DEF Rest
<1> QED
  BY <1>1, <1>2, <1>3, <1>4, <1>5, <1>6, <1>7, <1>8 DEF Next

\* For every number of installations, failures and deaths, the journal, the
\* ownership, the vault and the command under way agree between any two steps.
THEOREM CredentialsAreConsistent == Spec => []IndInv
<1>1. Init => IndInv
  BY InitKeeps
<1>2. IndInv /\ [Next]_vars => IndInv'
  BY NextKeeps
<1> QED
  BY <1>1, <1>2, PTL DEF Spec

\* A settled journal leaves no slot in doubt: every native effect of the
\* operation is durable when its row becomes terminal
\* (finish_provider_credential_operation_at_stage refuses a row that holds an
\* obligation), but for a cleanup whose answer died with the process.
THEOREM SettledJournalIsDurableTheorem == Spec => []SettledJournalIsDurable
<1>1. IndInv => SettledJournalIsDurable
  BY DEF IndInv, VaultOK, DoubtIsRecorded, SettledJournalIsDurable
<1> QED
  BY <1>1, CredentialsAreConsistent, PTL

\* No credential is lost from sight: a slot that holds one is owned or named by
\* the unresolved row, whatever died or failed on the way.
THEOREM NoOrphanCredentialTheorem == Spec => []NoOrphanCredential
<1>1. IndInv => NoOrphanCredential
  BY DEF IndInv, VaultOK, KnownSlots, NoOrphanCredential
<1> QED
  BY <1>1, CredentialsAreConsistent, PTL

\* A replacement keeps a durable copy until the user asks for its removal
\* (remove_replacement_predecessor runs only once the new slot reads back).
THEOREM ReplacementKeepsACopyTheorem == Spec => []ReplacementKeepsACopy
<1>1. IndInv => ReplacementKeepsACopy
  <2>1. SUFFICES ASSUME IndInv, HasPredecessor(op), Unresolved(op), ~asked
                 PROVE  vault[op.slot].durable \/ vault[op.pred].durable
    BY DEF ReplacementKeepsACopy
  <2>2. CASE op.predIntent
    BY <2>1, <2>2 DEF IndInv, VaultOK, PredecessorOK
  <2>3. CASE ~op.predIntent
    <3>1. vault[op.pred] = Settled(TRUE)
      BY <2>1, <2>3 DEF IndInv, VaultOK, Untouched
    <3> QED
      BY <3>1 DEF Settled
  <2> QED
    BY <2>2, <2>3
<1> QED
  BY <1>1, CredentialsAreConsistent, PTL

\* Every row can be read back, a granted access finds a credential that a power
\* loss will not take away, and an archived connection holds none.
THEOREM CredentialInvTheorem == Spec => []CredentialInv
<1>1. IndInv => CredentialInv
  <2> SUFFICES ASSUME IndInv PROVE CredentialInv
    OBVIOUS
  <2>1. Typed /\ RowOK(op) /\ OwnerOK /\ Untouched /\ DoubtIsRecorded /\ KnownSlots
    BY DEF IndInv, VaultOK
  <2>2. TypeOK
    <3>1. op \in Rows /\ proc \in Procs
      BY <2>1 DEF Typed
    <3>2. proc.pc \in PCs /\ proc.then \in PCs
      BY <3>1 DEF Procs
    <3> QED
      BY <2>1, <3>1, <3>2, RowFields DEF Typed, TypeOK, Owners
  <2>3. JournalDecodes
    BY <2>1 DEF RowOK, JournalDecodes
  <2>4. GrantedAccessReadsACredential
    BY <2>1 DEF Untouched, GrantedAccessReadsACredential
  <2>5. ArchivedHoldsNothing
    BY <2>1 DEF OwnerOK, KnownSlots, ArchivedHoldsNothing
  <2> QED
    BY <2>2, <2>3, <2>4, <2>5 DEF CredentialInv
<1> QED
  BY <1>1, CredentialsAreConsistent, PTL

\* The repository never attempts an update of the journal that a trigger of
\* migration 0037 aborts.
THEOREM TriggersAgreeTheorem == Spec => TriggersAgree
<1>1. IndInv /\ [Next]_vars =>
        [(/\ <<op'.status, op'.code>> # <<op.status, op.code>>
          /\ Unresolved(op))
         => LegalTransition(op, op')]_op
  BY NextKeeps DEF Legal
<1> QED
  BY <1>1, CredentialsAreConsistent, PTL DEF Spec, TriggersAgree
=============================================================================

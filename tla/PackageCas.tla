----------------------------- MODULE PackageCas -----------------------------
(***************************************************************************)
(* The content-addressed store of package imports: the promotion journal   *)
(* (package_cas_promotion_journal), the files, the metadata rows of        *)
(* content_sources and assets, and the product references to them.         *)
(*                                                                         *)
(* A thread inspects a package (promote_package_source, then               *)
(* create_inspected_package_import) or commits an approved one             *)
(* (promote_package_assets, then commit_package_import); another imports a *)
(* character card, which shares the same files.  The cas_mutation mutex is *)
(* held during a promotion and during a cleanup, and is free between the   *)
(* promotion and the transaction that claims it.  The process may die      *)
(* between any two steps; Storage::open then recovers.                     *)
(*                                                                         *)
(* An object is a digest: its bytes are one value, so a file is there or   *)
(* not.  Partial files, staging files and fsync are left out: publishing   *)
(* and removing a file are each one step.                                  *)
(***************************************************************************)
EXTENDS Naturals, FiniteSets

CONSTANTS
    Threads,      \* callers of Core
    Imports,      \* package import ids
    Sources,      \* digests in the namespace "source"
    Assets,       \* digests in the namespace "asset"
    Media,        \* media types of assets
    SourceOf,     \* import |-> the digest of its package
    AssetsOf,     \* import |-> the digests of its selected assets
    MediaOf,      \* import |-> asset |-> the media type the package declares
    CardObjects,  \* digests of the imported character card
    CardMedia,    \* the media type of its assets
    Pinned,       \* digests pinned by a rollback generation (cutover.rs)
    MaxJobs,      \* bound: interrupted character imports in import_jobs
    MaxFaults,    \* bound: failures of a file operation or of a transaction
    MaxCrashes    \* bound: process deaths

Objects == Sources \cup Assets
None == "none"
SourceRow == "source"

ASSUME PackageCasAssumption ==
    /\ None \notin Threads
    /\ Sources \cap Assets = {}
    /\ {None, SourceRow} \cap Media = {}
    /\ SourceOf \in [Imports -> Sources]
    /\ AssetsOf \in [Imports -> SUBSET Assets]
    /\ MediaOf \in [Imports -> [Assets -> Media]]
    /\ CardObjects \subseteq Objects
    /\ CardMedia \in Media
    /\ Pinned \subseteq Objects
    /\ MaxJobs \in Nat /\ MaxFaults \in Nat /\ MaxCrashes \in Nat

VARIABLES
    file,     \* object |-> is its file in the CAS?
    row,      \* object |-> its row's media type, or None (content_sources, assets)
    journal,  \* <<import, object>> |-> phase of its promotion, or None
    refs,     \* objects some product row refers to
    state,    \* import |-> package_imports.state; "new", "inspecting": no row yet
    jobs,     \* rows of import_jobs
    lock,     \* owner of cas_mutation, or None
    proc,     \* thread |-> its program counter and local variables
    mode,     \* "running", "recovering", "failed" (transient), "refused"
    rec,      \* local variables of recover_interrupted_work
    faults, crashes

disk == <<file, row, journal, refs, state, jobs>>
vars == <<file, row, journal, refs, state, jobs, lock, proc, mode, rec, faults, crashes>>

Entries == Imports \X Objects
Phases == {"intent", "file_durable", "row_registered", "cleanup_pending"}
Open == {"intent", "file_durable", "row_registered"}
States == {"new", "inspecting", "inspected", "approved", "completed", "discarded"}

\* Mutant of Active: a discarded import still counts.
ActiveOrDiscarded == {"inspected", "approved", "discarded"}

\* The states in which recovery keeps an import's registered assets.
Active == {"inspected", "approved"}

\* The media type an import's intent names; NULL for a source.
MediaFor(i, o) == IF o \in Sources THEN SourceRow ELSE MediaOf[i][o]
CardRow(o) == IF o \in Sources THEN SourceRow ELSE CardMedia

Idle == [pc |-> "idle", import |-> None, staged |-> {}, todo |-> {}, cur |-> None, inner |-> FALSE]

Init ==
    /\ file = [o \in Objects |-> o \in Pinned]
    /\ row = [o \in Objects |-> None]
    /\ journal = [e \in Entries |-> None]
    /\ refs = {}
    /\ state = [i \in Imports |-> "new"]
    /\ jobs = 0
    /\ lock = None
    /\ proc = [t \in Threads |-> Idle]
    /\ mode = "running"
    /\ rec = [pc |-> "jobs", todo |-> {}, entry |-> None]
    /\ faults = 0
    /\ crashes = 0

-----------------------------------------------------------------------------
(* The two journal operations that commit and cleanup share.               *)

Referenced(o) == o \in refs

SharedBy(i, o) == \E j \in Imports \ {i} : journal[<<j, o>>] # None

\* The rows after delete_package_cas_metadata for one intent.
RowsWithout(i, o) == IF row[o] = MediaFor(i, o) THEN [row EXCEPT ![o] = None] ELSE row

\* The files after remove_package_cas_file: absent is fine, pinned stays.
FilesWithout(o) == IF o \in Pinned THEN file ELSE [file EXCEPT ![o] = FALSE]

SetPhase(i, S, phase) ==
    [e \in Entries |-> IF e[1] = i /\ e[2] \in S THEN phase ELSE journal[e]]

Stored(i, o) == row[o] = MediaFor(i, o) /\ file[o]

-----------------------------------------------------------------------------
(* Threads.                                                                *)

At(t, pc) == mode = "running" /\ proc[t].pc = pc

Become(t, p) == proc' = [proc EXCEPT ![t] = p]

Inspecting(t) == state[proc[t].import] = "inspecting"

Fault == faults < MaxFaults /\ faults' = faults + 1

\* What a failure outside the mutex leads to: the discard of what was staged.
ToDiscard(t) == Become(t, [proc[t] EXCEPT !.pc = "discard"])

\* promote_* returns an error: commit then discards, inspect does not.
PromoteFails(t) == IF Inspecting(t) THEN Become(t, Idle) ELSE ToDiscard(t)

\* A failure while promoting: every intent is cleaned up under the mutex.
ToCleanup(t) ==
    Become(t, [proc[t] EXCEPT !.pc = "cleanup_tx", !.todo = proc[t].staged, !.inner = TRUE])

\* inspect_content_package_import: every inspection has a fresh import id.
Inspect(t, i) ==
    /\ At(t, "idle")
    /\ state[i] = "new"
    /\ state' = [state EXCEPT ![i] = "inspecting"]
    /\ Become(t, [Idle EXCEPT !.pc = "ensure", !.import = i, !.staged = {SourceOf[i]}])
    /\ UNCHANGED <<file, row, journal, refs, jobs, lock, mode, rec, faults, crashes>>

\* commit_content_package_import reads the import; a completed one stages
\* nothing.
Load(t, i) ==
    /\ At(t, "idle")
    /\ state[i] \in {"approved", "completed"}
    /\ Become(t, [Idle EXCEPT !.pc = "ensure", !.import = i,
                              !.staged = IF state[i] = "completed" THEN {} ELSE AssetsOf[i]])
    /\ UNCHANGED <<disk, lock, mode, rec, faults, crashes>>

\* What commit_package_import and create_inspected_package_import verify.
ToVerify(t) ==
    LET i == proc[t].import
    IN  Become(t, [proc[t] EXCEPT !.pc = "verify",
                     !.todo = {SourceOf[i]} \cup IF Inspecting(t) THEN {} ELSE AssetsOf[i]])

\* The mutex is taken and the intents committed; a retry may find its own
\* rows in any phase but cleanup_pending.
EnsureIntents(t) ==
    LET i == proc[t].import
        S == proc[t].staged
        phase(o) == journal[<<i, o>>]
    IN  /\ At(t, "ensure")
        /\ lock = None
        /\ \/ /\ S = {}
              /\ ToVerify(t)
              /\ UNCHANGED <<lock, journal, faults>>
           \/ /\ S # {}
              /\ \A o \in S : phase(o) \in Open \cup {None}
              /\ lock' = t
              /\ journal' = SetPhase(i, {o \in S : phase(o) = None}, "intent")
              /\ Become(t, [proc[t] EXCEPT !.pc = "store", !.todo = S])
              /\ UNCHANGED faults
           \/ /\ \E o \in S : phase(o) = "cleanup_pending"
              /\ PromoteFails(t)
              /\ UNCHANGED <<lock, journal, faults>>
           \/ /\ S # {}
              /\ Fault
              /\ PromoteFails(t)
              /\ UNCHANGED <<lock, journal>>
        /\ UNCHANGED <<file, row, refs, state, jobs, mode, rec, crashes>>

\* store_verified_source of one staged file.
StoreFile(t, o) ==
    /\ At(t, "store")
    /\ o \in proc[t].todo
    /\ file' = [file EXCEPT ![o] = TRUE]
    /\ LET rest == proc[t].todo \ {o}
       IN  Become(t, [proc[t] EXCEPT !.todo = rest,
                                     !.pc = IF rest = {} THEN "durable" ELSE "store"])
    /\ UNCHANGED <<row, journal, refs, state, jobs, lock, mode, rec, faults, crashes>>

\* The copy fails before or after the file is published, or its bytes do not
\* have the declared type: cleanup.  A staged asset that is gone returns at
\* once, without cleanup.
StoreFails(t, o) ==
    /\ At(t, "store")
    /\ o \in proc[t].todo
    /\ Fault
    /\ \/ /\ file' \in {file, [file EXCEPT ![o] = TRUE]}
          /\ ToCleanup(t)
          /\ UNCHANGED lock
       \/ /\ ~Inspecting(t)
          /\ lock' = None
          /\ PromoteFails(t)
          /\ UNCHANGED file
    /\ UNCHANGED <<row, journal, refs, state, jobs, mode, rec, crashes>>

\* mark_package_cas_file_durable of every intent.  A row that is not there to
\* update refuses as a storage failure does: a GiveUp.
MarkDurable(t) ==
    LET i == proc[t].import
        S == {o \in proc[t].staged : journal[<<i, o>>] = "intent"}
    IN  /\ At(t, "durable")
        /\ journal' = SetPhase(i, S, "file_durable")
        /\ Become(t, [proc[t] EXCEPT !.pc = "register"])
        /\ UNCHANGED <<file, row, refs, state, jobs, lock, mode, rec, faults, crashes>>

\* The registration transaction: INSERT OR IGNORE, then compare.  A journal row
\* that is not there to update rolls it back, as any other failure does.
Register(t) ==
    LET i == proc[t].import
        S == proc[t].staged
        conflict == \E o \in S : row[o] \notin {None, MediaFor(i, o)}
    IN  /\ At(t, "register")
        /\ \/ /\ ~conflict
              /\ row' = [o \in Objects |-> IF o \in S THEN MediaFor(i, o) ELSE row[o]]
              /\ journal' = SetPhase(i, S, "row_registered")
              /\ lock' = None
              /\ \/ ToVerify(t) /\ UNCHANGED faults
                 \/ Inspecting(t) /\ Fault /\ PromoteFails(t)  \* its last verify_file
           \/ /\ conflict
              /\ ToCleanup(t)
              /\ UNCHANGED <<row, journal, lock, faults>>
           \/ /\ Fault
              /\ ToCleanup(t)
              /\ UNCHANGED <<row, journal, lock>>
        /\ UNCHANGED <<file, refs, state, jobs, mode, rec, crashes>>

\* package_source_path and verify_package_asset_cas, each under the mutex.
Verify(t, o) ==
    /\ At(t, "verify")
    /\ lock = None
    /\ o \in proc[t].todo
    /\ IF Stored(proc[t].import, o)
       THEN LET rest == proc[t].todo \ {o}
            IN  Become(t, [proc[t] EXCEPT !.todo = rest,
                                          !.pc = IF rest = {} THEN "commit" ELSE "verify"])
       ELSE ToDiscard(t)
    /\ UNCHANGED <<disk, lock, mode, rec, faults, crashes>>

\* Reopening the package, clearing the staging area, or the transaction fails.
GiveUp(t) ==
    /\ At(t, "verify") \/ At(t, "commit")
    /\ Fault
    /\ ToDiscard(t)
    /\ UNCHANGED <<disk, lock, mode, rec, crashes>>

\* claim_package_cas_promotion of every object: its intent is registered.
Claimable(i, S, required) ==
    \A o \in S : \/ journal[<<i, o>>] = "row_registered"
                 \/ ~required /\ journal[<<i, o>>] = None

\* Every object has the metadata row its product reference points to.
ForeignKeysHold(S) == \A o \in S : row[o] # None

\* The transaction of create_inspected_package_import.
CreateInspected(t) ==
    LET i == proc[t].import
        S == {SourceOf[i]}
        ok == ForeignKeysHold(S) /\ Claimable(i, S, TRUE)
    IN  /\ At(t, "commit")
        /\ Inspecting(t)
        /\ IF ok
           THEN /\ refs' = refs \cup S
                /\ state' = [state EXCEPT ![i] = "inspected"]
                /\ journal' = SetPhase(i, S, None)
                /\ Become(t, Idle)
           ELSE ToDiscard(t) /\ UNCHANGED <<refs, state, journal>>
        /\ UNCHANGED <<file, row, jobs, lock, mode, rec, faults, crashes>>

\* The transaction of commit_package_import; of a completed import a replay.
CommitImport(t) ==
    LET i == proc[t].import
        S == AssetsOf[i]
        replay == state[i] = "completed" /\ Claimable(i, S, FALSE)
        commit == /\ state[i] = "approved"
                  /\ ForeignKeysHold(S)
                  /\ Claimable(i, S, TRUE)
    IN  /\ At(t, "commit")
        /\ ~Inspecting(t)
        /\ \/ /\ commit
              /\ refs' = refs \cup S
              /\ state' = [state EXCEPT ![i] = "completed"]
              /\ journal' = SetPhase(i, S, None)
              /\ Become(t, Idle)
           \/ /\ replay
              /\ journal' = SetPhase(i, S, None)
              /\ Become(t, Idle)
              /\ UNCHANGED <<refs, state>>
           \/ /\ ~commit /\ ~replay
              /\ ToDiscard(t)
              /\ UNCHANGED <<refs, state, journal>>
        /\ UNCHANGED <<file, row, jobs, lock, mode, rec, faults, crashes>>

\* select_package_import and approve_package_import.
Approve(i) ==
    /\ mode = "running"
    /\ state[i] = "inspected"
    /\ state' = [state EXCEPT ![i] = "approved"]
    /\ UNCHANGED <<file, row, journal, refs, jobs, lock, proc, mode, rec, faults, crashes>>

\* discard_package_import keeps the source, the files and the journal.
DiscardImport(i) ==
    /\ mode = "running"
    /\ state[i] \in Active
    /\ state' = [state EXCEPT ![i] = "discarded"]
    /\ UNCHANGED <<file, row, journal, refs, jobs, lock, proc, mode, rec, faults, crashes>>

-----------------------------------------------------------------------------
(* cleanup_package_cas_promotion, under the mutex, one object at a time.   *)

\* discard_unclaimed_package_assets and discard_unclaimed_package_source.
Discard(t) ==
    /\ At(t, "discard")
    /\ lock = None
    /\ lock' = t
    /\ Become(t, [proc[t] EXCEPT !.pc = "cleanup_tx", !.todo = proc[t].staged, !.inner = FALSE])
    /\ UNCHANGED <<disk, mode, rec, faults, crashes>>

\* The cleanup returns: promote_* fails, or the command does.
CleanupReturns(t) ==
    /\ lock' = None
    /\ IF proc[t].inner THEN PromoteFails(t) ELSE Become(t, Idle)

\* Mutant of PrepareCleanup: other imports' journal rows are not consulted.
PrepareCleanupUnshared(t, o) ==
    LET i == proc[t].import
    IN  /\ At(t, "cleanup_tx")
        /\ o \in proc[t].todo
        /\ \/ /\ journal[<<i, o>>] = None \/ Referenced(o)
              /\ journal' = SetPhase(i, {o}, None)
              /\ Become(t, [proc[t] EXCEPT !.todo = @ \ {o}])
              /\ UNCHANGED row
           \/ /\ journal[<<i, o>>] # None /\ ~Referenced(o)
              /\ journal' = SetPhase(i, {o}, "cleanup_pending")
              /\ row' = RowsWithout(i, o)
              /\ Become(t, [proc[t] EXCEPT !.todo = @ \ {o}, !.cur = o, !.pc = "cleanup_file"])
        /\ UNCHANGED <<file, refs, state, jobs, lock, mode, rec, faults, crashes>>

\* prepare_package_cas_cleanup: an object that is referenced, or that another
\* import is promoting, only loses this import's journal row.
PrepareCleanup(t, o) ==
    LET i == proc[t].import
        keep == Referenced(o) \/ SharedBy(i, o)
    IN  /\ At(t, "cleanup_tx")
        /\ o \in proc[t].todo
        /\ \/ /\ journal[<<i, o>>] = None \/ keep
              /\ journal' = SetPhase(i, {o}, None)
              /\ Become(t, [proc[t] EXCEPT !.todo = @ \ {o}])
              /\ UNCHANGED row
           \/ /\ journal[<<i, o>>] # None /\ ~keep
              /\ journal' = SetPhase(i, {o}, "cleanup_pending")
              /\ row' = RowsWithout(i, o)
              /\ Become(t, [proc[t] EXCEPT !.todo = @ \ {o}, !.cur = o, !.pc = "cleanup_file"])
        /\ UNCHANGED <<file, refs, state, jobs, lock, mode, rec, faults, crashes>>

CleanupFile(t) ==
    /\ At(t, "cleanup_file")
    /\ file' = FilesWithout(proc[t].cur)
    /\ Become(t, [proc[t] EXCEPT !.pc = "cleanup_row"])
    /\ UNCHANGED <<row, journal, refs, state, jobs, lock, mode, rec, faults, crashes>>

CleanupRow(t) ==
    LET e == <<proc[t].import, proc[t].cur>>
    IN  /\ At(t, "cleanup_row")
        /\ journal' = IF journal[e] = "cleanup_pending" THEN [journal EXCEPT ![e] = None] ELSE journal
        /\ Become(t, [proc[t] EXCEPT !.pc = "cleanup_tx", !.cur = None])
        /\ UNCHANGED <<file, row, refs, state, jobs, lock, mode, rec, faults, crashes>>

CleanupEnds(t) ==
    /\ At(t, "cleanup_tx")
    /\ proc[t].todo = {}
    /\ CleanupReturns(t)
    /\ UNCHANGED <<disk, mode, rec, faults, crashes>>

\* A transaction or the removal fails: the remaining intents are not tried.
CleanupFails(t) ==
    /\ \E pc \in {"cleanup_tx", "cleanup_file", "cleanup_row"} : At(t, pc)
    /\ Fault
    /\ CleanupReturns(t)
    /\ UNCHANGED <<disk, mode, rec, crashes>>

-----------------------------------------------------------------------------
(* commit_character_import: the mutex is held from the job row to the      *)
(* commit of the records; a failure leaves the job row to the next start.  *)

CardBegin(t) ==
    /\ At(t, "idle")
    /\ lock = None
    /\ jobs < MaxJobs
    /\ CardObjects # {}
    /\ jobs' = jobs + 1
    /\ lock' = t
    /\ Become(t, [Idle EXCEPT !.pc = "card_store", !.todo = CardObjects])
    /\ UNCHANGED <<file, row, journal, refs, state, mode, rec, faults, crashes>>

CardStore(t, o) ==
    /\ At(t, "card_store")
    /\ o \in proc[t].todo
    /\ file' = [file EXCEPT ![o] = TRUE]
    /\ Become(t, [proc[t] EXCEPT !.todo = @ \ {o}])
    /\ UNCHANGED <<row, journal, refs, state, jobs, lock, mode, rec, faults, crashes>>

\* commit_import_records: INSERT OR IGNORE, links, and the job's end.
CardCommit(t) ==
    /\ At(t, "card_store")
    /\ proc[t].todo = {}
    /\ row' = [o \in Objects |-> IF o \in CardObjects /\ row[o] = None THEN CardRow(o) ELSE row[o]]
    /\ refs' = refs \cup CardObjects
    /\ jobs' = jobs - 1
    /\ lock' = None
    /\ Become(t, Idle)
    /\ UNCHANGED <<file, journal, state, mode, rec, faults, crashes>>

CardFails(t) ==
    /\ At(t, "card_store")
    /\ Fault
    /\ lock' = None
    /\ Become(t, Idle)
    /\ UNCHANGED <<disk, mode, rec, crashes>>

-----------------------------------------------------------------------------
(* Death, restart and recover_interrupted_work.                            *)

Recovering == mode' = "recovering" /\ rec' =
    [pc |-> "jobs", todo |-> IF jobs > 0 THEN CardObjects ELSE {}, entry |-> None]

Crash ==
    /\ mode \in {"running", "recovering"}
    /\ crashes < MaxCrashes
    /\ crashes' = crashes + 1
    /\ proc' = [t \in Threads |-> Idle]
    /\ lock' = None
    /\ Recovering
    /\ UNCHANGED <<disk, faults>>

\* The application is closed and opened, or opened again after a failure.
Reopen ==
    /\ \/ mode = "running" /\ \A t \in Threads : proc[t].pc = "idle"
       \/ mode \in {"failed", "refused"}
    /\ Recovering
    /\ UNCHANGED <<disk, lock, proc, faults, crashes>>

Recover(pc) == mode = "recovering" /\ rec.pc = pc

\* Mutant of RecoverJobFile: the metadata row is not looked up.
RecoverJobFileAlways(o) ==
    /\ Recover("jobs")
    /\ o \in rec.todo
    /\ file' = FilesWithout(o)
    /\ rec' = [rec EXCEPT !.todo = @ \ {o}]
    /\ UNCHANGED <<row, journal, refs, state, jobs, lock, proc, mode, faults, crashes>>

\* remove_unreferenced_cas for a file of an interrupted character import.
RecoverJobFile(o) ==
    /\ Recover("jobs")
    /\ o \in rec.todo
    /\ file' = IF row[o] = None THEN FilesWithout(o) ELSE file
    /\ rec' = [rec EXCEPT !.todo = @ \ {o}]
    /\ UNCHANGED <<row, journal, refs, state, jobs, lock, proc, mode, faults, crashes>>

\* apply_recovery_transaction, then the journal is read.
RecoverJobs ==
    /\ Recover("jobs")
    /\ rec.todo = {}
    /\ jobs' = 0
    /\ rec' = [pc |-> "entries", todo |-> {e \in Entries : journal[e] # None}, entry |-> None]
    /\ UNCHANGED <<file, row, journal, refs, state, lock, proc, mode, faults, crashes>>

ActiveAsset(e) ==
    /\ e[2] \in Assets
    /\ journal[e] = "row_registered"
    /\ state[e[1]] \in Active

AnotherActive(e) ==
    \E j \in Imports \ {e[1]} : journal[<<j, e[2]>>] = "row_registered" /\ state[j] \in Active

\* The object stays: a product refers to it or an active import needs it.
Kept(e) == Referenced(e[2]) \/ ActiveAsset(e) \/ AnotherActive(e)

\* verify_package_cas_promotion_artifact; the row that others own is dropped.
RecoverKept(e) ==
    /\ Recover("entries")
    /\ e \in rec.todo
    /\ Kept(e)
    /\ IF Stored(e[1], e[2])
       THEN /\ rec' = [rec EXCEPT !.todo = @ \ {e}]
            /\ journal' = IF ActiveAsset(e) /\ ~Referenced(e[2]) THEN journal
                          ELSE [journal EXCEPT ![e] = None]
            /\ UNCHANGED mode
       ELSE /\ mode' = "refused"
            /\ UNCHANGED <<rec, journal>>
    /\ UNCHANGED <<file, row, refs, state, jobs, lock, proc, faults, crashes>>

\* recover_abandoned_package_cas_promotion: transaction, file, journal row.
RecoverAbandoned(e) ==
    /\ Recover("entries")
    /\ e \in rec.todo
    /\ ~Kept(e)
    /\ journal' = [journal EXCEPT ![e] = "cleanup_pending"]
    /\ row' = RowsWithout(e[1], e[2])
    /\ rec' = [pc |-> "file", todo |-> rec.todo \ {e}, entry |-> e]
    /\ UNCHANGED <<file, refs, state, jobs, lock, proc, mode, faults, crashes>>

\* Mutant of RecoverFile: a file that is already gone is an error.
RecoverFileMustExist ==
    /\ Recover("file")
    /\ IF file[rec.entry[2]]
       THEN /\ file' = FilesWithout(rec.entry[2])
            /\ rec' = [rec EXCEPT !.pc = "row"]
            /\ UNCHANGED mode
       ELSE /\ mode' = "failed"
            /\ UNCHANGED <<file, rec>>
    /\ UNCHANGED <<row, journal, refs, state, jobs, lock, proc, faults, crashes>>

RecoverFile ==
    /\ Recover("file")
    /\ file' = FilesWithout(rec.entry[2])
    /\ rec' = [rec EXCEPT !.pc = "row"]
    /\ UNCHANGED <<row, journal, refs, state, jobs, lock, proc, mode, faults, crashes>>

RecoverRow ==
    /\ Recover("row")
    /\ journal' = [journal EXCEPT ![rec.entry] = None]
    /\ rec' = [rec EXCEPT !.pc = "entries", !.entry = None]
    /\ UNCHANGED <<file, row, refs, state, jobs, lock, proc, mode, faults, crashes>>

RecoverFails ==
    /\ mode = "recovering"
    /\ Fault
    /\ mode' = "failed"
    /\ UNCHANGED <<disk, lock, proc, rec, crashes>>

Opened ==
    /\ Recover("entries")
    /\ rec.todo = {}
    /\ mode' = "running"
    /\ rec' = [rec EXCEPT !.pc = "jobs"]
    /\ UNCHANGED <<disk, lock, proc, faults, crashes>>

-----------------------------------------------------------------------------
ThreadStep(t) ==
    \/ \E i \in Imports : Inspect(t, i) \/ Load(t, i)
    \/ EnsureIntents(t)
    \/ \E o \in Objects : StoreFile(t, o) \/ StoreFails(t, o) \/ Verify(t, o)
    \/ MarkDurable(t) \/ Register(t) \/ GiveUp(t)
    \/ CreateInspected(t) \/ CommitImport(t)
    \/ Discard(t)
    \/ \E o \in Objects : PrepareCleanup(t, o)
    \/ CleanupFile(t) \/ CleanupRow(t) \/ CleanupEnds(t) \/ CleanupFails(t)
    \/ CardBegin(t) \/ (\E o \in CardObjects : CardStore(t, o)) \/ CardCommit(t) \/ CardFails(t)

RecoveryStep ==
    \/ \E o \in CardObjects : RecoverJobFile(o)
    \/ RecoverJobs
    \/ \E e \in Entries : RecoverKept(e) \/ RecoverAbandoned(e)
    \/ RecoverFile \/ RecoverRow \/ Opened

Next ==
    \/ \E t \in Threads : ThreadStep(t)
    \/ \E i \in Imports : Approve(i) \/ DiscardImport(i)
    \/ RecoveryStep \/ RecoverFails
    \/ Crash \/ Reopen

Spec == Init /\ [][Next]_vars

(* Recovery runs to its end, and a user whose application did not open     *)
(* starts it again; deaths and failures are finitely many.                 *)
FairSpec == Spec /\ WF_vars(RecoveryStep) /\ WF_vars(mode \in {"failed", "refused"} /\ Reopen)

-----------------------------------------------------------------------------
TypeOK ==
    /\ file \in [Objects -> BOOLEAN]
    /\ row \in [Objects -> Media \cup {SourceRow, None}]
    /\ journal \in [Entries -> Phases \cup {None}]
    /\ refs \subseteq Objects
    /\ state \in [Imports -> States]
    /\ jobs \in 0 .. MaxJobs
    /\ lock \in Threads \cup {None}
    /\ mode \in {"running", "recovering", "failed", "refused"}
    /\ \A t \in Threads :
         /\ proc[t].import \in Imports \cup {None}
         /\ proc[t].staged \subseteq Objects
         /\ proc[t].todo \subseteq Objects
    /\ faults \in 0 .. MaxFaults
    /\ crashes \in 0 .. MaxCrashes

(* A product reference never dangles: its metadata row and its file are    *)
(* there, whatever other import of the same bytes fails, is cleaned up or  *)
(* is recovered (commit_package_import verifies the file under the mutex   *)
(* but commits after giving it up; the claim of a registered intent and    *)
(* the foreign key, checked in the same transaction, protect it).          *)
ReferenceIsStored == \A o \in refs : row[o] # None /\ file[o]

(* A registered promotion is good until it is claimed: its row has the     *)
(* declared media type and its file is there.  During recovery this is     *)
(* promised to the assets of active imports only.                          *)
RegisteredIsStored ==
    \A e \in Entries :
        (/\ journal[e] = "row_registered"
         /\ mode = "running" \/ ActiveAsset(e))
        => Stored(e[1], e[2])

\* The same bytes declared under two media types.
Contested(o) ==
    /\ o \in Assets
    /\ \E m, n \in {MediaOf[i][o] : i \in {j \in Imports : o \in AssetsOf[j]}}
                  \cup (IF o \in CardObjects THEN {CardMedia} ELSE {}) : m # n

(* No bytes and no metadata are leaked: whatever is in the store is        *)
(* referenced, pinned, or named by a journal row or an import job from     *)
(* which a later cleanup or start removes it.  Contested bytes are         *)
(* excepted: when their two imports fail one after the other their row     *)
(* stays (journal.rs:343 leaves it to the other import, journal.rs:428     *)
(* deletes only a row of the import's own media type), and a row keeps the *)
(* file of a later interrupted card import.                                *)
NothingLeaked ==
    \A o \in Objects :
        ~Contested(o) /\ (file[o] \/ row[o] # None) =>
            \/ o \in refs \cup Pinned
            \/ \E i \in Imports : journal[<<i, o>>] # None
            \/ jobs > 0 /\ o \in CardObjects

\* An import that is neither completed nor discarded registered the object.
MayStillCommit(i, o) ==
    journal[<<i, o>>] = "row_registered" /\ state[i] \in {"inspected", "approved"}

(* When Storage::open succeeds, the store holds exactly what is            *)
(* referenced, pinned, or registered by an import that can still commit:   *)
(* no trace of an interrupted promotion is left but of contested bytes.    *)
OpensClean ==
    [][mode = "recovering" /\ mode' = "running" =>
         \A o \in Objects :
             \/ Contested(o)
             \/ file[o] /\ row[o] # None
                /\ (o \in refs \/ \E i \in Imports : MayStillCommit(i, o))
             \/ row[o] = None /\ (file[o] => o \in Pinned)
                /\ \A i \in Imports : journal[<<i, o>>] = None]_vars

\* Recovery has met bytes that it keeps, stored under another media type
\* than an interrupted promotion of them declares.
RefusedByMedia ==
    mode = "refused" /\ \E e \in rec.todo : Kept(e) /\ file[e[2]]
                                              /\ row[e[2]] \notin {None, MediaFor(e[1], e[2])}

(* However a promotion, a cleanup or a recovery was interrupted, the       *)
(* application opens again, unless contested bytes keep it from opening    *)
(* (recovery.rs:201).                                                      *)
RecoveryCompletes == mode = "recovering" ~> (mode = "running" \/ RefusedByMedia)

(* Journal, rows and files agree between any two steps of any thread:      *)
(* what is registered is stored, and what is stored is known.              *)
StoreInv == TypeOK /\ RegisteredIsStored /\ NothingLeaked

(* "A restart recovers idempotently" (ADR 0002): the application always    *)
(* opens again.                                                            *)
AlwaysOpens == mode = "recovering" ~> mode = "running"
=============================================================================

--------------------------- MODULE MemoryRuntime ---------------------------
(***************************************************************************)
(* The long-term memory runtime of the application: the durable job table  *)
(* (MemoryJobTable), the records and embeddings its jobs produce, the      *)
(* branch the records summarise, and the one background supervisor that    *)
(* claims a job, asks a provider and commits the result, while the user    *)
(* extends or rewinds the branch, edits or deletes records and retries     *)
(* interrupted jobs from other threads, and while the process may be shut  *)
(* down or killed between any two transactions.                            *)
(*                                                                         *)
(* Messages are numbered in the order they are committed, so the branch    *)
(* from root to head is a set read in ascending order, and removing a      *)
(* message cuts it there.  A record is named by the summary job that       *)
(* creates it (its id is a digest of that job's id) and its content        *)
(* revisions are numbered from InitialRevision.  State versions, which     *)
(* only refuse a user command based on an outdated view, are left out: a   *)
(* refused command changes nothing.                                        *)
(***************************************************************************)
EXTENDS MemoryJobTable

CONSTANTS
    SummaryOf,     \* key -> the summary job it belongs to; itself for a summary job
    FirstOf,       \* summary key -> first message of its source range
    LastOf,        \* summary key -> last message of its source range
    MaxMessages,   \* bound: messages committed to the conversation
    MaxTargets,    \* provider targets of a task profile, fallbacks included
    MaxRevisions   \* bound: content revisions of a record

Messages == 1 .. MaxMessages

SummaryKeys == {k \in Keys : SummaryOf[k] = k}

EmbeddingKeys == Keys \ SummaryKeys

EmbeddingKeysOf(s) == {e \in EmbeddingKeys : SummaryOf[e] = s}

ASSUME RuntimeAssumption ==
    /\ MaxMessages \in Nat
    /\ MaxTargets \in Nat \ {0}
    /\ MaxRevisions \in Nat \ {0}
    /\ SummaryOf \in [Keys -> SummaryKeys]
    /\ FirstOf \in [SummaryKeys -> Messages]
    /\ LastOf \in [SummaryKeys -> Messages]
    /\ \A s \in SummaryKeys : FirstOf[s] <= LastOf[s]
    /\ \A d, e \in EmbeddingKeys : SummaryOf[d] = SummaryOf[e] => d = e

VARIABLES
    jobs,         \* the memory_jobs table
    branch,       \* the messages from the root to the branch head
    lineage,      \* message -> itself and its ancestors, {} until committed
    records,      \* summary key -> state of the record it created
    embeddings,   \* stored vectors: <<embedding key, record revision>>
    supervisor,   \* the memory supervisor task of the running process
    shutdown,     \* the shutdown signal sent to the supervisor
    dispatched,   \* history: provider requests begun for a job
    retried       \* history: explicit retries of a job

stored == <<jobs, branch, lineage, records, embeddings>>
vars == <<stored, supervisor, shutdown, dispatched, retried>>

InitialRevision == 1

NoRecord == [revision |-> 0, invalidated |-> FALSE, excluded |-> FALSE, deleted |-> FALSE]

Records == [revision : 0 .. MaxRevisions,
            invalidated : BOOLEAN, excluded : BOOLEAN, deleted : BOOLEAN]

Exists(r) == r.revision # 0

Visible(r) == Exists(r) /\ ~r.invalidated /\ ~r.excluded /\ ~r.deleted

WorkPhases == {"claimed", "selecting", "dispatched", "settling"}

Phases == WorkPhases \union {"off", "idle", "polling", "failed", "stopped"}

Outcomes == {"none", "succeeded", "failed", "cancelled", "unknown", "refused"}

\* The supervisor without a claimed job.
Resting(phase) ==
    [phase |-> phase, job |-> "none", revision |-> 0, targets |-> 0, outcome |-> "none"]

Init ==
    /\ jobs = EmptyTable
    /\ branch = {}
    /\ lineage = [m \in Messages |-> {}]
    /\ records = [s \in SummaryKeys |-> NoRecord]
    /\ embeddings = {}
    /\ supervisor = Resting("off")
    /\ shutdown = FALSE
    /\ dispatched = [k \in Keys |-> 0]
    /\ retried = [k \in Keys |-> 0]

---------------------------------------------------------------------------
(* The process *)

\* Startup recovers every running row before the supervisor task exists.
Bootstrap ==
    /\ supervisor.phase = "off"
    /\ jobs' = Recovered(jobs)
    /\ supervisor' = Resting("idle")
    /\ UNCHANGED <<branch, lineage, records, embeddings, shutdown, dispatched, retried>>

\* The process ends, at any point of the supervisor's work.
Exit ==
    /\ supervisor.phase # "off"
    /\ supervisor' = Resting("off")
    /\ shutdown' = FALSE
    /\ UNCHANGED <<stored, dispatched, retried>>

\* Dropping the application state signals the supervisor.
SignalShutdown ==
    /\ supervisor.phase # "off"
    /\ ~shutdown
    /\ shutdown' = TRUE
    /\ UNCHANGED <<stored, supervisor, dispatched, retried>>

---------------------------------------------------------------------------
(* The user and the conversation, through commands of a running process *)

Serving == supervisor.phase # "off" /\ ~shutdown

CommitMessage ==
    /\ Serving
    /\ \E m \in Messages :
         /\ lineage[m] = {}
         /\ \A n \in Messages : n < m => lineage[n] # {}
         /\ branch' = branch \union {m}
         /\ lineage' = [lineage EXCEPT ![m] = branch \union {m}]
    /\ UNCHANGED <<jobs, records, embeddings, supervisor, shutdown, dispatched, retried>>

\* Jobs and records whose source range lies on the branch and reaches into
\* the part from message m to the head.
SourceOverlaps(k, m) ==
    LET s == SummaryOf[k] IN
    FirstOf[s] \in branch /\ LastOf[s] \in branch /\ LastOf[s] >= m

\* Mutant of RecordsWithoutRange: only ranges that lie wholly in the removed
\* part are found.
RecordsWithoutWholeRange(m) ==
    [s \in SummaryKeys |->
        IF Exists(records[s]) /\ ~records[s].deleted /\ SourceOverlaps(s, m) /\ FirstOf[s] >= m
        THEN [records[s] EXCEPT !.invalidated = TRUE]
        ELSE records[s]]

RecordsWithoutRange(m) ==
    [s \in SummaryKeys |->
        IF Exists(records[s]) /\ ~records[s].deleted /\ SourceOverlaps(s, m)
        THEN [records[s] EXCEPT !.invalidated = TRUE]
        ELSE records[s]]

JobsWithoutRange(m) == Cancelled(jobs, {k \in Keys : SourceOverlaps(k, m)})

\* One transaction invalidates the records, cancels the jobs and moves the head.
RemoveMessageFromBranch(m) ==
    /\ Serving
    /\ m \in branch
    /\ records' = RecordsWithoutRange(m)
    /\ jobs' = JobsWithoutRange(m)
    /\ branch' = {n \in branch : n < m}
    /\ UNCHANGED <<lineage, embeddings, supervisor, shutdown, dispatched, retried>>

\* A summary is requested for the lineage of a committed message, which may
\* have left the branch by the time the lifecycle event is delivered.
EnqueueMemorySummary(s, now) ==
    /\ Serving
    /\ FirstOf[s] \in lineage[LastOf[s]]
    /\ EnqueueAllowed(jobs, s)
    /\ jobs' = Enqueued(jobs, s, now)
    /\ UNCHANGED <<branch, lineage, records, embeddings, supervisor, shutdown, dispatched, retried>>

RetryMemoryJob(k, now) ==
    /\ Serving
    /\ RetryAllowed(jobs, k, jobs[k].revision)
    /\ jobs' = Retried(jobs, k, now)
    /\ retried' = [retried EXCEPT ![k] = @ + 1]
    /\ UNCHANGED <<branch, lineage, records, embeddings, supervisor, shutdown, dispatched>>

\* Embedding jobs of the revision that an edit or a deletion supersedes.
EmbeddingJobsOfRevision(s, revision) ==
    IF revision = InitialRevision THEN EmbeddingKeysOf(s) ELSE {}

\* Every accepted patch, exclusion flags included, makes a new revision the
\* active one.  An invalidated record stays invalidated.
PatchMemoryRecord(s, excluded) ==
    /\ Serving
    /\ Exists(records[s])
    /\ ~records[s].deleted
    /\ records[s].revision < MaxRevisions
    /\ records' = [records EXCEPT ![s].revision = @ + 1, ![s].excluded = excluded]
    /\ jobs' = Cancelled(jobs, EmbeddingJobsOfRevision(s, records[s].revision))
    /\ UNCHANGED <<branch, lineage, embeddings, supervisor, shutdown, dispatched, retried>>

DeleteMemoryRecord(s) ==
    /\ Serving
    /\ Exists(records[s])
    /\ ~records[s].deleted
    /\ records' = [records EXCEPT ![s].deleted = TRUE]
    /\ jobs' = Cancelled(jobs, EmbeddingJobsOfRevision(s, records[s].revision))
    /\ UNCHANGED <<branch, lineage, embeddings, supervisor, shutdown, dispatched, retried>>

---------------------------------------------------------------------------
(* The supervisor loop *)

\* Steps between two transactions: nothing durable changes.
Locally(next) ==
    /\ supervisor' = next
    /\ UNCHANGED <<stored, shutdown, retried>>

CheckShutdown ==
    /\ supervisor.phase = "idle"
    /\ Locally(Resting(IF shutdown THEN "stopped" ELSE "polling"))
    /\ UNCHANGED dispatched

ClaimNextJob(now) ==
    /\ supervisor.phase = "polling"
    /\ \E k \in OldestClaimable(jobs, now) :
         /\ jobs' = Claimed(jobs, k, now)
         /\ supervisor' = [Resting("claimed") EXCEPT !.job = k, !.revision = jobs[k].revision + 1]
    /\ UNCHANGED <<branch, lineage, records, embeddings, shutdown, dispatched, retried>>

NothingToClaim(now) ==
    /\ supervisor.phase = "polling"
    /\ OldestClaimable(jobs, now) = {}
    /\ Locally(Resting("idle"))
    /\ UNCHANGED dispatched

SourceOnBranch(s) == FirstOf[s] \in branch /\ LastOf[s] \in branch

\* Mutant of PrepareJob: a job whose input is no longer usable is dropped
\* without being finished.
PrepareJobOrDrop(policyUnchanged) ==
    /\ supervisor.phase = "claimed"
    /\ LET k == supervisor.job
           usable == policyUnchanged /\ (k \in SummaryKeys => SourceOnBranch(k))
       IN Locally(IF usable
                  THEN [supervisor EXCEPT !.phase = "selecting",
                          !.targets = IF k \in SummaryKeys THEN MaxTargets ELSE 1]
                  ELSE Resting("idle"))
    /\ UNCHANGED dispatched

\* The claimed input is checked again in a transaction of its own; policy
\* says whether the profiles, routes and transforms are still the ones
\* recorded when the job was enqueued.  An embedding job has one target.
PrepareJob(policyUnchanged) ==
    /\ supervisor.phase = "claimed"
    /\ LET k == supervisor.job
           usable == policyUnchanged /\ (k \in SummaryKeys => SourceOnBranch(k))
       IN Locally(IF usable
                  THEN [supervisor EXCEPT !.phase = "selecting",
                          !.targets = IF k \in SummaryKeys THEN MaxTargets ELSE 1]
                  ELSE [supervisor EXCEPT !.phase = "settling", !.outcome = "failed"])
    /\ UNCHANGED dispatched

\* The shutdown signal is seen before a provider request begins.
CancelBeforeDispatch ==
    /\ supervisor.phase = "selecting"
    /\ shutdown
    /\ Locally([supervisor EXCEPT !.phase = "settling", !.outcome = "cancelled"])
    /\ UNCHANGED dispatched

\* No request was begun for this target (unresolved, no credential, refused
\* before dispatch): the next one is tried, and after the last the job fails.
SkipTarget ==
    /\ supervisor.phase = "selecting"
    /\ Locally(IF supervisor.targets > 1
               THEN [supervisor EXCEPT !.targets = @ - 1]
               ELSE [supervisor EXCEPT !.phase = "settling", !.outcome = "failed"])
    /\ UNCHANGED dispatched

DispatchTarget ==
    /\ supervisor.phase = "selecting"
    /\ Locally([supervisor EXCEPT !.phase = "dispatched"])
    /\ dispatched' = [dispatched EXCEPT ![supervisor.job] = @ + 1]

\* Mutant of ProviderAnswers: an unknown outcome falls back to the next target.
ProviderAnswersOrFallsBack(outcome) ==
    /\ supervisor.phase = "dispatched"
    /\ Locally(IF outcome = "unknown" /\ supervisor.targets > 1
               THEN [supervisor EXCEPT !.phase = "selecting", !.targets = @ - 1]
               ELSE [supervisor EXCEPT !.phase = "settling", !.outcome = outcome])
    /\ UNCHANGED dispatched

\* What comes of a request that was begun: a usable result, a rejection or an
\* unusable result (the job fails), an unknown outcome (timeout, shutdown or
\* transport error), or a result that the worker accepts and the storage
\* layer then refuses (a keyword over its limit, a vector of norm zero).
ProviderAnswers(outcome) ==
    /\ supervisor.phase = "dispatched"
    /\ Locally([supervisor EXCEPT !.phase = "settling", !.outcome = outcome])
    /\ UNCHANGED dispatched

---------------------------------------------------------------------------
(* The transaction that settles the claimed job *)

HeldReport(now) == ReportAccepted(jobs, supervisor.job, supervisor.revision, now)

FinishAccepted(now) ==
    supervisor.outcome \in {"failed", "cancelled"} /\ HeldReport(now)

InterruptAccepted(now) == supervisor.outcome = "unknown" /\ HeldReport(now)

\* The source range must still be an ordered range of the branch.
SummaryAccepted(now) ==
    LET s == supervisor.job IN
    /\ s \in SummaryKeys
    /\ supervisor.outcome = "succeeded"
    /\ HeldReport(now)
    /\ FirstOf[s] \in lineage[LastOf[s]]
    /\ LastOf[s] \in branch
    /\ \A e \in EmbeddingKeysOf(s) : EnqueueAllowed(jobs, e)

\* The record revision the job was queued for must still be the active one,
\* visible, and without a vector.
EmbeddingAccepted(now) ==
    LET e == supervisor.job IN
    /\ e \in EmbeddingKeys
    /\ supervisor.outcome = "succeeded"
    /\ HeldReport(now)
    /\ Visible(records[SummaryOf[e]])
    /\ records[SummaryOf[e]].revision = InitialRevision
    /\ \A v \in embeddings : SummaryOf[v[1]] = SummaryOf[e] => v[2] # InitialRevision

FinishJob(now) ==
    /\ supervisor.phase = "settling"
    /\ FinishAccepted(now)
    /\ jobs' = Finished(jobs, supervisor.job, supervisor.outcome)
    /\ supervisor' = Resting("idle")
    /\ UNCHANGED <<branch, lineage, records, embeddings, shutdown, dispatched, retried>>

\* Mutant of InterruptJob: the unknown outcome is not recorded.
InterruptJobSilently(now) ==
    /\ supervisor.phase = "settling"
    /\ InterruptAccepted(now)
    /\ supervisor' = Resting("idle")
    /\ UNCHANGED <<stored, shutdown, dispatched, retried>>

InterruptJob(now) ==
    /\ supervisor.phase = "settling"
    /\ InterruptAccepted(now)
    /\ jobs' = Interrupted(jobs, supervisor.job)
    /\ supervisor' = Resting("idle")
    /\ UNCHANGED <<branch, lineage, records, embeddings, shutdown, dispatched, retried>>

\* The table once summary s has succeeded and its embedding job is queued.
SummaryCommitted(s, now) ==
    [k \in Keys |-> IF k \in EmbeddingKeysOf(s)
                    THEN Enqueued(jobs, k, now)[k]
                    ELSE Succeeded(jobs, s)[k]]

\* Record, embedding job and terminal state become visible together.
CompleteSummaryJob(now) ==
    /\ supervisor.phase = "settling"
    /\ SummaryAccepted(now)
    /\ jobs' = SummaryCommitted(supervisor.job, now)
    /\ records' = [records EXCEPT ![supervisor.job] =
                      [NoRecord EXCEPT !.revision = InitialRevision]]
    /\ supervisor' = Resting("idle")
    /\ UNCHANGED <<branch, lineage, embeddings, shutdown, dispatched, retried>>

CompleteEmbeddingJob(now) ==
    /\ supervisor.phase = "settling"
    /\ EmbeddingAccepted(now)
    /\ jobs' = Succeeded(jobs, supervisor.job)
    /\ embeddings' = embeddings \union {<<supervisor.job, InitialRevision>>}
    /\ supervisor' = Resting("idle")
    /\ UNCHANGED <<branch, lineage, records, shutdown, dispatched, retried>>

\* The settling transaction is rolled back with an error.  The loop reports
\* the phase Failed and ends; nothing starts it again in this process.
SettleFails(now) ==
    /\ supervisor.phase = "settling"
    /\ ~FinishAccepted(now)
    /\ ~InterruptAccepted(now)
    /\ ~SummaryAccepted(now)
    /\ ~EmbeddingAccepted(now)
    /\ Locally([supervisor EXCEPT !.phase = "failed"])
    /\ UNCHANGED dispatched

---------------------------------------------------------------------------
SupervisorStep ==
    \/ CheckShutdown
    \/ \E t \in Time : ClaimNextJob(t)
    \/ \E t \in Time : NothingToClaim(t)
    \/ \E policyUnchanged \in BOOLEAN : PrepareJob(policyUnchanged)
    \/ CancelBeforeDispatch
    \/ SkipTarget
    \/ DispatchTarget
    \/ \E o \in {"succeeded", "failed", "unknown", "refused"} : ProviderAnswers(o)
    \/ \E t \in Time : FinishJob(t)
    \/ \E t \in Time : InterruptJob(t)
    \/ \E t \in Time : CompleteSummaryJob(t)
    \/ \E t \in Time : CompleteEmbeddingJob(t)
    \/ \E t \in Time : SettleFails(t)

UserStep ==
    \/ CommitMessage
    \/ \E m \in Messages : RemoveMessageFromBranch(m)
    \/ \E s \in SummaryKeys, t \in Time : EnqueueMemorySummary(s, t)
    \/ \E k \in Keys, t \in Time : RetryMemoryJob(k, t)
    \/ \E s \in SummaryKeys, x \in BOOLEAN : PatchMemoryRecord(s, x)
    \/ \E s \in SummaryKeys : DeleteMemoryRecord(s)

Next == Bootstrap \/ Exit \/ SignalShutdown \/ UserStep \/ SupervisorStep

Spec == Init /\ [][Next]_vars

\* The supervisor task is scheduled whenever it can run: the loop never
\* blocks, a request ends at the latest with its timeout, and each
\* transaction returns.  Nothing is assumed of the user or of the process.
FairSpec == Spec /\ WF_vars(SupervisorStep)

---------------------------------------------------------------------------
\* Tables, branch and supervisor have the shape the code gives them.
TypeOK ==
    /\ jobs \in [Keys -> Rows]
    /\ branch \subseteq Messages
    /\ lineage \in [Messages -> SUBSET Messages]
    /\ records \in [SummaryKeys -> Records]
    /\ embeddings \subseteq EmbeddingKeys \X {InitialRevision}
    /\ supervisor \in [phase : Phases, job : Keys \union {"none"}, revision : Nat,
                       targets : 0 .. MaxTargets, outcome : Outcomes]
    /\ supervisor.phase \in WorkPhases => supervisor.job \in Keys
    /\ shutdown \in BOOLEAN
    /\ dispatched \in [Keys -> Nat]
    /\ retried \in [Keys -> Nat]

\* A record the prompt may use summarises messages that are on the branch:
\* no interleaving of a rewind with a summary in flight brings removed
\* messages back through memory.
UsableMemoryIsOnBranch ==
    \A s \in SummaryKeys : Visible(records[s]) => SourceOnBranch(s)

\* A summary still being worked on under its claim has its source on the
\* branch: a rewind takes the claim away in the same transaction.
WorkInFlightIsOnBranch ==
    (/\ supervisor.phase \in {"selecting", "dispatched"}
     /\ supervisor.job \in SummaryKeys
     /\ jobs[supervisor.job].revision = supervisor.revision)
        => SourceOnBranch(supervisor.job)

\* An embedding job that can still run, also one waiting for a retry, is for
\* the active revision of a record that may be used: edits, exclusions,
\* deletions and rewinds each take such a job away.
OpenEmbeddingJobsAreCurrent ==
    \A e \in EmbeddingKeys :
        jobs[e].state \in CancellableStates
            => /\ Visible(records[SummaryOf[e]])
               /\ records[SummaryOf[e]].revision = InitialRevision

\* A job has succeeded exactly when its result is stored, and a stored
\* summary has its embedding job: no half of a completion is ever visible,
\* whatever step the process ends at.
CompletionIsAtomic ==
    /\ \A s \in SummaryKeys : (jobs[s].state = "succeeded") = Exists(records[s])
    /\ \A e \in EmbeddingKeys :
         /\ (jobs[e].state = "succeeded") = (<<e, InitialRevision>> \in embeddings)
         /\ (jobs[e].state # "absent") = Exists(records[SummaryOf[e]])

\* A provider is asked at most once per enqueue or explicit retry: neither a
\* restart nor a fallback target repeats a request whose outcome is unknown.
OneRequestPerDecision ==
    \A k \in Keys : dispatched[k] <= 1 + retried[k]

\* A running row is the one the supervisor holds, or the supervisor has died
\* (with the process or with an error) and startup will recover the row.
RunningJobIsHeld ==
    \A k \in Keys :
        jobs[k].state = "running" =>
            \/ supervisor.phase \in {"off", "failed"}
            \/ /\ supervisor.phase \in WorkPhases
               /\ supervisor.job = k
               /\ supervisor.revision = jobs[k].revision

\* The triggers of the schema accept every transaction of the runtime.
Lifecycle == INSTANCE MemoryJobLifecycle WITH
    state <- [k \in Keys |-> jobs[k].state],
    revision <- [k \in Keys |-> jobs[k].revision]

LifecycleSpec == Lifecycle!Spec

\* A queued job is eventually taken up or cancelled, unless the supervisor
\* is told to stop or has died of an error.
QueuedJobsAreTakenUp ==
    \A k \in Keys :
        jobs[k].state = "queued"
            ~> (jobs[k].state # "queued" \/ shutdown \/ supervisor.phase \in {"off", "failed"})

\* A job that was claimed does not stay running, unless the supervisor that
\* holds it dies.
ClaimedJobsAreSettled ==
    \A k \in Keys :
        jobs[k].state = "running"
            ~> (jobs[k].state # "running" \/ supervisor.phase \in {"off", "failed"})

\* Jobs, records, embeddings, branch and supervisor agree between any two
\* transactions: rewinds and edits take the work on their messages away, a
\* result comes whole, and no running row is forgotten.
RuntimeInv ==
    /\ TypeOK
    /\ WorkInFlightIsOnBranch
    /\ OpenEmbeddingJobsAreCurrent
    /\ CompletionIsAtomic
    /\ RunningJobIsHeld

\* Every job moves as the triggers allow, is taken up and is settled, while
\* the supervisor (start_memory_supervisor) lives.
JobsRunTheirLifecycle ==
    LifecycleSpec /\ QueuedJobsAreTakenUp /\ ClaimedJobsAreSettled
===========================================================================

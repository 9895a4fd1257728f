------------------------ MODULE MemoryRuntimeProofs ------------------------
(***************************************************************************)
(* Proofs about the memory runtime for every set of jobs, every source     *)
(* range, every number of messages, targets and record revisions, and      *)
(* every clock.                                                            *)
(***************************************************************************)
EXTENDS MemoryRuntime, TLAPS

---------------------------------------------------------------------------
(* The inductive invariant *)

\* A key that was never inserted has revision 0.
AbsentRowsAreNew == \A k \in Keys : jobs[k].state = "absent" => jobs[k].revision = 0

\* The branch holds the ancestors of its messages, a message comes after its
\* ancestors, and messages are committed in the order of their numbers.
BranchIsALine ==
    /\ \A m \in branch : lineage[m] # {} /\ lineage[m] \subseteq branch
    /\ \A m \in Messages : \A n \in lineage[m] : n <= m
    /\ \A m, n \in Messages : (n < m /\ lineage[m] # {}) => lineage[n] # {}

\* The row of the job the supervisor works on is running under the claim, or
\* a rewind or an edit has cancelled it; nothing else moves it meanwhile.
HeldRowRunsOrIsCancelled ==
    supervisor.phase \in WorkPhases =>
        LET row == jobs[supervisor.job] IN
        \/ row.state = "running" /\ row.revision = supervisor.revision
        \/ row.state = "cancelled" /\ row.revision > supervisor.revision

\* Not only a record the prompt may use but every record that is neither
\* deleted nor invalidated summarises messages of the branch: the user may
\* put an excluded one back.
Kept(r) == Exists(r) /\ ~r.invalidated /\ ~r.deleted

KeptMemoryIsOnBranch == \A s \in SummaryKeys : Kept(records[s]) => SourceOnBranch(s)

\* A job that waits for a claim, and the claimed job before its dispatch,
\* have a request in hand: fewer were begun than were decided on.
RequestsInHand ==
    /\ \A k \in Keys : jobs[k].state \in {"absent", "queued"} => dispatched[k] <= retried[k]
    /\ supervisor.phase \in {"claimed", "selecting"}
         => dispatched[supervisor.job] <= retried[supervisor.job]

IndInv ==
    /\ TypeOK
    /\ AbsentRowsAreNew
    /\ BranchIsALine
    /\ RunningJobIsHeld
    /\ HeldRowRunsOrIsCancelled
    /\ CompletionIsAtomic
    /\ OpenEmbeddingJobsAreCurrent
    /\ KeptMemoryIsOnBranch
    /\ WorkInFlightIsOnBranch
    /\ RequestsInHand
    /\ OneRequestPerDecision

---------------------------------------------------------------------------
(* Keys, rows and what a transaction does to one row *)

\* Every job belongs to a summary job with an ordered source range.
LEMMA KeyFacts ==
    /\ SummaryKeys \subseteq Keys
    /\ EmbeddingKeys \subseteq Keys
    /\ \A k \in Keys : SummaryOf[k] \in SummaryKeys
    /\ \A s \in SummaryKeys : /\ SummaryOf[s] = s
                              /\ s \notin EmbeddingKeys
                              /\ FirstOf[s] \in Messages
                              /\ LastOf[s] \in Messages
                              /\ FirstOf[s] <= LastOf[s]
    /\ \A s : EmbeddingKeysOf(s) \subseteq EmbeddingKeys
    /\ Messages \subseteq Nat
  BY RuntimeAssumption DEF SummaryKeys, EmbeddingKeys, EmbeddingKeysOf, Messages

\* Row k rests or makes one of the schema's legal moves.
RowMoves(k) ==
    \/ jobs'[k] = jobs[k]
    \/ /\ jobs'[k].state \in Lifecycle!LegalMoves[jobs[k].state]
       /\ jobs'[k].revision = jobs[k].revision + 1
       /\ jobs'[k].state # "absent"

\* Moving a row to another state keeps it a row.
LEMMA AdvanceType ==
    ASSUME NEW row \in Rows, NEW s \in States
    PROVE  /\ Advance(row, s) \in Rows
           /\ Advance(row, s).state = s
           /\ Advance(row, s).revision = row.revision + 1
           /\ row.revision \in Nat
  BY DEF Advance, Rows

\* The states the transactions write are states of the column.
LEMMA StateFacts ==
    {"absent", "queued", "running", "interrupted", "succeeded", "failed", "cancelled"} = States
  BY DEF States, CancellableStates, TerminalStates

\* A new row.
LEMMA EnqueuedRows ==
    ASSUME NEW T \in [Keys -> Rows], NEW k \in Keys, NEW t \in Time
    PROVE  /\ Enqueued(T, k, t) \in [Keys -> Rows]
           /\ Enqueued(T, k, t)[k].state = "queued"
           /\ Enqueued(T, k, t)[k].revision = 1
           /\ \A j \in Keys : j # k => Enqueued(T, k, t)[j] = T[j]
  <1>1. [state |-> "queued", revision |-> 1, available |-> t, starts |-> <<>>] \in Rows
    BY StateFacts, TimeAssumption DEF Rows
  <1> QED
    BY <1>1 DEF Enqueued

\* A claimed row.
LEMMA ClaimedRows ==
    ASSUME NEW T \in [Keys -> Rows], NEW k \in Keys, NEW t \in Time
    PROVE  /\ Claimed(T, k, t) \in [Keys -> Rows]
           /\ Claimed(T, k, t)[k].state = "running"
           /\ Claimed(T, k, t)[k].revision = T[k].revision + 1
           /\ \A j \in Keys : j # k => Claimed(T, k, t)[j] = T[j]
  <1>1. /\ T[k].revision + 1 \in Nat
        /\ T[k].available \in Int
        /\ Append(T[k].starts, t) \in Seq(Time)
    BY DEF Rows
  <1>2. [state |-> "running", revision |-> T[k].revision + 1,
         available |-> T[k].available, starts |-> Append(T[k].starts, t)] \in Rows
    BY <1>1, StateFacts DEF Rows
  <1> QED
    BY <1>2 DEF Claimed

\* A retried row.
LEMMA RetriedRows ==
    ASSUME NEW T \in [Keys -> Rows], NEW k \in Keys, NEW t \in Time
    PROVE  /\ Retried(T, k, t) \in [Keys -> Rows]
           /\ Retried(T, k, t)[k].state = "queued"
           /\ Retried(T, k, t)[k].revision = T[k].revision + 1
           /\ \A j \in Keys : j # k => Retried(T, k, t)[j] = T[j]
  <1>1. T[k].revision + 1 \in Nat /\ T[k].starts \in Seq(Time)
    BY DEF Rows
  <1>2. [state |-> "queued", revision |-> T[k].revision + 1,
         available |-> t, starts |-> T[k].starts] \in Rows
    BY <1>1, StateFacts, TimeAssumption DEF Rows
  <1> QED
    BY <1>2 DEF Retried

\* A row that a report settles.
LEMMA SettledRows ==
    ASSUME NEW T \in [Keys -> Rows], NEW k \in Keys, NEW s \in States
    PROVE  LET U == [T EXCEPT ![k] = Advance(T[k], s)] IN
           /\ U \in [Keys -> Rows]
           /\ U[k].state = s
           /\ U[k].revision = T[k].revision + 1
           /\ \A j \in Keys : j # k => U[j] = T[j]
  BY AdvanceType

\* The rows startup recovers.
LEMMA RecoveredRows ==
    ASSUME NEW T \in [Keys -> Rows]
    PROVE  /\ Recovered(T) \in [Keys -> Rows]
           /\ \A k \in Keys :
                IF T[k].state = "running"
                THEN /\ Recovered(T)[k].state = "interrupted"
                     /\ Recovered(T)[k].revision = T[k].revision + 1
                ELSE Recovered(T)[k] = T[k]
  BY AdvanceType, StateFacts DEF Recovered

\* The rows a rewind, an edit or a deletion cancels.
LEMMA CancelledRows ==
    ASSUME NEW T \in [Keys -> Rows], NEW S
    PROVE  /\ Cancelled(T, S) \in [Keys -> Rows]
           /\ \A k \in Keys :
                IF k \in S /\ T[k].state \in CancellableStates
                THEN /\ Cancelled(T, S)[k].state = "cancelled"
                     /\ Cancelled(T, S)[k].revision = T[k].revision + 1
                ELSE Cancelled(T, S)[k] = T[k]
  BY AdvanceType, StateFacts DEF Cancelled

\* The rows a completed summary writes: its own and its embedding job's.
LEMMA SummaryRows ==
    ASSUME jobs \in [Keys -> Rows], NEW s \in SummaryKeys, NEW t \in Time
    PROVE  /\ SummaryCommitted(s, t) \in [Keys -> Rows]
           /\ SummaryCommitted(s, t)[s].state = "succeeded"
           /\ SummaryCommitted(s, t)[s].revision = jobs[s].revision + 1
           /\ \A e \in EmbeddingKeysOf(s) : /\ SummaryCommitted(s, t)[e].state = "queued"
                                            /\ SummaryCommitted(s, t)[e].revision = 1
           /\ \A k \in Keys : (k # s /\ k \notin EmbeddingKeysOf(s))
                                => SummaryCommitted(s, t)[k] = jobs[k]
  <1>1. s \in Keys /\ s \notin EmbeddingKeysOf(s) /\ EmbeddingKeysOf(s) \subseteq Keys
    BY KeyFacts
  <1>2. \A k \in Keys : /\ Enqueued(jobs, k, t)[k] \in Rows
                        /\ Enqueued(jobs, k, t)[k].state = "queued"
                        /\ Enqueued(jobs, k, t)[k].revision = 1
    BY EnqueuedRows
  <1>3. /\ Succeeded(jobs, s) \in [Keys -> Rows]
        /\ Succeeded(jobs, s)[s].state = "succeeded"
        /\ Succeeded(jobs, s)[s].revision = jobs[s].revision + 1
        /\ \A j \in Keys : j # s => Succeeded(jobs, s)[j] = jobs[j]
    BY <1>1, SettledRows, StateFacts DEF Succeeded
  <1> QED
    BY <1>1, <1>2, <1>3 DEF SummaryCommitted

---------------------------------------------------------------------------
(* The process *)

\* The set the supervisor record ranges over.
Supervisors ==
    [phase : Phases, job : Keys \union {"none"}, revision : Nat,
     targets : 0 .. MaxTargets, outcome : Outcomes]

\* A supervisor without a job is well shaped and works on nothing.
LEMMA RestingFacts ==
    ASSUME NEW p \in {"off", "idle", "polling", "stopped"}
    PROVE  /\ Resting(p) \in Supervisors
           /\ Resting(p).phase = p
           /\ p \notin WorkPhases
  BY RuntimeAssumption DEF Resting, Supervisors, Phases, WorkPhases, Outcomes

\* Nothing is stored and no process runs.
LEMMA InitHolds == Init => IndInv
  <1> SUFFICES ASSUME Init PROVE IndInv
    OBVIOUS
  <1> USE DEF Init
  <1>0. /\ jobs \in [Keys -> Rows]
        /\ \A k \in Keys : jobs[k].state = "absent" /\ jobs[k].revision = 0
    BY StateFacts DEF EmptyTable, NoRow, Rows
  <1>1. TypeOK
    <2>1. records \in [SummaryKeys -> Records]
      BY RuntimeAssumption DEF NoRecord, Records
    <2>2. supervisor \in Supervisors /\ supervisor.phase \notin WorkPhases
      BY RestingFacts
    <2> QED
      BY <1>0, <2>1, <2>2 DEF TypeOK, Supervisors
  <1>2. AbsentRowsAreNew /\ RunningJobIsHeld
    BY <1>0 DEF AbsentRowsAreNew, RunningJobIsHeld
  <1>3. BranchIsALine
    BY DEF BranchIsALine
  <1>4. HeldRowRunsOrIsCancelled /\ WorkInFlightIsOnBranch
    BY RestingFacts DEF HeldRowRunsOrIsCancelled, WorkInFlightIsOnBranch, WorkPhases
  <1>5. \A s \in SummaryKeys : ~Exists(records[s])
    BY DEF NoRecord, Exists
  <1>6. CompletionIsAtomic
    <2>1. \A s \in SummaryKeys : (jobs[s].state = "succeeded") = Exists(records[s])
      BY <1>0, <1>5, KeyFacts DEF Exists
    <2>2. \A e \in EmbeddingKeys :
            (jobs[e].state = "succeeded") = (<<e, InitialRevision>> \in embeddings)
      BY <1>0, KeyFacts
    <2>3. \A e \in EmbeddingKeys : (jobs[e].state # "absent") = Exists(records[SummaryOf[e]])
      BY <1>0, <1>5, KeyFacts DEF Exists
    <2> QED
      BY <2>1, <2>2, <2>3 DEF CompletionIsAtomic
  <1>7. OpenEmbeddingJobsAreCurrent /\ KeptMemoryIsOnBranch
    BY <1>0, <1>5, KeyFacts DEF OpenEmbeddingJobsAreCurrent, KeptMemoryIsOnBranch, Kept,
                                CancellableStates
  <1>8. RequestsInHand /\ OneRequestPerDecision
    BY RestingFacts DEF RequestsInHand, OneRequestPerDecision, WorkPhases
  <1> QED
    BY <1>1, <1>2, <1>3, <1>4, <1>6, <1>7, <1>8 DEF IndInv

\* Startup interrupts every running row, so the new supervisor finds none.
LEMMA BootstrapStep == IndInv /\ Bootstrap => IndInv'
  <1> SUFFICES ASSUME IndInv, Bootstrap PROVE IndInv'
    OBVIOUS
  <1> USE DEF IndInv, Bootstrap
  <1>0. /\ jobs' \in [Keys -> Rows]
        /\ jobs \in [Keys -> Rows]
        /\ \A k \in Keys : \/ jobs'[k] = jobs[k] /\ jobs[k].state # "running"
                           \/ /\ jobs[k].state = "running"
                              /\ jobs'[k].state = "interrupted"
                              /\ jobs'[k].revision = jobs[k].revision + 1
    BY RecoveredRows DEF TypeOK
  <1>1. TypeOK'
    <2>1. supervisor' \in Supervisors /\ supervisor'.phase \notin WorkPhases
      BY RestingFacts
    <2> QED
      BY <1>0, <2>1 DEF TypeOK, Supervisors
  <1>2. AbsentRowsAreNew'
    BY <1>0 DEF AbsentRowsAreNew
  <1>3. BranchIsALine' /\ KeptMemoryIsOnBranch' /\ OneRequestPerDecision'
    BY DEF BranchIsALine, KeptMemoryIsOnBranch, OneRequestPerDecision, SourceOnBranch
  <1>4. RunningJobIsHeld'
    BY <1>0 DEF RunningJobIsHeld
  <1>5. HeldRowRunsOrIsCancelled' /\ WorkInFlightIsOnBranch'
    BY RestingFacts DEF HeldRowRunsOrIsCancelled, WorkInFlightIsOnBranch, WorkPhases
  <1>6. CompletionIsAtomic'
    BY <1>0, KeyFacts DEF CompletionIsAtomic
  <1>7. OpenEmbeddingJobsAreCurrent'
    BY <1>0, KeyFacts DEF OpenEmbeddingJobsAreCurrent, CancellableStates
  <1>8. RequestsInHand'
    BY <1>0, RestingFacts DEF RequestsInHand, WorkPhases
  <1> QED
    BY <1>1, <1>2, <1>3, <1>4, <1>5, <1>6, <1>7, <1>8

\* A supervisor that stops holding its job with nothing stored changed: the
\* process ends, or the loop stops without a claim or after an error.
LEMMA ReleaseStep ==
    ASSUME IndInv, UNCHANGED <<stored, dispatched, retried>>, shutdown' \in BOOLEAN,
           supervisor' \in Supervisors, supervisor'.phase \notin WorkPhases,
           \/ supervisor'.phase \in {"off", "failed"}
           \/ supervisor.phase \notin WorkPhases \union {"off", "failed"}
    PROVE  IndInv'
  <1> USE DEF IndInv, stored
  <1>1. TypeOK'
    BY DEF TypeOK, Supervisors
  <1>2. AbsentRowsAreNew' /\ BranchIsALine' /\ KeptMemoryIsOnBranch' /\ OneRequestPerDecision'
    BY DEF AbsentRowsAreNew, BranchIsALine, KeptMemoryIsOnBranch, OneRequestPerDecision,
           SourceOnBranch
  <1>3. RunningJobIsHeld'
    BY DEF RunningJobIsHeld
  <1>4. HeldRowRunsOrIsCancelled' /\ WorkInFlightIsOnBranch'
    BY DEF HeldRowRunsOrIsCancelled, WorkInFlightIsOnBranch, WorkPhases
  <1>5. CompletionIsAtomic' /\ OpenEmbeddingJobsAreCurrent'
    BY DEF CompletionIsAtomic, OpenEmbeddingJobsAreCurrent
  <1>6. RequestsInHand'
    BY DEF RequestsInHand, WorkPhases
  <1> QED
    BY <1>1, <1>2, <1>3, <1>4, <1>5, <1>6

\* The supervisor goes on working on the job it holds, with nothing stored
\* changed: its claim is as good as it was.
LEMMA WorkStep ==
    ASSUME IndInv, UNCHANGED <<stored, shutdown, retried>>,
           supervisor' \in Supervisors,
           supervisor.phase \in WorkPhases, supervisor'.phase \in WorkPhases,
           supervisor'.job = supervisor.job, supervisor'.revision = supervisor.revision,
           dispatched' \in [Keys -> Nat], RequestsInHand', OneRequestPerDecision',
           WorkInFlightIsOnBranch'
    PROVE  IndInv'
  <1> USE DEF IndInv, stored
  <1>1. TypeOK'
    BY DEF TypeOK, Supervisors
  <1>2. AbsentRowsAreNew' /\ BranchIsALine' /\ KeptMemoryIsOnBranch'
    BY DEF AbsentRowsAreNew, BranchIsALine, KeptMemoryIsOnBranch, SourceOnBranch
  <1>3. RunningJobIsHeld'
    BY DEF RunningJobIsHeld, WorkPhases
  <1>4. HeldRowRunsOrIsCancelled'
    BY DEF HeldRowRunsOrIsCancelled
  <1>5. CompletionIsAtomic' /\ OpenEmbeddingJobsAreCurrent'
    BY DEF CompletionIsAtomic, OpenEmbeddingJobsAreCurrent
  <1> QED
    BY <1>1, <1>2, <1>3, <1>4, <1>5

\* A step that changes nothing but the shutdown signal.
LEMMA SignalStep ==
    ASSUME IndInv, UNCHANGED <<stored, supervisor, dispatched, retried>>, shutdown' \in BOOLEAN
    PROVE  IndInv'
  BY DEF IndInv, stored, TypeOK, AbsentRowsAreNew, BranchIsALine, KeptMemoryIsOnBranch,
         OneRequestPerDecision, SourceOnBranch, RunningJobIsHeld, HeldRowRunsOrIsCancelled,
         WorkInFlightIsOnBranch, CompletionIsAtomic, OpenEmbeddingJobsAreCurrent, RequestsInHand

---------------------------------------------------------------------------
(* The supervisor between two transactions *)

\* The steps that leave the supervisor without a job.
LEMMA RestingSteps ==
    ASSUME IndInv, \/ Exit \/ SignalShutdown \/ CheckShutdown
                   \/ \E t \in Time : NothingToClaim(t) \/ SettleFails(t)
    PROVE  IndInv'
  <1> USE DEF stored
  <1>0. supervisor \in Supervisors /\ shutdown \in BOOLEAN
    BY DEF IndInv, TypeOK, Supervisors
  <1>1. CASE Exit
    <2>1. supervisor' \in Supervisors /\ supervisor'.phase = "off" /\ "off" \notin WorkPhases
      BY <1>1, RestingFacts DEF Exit
    <2> QED
      BY <1>1, <2>1, ReleaseStep DEF Exit
  <1>2. CASE SignalShutdown
    BY <1>2, SignalStep DEF SignalShutdown
  <1>3. CASE CheckShutdown
    <2>1. supervisor' \in Supervisors /\ supervisor'.phase \notin WorkPhases
      BY <1>3, RestingFacts DEF CheckShutdown, Locally
    <2>2. supervisor.phase \notin WorkPhases \union {"off", "failed"}
      BY <1>3 DEF CheckShutdown, WorkPhases
    <2> QED
      BY <1>0, <1>3, <2>1, <2>2, ReleaseStep DEF CheckShutdown, Locally
  <1>4. ASSUME NEW t \in Time, NothingToClaim(t) PROVE IndInv'
    <2>1. supervisor' \in Supervisors /\ supervisor'.phase \notin WorkPhases
      BY <1>4, RestingFacts DEF NothingToClaim, Locally
    <2>2. supervisor.phase \notin WorkPhases \union {"off", "failed"}
      BY <1>4 DEF NothingToClaim, WorkPhases
    <2> QED
      BY <1>0, <1>4, <2>1, <2>2, ReleaseStep DEF NothingToClaim, Locally
  <1>5. ASSUME NEW t \in Time, SettleFails(t) PROVE IndInv'
    <2>1. /\ supervisor' \in Supervisors
          /\ supervisor'.phase = "failed"
          /\ "failed" \notin WorkPhases
      BY <1>0, <1>5 DEF SettleFails, Locally, Supervisors, Phases, WorkPhases
    <2> QED
      BY <1>0, <1>5, <2>1, ReleaseStep DEF SettleFails, Locally
  <1> QED
    BY <1>1, <1>2, <1>3, <1>4, <1>5

\* Preparing checks the source against the branch before it goes on.
LEMMA PrepareStep ==
    ASSUME IndInv, NEW policyUnchanged \in BOOLEAN, PrepareJob(policyUnchanged)
    PROVE  IndInv'
  <1> USE DEF PrepareJob, Locally, stored
  <1>0. /\ supervisor \in Supervisors
        /\ dispatched \in [Keys -> Nat]
        /\ supervisor.phase = "claimed"
        /\ supervisor.phase \in WorkPhases
    BY DEF IndInv, TypeOK, Supervisors, WorkPhases
  <1>1. /\ supervisor' \in Supervisors
        /\ supervisor'.phase \in {"selecting", "settling"}
        /\ supervisor'.job = supervisor.job
        /\ supervisor'.revision = supervisor.revision
    <2>1. MaxTargets \in 0 .. MaxTargets /\ 1 \in 0 .. MaxTargets
      BY RuntimeAssumption
    <2>2. \/ \E n \in 0 .. MaxTargets :
               supervisor' = [supervisor EXCEPT !.phase = "selecting", !.targets = n]
          \/ supervisor' = [supervisor EXCEPT !.phase = "settling", !.outcome = "failed"]
      BY <2>1
    <2> QED
      BY <1>0, <2>2 DEF Supervisors, Phases, WorkPhases, Outcomes
  <1>2. RequestsInHand' /\ OneRequestPerDecision'
    BY <1>0, <1>1 DEF IndInv, RequestsInHand, OneRequestPerDecision
  <1>3. WorkInFlightIsOnBranch'
    BY <1>0, <1>1 DEF WorkInFlightIsOnBranch, SourceOnBranch, Supervisors
  <1>4. supervisor'.phase \in WorkPhases
    BY <1>1 DEF WorkPhases
  <1> QED
    BY <1>0, <1>1, <1>2, <1>3, <1>4, WorkStep

\* Steps among the targets and after the dispatch keep the job and its claim.
LEMMA TargetStep ==
    ASSUME IndInv, \/ CancelBeforeDispatch \/ SkipTarget
                   \/ \E o \in {"succeeded", "failed", "unknown", "refused"} : ProviderAnswers(o)
    PROVE  IndInv'
  <1> USE DEF CancelBeforeDispatch, SkipTarget, ProviderAnswers, Locally, stored
  <1>0. /\ supervisor \in Supervisors
        /\ dispatched \in [Keys -> Nat]
        /\ supervisor.phase \in {"selecting", "dispatched"}
        /\ supervisor.phase \in WorkPhases
    BY DEF IndInv, TypeOK, Supervisors, WorkPhases
  <1>1. /\ supervisor' \in Supervisors
        /\ supervisor'.phase = "settling" \/ supervisor'.phase = supervisor.phase
        /\ supervisor'.job = supervisor.job
        /\ supervisor'.revision = supervisor.revision
    <2>1. CASE CancelBeforeDispatch
      BY <1>0, <2>1 DEF Supervisors, Phases, WorkPhases, Outcomes
    <2>2. CASE SkipTarget
      <3>1. supervisor.targets > 1 => supervisor.targets - 1 \in 0 .. MaxTargets
        BY <1>0, RuntimeAssumption DEF Supervisors
      <3> QED
        BY <1>0, <2>2, <3>1 DEF Supervisors, Phases, WorkPhases, Outcomes
    <2>3. ASSUME NEW o \in {"succeeded", "failed", "unknown", "refused"}, ProviderAnswers(o)
          PROVE  /\ supervisor' \in Supervisors
                 /\ supervisor'.phase = "settling"
                 /\ supervisor'.job = supervisor.job
                 /\ supervisor'.revision = supervisor.revision
      BY <1>0, <2>3 DEF Supervisors, Phases, WorkPhases, Outcomes
    <2> QED
      BY <2>1, <2>2, <2>3
  <1>2. UNCHANGED <<stored, shutdown, retried, dispatched>>
    OBVIOUS
  <1>3. RequestsInHand' /\ OneRequestPerDecision'
    BY <1>0, <1>1, <1>2 DEF IndInv, RequestsInHand, OneRequestPerDecision
  <1>4. WorkInFlightIsOnBranch'
    BY <1>0, <1>1, <1>2 DEF IndInv, WorkInFlightIsOnBranch, SourceOnBranch
  <1>5. supervisor'.phase \in WorkPhases
    BY <1>0, <1>1 DEF WorkPhases
  <1> QED
    BY <1>0, <1>1, <1>2, <1>3, <1>4, <1>5, WorkStep

\* The request that was in hand is begun: the job's row is running or
\* cancelled, so nothing else may begin one before the next retry.
LEMMA DispatchStep == IndInv /\ DispatchTarget => IndInv'
  <1> SUFFICES ASSUME IndInv, DispatchTarget PROVE IndInv'
    OBVIOUS
  <1> USE DEF DispatchTarget, Locally, stored
  <1> DEFINE k == supervisor.job
  <1>0. /\ supervisor \in Supervisors
        /\ dispatched \in [Keys -> Nat]
        /\ retried \in [Keys -> Nat]
        /\ supervisor.phase = "selecting"
        /\ supervisor.phase \in WorkPhases
        /\ k \in Keys
    BY DEF IndInv, TypeOK, Supervisors, WorkPhases
  <1>1. /\ supervisor' \in Supervisors
        /\ supervisor'.phase = "dispatched"
        /\ supervisor'.job = k
        /\ supervisor'.revision = supervisor.revision
        /\ supervisor'.phase \in WorkPhases
    BY <1>0 DEF Supervisors, Phases, WorkPhases
  <1>2. /\ dispatched' \in [Keys -> Nat]
        /\ dispatched'[k] = dispatched[k] + 1
        /\ \A j \in Keys : j # k => dispatched'[j] = dispatched[j]
        /\ retried' = retried
    BY <1>0
  <1>3. dispatched[k] <= retried[k] /\ jobs[k].state \in {"running", "cancelled"}
    BY <1>0 DEF IndInv, RequestsInHand, HeldRowRunsOrIsCancelled
  <1>4. RequestsInHand'
    BY <1>1, <1>2, <1>3 DEF IndInv, RequestsInHand
  <1>5. OneRequestPerDecision'
    BY <1>0, <1>2, <1>3 DEF IndInv, OneRequestPerDecision
  <1>6. WorkInFlightIsOnBranch'
    BY <1>0, <1>1 DEF IndInv, WorkInFlightIsOnBranch, SourceOnBranch
  <1> QED
    BY <1>0, <1>1, <1>2, <1>4, <1>5, <1>6, WorkStep

---------------------------------------------------------------------------
(* The supervisor's transactions *)

\* A claim starts the only running row and takes over its request in hand.
LEMMA ClaimStep ==
    ASSUME IndInv, NEW t \in Time, ClaimNextJob(t)
    PROVE  IndInv'
  <1> USE DEF IndInv
  <1>1. PICK k \in OldestClaimable(jobs, t) :
          /\ jobs' = Claimed(jobs, k, t)
          /\ supervisor' = [Resting("claimed") EXCEPT !.job = k, !.revision = jobs[k].revision + 1]
    BY DEF ClaimNextJob
  <1>2. k \in Keys /\ jobs[k].state = "queued" /\ jobs \in [Keys -> Rows] /\ jobs[k].revision \in Nat
    BY DEF OldestClaimable, Claimable, TypeOK, Rows
  <1>3. /\ jobs' \in [Keys -> Rows]
        /\ jobs'[k].state = "running"
        /\ jobs'[k].revision = jobs[k].revision + 1
        /\ \A j \in Keys : j # k => jobs'[j] = jobs[j]
    BY <1>1, <1>2, ClaimedRows
  <1>4. /\ supervisor' \in Supervisors
        /\ supervisor'.phase = "claimed"
        /\ supervisor'.job = k
        /\ supervisor'.revision = jobs[k].revision + 1
        /\ "claimed" \in WorkPhases
    <2>1. jobs[k].revision + 1 \in Nat /\ 0 \in 0 .. MaxTargets
      BY <1>2, RuntimeAssumption
    <2> QED
      BY <1>1, <1>2, <2>1 DEF Resting, Supervisors, Phases, WorkPhases, Outcomes
  <1>5. UNCHANGED <<branch, lineage, records, embeddings, shutdown, dispatched, retried>>
    BY DEF ClaimNextJob
  <1>6. \A j \in Keys : jobs[j].state # "running"
    BY DEF ClaimNextJob, RunningJobIsHeld, WorkPhases
  <1>7. TypeOK'
    BY <1>2, <1>3, <1>4, <1>5 DEF TypeOK, Supervisors
  <1>8. AbsentRowsAreNew'
    BY <1>3 DEF AbsentRowsAreNew
  <1>9. BranchIsALine' /\ KeptMemoryIsOnBranch' /\ OneRequestPerDecision'
    BY <1>5 DEF BranchIsALine, KeptMemoryIsOnBranch, OneRequestPerDecision, SourceOnBranch
  <1>10. RunningJobIsHeld'
    BY <1>3, <1>4, <1>6 DEF RunningJobIsHeld
  <1>11. HeldRowRunsOrIsCancelled' /\ WorkInFlightIsOnBranch'
    BY <1>3, <1>4 DEF HeldRowRunsOrIsCancelled, WorkInFlightIsOnBranch
  <1>12. CompletionIsAtomic'
    BY <1>2, <1>3, <1>5, KeyFacts DEF CompletionIsAtomic
  <1>13. OpenEmbeddingJobsAreCurrent'
    BY <1>2, <1>3, <1>5, KeyFacts DEF OpenEmbeddingJobsAreCurrent, CancellableStates
  <1>14. RequestsInHand'
    BY <1>2, <1>3, <1>4, <1>5 DEF RequestsInHand
  <1> QED
    BY <1>7, <1>8, <1>9, <1>10, <1>11, <1>12, <1>13, <1>14

\* What every settled report leaves: no running row, no held job.
LEMMA SettledSupervisor ==
    ASSUME IndInv, supervisor.phase = "settling", supervisor' = Resting("idle"),
           jobs' \in [Keys -> Rows], jobs'[supervisor.job].state # "running",
           \A k \in Keys : (k # supervisor.job /\ jobs'[k].state = "running")
               => jobs[k].state = "running"
    PROVE  /\ supervisor' \in Supervisors
           /\ supervisor'.phase \notin WorkPhases
           /\ RunningJobIsHeld'
           /\ HeldRowRunsOrIsCancelled'
           /\ WorkInFlightIsOnBranch'
           /\ supervisor'.phase \notin {"claimed", "selecting"}
  <1>1. supervisor' \in Supervisors /\ supervisor'.phase = "idle" /\ "idle" \notin WorkPhases
    BY RestingFacts
  <1>2. \A k \in Keys : jobs'[k].state # "running"
    BY DEF IndInv, RunningJobIsHeld
  <1> QED
    BY <1>1, <1>2 DEF RunningJobIsHeld, HeldRowRunsOrIsCancelled, WorkInFlightIsOnBranch

\* A failed, cancelled or unknown outcome moves the held row and nothing else.
LEMMA FinishStep ==
    ASSUME IndInv, NEW t \in Time, FinishJob(t) \/ InterruptJob(t)
    PROVE  IndInv'
  <1> USE DEF IndInv
  <1> DEFINE k == supervisor.job
  <1>1. /\ supervisor.phase = "settling"
        /\ supervisor' = Resting("idle")
        /\ UNCHANGED <<branch, lineage, records, embeddings, shutdown, dispatched, retried>>
        /\ jobs[k].state = "running"
        /\ \E o \in {"failed", "cancelled", "interrupted"} :
             jobs' = [jobs EXCEPT ![k] = Advance(jobs[k], o)]
    BY DEF FinishJob, InterruptJob, FinishAccepted, InterruptAccepted, HeldReport,
           ReportAccepted, Finished, Interrupted
  <1>2. k \in Keys /\ jobs \in [Keys -> Rows]
    BY <1>1 DEF TypeOK, WorkPhases
  <1>3. PICK o \in {"failed", "cancelled", "interrupted"} :
          jobs' = [jobs EXCEPT ![k] = Advance(jobs[k], o)]
    BY <1>1
  <1>4. /\ jobs' \in [Keys -> Rows]
        /\ jobs'[k].state = o
        /\ \A j \in Keys : j # k => jobs'[j] = jobs[j]
    BY <1>2, <1>3, SettledRows, StateFacts
  <1>5. /\ supervisor' \in Supervisors
        /\ supervisor'.phase \notin WorkPhases
        /\ RunningJobIsHeld'
        /\ HeldRowRunsOrIsCancelled'
        /\ WorkInFlightIsOnBranch'
        /\ supervisor'.phase \notin {"claimed", "selecting"}
    BY <1>1, <1>4, SettledSupervisor
  <1>6. TypeOK'
    BY <1>1, <1>4, <1>5 DEF TypeOK, Supervisors
  <1>7. AbsentRowsAreNew'
    BY <1>4 DEF AbsentRowsAreNew
  <1>8. BranchIsALine' /\ KeptMemoryIsOnBranch' /\ OneRequestPerDecision'
    BY <1>1 DEF BranchIsALine, KeptMemoryIsOnBranch, OneRequestPerDecision, SourceOnBranch
  <1>9. CompletionIsAtomic'
    BY <1>1, <1>2, <1>4, KeyFacts DEF CompletionIsAtomic
  <1>10. OpenEmbeddingJobsAreCurrent'
    BY <1>1, <1>2, <1>4, KeyFacts DEF OpenEmbeddingJobsAreCurrent, CancellableStates
  <1>11. RequestsInHand'
    BY <1>1, <1>2, <1>4, <1>5 DEF RequestsInHand
  <1> QED
    BY <1>5, <1>6, <1>7, <1>8, <1>9, <1>10, <1>11

\* The record, its embedding job and the terminal state come together, and
\* the source range that was an ordered range of the branch's line is on it.
LEMMA CompleteSummaryStep ==
    ASSUME IndInv, NEW t \in Time, CompleteSummaryJob(t)
    PROVE  IndInv'
  <1> USE DEF IndInv
  <1> DEFINE s == supervisor.job
             new == [NoRecord EXCEPT !.revision = InitialRevision]
  <1>1. /\ supervisor.phase = "settling"
        /\ supervisor' = Resting("idle")
        /\ UNCHANGED <<branch, lineage, embeddings, shutdown, dispatched, retried>>
        /\ s \in SummaryKeys
        /\ jobs[s].state = "running"
        /\ FirstOf[s] \in lineage[LastOf[s]]
        /\ LastOf[s] \in branch
        /\ \A e \in EmbeddingKeysOf(s) : jobs[e].state = "absent"
        /\ jobs' = SummaryCommitted(s, t)
        /\ records' = [records EXCEPT ![s] = new]
    BY DEF CompleteSummaryJob, SummaryAccepted, HeldReport, ReportAccepted, EnqueueAllowed
  <1>2. /\ s \in Keys
        /\ jobs \in [Keys -> Rows]
        /\ records \in [SummaryKeys -> Records]
    BY <1>1, KeyFacts DEF TypeOK
  <1>3. /\ jobs' \in [Keys -> Rows]
        /\ jobs'[s].state = "succeeded"
        /\ \A e \in EmbeddingKeysOf(s) : jobs'[e].state = "queued"
        /\ \A k \in Keys : (k # s /\ k \notin EmbeddingKeysOf(s)) => jobs'[k] = jobs[k]
    BY <1>1, <1>2, SummaryRows
  <1>4. /\ new \in Records
        /\ Visible(new) /\ Exists(new) /\ new.revision = InitialRevision
    <2>1. 1 \in 0 .. MaxRevisions /\ 0 \in 0 .. MaxRevisions
      BY RuntimeAssumption
    <2>2. NoRecord \in Records
      BY <2>1 DEF NoRecord, Records
    <2>3. /\ new \in Records
          /\ new.revision = 1
          /\ new.invalidated = NoRecord.invalidated
          /\ new.excluded = NoRecord.excluded
          /\ new.deleted = NoRecord.deleted
      BY <2>1, <2>2 DEF Records, InitialRevision
    <2>4. ~NoRecord.invalidated /\ ~NoRecord.excluded /\ ~NoRecord.deleted
      BY DEF NoRecord
    <2> HIDE DEF new
    <2> QED
      BY <2>3, <2>4 DEF Visible, Exists, InitialRevision
  <1>5. /\ records' \in [SummaryKeys -> Records]
        /\ records'[s] = new
        /\ \A r \in SummaryKeys : r # s => records'[r] = records[r]
    BY <1>1, <1>2, <1>4
  <1> HIDE DEF new
  <1>6. EmbeddingKeysOf(s) = {e \in EmbeddingKeys : SummaryOf[e] = s}
    BY DEF EmbeddingKeysOf
  <1>7. /\ supervisor' \in Supervisors
        /\ supervisor'.phase \notin WorkPhases
        /\ RunningJobIsHeld'
        /\ HeldRowRunsOrIsCancelled'
        /\ WorkInFlightIsOnBranch'
        /\ supervisor'.phase \notin {"claimed", "selecting"}
    <2>1. \A k \in Keys : (k # s /\ jobs'[k].state = "running") => jobs[k].state = "running"
      BY <1>3
    <2> QED
      BY <1>1, <1>3, <2>1, SettledSupervisor
  <1>8. TypeOK'
    BY <1>1, <1>3, <1>5, <1>7 DEF TypeOK, Supervisors
  <1>9. AbsentRowsAreNew'
    BY <1>3 DEF AbsentRowsAreNew
  <1>10. BranchIsALine' /\ OneRequestPerDecision'
    BY <1>1 DEF BranchIsALine, OneRequestPerDecision
  <1>11. KeptMemoryIsOnBranch'
    <2>1. FirstOf[s] \in branch
      BY <1>1 DEF BranchIsALine
    <2> QED
      BY <1>1, <1>5, <2>1 DEF KeptMemoryIsOnBranch, SourceOnBranch
  <1>12. CompletionIsAtomic'
    <2>1. \A r \in SummaryKeys : (jobs'[r].state = "succeeded") = Exists(records'[r])
      BY <1>1, <1>3, <1>4, <1>5, <1>6, KeyFacts DEF CompletionIsAtomic, Exists
    <2>2. \A e \in EmbeddingKeys :
            (jobs'[e].state = "succeeded") = (<<e, InitialRevision>> \in embeddings')
      BY <1>1, <1>3, <1>6, KeyFacts DEF CompletionIsAtomic
    <2>3. \A e \in EmbeddingKeys : (jobs'[e].state # "absent") = Exists(records'[SummaryOf[e]])
      <3> TAKE e \in EmbeddingKeys
      <3>1. CASE SummaryOf[e] = s
        <4>1. jobs'[e].state # "absent"
          BY <1>3, <1>6, <3>1
        <4> QED
          BY <1>4, <1>5, <3>1, <4>1 DEF Exists
      <3>2. CASE SummaryOf[e] # s
        <4>1. jobs'[e] = jobs[e] /\ records'[SummaryOf[e]] = records[SummaryOf[e]]
          BY <1>1, <1>3, <1>5, <1>6, <3>2, KeyFacts
        <4> QED
          BY <4>1 DEF CompletionIsAtomic
      <3> QED
        BY <3>1, <3>2
    <2> QED
      BY <2>1, <2>2, <2>3 DEF CompletionIsAtomic
  <1>13. OpenEmbeddingJobsAreCurrent'
    <2> SUFFICES ASSUME NEW e \in EmbeddingKeys, jobs'[e].state \in CancellableStates
                 PROVE  /\ Visible(records'[SummaryOf[e]])
                        /\ records'[SummaryOf[e]].revision = InitialRevision
      BY DEF OpenEmbeddingJobsAreCurrent
    <2>1. CASE SummaryOf[e] = s
      BY <1>4, <1>5, <2>1
    <2>2. CASE SummaryOf[e] # s
      BY <1>1, <1>3, <1>5, <1>6, <2>2, KeyFacts DEF OpenEmbeddingJobsAreCurrent
    <2> QED
      BY <2>1, <2>2
  <1>14. RequestsInHand'
    BY <1>1, <1>3, <1>6, <1>7, KeyFacts DEF RequestsInHand
  <1> QED
    BY <1>7, <1>8, <1>9, <1>10, <1>11, <1>12, <1>13, <1>14

\* The vector and the terminal state of its job come together.
LEMMA CompleteEmbeddingStep ==
    ASSUME IndInv, NEW t \in Time, CompleteEmbeddingJob(t)
    PROVE  IndInv'
  <1> USE DEF IndInv
  <1> DEFINE e == supervisor.job
  <1>1. /\ supervisor.phase = "settling"
        /\ supervisor' = Resting("idle")
        /\ UNCHANGED <<branch, lineage, records, shutdown, dispatched, retried>>
        /\ e \in EmbeddingKeys
        /\ jobs[e].state = "running"
        /\ jobs' = [jobs EXCEPT ![e] = Advance(jobs[e], "succeeded")]
        /\ embeddings' = embeddings \union {<<e, InitialRevision>>}
    BY DEF CompleteEmbeddingJob, EmbeddingAccepted, HeldReport, ReportAccepted, Succeeded
  <1>2. e \in Keys /\ jobs \in [Keys -> Rows]
    BY <1>1, KeyFacts DEF TypeOK
  <1>3. /\ jobs' \in [Keys -> Rows]
        /\ jobs'[e].state = "succeeded"
        /\ \A j \in Keys : j # e => jobs'[j] = jobs[j]
    BY <1>1, <1>2, SettledRows, StateFacts
  <1>4. /\ supervisor' \in Supervisors
        /\ supervisor'.phase \notin WorkPhases
        /\ RunningJobIsHeld'
        /\ HeldRowRunsOrIsCancelled'
        /\ WorkInFlightIsOnBranch'
        /\ supervisor'.phase \notin {"claimed", "selecting"}
    BY <1>1, <1>3, SettledSupervisor
  <1>5. TypeOK'
    BY <1>1, <1>3, <1>4 DEF TypeOK, Supervisors
  <1>6. AbsentRowsAreNew'
    BY <1>3 DEF AbsentRowsAreNew
  <1>7. BranchIsALine' /\ KeptMemoryIsOnBranch' /\ OneRequestPerDecision'
    BY <1>1 DEF BranchIsALine, KeptMemoryIsOnBranch, OneRequestPerDecision, SourceOnBranch
  <1>8. CompletionIsAtomic'
    <2>1. \A s \in SummaryKeys : (jobs'[s].state = "succeeded") = Exists(records'[s])
      BY <1>1, <1>3, KeyFacts DEF CompletionIsAtomic
    <2>2. \A d \in EmbeddingKeys :
            (jobs'[d].state = "succeeded") = (<<d, InitialRevision>> \in embeddings')
      BY <1>1, <1>3, KeyFacts DEF CompletionIsAtomic
    <2>3. \A d \in EmbeddingKeys : (jobs'[d].state # "absent") = Exists(records'[SummaryOf[d]])
      BY <1>1, <1>3, KeyFacts DEF CompletionIsAtomic
    <2> QED
      BY <2>1, <2>2, <2>3 DEF CompletionIsAtomic
  <1>9. OpenEmbeddingJobsAreCurrent'
    BY <1>1, <1>3, KeyFacts DEF OpenEmbeddingJobsAreCurrent, CancellableStates
  <1>10. RequestsInHand'
    BY <1>1, <1>3, <1>4 DEF RequestsInHand
  <1> QED
    BY <1>4, <1>5, <1>6, <1>7, <1>8, <1>9, <1>10

---------------------------------------------------------------------------
(* The user's commands *)

\* The new message follows every committed one, so its lineage, the branch
\* and the message itself, keeps the branch a line.
LEMMA CommitStep == IndInv /\ CommitMessage => IndInv'
  <1> SUFFICES ASSUME IndInv, CommitMessage PROVE IndInv'
    OBVIOUS
  <1> USE DEF IndInv
  <1>1. PICK m \in Messages :
          /\ lineage[m] = {}
          /\ \A n \in Messages : n < m => lineage[n] # {}
          /\ branch' = branch \union {m}
          /\ lineage' = [lineage EXCEPT ![m] = branch \union {m}]
    BY DEF CommitMessage
  <1>2. UNCHANGED <<jobs, records, embeddings, supervisor, shutdown, dispatched, retried>>
    BY DEF CommitMessage
  <1>3. branch \subseteq Messages /\ lineage \in [Messages -> SUBSET Messages] /\ Messages \subseteq Nat
    BY KeyFacts DEF TypeOK
  <1>4. TypeOK'
    BY <1>1, <1>2, <1>3 DEF TypeOK
  <1>5. AbsentRowsAreNew' /\ RunningJobIsHeld' /\ HeldRowRunsOrIsCancelled' /\ CompletionIsAtomic'
        /\ OpenEmbeddingJobsAreCurrent' /\ RequestsInHand' /\ OneRequestPerDecision'
    BY <1>2 DEF AbsentRowsAreNew, RunningJobIsHeld, HeldRowRunsOrIsCancelled, CompletionIsAtomic,
                OpenEmbeddingJobsAreCurrent, RequestsInHand, OneRequestPerDecision
  <1>6. KeptMemoryIsOnBranch' /\ WorkInFlightIsOnBranch'
    BY <1>1, <1>2 DEF KeptMemoryIsOnBranch, WorkInFlightIsOnBranch, SourceOnBranch
  <1>7. BranchIsALine'
    <2>1. \A n \in branch : n < m
      BY <1>1, <1>3 DEF BranchIsALine
    <2>2. /\ lineage'[m] = branch \union {m}
          /\ \A n \in Messages : n # m => lineage'[n] = lineage[n]
      BY <1>1, <1>3
    <2>3. \A n \in branch' : lineage'[n] # {} /\ lineage'[n] \subseteq branch'
      BY <1>1, <1>3, <2>1, <2>2 DEF BranchIsALine
    <2>4. \A i \in Messages : \A n \in lineage'[i] : n <= i
      <3> TAKE i \in Messages
      <3>1. CASE i = m
        <4>1. m \in Nat /\ \A n \in branch : n \in Nat
          BY <1>3
        <4>2. \A n \in branch \union {m} : n <= m
          BY <2>1, <4>1
        <4> QED
          BY <2>2, <3>1, <4>2
      <3>2. CASE i # m
        BY <2>2, <3>2 DEF BranchIsALine
      <3> QED
        BY <3>1, <3>2
    <2>5. \A i, n \in Messages : (n < i /\ lineage'[i] # {}) => lineage'[n] # {}
      BY <1>1, <1>3, <2>2 DEF BranchIsALine
    <2> QED
      BY <2>3, <2>4, <2>5 DEF BranchIsALine
  <1> QED
    BY <1>4, <1>5, <1>6, <1>7

\* Cancelling jobs takes no row back to a claim: the held job, if it is among
\* them, is left behind by its row's revision.
LEMMA CancelStep ==
    ASSUME IndInv, NEW S, jobs' = Cancelled(jobs, S),
           UNCHANGED <<supervisor, dispatched, retried>>
    PROVE  /\ jobs' \in [Keys -> Rows]
           /\ AbsentRowsAreNew'
           /\ RunningJobIsHeld'
           /\ HeldRowRunsOrIsCancelled'
           /\ RequestsInHand'
           /\ OneRequestPerDecision'
           /\ \A k \in Keys :
                /\ (jobs'[k].state = "succeeded") = (jobs[k].state = "succeeded")
                /\ (jobs'[k].state # "absent") = (jobs[k].state # "absent")
                /\ jobs'[k].state \in CancellableStates => /\ jobs[k].state \in CancellableStates
                                                           /\ k \notin S
                                                           /\ jobs'[k] = jobs[k]
  <1> USE DEF IndInv
  <1>1. /\ jobs \in [Keys -> Rows]
        /\ jobs' \in [Keys -> Rows]
        /\ \A k \in Keys : jobs[k].revision \in Nat
        /\ \A k \in Keys :
             \/ jobs'[k] = jobs[k] /\ (k \in S => jobs[k].state \notin CancellableStates)
             \/ /\ jobs[k].state \in CancellableStates
                /\ jobs'[k].state = "cancelled"
                /\ jobs'[k].revision = jobs[k].revision + 1
    <2>1. jobs \in [Keys -> Rows] /\ \A k \in Keys : jobs[k].revision \in Nat
      BY DEF TypeOK, Rows
    <2> QED
      BY <2>1, CancelledRows
  <1>2. AbsentRowsAreNew'
    BY <1>1 DEF AbsentRowsAreNew
  <1>3. RunningJobIsHeld'
    BY <1>1 DEF RunningJobIsHeld
  <1>4. HeldRowRunsOrIsCancelled'
    <2> SUFFICES ASSUME supervisor.phase \in WorkPhases
                 PROVE  \/ /\ jobs'[supervisor.job].state = "running"
                           /\ jobs'[supervisor.job].revision = supervisor.revision
                        \/ /\ jobs'[supervisor.job].state = "cancelled"
                           /\ jobs'[supervisor.job].revision > supervisor.revision
      BY DEF HeldRowRunsOrIsCancelled
    <2>1. supervisor.job \in Keys /\ supervisor.revision \in Nat
      BY DEF TypeOK
    <2> QED
      BY <1>1, <2>1 DEF HeldRowRunsOrIsCancelled, CancellableStates
  <1>5. RequestsInHand' /\ OneRequestPerDecision'
    BY <1>1 DEF RequestsInHand, OneRequestPerDecision
  <1>6. \A k \in Keys :
          /\ (jobs'[k].state = "succeeded") = (jobs[k].state = "succeeded")
          /\ (jobs'[k].state # "absent") = (jobs[k].state # "absent")
          /\ jobs'[k].state \in CancellableStates => /\ jobs[k].state \in CancellableStates
                                                     /\ k \notin S
                                                     /\ jobs'[k] = jobs[k]
    BY <1>1 DEF CancellableStates
  <1> QED
    BY <1>1, <1>2, <1>3, <1>4, <1>5, <1>6

\* A rewind takes away exactly what reached into the removed part: what
\* stays usable or in flight ends before the cut.
LEMMA RemoveStep ==
    ASSUME IndInv, NEW m \in Messages, RemoveMessageFromBranch(m)
    PROVE  IndInv'
  <1> USE DEF IndInv
  <1> DEFINE S == {k \in Keys : SourceOverlaps(k, m)}
  <1>1. /\ jobs' = Cancelled(jobs, S)
        /\ records' = RecordsWithoutRange(m)
        /\ branch' = {n \in branch : n < m}
        /\ UNCHANGED <<lineage, embeddings, supervisor, shutdown, dispatched, retried>>
    BY DEF RemoveMessageFromBranch, JobsWithoutRange
  <1>2. /\ jobs' \in [Keys -> Rows]
        /\ AbsentRowsAreNew'
        /\ RunningJobIsHeld'
        /\ HeldRowRunsOrIsCancelled'
        /\ RequestsInHand'
        /\ OneRequestPerDecision'
        /\ \A k \in Keys :
             /\ (jobs'[k].state = "succeeded") = (jobs[k].state = "succeeded")
             /\ (jobs'[k].state # "absent") = (jobs[k].state # "absent")
             /\ jobs'[k].state \in CancellableStates => /\ jobs[k].state \in CancellableStates
                                                        /\ k \notin S
                                                        /\ jobs'[k] = jobs[k]
    <2> HIDE DEF S
    <2> QED
      BY <1>1, CancelStep
  <1>3. /\ branch \subseteq Messages
        /\ Messages \subseteq Nat
        /\ records \in [SummaryKeys -> Records]
        /\ lineage \in [Messages -> SUBSET Messages]
    BY KeyFacts DEF TypeOK
  <1>4. /\ records' \in [SummaryKeys -> Records]
        /\ \A s \in SummaryKeys :
             /\ records'[s].revision = records[s].revision
             /\ ~SourceOverlaps(s, m) => records'[s] = records[s]
             /\ Kept(records'[s]) => Kept(records[s]) /\ ~SourceOverlaps(s, m)
    BY <1>1, <1>3 DEF RecordsWithoutRange, Records, Kept, Exists
  <1>5. \A k \in Keys : SourceOverlaps(k, m) = SourceOverlaps(SummaryOf[k], m)
    BY KeyFacts DEF SourceOverlaps
  <1>6. \A s \in SummaryKeys : SourceOnBranch(s) /\ ~SourceOverlaps(s, m)
          => FirstOf[s] \in branch' /\ LastOf[s] \in branch'
    <2> TAKE s \in SummaryKeys
    <2>1. /\ SummaryOf[s] = s
          /\ FirstOf[s] \in Nat /\ LastOf[s] \in Nat /\ m \in Nat
          /\ FirstOf[s] <= LastOf[s]
      BY <1>3, KeyFacts
    <2> QED
      BY <1>1, <2>1 DEF SourceOnBranch, SourceOverlaps
  <1>7. TypeOK'
    BY <1>1, <1>2, <1>3, <1>4 DEF TypeOK
  <1>8. BranchIsALine'
    <2>1. \A n \in branch' : lineage[n] # {} /\ lineage[n] \subseteq branch'
      <3> SUFFICES ASSUME NEW n \in branch', NEW i \in lineage[n]
                   PROVE  i \in branch'
        BY <1>1 DEF BranchIsALine
      <3>1. n \in branch /\ n < m /\ n \in Nat /\ m \in Nat
        BY <1>1, <1>3
      <3>2. i \in branch /\ i <= n /\ i \in Nat
        BY <1>3, <3>1 DEF BranchIsALine
      <3> QED
        BY <1>1, <3>1, <3>2
    <2> QED
      BY <1>1, <2>1 DEF BranchIsALine
  <1>9. KeptMemoryIsOnBranch'
    BY <1>4, <1>6 DEF KeptMemoryIsOnBranch, SourceOnBranch
  <1>10. WorkInFlightIsOnBranch'
    <2> SUFFICES ASSUME supervisor.phase \in {"selecting", "dispatched"},
                        supervisor.job \in SummaryKeys,
                        jobs'[supervisor.job].revision = supervisor.revision
                 PROVE  FirstOf[supervisor.job] \in branch' /\ LastOf[supervisor.job] \in branch'
      BY <1>1 DEF WorkInFlightIsOnBranch, SourceOnBranch
    <2>1. supervisor.phase \in WorkPhases /\ supervisor.job \in Keys
          /\ supervisor'.phase \in WorkPhases /\ supervisor.revision \in Nat
          /\ jobs'[supervisor.job].revision \in Nat
      BY <1>1, <1>2, KeyFacts DEF WorkPhases, TypeOK, Rows
    <2>2. jobs'[supervisor.job].state = "running"
      BY <1>1, <1>2, <2>1 DEF HeldRowRunsOrIsCancelled
    <2>3. jobs'[supervisor.job] = jobs[supervisor.job] /\ supervisor.job \notin S
      BY <1>2, <2>1, <2>2 DEF CancellableStates
    <2> QED
      BY <1>6, <2>1, <2>3 DEF WorkInFlightIsOnBranch
  <1>11. CompletionIsAtomic'
    BY <1>1, <1>2, <1>4, KeyFacts DEF CompletionIsAtomic, Exists
  <1>12. OpenEmbeddingJobsAreCurrent'
    <2> SUFFICES ASSUME NEW e \in EmbeddingKeys, jobs'[e].state \in CancellableStates
                 PROVE  /\ Visible(records'[SummaryOf[e]])
                        /\ records'[SummaryOf[e]].revision = InitialRevision
      BY DEF OpenEmbeddingJobsAreCurrent
    <2>1. e \in Keys /\ SummaryOf[e] \in SummaryKeys
      BY KeyFacts
    <2>2. jobs[e].state \in CancellableStates /\ ~SourceOverlaps(e, m)
      BY <1>2, <2>1
    <2>3. records'[SummaryOf[e]] = records[SummaryOf[e]]
      BY <1>4, <1>5, <2>1, <2>2
    <2> QED
      BY <2>2, <2>3 DEF OpenEmbeddingJobsAreCurrent
  <1> QED
    BY <1>2, <1>7, <1>8, <1>9, <1>10, <1>11, <1>12

\* An edit or a deletion of record s, which leaves every other record alone
\* and cancels the embedding job of the revision it supersedes.
LEMMA EditStep ==
    ASSUME IndInv, NEW s \in SummaryKeys, NEW new \in Records,
           Exists(records[s]), Exists(new), Kept(new) => Kept(records[s]),
           records' = [records EXCEPT ![s] = new],
           jobs' = Cancelled(jobs, EmbeddingJobsOfRevision(s, records[s].revision)),
           UNCHANGED <<branch, lineage, embeddings, supervisor, shutdown, dispatched, retried>>
    PROVE  IndInv'
  <1> USE DEF IndInv
  <1> DEFINE S == EmbeddingJobsOfRevision(s, records[s].revision)
  <1>1. /\ jobs' \in [Keys -> Rows]
        /\ AbsentRowsAreNew'
        /\ RunningJobIsHeld'
        /\ HeldRowRunsOrIsCancelled'
        /\ RequestsInHand'
        /\ OneRequestPerDecision'
        /\ \A k \in Keys :
             /\ (jobs'[k].state = "succeeded") = (jobs[k].state = "succeeded")
             /\ (jobs'[k].state # "absent") = (jobs[k].state # "absent")
             /\ jobs'[k].state \in CancellableStates => /\ jobs[k].state \in CancellableStates
                                                        /\ k \notin S
                                                        /\ jobs'[k] = jobs[k]
    <2> HIDE DEF S
    <2>1. jobs' = Cancelled(jobs, S)
      BY DEF S
    <2> QED
      BY <2>1, CancelStep
  <1>2. /\ records' \in [SummaryKeys -> Records]
        /\ records'[s] = new
        /\ \A r \in SummaryKeys : r # s => records'[r] = records[r]
    BY DEF TypeOK
  <1>3. TypeOK'
    BY <1>1, <1>2 DEF TypeOK
  <1>4. BranchIsALine' /\ KeptMemoryIsOnBranch'
    BY <1>2 DEF BranchIsALine, KeptMemoryIsOnBranch, SourceOnBranch
  <1>5. WorkInFlightIsOnBranch'
    <2> SUFFICES ASSUME supervisor.phase \in {"selecting", "dispatched"},
                        supervisor.job \in SummaryKeys,
                        jobs'[supervisor.job].revision = supervisor.revision
                 PROVE  SourceOnBranch(supervisor.job)
      BY DEF WorkInFlightIsOnBranch, SourceOnBranch
    <2>1. supervisor.phase \in WorkPhases /\ supervisor.job \in Keys
          /\ supervisor'.phase \in WorkPhases /\ supervisor.revision \in Nat
          /\ jobs'[supervisor.job].revision \in Nat
      BY <1>1, KeyFacts DEF WorkPhases, TypeOK, Rows
    <2>2. jobs'[supervisor.job].state = "running"
      BY <1>1, <2>1 DEF HeldRowRunsOrIsCancelled
    <2>3. jobs'[supervisor.job] = jobs[supervisor.job]
      BY <1>1, <2>1, <2>2 DEF CancellableStates
    <2> QED
      BY <2>1, <2>3 DEF WorkInFlightIsOnBranch
  <1>6. CompletionIsAtomic'
    <2>1. \A r \in SummaryKeys : Exists(records'[r]) = Exists(records[r])
      BY <1>2 DEF Exists
    <2> QED
      BY <1>1, <2>1, KeyFacts DEF CompletionIsAtomic
  <1>7. OpenEmbeddingJobsAreCurrent'
    <2> SUFFICES ASSUME NEW e \in EmbeddingKeys, jobs'[e].state \in CancellableStates
                 PROVE  /\ Visible(records'[SummaryOf[e]])
                        /\ records'[SummaryOf[e]].revision = InitialRevision
      BY DEF OpenEmbeddingJobsAreCurrent
    <2>1. e \in Keys /\ SummaryOf[e] \in SummaryKeys
      BY KeyFacts
    <2>2. jobs[e].state \in CancellableStates /\ e \notin S
      BY <1>1, <2>1
    <2>3. records[SummaryOf[e]].revision = InitialRevision
      BY <2>2 DEF OpenEmbeddingJobsAreCurrent
    <2>4. SummaryOf[e] # s
      BY <2>2, <2>3 DEF EmbeddingJobsOfRevision, EmbeddingKeysOf
    <2> QED
      BY <1>2, <2>1, <2>2, <2>4 DEF OpenEmbeddingJobsAreCurrent
  <1> QED
    BY <1>1, <1>3, <1>4, <1>5, <1>6, <1>7

\* A patch makes a new revision, which may put an excluded record back.
LEMMA PatchStep ==
    ASSUME IndInv, NEW s \in SummaryKeys, NEW excluded \in BOOLEAN, PatchMemoryRecord(s, excluded)
    PROVE  IndInv'
  <1> DEFINE old == records[s]
             new == [old EXCEPT !.revision = @ + 1, !.excluded = excluded]
  <1>1. /\ records \in [SummaryKeys -> Records]
        /\ old \in Records
        /\ old.revision + 1 \in 0 .. MaxRevisions
        /\ old.revision + 1 # 0
    <2>1. records \in [SummaryKeys -> Records] /\ old.revision < MaxRevisions
      BY DEF IndInv, TypeOK, PatchMemoryRecord
    <2>2. old.revision \in 0 .. MaxRevisions
      BY <2>1 DEF Records
    <2> QED
      BY <2>1, <2>2, RuntimeAssumption
  <1>2. new \in Records /\ Exists(new) /\ (Kept(new) => Kept(old)) /\ Exists(old)
    BY <1>1 DEF Records, Exists, Kept, PatchMemoryRecord
  <1>3. records' = [records EXCEPT ![s] = new]
    BY <1>1 DEF PatchMemoryRecord
  <1> HIDE DEF new
  <1> QED
    BY <1>2, <1>3, EditStep DEF PatchMemoryRecord

\* A deleted record is no longer kept.
LEMMA DeleteStep ==
    ASSUME IndInv, NEW s \in SummaryKeys, DeleteMemoryRecord(s)
    PROVE  IndInv'
  <1> DEFINE old == records[s]
             new == [old EXCEPT !.deleted = TRUE]
  <1>1. records \in [SummaryKeys -> Records] /\ old \in Records
    BY DEF IndInv, TypeOK
  <1>2. new \in Records /\ Exists(new) /\ ~Kept(new) /\ Exists(old)
    BY <1>1 DEF Records, Exists, Kept, DeleteMemoryRecord
  <1>3. records' = [records EXCEPT ![s] = new]
    BY <1>1 DEF DeleteMemoryRecord
  <1> HIDE DEF new
  <1> QED
    BY <1>2, <1>3, EditStep DEF DeleteMemoryRecord

\* A row is queued, new or again, while the supervisor works on another job:
\* the held row is neither absent nor interrupted.
LEMMA QueueStep ==
    ASSUME IndInv, NEW k \in Keys,
           jobs[k].state \in {"absent", "interrupted"},
           k \in EmbeddingKeys => jobs[k].state = "interrupted",
           jobs' \in [Keys -> Rows], jobs'[k].state = "queued",
           \A j \in Keys : j # k => jobs'[j] = jobs[j],
           UNCHANGED <<branch, lineage, records, embeddings, supervisor, shutdown, dispatched>>,
           retried' \in [Keys -> Nat], dispatched[k] <= retried'[k],
           \A j \in Keys : j # k => retried'[j] = retried[j]
    PROVE  IndInv'
  <1> USE DEF IndInv
  <1>1. supervisor.phase \in WorkPhases => supervisor.job \in Keys /\ supervisor.job # k
    BY DEF HeldRowRunsOrIsCancelled, TypeOK
  <1>2. TypeOK'
    BY DEF TypeOK
  <1>3. AbsentRowsAreNew'
    BY DEF AbsentRowsAreNew
  <1>4. BranchIsALine' /\ KeptMemoryIsOnBranch'
    BY DEF BranchIsALine, KeptMemoryIsOnBranch, SourceOnBranch
  <1>5. RunningJobIsHeld'
    BY DEF RunningJobIsHeld
  <1>6. HeldRowRunsOrIsCancelled'
    BY <1>1 DEF HeldRowRunsOrIsCancelled
  <1>7. WorkInFlightIsOnBranch'
    BY <1>1 DEF WorkInFlightIsOnBranch, SourceOnBranch, WorkPhases
  <1>8. CompletionIsAtomic'
    BY KeyFacts DEF CompletionIsAtomic
  <1>9. OpenEmbeddingJobsAreCurrent'
    BY KeyFacts DEF OpenEmbeddingJobsAreCurrent, CancellableStates
  <1>10. RequestsInHand'
    BY <1>1 DEF RequestsInHand, WorkPhases
  <1>11. OneRequestPerDecision'
    BY DEF OneRequestPerDecision, TypeOK
  <1> QED
    BY <1>2, <1>3, <1>4, <1>5, <1>6, <1>7, <1>8, <1>9, <1>10, <1>11

\* A new job has asked nobody.
LEMMA EnqueueStep ==
    ASSUME IndInv, NEW s \in SummaryKeys, NEW t \in Time, EnqueueMemorySummary(s, t)
    PROVE  IndInv'
  <1>1. /\ s \in Keys /\ s \notin EmbeddingKeys
        /\ jobs \in [Keys -> Rows]
        /\ jobs[s].state = "absent"
        /\ jobs' = Enqueued(jobs, s, t)
        /\ UNCHANGED <<branch, lineage, records, embeddings, supervisor, shutdown, dispatched, retried>>
    BY KeyFacts DEF EnqueueMemorySummary, EnqueueAllowed, IndInv, TypeOK
  <1>2. /\ jobs' \in [Keys -> Rows]
        /\ jobs'[s].state = "queued"
        /\ \A j \in Keys : j # s => jobs'[j] = jobs[j]
    BY <1>1, EnqueuedRows
  <1>3. retried' \in [Keys -> Nat] /\ dispatched[s] <= retried'[s]
    BY <1>1 DEF IndInv, TypeOK, RequestsInHand
  <1> QED
    BY <1>1, <1>2, <1>3, QueueStep

\* A retry is the decision to ask once more.
LEMMA RetryStep ==
    ASSUME IndInv, NEW k \in Keys, NEW t \in Time, RetryMemoryJob(k, t)
    PROVE  IndInv'
  <1>1. /\ jobs \in [Keys -> Rows]
        /\ jobs[k].state = "interrupted"
        /\ jobs' = Retried(jobs, k, t)
        /\ retried' = [retried EXCEPT ![k] = @ + 1]
        /\ UNCHANGED <<branch, lineage, records, embeddings, supervisor, shutdown, dispatched>>
    BY DEF RetryMemoryJob, RetryAllowed, IndInv, TypeOK
  <1>2. /\ jobs' \in [Keys -> Rows]
        /\ jobs'[k].state = "queued"
        /\ \A j \in Keys : j # k => jobs'[j] = jobs[j]
    BY <1>1, RetriedRows
  <1>3. /\ retried' \in [Keys -> Nat]
        /\ \A j \in Keys : j # k => retried'[j] = retried[j]
        /\ dispatched[k] <= retried'[k]
    <2>1. retried \in [Keys -> Nat] /\ dispatched \in [Keys -> Nat] /\ dispatched[k] <= 1 + retried[k]
      BY DEF IndInv, TypeOK, OneRequestPerDecision
    <2> QED
      BY <1>1, <2>1
  <1> QED
    BY <1>1, <1>2, <1>3, QueueStep

---------------------------------------------------------------------------
(* The runtime *)

\* Every step of process, user and supervisor keeps the invariant.
LEMMA StepHolds == IndInv /\ [Next]_vars => IndInv'
  <1> SUFFICES ASSUME IndInv, [Next]_vars PROVE IndInv'
    OBVIOUS
  <1>1. CASE Bootstrap
    BY <1>1, BootstrapStep
  <1>2. CASE Exit \/ SignalShutdown
    BY <1>2, RestingSteps
  <1>3. CASE UserStep
    BY <1>3, CommitStep, RemoveStep, EnqueueStep, RetryStep, PatchStep, DeleteStep DEF UserStep
  <1>4. CASE SupervisorStep
    BY <1>4, RestingSteps, ClaimStep, PrepareStep, TargetStep, DispatchStep, FinishStep,
       CompleteSummaryStep, CompleteEmbeddingStep DEF SupervisorStep
  <1>5. CASE UNCHANGED vars
    <2>1. shutdown' \in BOOLEAN
      BY <1>5 DEF vars, IndInv, TypeOK
    <2> QED
      BY <1>5, <2>1, SignalStep DEF vars
  <1> QED
    BY <1>1, <1>2, <1>3, <1>4, <1>5 DEF Next

\* Jobs, records, branch and supervisor agree between any two transactions of
\* start_memory_supervisor's loop and the user's commands, whatever the
\* number of jobs, and wherever the process is killed.
THEOREM RuntimeIsConsistent == Spec => []RuntimeInv
  <1>1. IndInv => RuntimeInv
    BY DEF IndInv, RuntimeInv
  <1> QED
    BY <1>1, InitHolds, StepHolds, PTL DEF Spec

\* A rewind racing a summary in flight, or an edit that puts an excluded
\* record back, never makes a record of removed messages usable.
THEOREM UsableMemoryStaysOnBranch == Spec => []UsableMemoryIsOnBranch
  <1>1. IndInv => UsableMemoryIsOnBranch
    BY DEF IndInv, KeptMemoryIsOnBranch, UsableMemoryIsOnBranch, Visible, Kept
  <1> QED
    BY <1>1, InitHolds, StepHolds, PTL DEF Spec

\* No crash, recovery, rewind or fallback makes the worker ask a provider
\* more often than the user has decided on: once, and once more per retry.
THEOREM RequestsAreDecidedOn == Spec => []OneRequestPerDecision
  <1>1. IndInv => OneRequestPerDecision
    BY DEF IndInv
  <1> QED
    BY <1>1, InitHolds, StepHolds, PTL DEF Spec

---------------------------------------------------------------------------
(* The runtime implements the lifecycle the schema's triggers enforce *)

\* Every step of the runtime moves every row legally.
LEMMA RowStep ==
    ASSUME IndInv, [Next]_vars, NEW k \in Keys
    PROVE  RowMoves(k)
  <1> USE DEF IndInv, RowMoves, Lifecycle!LegalMoves
  <1>0. /\ jobs \in [Keys -> Rows]
        /\ \A j \in Keys : jobs[j].revision \in Nat
    BY DEF TypeOK, Rows
  <1>1. CASE Bootstrap
    BY <1>0, <1>1, RecoveredRows DEF Bootstrap
  <1>2. CASE jobs' = jobs
    BY <1>2
  <1>3. ASSUME NEW S, jobs' = Cancelled(jobs, S) PROVE RowMoves(k)
    BY <1>0, <1>3, CancelledRows DEF CancellableStates
  <1>4. ASSUME NEW s \in SummaryKeys, NEW t \in Time, EnqueueMemorySummary(s, t) PROVE RowMoves(k)
    <2>1. s \in Keys /\ jobs[s].state = "absent" /\ jobs' = Enqueued(jobs, s, t)
      BY <1>4, KeyFacts DEF EnqueueMemorySummary, EnqueueAllowed
    <2> QED
      BY <1>0, <2>1, EnqueuedRows DEF AbsentRowsAreNew
  <1>5. ASSUME NEW j \in Keys, NEW t \in Time, RetryMemoryJob(j, t) PROVE RowMoves(k)
    BY <1>0, <1>5, RetriedRows DEF RetryMemoryJob, RetryAllowed
  <1>6. CASE UserStep
    <2>1. CASE CommitMessage
      BY <1>2, <2>1 DEF CommitMessage
    <2> QED
      BY <1>3, <1>4, <1>5, <1>6, <2>1 DEF UserStep, RemoveMessageFromBranch, JobsWithoutRange,
                                          PatchMemoryRecord, DeleteMemoryRecord
  <1>7. ASSUME NEW t \in Time, ClaimNextJob(t) PROVE RowMoves(k)
    <2>1. PICK j \in OldestClaimable(jobs, t) : jobs' = Claimed(jobs, j, t)
      BY <1>7 DEF ClaimNextJob
    <2>2. j \in Keys /\ jobs[j].state = "queued"
      BY DEF OldestClaimable, Claimable
    <2> QED
      BY <1>0, <2>1, <2>2, ClaimedRows
  <1>8. ASSUME NEW o \in {"failed", "cancelled", "interrupted", "succeeded"},
               supervisor.job \in Keys, jobs[supervisor.job].state = "running",
               jobs' = [jobs EXCEPT ![supervisor.job] = Advance(jobs[supervisor.job], o)]
        PROVE RowMoves(k)
    BY <1>0, <1>8, SettledRows, StateFacts
  <1>9. ASSUME NEW t \in Time, CompleteSummaryJob(t) PROVE RowMoves(k)
    <2>1. /\ supervisor.job \in SummaryKeys
          /\ jobs[supervisor.job].state = "running"
          /\ \A e \in EmbeddingKeysOf(supervisor.job) : jobs[e].state = "absent"
          /\ jobs' = SummaryCommitted(supervisor.job, t)
      BY <1>9 DEF CompleteSummaryJob, SummaryAccepted, HeldReport, ReportAccepted, EnqueueAllowed
    <2> QED
      BY <1>0, <2>1, SummaryRows DEF AbsentRowsAreNew
  <1>10. ASSUME NEW t \in Time, FinishJob(t) \/ InterruptJob(t) \/ CompleteEmbeddingJob(t)
         PROVE  RowMoves(k)
    <2>1. supervisor.job \in Keys /\ jobs[supervisor.job].state = "running"
      BY <1>10 DEF FinishJob, InterruptJob, CompleteEmbeddingJob, FinishAccepted, InterruptAccepted,
                   EmbeddingAccepted, HeldReport, ReportAccepted, TypeOK, WorkPhases
    <2> QED
      BY <1>8, <1>10, <2>1 DEF FinishJob, InterruptJob, CompleteEmbeddingJob, FinishAccepted,
                               Finished, Interrupted, Succeeded
  <1>11. CASE SupervisorStep
    <2>1. CASE CheckShutdown \/ CancelBeforeDispatch \/ SkipTarget \/ DispatchTarget
      BY <1>2, <2>1 DEF CheckShutdown, CancelBeforeDispatch, SkipTarget, DispatchTarget, Locally, stored
    <2>2. ASSUME NEW t \in Time, NothingToClaim(t) \/ SettleFails(t) PROVE RowMoves(k)
      BY <1>2, <2>2 DEF NothingToClaim, SettleFails, Locally, stored
    <2>3. ASSUME NEW p, PrepareJob(p) PROVE RowMoves(k)
      BY <1>2, <2>3 DEF PrepareJob, Locally, stored
    <2>4. ASSUME NEW o, ProviderAnswers(o) PROVE RowMoves(k)
      BY <1>2, <2>4 DEF ProviderAnswers, Locally, stored
    <2> HIDE DEF RowMoves
    <2> QED
      BY <1>7, <1>9, <1>10, <1>11, <2>1, <2>2, <2>3, <2>4 DEF SupervisorStep
  <1>12. CASE Exit \/ SignalShutdown \/ UNCHANGED vars
    BY <1>2, <1>12 DEF Exit, SignalShutdown, vars, stored
  <1> HIDE DEF RowMoves
  <1> QED
    BY <1>1, <1>6, <1>11, <1>12 DEF Next

\* Every transaction of the runtime is a write the triggers of migration 0015
\* accept: recovery, rewinds, edits and completions included.
THEOREM RuntimeImplementsLifecycle == Spec => LifecycleSpec
  <1>1. Init => Lifecycle!Init
    BY DEF Init, EmptyTable, NoRow, Lifecycle!Init
  <1>2. IndInv /\ [Next]_vars
          => [Lifecycle!Write]_<<[k \in Keys |-> jobs[k].state], [k \in Keys |-> jobs[k].revision]>>
    <2> SUFFICES ASSUME IndInv, [Next]_vars
                 PROVE  Lifecycle!Write
      OBVIOUS
    <2>1. \A k \in Keys : RowMoves(k)
      BY RowStep
    <2> QED
      BY <2>1 DEF RowMoves, Lifecycle!Write, Lifecycle!Moves, Lifecycle!Rests
  <1> QED
    BY <1>1, <1>2, InitHolds, StepHolds, PTL DEF Spec, LifecycleSpec, Lifecycle!Spec
===========================================================================

------------------------- MODULE MemoryQueueProofs -------------------------
(***************************************************************************)
(* Proofs about the memory queue for every set of jobs and profiles, every *)
(* limit and every clock.                                                  *)
(***************************************************************************)
EXTENDS MemoryQueue, FiniteSetTheorems, TLAPS

---------------------------------------------------------------------------
(* Rows and transitions *)

\* Moving a row to another state keeps it a row.
LEMMA AdvanceType ==
    ASSUME NEW row \in Rows, NEW s \in States
    PROVE  Advance(row, s) \in Rows
  BY DEF Advance, Rows

\* Every queue transaction yields a table of rows.
LEMMA TransitionTypes ==
    ASSUME NEW T \in [Keys -> Rows], NEW k \in Keys, NEW t \in Time, NEW S
    PROVE  /\ Enqueued(T, k, t) \in [Keys -> Rows]
           /\ Claimed(T, k, t) \in [Keys -> Rows]
           /\ Recovered(T) \in [Keys -> Rows]
           /\ Interrupted(T, k) \in [Keys -> Rows]
           /\ Succeeded(T, k) \in [Keys -> Rows]
           /\ \A o \in {"failed", "cancelled"} : Finished(T, k, o) \in [Keys -> Rows]
           /\ Retried(T, k, t) \in [Keys -> Rows]
           /\ Cancelled(T, S) \in [Keys -> Rows]
  <1> USE TimeAssumption
  <1>1. \A j \in Keys, s \in States : Advance(T[j], s) \in Rows
    BY AdvanceType
  <1>2. {"queued", "running", "interrupted", "succeeded", "failed", "cancelled"} \subseteq States
    BY DEF States, CancellableStates, TerminalStates
  <1>3. Enqueued(T, k, t) \in [Keys -> Rows]
    BY <1>2 DEF Enqueued, Rows
  <1>4. Claimed(T, k, t) \in [Keys -> Rows]
    <2>1. Append(T[k].starts, t) \in Seq(Time)
      BY DEF Rows
    <2> QED
      BY <1>2, <2>1 DEF Claimed, Rows
  <1>5. Recovered(T) \in [Keys -> Rows]
    BY <1>1, <1>2 DEF Recovered
  <1>6. Interrupted(T, k) \in [Keys -> Rows] /\ Succeeded(T, k) \in [Keys -> Rows]
    BY <1>1, <1>2 DEF Interrupted, Succeeded
  <1>7. \A o \in {"failed", "cancelled"} : Finished(T, k, o) \in [Keys -> Rows]
    BY <1>1, <1>2 DEF Finished
  <1>8. Retried(T, k, t) \in [Keys -> Rows]
    BY <1>2 DEF Retried, Rows
  <1>9. Cancelled(T, S) \in [Keys -> Rows]
    BY <1>1, <1>2 DEF Cancelled
  <1> QED
    BY <1>3, <1>4, <1>5, <1>6, <1>7, <1>8, <1>9

---------------------------------------------------------------------------
(* Type correctness *)

\* The empty table is a table of rows and nobody holds a claim.
LEMMA TypeInit == Init => TypeOK
  BY DEF Init, TypeOK, EmptyTable, NoRow, Rows, States

\* Each transaction and each report keeps rows and claims well shaped.
LEMMA TypeStep == TypeOK /\ [Next]_vars => TypeOK'
  <1> SUFFICES ASSUME TypeOK, [Next]_vars PROVE TypeOK'
    OBVIOUS
  <1> USE DEF TypeOK
  <1>1. ASSUME NEW k \in Keys, NEW t \in Time, EnqueueMemoryJob(k, t) PROVE TypeOK'
    BY <1>1, TransitionTypes DEF EnqueueMemoryJob
  <1>2. ASSUME NEW t \in Time, ClaimNextMemoryJob(t) PROVE TypeOK'
    <2>1. PICK k \in OldestClaimable(jobs, t) :
            /\ jobs' = Claimed(jobs, k, t)
            /\ workers' = workers \union {[job |-> k, revision |-> jobs[k].revision + 1]}
      BY <1>2 DEF ClaimNextMemoryJob
    <2>2. k \in Keys
      BY DEF OldestClaimable
    <2>3. [job |-> k, revision |-> jobs[k].revision + 1] \in [job : Keys, revision : Nat]
      BY <2>2 DEF Rows
    <2> QED
      BY <2>1, <2>2, <2>3, TransitionTypes
  <1>3. ASSUME RecoverRunningMemoryJobs PROVE TypeOK'
    <2>1. \A k \in Keys : Advance(jobs[k], "interrupted") \in Rows
      BY AdvanceType DEF States, CancellableStates
    <2> QED
      BY <1>3, <2>1 DEF RecoverRunningMemoryJobs, Recovered
  <1>4. ASSUME NEW w \in workers, NEW t \in Time, InterruptMemoryJob(w, t) PROVE TypeOK'
    BY <1>4, TransitionTypes DEF InterruptMemoryJob
  <1>5. ASSUME NEW w \in workers, NEW t \in Time, NEW o \in {"failed", "cancelled"},
               FinishMemoryJob(w, o, t)
        PROVE TypeOK'
    BY <1>5, TransitionTypes DEF FinishMemoryJob
  <1>6. ASSUME NEW w \in workers, NEW t \in Time, CompleteMemoryJob(w, t) PROVE TypeOK'
    BY <1>6, TransitionTypes DEF CompleteMemoryJob
  <1>7. ASSUME NEW w \in workers, NEW t \in Time, RefuseReport(w, t) PROVE TypeOK'
    BY <1>7 DEF RefuseReport
  <1>8. ASSUME NEW k \in Keys, NEW t \in Time,
               RetryInterruptedMemoryJob(k, jobs[k].revision, t)
        PROVE TypeOK'
    BY <1>8, TransitionTypes DEF RetryInterruptedMemoryJob
  <1>9. ASSUME NEW S \in SUBSET Keys, CancelMemoryJobs(S) PROVE TypeOK'
    <2>1. \A k \in Keys : Advance(jobs[k], "cancelled") \in Rows
      BY AdvanceType DEF States, TerminalStates
    <2> QED
      BY <1>9, <2>1 DEF CancelMemoryJobs, Cancelled
  <1>10. CASE UNCHANGED vars
    BY <1>10 DEF vars
  <1> QED
    BY <1>1, <1>2, <1>3, <1>4, <1>5, <1>6, <1>7, <1>8, <1>9, <1>10 DEF Next

\* Rows and claims keep their shape in every behaviour of the queue.
THEOREM TypeCorrect == Spec => []TypeOK
  BY TypeInit, TypeStep, PTL DEF Spec

---------------------------------------------------------------------------
(* The attempt bound *)

\* The empty table has made no attempts.
LEMMA AttemptsInit == Init => AttemptsBounded
  BY LimitsAssumption DEF Init, AttemptsBounded, EmptyTable, NoRow, Attempts

\* A transition of row j that leaves its attempt list alone keeps the bound
\* unless it queues or starts the row, which the two steps that append or
\* queue justify by their own guards.
LEMMA AttemptsStep == TypeOK /\ AttemptsBounded /\ [Next]_vars => AttemptsBounded'
  <1> SUFFICES ASSUME TypeOK, AttemptsBounded, [Next]_vars PROVE AttemptsBounded'
    OBVIOUS
  <1> USE DEF TypeOK, AttemptsBounded, Attempts, Rows
  <1>1. ASSUME NEW k \in Keys, NEW t \in Time, EnqueueMemoryJob(k, t) PROVE AttemptsBounded'
    BY <1>1, LimitsAssumption DEF EnqueueMemoryJob, Enqueued
  <1>2. ASSUME NEW t \in Time, ClaimNextMemoryJob(t) PROVE AttemptsBounded'
    <2>1. PICK k \in OldestClaimable(jobs, t) : jobs' = Claimed(jobs, k, t)
      BY <1>2 DEF ClaimNextMemoryJob
    <2>2. k \in Keys /\ Len(jobs[k].starts) < MaxAttempts
      BY DEF OldestClaimable, Claimable
    <2>3. Len(Append(jobs[k].starts, t)) = Len(jobs[k].starts) + 1
      BY <2>2
    <2>4. Len(jobs[k].starts) \in Nat
      BY <2>2
    <2> QED
      BY <2>1, <2>2, <2>3, <2>4, LimitsAssumption DEF Claimed
  <1>3. ASSUME RecoverRunningMemoryJobs PROVE AttemptsBounded'
    BY <1>3 DEF RecoverRunningMemoryJobs, Recovered, Advance
  <1>4. ASSUME NEW w \in workers, NEW t \in Time, InterruptMemoryJob(w, t) PROVE AttemptsBounded'
    BY <1>4 DEF InterruptMemoryJob, Interrupted, Advance, ReportAccepted
  <1>5. ASSUME NEW w \in workers, NEW t \in Time, NEW o \in {"failed", "cancelled"},
               FinishMemoryJob(w, o, t)
        PROVE AttemptsBounded'
    BY <1>5 DEF FinishMemoryJob, Finished, Advance
  <1>6. ASSUME NEW w \in workers, NEW t \in Time, CompleteMemoryJob(w, t) PROVE AttemptsBounded'
    BY <1>6 DEF CompleteMemoryJob, Succeeded, Advance
  <1>7. ASSUME NEW w \in workers, NEW t \in Time, RefuseReport(w, t) PROVE AttemptsBounded'
    BY <1>7 DEF RefuseReport
  <1>8. ASSUME NEW k \in Keys, NEW t \in Time,
               RetryInterruptedMemoryJob(k, jobs[k].revision, t)
        PROVE AttemptsBounded'
    BY <1>8 DEF RetryInterruptedMemoryJob, RetryAllowed, Retried
  <1>9. ASSUME NEW S \in SUBSET Keys, CancelMemoryJobs(S) PROVE AttemptsBounded'
    BY <1>9 DEF CancelMemoryJobs, Cancelled, Advance
  <1>10. CASE UNCHANGED vars
    BY <1>10 DEF vars
  <1> QED
    BY <1>1, <1>2, <1>3, <1>4, <1>5, <1>6, <1>7, <1>8, <1>9, <1>10 DEF Next

\* No sequence of claims, crashes and retries takes a job past the attempt
\* bound or queues it where the claim query would never look.
THEOREM AttemptsStayBounded == Spec => []AttemptsBounded
  BY TypeInit, TypeStep, AttemptsInit, AttemptsStep, PTL DEF Spec

---------------------------------------------------------------------------
(* One live job per input *)

\* The empty table has no live rows.
LEMMA OneLiveInit == Init => OneLiveJobPerInput
  BY DEF Init, OneLiveJobPerInput, EmptyTable, NoRow, LiveStates

\* Only an enqueue or a retry makes a row live, and each looks for another
\* live row with the same input first.
LEMMA OneLiveStep == TypeOK /\ OneLiveJobPerInput /\ [Next]_vars => OneLiveJobPerInput'
  <1> SUFFICES ASSUME TypeOK, OneLiveJobPerInput, [Next]_vars PROVE OneLiveJobPerInput'
    OBVIOUS
  <1> USE DEF TypeOK, OneLiveJobPerInput, LiveStates
  <1>1. ASSUME NEW k \in Keys, NEW t \in Time, EnqueueMemoryJob(k, t) PROVE OneLiveJobPerInput'
    BY <1>1 DEF EnqueueMemoryJob, EnqueueAllowed, InputIsFree, Enqueued
  <1>2. ASSUME NEW t \in Time, ClaimNextMemoryJob(t) PROVE OneLiveJobPerInput'
    <2>1. PICK k \in OldestClaimable(jobs, t) : jobs' = Claimed(jobs, k, t)
      BY <1>2 DEF ClaimNextMemoryJob
    <2>2. k \in Keys /\ jobs[k].state = "queued"
      BY DEF OldestClaimable, Claimable
    <2> QED
      BY <2>1, <2>2 DEF Claimed
  <1>3. ASSUME RecoverRunningMemoryJobs PROVE OneLiveJobPerInput'
    BY <1>3 DEF RecoverRunningMemoryJobs, Recovered, Advance
  <1>4. ASSUME NEW w \in workers, NEW t \in Time, InterruptMemoryJob(w, t) PROVE OneLiveJobPerInput'
    BY <1>4 DEF InterruptMemoryJob, Interrupted, Advance
  <1>5. ASSUME NEW w \in workers, NEW t \in Time, NEW o \in {"failed", "cancelled"},
               FinishMemoryJob(w, o, t)
        PROVE OneLiveJobPerInput'
    BY <1>5 DEF FinishMemoryJob, Finished, Advance
  <1>6. ASSUME NEW w \in workers, NEW t \in Time, CompleteMemoryJob(w, t) PROVE OneLiveJobPerInput'
    BY <1>6 DEF CompleteMemoryJob, Succeeded, Advance
  <1>7. ASSUME NEW w \in workers, NEW t \in Time, RefuseReport(w, t) PROVE OneLiveJobPerInput'
    BY <1>7 DEF RefuseReport
  <1>8. ASSUME NEW k \in Keys, NEW t \in Time,
               RetryInterruptedMemoryJob(k, jobs[k].revision, t)
        PROVE OneLiveJobPerInput'
    BY <1>8 DEF RetryInterruptedMemoryJob, RetryAllowed, InputIsFree, Retried
  <1>9. ASSUME NEW S \in SUBSET Keys, CancelMemoryJobs(S) PROVE OneLiveJobPerInput'
    BY <1>9 DEF CancelMemoryJobs, Cancelled, Advance
  <1>10. CASE UNCHANGED vars
    BY <1>10 DEF vars
  <1> QED
    BY <1>1, <1>2, <1>3, <1>4, <1>5, <1>6, <1>7, <1>8, <1>9, <1>10 DEF Next

\* Two rows with the same immutable input are never queued or running
\* together.
THEOREM OneLiveJobStays == Spec => []OneLiveJobPerInput
  BY TypeInit, TypeStep, OneLiveInit, OneLiveStep, PTL DEF Spec
---------------------------------------------------------------------------
(* What a step does to one row *)

\* A key that was never inserted has revision 0 and no attempt.
AbsentRowsAreNew ==
    \A k \in Keys : jobs[k].state = "absent" => (jobs[k].revision = 0 /\ jobs[k].starts = <<>>)

\* Row k rests or makes one of the schema's legal moves.
RowMoves(k) ==
    \/ jobs'[k] = jobs[k]
    \/ /\ jobs'[k].state \in Lifecycle!LegalMoves[jobs[k].state]
       /\ jobs'[k].revision = jobs[k].revision + 1
       /\ jobs'[k].state # "absent"

\* No attempt list changes and no row starts to run.
NothingStarts ==
    \A k \in Keys : /\ jobs'[k].starts = jobs[k].starts
                    /\ jobs'[k].state = "running" => jobs[k].state = "running"

\* Every step of the queue moves every row legally, and a step that is not
\* a claim starts nothing.
LEMMA RowStep ==
    ASSUME TypeOK, AbsentRowsAreNew, [Next]_vars
    PROVE  /\ \A k \in Keys : RowMoves(k)
           /\ NothingStarts \/ \E t \in Time : ClaimNextMemoryJob(t)
  <1> USE DEF TypeOK, Rows, RowMoves, NothingStarts, Lifecycle!LegalMoves
  <1> DEFINE Goal == /\ \A k \in Keys : RowMoves(k)
                     /\ NothingStarts \/ \E t \in Time : ClaimNextMemoryJob(t)
  <1>1. ASSUME NEW k \in Keys, NEW t \in Time, EnqueueMemoryJob(k, t) PROVE Goal
    BY <1>1 DEF EnqueueMemoryJob, EnqueueAllowed, Enqueued, AbsentRowsAreNew
  <1>2. ASSUME NEW t \in Time, ClaimNextMemoryJob(t) PROVE Goal
    <2>1. PICK k \in OldestClaimable(jobs, t) : jobs' = Claimed(jobs, k, t)
      BY <1>2 DEF ClaimNextMemoryJob
    <2>2. k \in Keys /\ jobs[k].state = "queued"
      BY DEF OldestClaimable, Claimable
    <2>3. \A j \in Keys : RowMoves(j)
      BY <2>1, <2>2 DEF Claimed
    <2> QED
      BY <1>2, <2>3
  <1>3. ASSUME RecoverRunningMemoryJobs PROVE Goal
    BY <1>3 DEF RecoverRunningMemoryJobs, Recovered, Advance
  <1>4. ASSUME NEW w \in workers, NEW t \in Time, InterruptMemoryJob(w, t) PROVE Goal
    BY <1>4 DEF InterruptMemoryJob, ReportAccepted, Interrupted, Advance
  <1>5. ASSUME NEW w \in workers, NEW t \in Time, NEW o \in {"failed", "cancelled"},
               FinishMemoryJob(w, o, t)
        PROVE Goal
    BY <1>5 DEF FinishMemoryJob, ReportAccepted, Finished, Advance
  <1>6. ASSUME NEW w \in workers, NEW t \in Time, CompleteMemoryJob(w, t) PROVE Goal
    BY <1>6 DEF CompleteMemoryJob, ReportAccepted, Succeeded, Advance
  <1>7. ASSUME NEW w \in workers, NEW t \in Time, RefuseReport(w, t) PROVE Goal
    BY <1>7 DEF RefuseReport
  <1>8. ASSUME NEW k \in Keys, NEW t \in Time,
               RetryInterruptedMemoryJob(k, jobs[k].revision, t)
        PROVE Goal
    BY <1>8 DEF RetryInterruptedMemoryJob, RetryAllowed, Retried
  <1>9. ASSUME NEW S \in SUBSET Keys, CancelMemoryJobs(S) PROVE Goal
    BY <1>9 DEF CancelMemoryJobs, Cancelled, CancellableStates, Advance
  <1>10. CASE UNCHANGED vars
    BY <1>10 DEF vars
  <1> QED
    BY <1>1, <1>2, <1>3, <1>4, <1>5, <1>6, <1>7, <1>8, <1>9, <1>10 DEF Next

\* Rows that do not exist yet have revision 0 and no attempts.
LEMMA AbsentInit == Init => AbsentRowsAreNew
  BY DEF Init, AbsentRowsAreNew, EmptyTable, NoRow

\* No step removes a row, so an absent row was never written.
LEMMA AbsentStep == TypeOK /\ AbsentRowsAreNew /\ [Next]_vars => AbsentRowsAreNew'
  <1> SUFFICES ASSUME TypeOK, AbsentRowsAreNew, [Next]_vars,
                      NEW k \in Keys, jobs'[k].state = "absent"
               PROVE  jobs'[k].revision = 0 /\ jobs'[k].starts = <<>>
    BY DEF AbsentRowsAreNew
  <1>1. jobs'[k] = jobs[k]
    BY RowStep DEF RowMoves
  <1> QED
    BY <1>1 DEF AbsentRowsAreNew

---------------------------------------------------------------------------
(* The queue implements the lifecycle the schema's triggers enforce *)

\* Every transaction of the queue is a write the triggers of migration 0015
\* accept: the refinement the runs check on small tables.
THEOREM QueueImplementsLifecycle == Spec => LifecycleSpec
  <1>1. Init => Lifecycle!Init
    BY DEF Init, EmptyTable, NoRow, Lifecycle!Init
  <1>2. TypeOK /\ AbsentRowsAreNew /\ [Next]_vars
          => [Lifecycle!Write]_<<[k \in Keys |-> jobs[k].state], [k \in Keys |-> jobs[k].revision]>>
    <2> SUFFICES ASSUME TypeOK, AbsentRowsAreNew, [Next]_vars
                 PROVE  Lifecycle!Write
      OBVIOUS
    <2>1. \A k \in Keys : RowMoves(k)
      BY RowStep
    <2> QED
      BY <2>1 DEF RowMoves, Lifecycle!Write, Lifecycle!Moves, Lifecycle!Rests
  <1> QED
    BY <1>1, <1>2, TypeInit, TypeStep, AbsentInit, AbsentStep, PTL
       DEF Spec, LifecycleSpec, Lifecycle!Spec
---------------------------------------------------------------------------
(* Only the latest claim reports *)

\* A claim's revision was on the row when the claim was made, and a row's
\* revision only grows.
ClaimsArePast == \A w \in workers : w.revision <= jobs[w.job].revision

\* No step lowers the CAS revision of a row.
LEMMA RevisionsGrow ==
    ASSUME TypeOK, AbsentRowsAreNew, [Next]_vars, NEW k \in Keys
    PROVE  jobs'[k].revision >= jobs[k].revision
  <1>1. RowMoves(k)
    BY RowStep
  <1> QED
    BY <1>1 DEF RowMoves, TypeOK, Rows

\* There are no claims at first.
LEMMA ClaimsInit == Init => ClaimsArePast
  BY DEF Init, ClaimsArePast

\* A new claim holds the revision it wrote, and revisions only grow.
LEMMA ClaimsStep ==
    TypeOK /\ TypeOK' /\ AbsentRowsAreNew /\ ClaimsArePast /\ [Next]_vars => ClaimsArePast'
  <1> SUFFICES ASSUME TypeOK, TypeOK', AbsentRowsAreNew, ClaimsArePast, [Next]_vars,
                      NEW w \in workers'
               PROVE  w.revision <= jobs'[w.job].revision
    BY DEF ClaimsArePast
  <1>1. CASE w \in workers
    <2>1. w.revision <= jobs[w.job].revision /\ w.job \in Keys
      BY <1>1 DEF ClaimsArePast, TypeOK
    <2>2. jobs'[w.job].revision >= jobs[w.job].revision
      BY <2>1, RevisionsGrow
    <2>3. jobs[w.job].revision \in Nat /\ jobs'[w.job].revision \in Nat /\ w.revision \in Nat
      BY <2>1, <1>1 DEF TypeOK, Rows
    <2> QED
      BY <2>1, <2>2, <2>3
  <1>2. CASE w \notin workers
    <2>1. PICK t \in Time : ClaimNextMemoryJob(t)
      BY <1>2 DEF Next, vars, EnqueueMemoryJob, RecoverRunningMemoryJobs, InterruptMemoryJob,
                  FinishMemoryJob, CompleteMemoryJob, RefuseReport,
                  RetryInterruptedMemoryJob, CancelMemoryJobs
    <2>2. PICK k \in OldestClaimable(jobs, t) :
            /\ jobs' = Claimed(jobs, k, t)
            /\ workers' = workers \union {[job |-> k, revision |-> jobs[k].revision + 1]}
      BY <2>1 DEF ClaimNextMemoryJob
    <2>3. k \in Keys /\ w = [job |-> k, revision |-> jobs[k].revision + 1]
      BY <1>2, <2>2 DEF OldestClaimable
    <2> QED
      BY <2>2, <2>3 DEF Claimed, TypeOK, Rows
  <1> QED
    BY <1>1, <1>2

\* A report changes a row only when it carries the row's latest claim: the
\* worker of an attempt that was recovered and retried cannot settle the
\* attempt of its successor.
THEOREM LatestClaimReports == Spec => OnlyLatestClaimReports
  <1> DEFINE Report(w) == (w \notin workers' /\ jobs'[w.job] # jobs[w.job])
                             => \A v \in workers : v.job = w.job => v.revision <= w.revision
  <1>1. TypeOK /\ ClaimsArePast /\ [Next]_vars => [\A w \in workers : Report(w)]_vars
    <2> SUFFICES ASSUME TypeOK, ClaimsArePast, [Next]_vars,
                        NEW w \in workers, w \notin workers', jobs'[w.job] # jobs[w.job],
                        NEW v \in workers, v.job = w.job
                 PROVE  v.revision <= w.revision
      OBVIOUS
    <2>1. \E u \in workers, t \in Time :
              ReportAccepted(jobs, u.job, u.revision, t) /\ workers' = workers \ {u}
      BY DEF Next, vars, EnqueueMemoryJob, ClaimNextMemoryJob, RecoverRunningMemoryJobs,
             InterruptMemoryJob, FinishMemoryJob, CompleteMemoryJob, RefuseReport,
             RetryInterruptedMemoryJob, CancelMemoryJobs
    <2>2. jobs[w.job].revision = w.revision
      BY <2>1 DEF ReportAccepted
    <2> QED
      BY <2>2 DEF ClaimsArePast
  <1> QED
    BY <1>1, TypeInit, TypeStep, AbsentInit, AbsentStep, ClaimsInit, ClaimsStep, PTL
       DEF Spec, OnlyLatestClaimReports

---------------------------------------------------------------------------
(* Concurrency and the durable rate window *)

\* The running rows of a profile are a finite set.
LEMMA RunningFinite ==
    ASSUME NEW T, NEW p
    PROVE  /\ IsFiniteSet(RunningOf(T, p))
           /\ Cardinality(RunningOf(T, p)) \in Nat
  <1>1. RunningOf(T, p) \subseteq Keys
    BY DEF RunningOf
  <1> QED
    BY <1>1, KeysAssumption, FS_Subset, FS_CardinalityType

\* The attempt starts a claim counts are a finite set.
LEMMA StartsFinite ==
    ASSUME NEW T, NEW p, NEW t
    PROVE  /\ IsFiniteSet(StartsAfter(T, p, t))
           /\ Cardinality(StartsAfter(T, p, t)) \in Nat
  <1>1. IsFiniteSet(1 .. MaxAttempts)
    BY LimitsAssumption, FS_Interval
  <1>2. IsFiniteSet(Keys \X (1 .. MaxAttempts))
    BY <1>1, KeysAssumption, FS_Product
  <1>3. StartsAfter(T, p, t) \subseteq Keys \X (1 .. MaxAttempts)
    BY DEF StartsAfter
  <1> QED
    BY <1>2, <1>3, FS_Subset, FS_CardinalityType

\* A set that gains at most one element gains at most one in cardinality.
LEMMA OneMore ==
    ASSUME NEW A, NEW B, NEW x, IsFiniteSet(A), B \subseteq A \union {x}
    PROVE  /\ IsFiniteSet(B)
           /\ Cardinality(B) \in Nat
           /\ Cardinality(A) \in Nat
           /\ Cardinality(B) <= Cardinality(A) + 1
  <1>1. /\ IsFiniteSet(A \union {x})
        /\ Cardinality(A \union {x}) <= Cardinality(A) + 1
        /\ Cardinality(A) \in Nat
    BY FS_AddElement, FS_CardinalityType
  <1>2. /\ IsFiniteSet(B)
        /\ Cardinality(B) <= Cardinality(A \union {x})
        /\ Cardinality(B) \in Nat
        /\ Cardinality(A \union {x}) \in Nat
    BY <1>1, FS_Subset, FS_CardinalityType
  <1> QED
    BY <1>1, <1>2

\* Nothing runs in the empty table.
LEMMA ConcurrencyInit == Init => ConcurrencyBounded
  <1> SUFFICES ASSUME Init, NEW p \in TaskProfiles
               PROVE  Cardinality(RunningOf(jobs, p)) <= ConcurrencyLimit[p]
    BY DEF ConcurrencyBounded
  <1>1. RunningOf(jobs, p) = {}
    BY DEF Init, EmptyTable, NoRow, RunningOf
  <1> QED
    BY <1>1, FS_EmptySet, LimitsAssumption

\* Only a claim adds a running row, and it counts the others first.
LEMMA ConcurrencyStep ==
    TypeOK /\ AbsentRowsAreNew /\ ConcurrencyBounded /\ [Next]_vars => ConcurrencyBounded'
  <1> SUFFICES ASSUME TypeOK, AbsentRowsAreNew, ConcurrencyBounded, [Next]_vars,
                      NEW p \in TaskProfiles
               PROVE  Cardinality(RunningOf(jobs', p)) <= ConcurrencyLimit[p]
    BY DEF ConcurrencyBounded, RunningOf
  <1>0. /\ ConcurrencyLimit[p] \in Nat
        /\ Cardinality(RunningOf(jobs, p)) \in Nat
        /\ Cardinality(RunningOf(jobs, p)) <= ConcurrencyLimit[p]
    BY LimitsAssumption, RunningFinite DEF ConcurrencyBounded
  <1>1. CASE RunningOf(jobs', p) \subseteq RunningOf(jobs, p)
    <2>1. /\ Cardinality(RunningOf(jobs', p)) <= Cardinality(RunningOf(jobs, p))
          /\ Cardinality(RunningOf(jobs', p)) \in Nat
      BY <1>1, RunningFinite, FS_Subset
    <2> QED
      BY <2>1, <1>0
  <1>2. CASE NothingStarts
    <2>1. RunningOf(jobs', p) \subseteq RunningOf(jobs, p)
      BY <1>2 DEF NothingStarts, RunningOf
    <2> QED
      BY <2>1, <1>1
  <1>3. ASSUME NEW t \in Time, ClaimNextMemoryJob(t)
        PROVE  Cardinality(RunningOf(jobs', p)) <= ConcurrencyLimit[p]
    <2>1. PICK k \in OldestClaimable(jobs, t) : jobs' = Claimed(jobs, k, t)
      BY <1>3 DEF ClaimNextMemoryJob
    <2>2. /\ k \in Keys
          /\ Cardinality(RunningOf(jobs, ProfileOf[k])) < ConcurrencyLimit[ProfileOf[k]]
      BY DEF OldestClaimable, Claimable
    <2>3. CASE p = ProfileOf[k]
      <3>1. RunningOf(jobs', p) \subseteq RunningOf(jobs, p) \union {k}
        BY <2>1 DEF Claimed, RunningOf, TypeOK
      <3> HIDE DEF RunningOf
      <3>2. /\ Cardinality(RunningOf(jobs', p)) <= Cardinality(RunningOf(jobs, p)) + 1
            /\ Cardinality(RunningOf(jobs', p)) \in Nat
        BY <3>1, RunningFinite, OneMore
      <3> QED
        BY <3>2, <2>2, <2>3, <1>0
    <2>4. CASE p # ProfileOf[k]
      <3>1. RunningOf(jobs', p) \subseteq RunningOf(jobs, p)
        BY <2>1, <2>4 DEF Claimed, RunningOf, TypeOK
      <3> QED
        BY <3>1, <1>1
    <2> QED
      BY <2>3, <2>4
  <1> QED
    BY <1>2, <1>3, RowStep

\* A task-profile revision never runs more jobs than its concurrency limit.
THEOREM ConcurrencyStaysBounded == Spec => []ConcurrencyBounded
  BY TypeInit, TypeStep, AbsentInit, AbsentStep, ConcurrencyInit, ConcurrencyStep, PTL DEF Spec

\* Nothing has started in the empty table.
LEMMA RateInit == Init => RateWindowBounded
  <1> SUFFICES ASSUME Init, NEW p \in TaskProfiles, NEW t \in Time
               PROVE  Cardinality(StartsInWindow(jobs, p, t)) <= RateLimitRequests[p]
    BY DEF RateWindowBounded
  <1>1. StartsInWindow(jobs, p, t) = {}
    BY DEF Init, EmptyTable, NoRow, StartsInWindow, StartsAfter, Attempts
  <1> QED
    BY <1>1, FS_EmptySet, LimitsAssumption

\* The argument of the step.  Of the starts in a window that contains the
\* claim's own start, all the others lie after now - window, because the
\* window ends at now or later: the claim's query has counted them.
LEMMA RateStep ==
    TypeOK /\ AttemptsBounded /\ AbsentRowsAreNew /\ RateWindowBounded /\ [Next]_vars
      => RateWindowBounded'
  <1> SUFFICES ASSUME TypeOK, AttemptsBounded, AbsentRowsAreNew, RateWindowBounded, [Next]_vars,
                      NEW p \in TaskProfiles, NEW t \in Time
               PROVE  Cardinality(StartsInWindow(jobs', p, t)) <= RateLimitRequests[p]
    BY DEF RateWindowBounded, StartsInWindow, StartsAfter, Attempts
  <1> DEFINE Before == StartsInWindow(jobs, p, t)
             After == StartsInWindow(jobs', p, t)
             W == RateLimitWindow[p]
  <1>0. /\ RateLimitRequests[p] \in Nat
        /\ W \in Nat
        /\ t \in Int
        /\ Cardinality(Before) <= RateLimitRequests[p]
    BY LimitsAssumption, TimeAssumption DEF RateWindowBounded
  <1>1. IsFiniteSet(Before)
    <2>1. Before \subseteq StartsAfter(jobs, p, t - W)
      BY DEF StartsInWindow
    <2> QED
      BY <2>1, StartsFinite, FS_Subset
  <1>2. CASE After \subseteq Before
    <2>1. /\ Cardinality(After) <= Cardinality(Before)
          /\ Cardinality(After) \in Nat
          /\ Cardinality(Before) \in Nat
      BY <1>1, <1>2, FS_Subset, FS_CardinalityType
    <2> QED
      BY <2>1, <1>0
  <1>3. CASE NothingStarts
    <2>1. After \subseteq Before
      BY <1>3 DEF NothingStarts, StartsInWindow, StartsAfter, Attempts
    <2> QED
      BY <2>1, <1>2
  <1>4. ASSUME NEW now \in Time, ClaimNextMemoryJob(now)
        PROVE  Cardinality(After) <= RateLimitRequests[p]
    <2>1. PICK k \in OldestClaimable(jobs, now) : jobs' = Claimed(jobs, k, now)
      BY <1>4 DEF ClaimNextMemoryJob
    <2>2. /\ k \in Keys
          /\ Cardinality(StartsAfter(jobs, ProfileOf[k], now - RateLimitWindow[ProfileOf[k]]))
               < RateLimitRequests[ProfileOf[k]]
      BY DEF OldestClaimable, Claimable
    <2> DEFINE n == Len(jobs[k].starts) + 1
    <2>3. /\ \A j \in Keys : j # k => jobs'[j] = jobs[j]
          /\ Len(jobs[k].starts) \in Nat
          /\ jobs'[k].starts = Append(jobs[k].starts, now)
          /\ Len(jobs'[k].starts) = n
          /\ jobs'[k].starts[n] = now
          /\ \A i \in 1 .. MaxAttempts : i < n => jobs'[k].starts[i] = jobs[k].starts[i]
      <3>1. jobs[k].starts \in Seq(Time)
        BY <2>2 DEF TypeOK, Rows
      <3>2. jobs'[k].starts = Append(jobs[k].starts, now) /\ \A j \in Keys : j # k => jobs'[j] = jobs[j]
        BY <2>1, <2>2 DEF Claimed, TypeOK
      <3> QED
        BY <3>1, <3>2, LimitsAssumption
    <2>4. now \in Int
      BY TimeAssumption
    \* every start after the step but the new one was there before
    <2>5. \A a \in After : a # <<k, n>> =>
              /\ a \in Keys \X (1 .. MaxAttempts)
              /\ ProfileOf[a[1]] = p
              /\ a[2] <= Attempts(jobs, a[1])
              /\ jobs[a[1]].starts[a[2]] = jobs'[a[1]].starts[a[2]]
              /\ jobs[a[1]].starts[a[2]] > t - W
              /\ jobs[a[1]].starts[a[2]] <= t
              /\ jobs[a[1]].starts[a[2]] \in Int
      <3> SUFFICES ASSUME NEW j \in Keys, NEW i \in 1 .. MaxAttempts,
                          <<j, i>> \in After, <<j, i>> # <<k, n>>
                   PROVE  /\ ProfileOf[j] = p
                          /\ i <= Attempts(jobs, j)
                          /\ jobs[j].starts[i] = jobs'[j].starts[i]
                          /\ jobs[j].starts[i] > t - W
                          /\ jobs[j].starts[i] <= t
                          /\ jobs[j].starts[i] \in Int
        BY DEF StartsInWindow, StartsAfter
      <3>1. /\ ProfileOf[j] = p
            /\ i <= Len(jobs'[j].starts)
            /\ jobs'[j].starts[i] > t - W
            /\ jobs'[j].starts[i] <= t
        BY DEF StartsInWindow, StartsAfter, Attempts
      <3>2. i <= Len(jobs[j].starts) /\ jobs[j].starts[i] = jobs'[j].starts[i]
        <4>1. CASE j = k
          BY <4>1, <3>1, <2>3, LimitsAssumption
        <4>2. CASE j # k
          BY <4>2, <3>1, <2>3
        <4> QED
          BY <4>1, <4>2
      <3>3. jobs[j].starts \in Seq(Time) /\ i \in 1 .. Len(jobs[j].starts)
        BY <3>2, LimitsAssumption DEF TypeOK, Rows
      <3>4. jobs[j].starts[i] \in Int
        <4>1. jobs[j].starts[i] \in Time
          BY <3>3
        <4> QED
          BY <4>1, TimeAssumption
      <3> QED
        BY <3>1, <3>2, <3>4 DEF Attempts
    <2>6. CASE <<k, n>> \notin After
      <3>1. After \subseteq Before
        BY <2>5, <2>6 DEF StartsInWindow, StartsAfter
      <3> QED
        BY <3>1, <1>2
    <2>7. CASE <<k, n>> \in After
      <3>1. ProfileOf[k] = p /\ now <= t
        BY <2>3, <2>7 DEF StartsInWindow, StartsAfter
      <3>2. After \subseteq StartsAfter(jobs, p, now - W) \union {<<k, n>>}
        <4> SUFFICES ASSUME NEW a \in After, a # <<k, n>>
                     PROVE  a \in StartsAfter(jobs, p, now - W)
          OBVIOUS
        <4>1. jobs[a[1]].starts[a[2]] > now - W
          BY <2>4, <2>5, <3>1, <1>0
        <4> QED
          BY <4>1, <2>5 DEF StartsAfter
      <3>3. /\ Cardinality(After) <= Cardinality(StartsAfter(jobs, p, now - W)) + 1
            /\ Cardinality(After) \in Nat
            /\ Cardinality(StartsAfter(jobs, p, now - W)) \in Nat
        <4>1. IsFiniteSet(StartsAfter(jobs, p, now - W))
          BY StartsFinite
        <4> HIDE DEF After, W, n
        <4> QED
          BY <3>2, <4>1, OneMore
      <3> QED
        BY <3>1, <3>3, <2>2, <1>0
    <2> QED
      BY <2>6, <2>7
  <1> QED
    BY <1>3, <1>4, RowStep

\* Whatever the clock shows from call to call, and through crashes, retries
\* and cancellations, no window of the profile's length holds more attempt
\* starts than the profile's limit.
THEOREM RateWindowStaysBounded == Spec => []RateWindowBounded
  BY TypeInit, TypeStep, AttemptsInit, AttemptsStep, AbsentInit, AbsentStep,
     RateInit, RateStep, PTL DEF Spec

\* The queue is consistent in every state: attempts and running jobs within
\* their limits, one live job for each input.
THEOREM QueueIsConsistent == Spec => []QueueInv
  <1>1. TypeOK /\ AttemptsBounded /\ ConcurrencyBounded /\ OneLiveJobPerInput => QueueInv
    BY DEF QueueInv
  <1> QED
    BY <1>1, TypeCorrect, AttemptsStayBounded, ConcurrencyStaysBounded, OneLiveJobStays, PTL
===========================================================================

---------------------------- MODULE MemoryQueue ----------------------------
(***************************************************************************)
(* The memory queue of crates/storage as a component: any number of        *)
(* callers enqueue, claim, report, retry, cancel and recover through its   *)
(* public operations, each one immediate SQLite transaction.  A caller     *)
(* that has claimed a job holds the revision its claim returned and may    *)
(* report with it at any later time, also after the row was recovered,     *)
(* retried and claimed again by somebody else.  The clock is arbitrary: it *)
(* may stand still or go back between two calls.                           *)
(***************************************************************************)
EXTENDS MemoryJobTable

VARIABLES
    jobs,     \* the memory_jobs table
    workers   \* claims whose holder has not reported yet: [job, revision]

vars == <<jobs, workers>>

Init ==
    /\ jobs = EmptyTable
    /\ workers = {}

---------------------------------------------------------------------------
EnqueueMemoryJob(k, availableAt) ==
    /\ EnqueueAllowed(jobs, k)
    /\ jobs' = Enqueued(jobs, k, availableAt)
    /\ UNCHANGED workers

ClaimNextMemoryJob(now) ==
    \E k \in OldestClaimable(jobs, now) :
        /\ jobs' = Claimed(jobs, k, now)
        /\ workers' = workers \union {[job |-> k, revision |-> jobs[k].revision + 1]}

RecoverRunningMemoryJobs ==
    /\ jobs' = Recovered(jobs)
    /\ UNCHANGED workers

InterruptMemoryJob(w, now) ==
    /\ ReportAccepted(jobs, w.job, w.revision, now)
    /\ jobs' = Interrupted(jobs, w.job)
    /\ workers' = workers \ {w}

FinishMemoryJob(w, outcome, now) ==
    /\ ReportAccepted(jobs, w.job, w.revision, now)
    /\ jobs' = Finished(jobs, w.job, outcome)
    /\ workers' = workers \ {w}

CompleteMemoryJob(w, now) ==
    /\ ReportAccepted(jobs, w.job, w.revision, now)
    /\ jobs' = Succeeded(jobs, w.job)
    /\ workers' = workers \ {w}

\* A report that is not accepted leaves the table alone: it is answered with
\* an error or, when it repeats the completion that already succeeded under
\* the same revision, from the stored result.
RefuseReport(w, now) ==
    /\ ~ReportAccepted(jobs, w.job, w.revision, now)
    /\ workers' = workers \ {w}
    /\ UNCHANGED jobs

RetryInterruptedMemoryJob(k, expectedRevision, availableAt) ==
    /\ RetryAllowed(jobs, k, expectedRevision)
    /\ jobs' = Retried(jobs, k, availableAt)
    /\ UNCHANGED workers

\* A branch removal or a change of the record cancels the jobs of S.
CancelMemoryJobs(S) ==
    /\ jobs' = Cancelled(jobs, S)
    /\ UNCHANGED workers

Next ==
    \/ \E k \in Keys, t \in Time : EnqueueMemoryJob(k, t)
    \/ \E t \in Time : ClaimNextMemoryJob(t)
    \/ RecoverRunningMemoryJobs
    \/ \E w \in workers, t \in Time : InterruptMemoryJob(w, t)
    \/ \E w \in workers, t \in Time, o \in {"failed", "cancelled"} : FinishMemoryJob(w, o, t)
    \/ \E w \in workers, t \in Time : CompleteMemoryJob(w, t)
    \/ \E w \in workers, t \in Time : RefuseReport(w, t)
    \/ \E k \in Keys, t \in Time : RetryInterruptedMemoryJob(k, jobs[k].revision, t)
    \/ \E S \in SUBSET Keys : CancelMemoryJobs(S)

Spec == Init /\ [][Next]_vars

---------------------------------------------------------------------------
\* Rows and outstanding claims have the shape the code gives them.
TypeOK ==
    /\ jobs \in [Keys -> Rows]
    /\ workers \subseteq [job : Keys, revision : Nat]

\* An attempt list never outgrows the attempt bound, a row that runs, or may
\* be retried, has started at least once, and a queued row still has an
\* attempt left: the claim query skips rows at the bound, so a row queued
\* there would wait for ever.
AttemptsBounded ==
    \A k \in Keys :
        /\ Attempts(jobs, k) <= MaxAttempts
        /\ jobs[k].state = "queued" => Attempts(jobs, k) < MaxAttempts
        /\ jobs[k].state \in {"running", "interrupted"} => Attempts(jobs, k) >= 1

\* At most one queued or running job works on the same immutable input, also
\* when an interrupted job is retried after a second key took its input.
OneLiveJobPerInput ==
    \A j, k \in Keys :
        (j # k /\ InputOf[j] = InputOf[k])
            => ~(jobs[j].state \in LiveStates /\ jobs[k].state \in LiveStates)

\* No task-profile revision ever has more running jobs than its limit.
ConcurrencyBounded ==
    \A p \in TaskProfiles : Cardinality(RunningOf(jobs, p)) <= ConcurrencyLimit[p]

\* The attempt starts of a profile in the window of its rate limit that
\* ends at t.
StartsInWindow(T, p, t) ==
    {a \in StartsAfter(T, p, t - RateLimitWindow[p]) : T[a[1]].starts[a[2]] <= t}

\* The durable rate limit: whatever the clock did, crashes, retries and
\* cancellations included, no window of a profile's length holds more attempt
\* starts than the profile allows.
RateWindowBounded ==
    \A p \in TaskProfiles, t \in Time :
        Cardinality(StartsInWindow(jobs, p, t)) <= RateLimitRequests[p]

\* When a report changes a row, no younger claim of that row is outstanding:
\* a worker that was given up (recovery, retry, new claim) cannot settle the
\* attempt of its successor.
OnlyLatestClaimReports ==
    [][\A w \in workers :
         (w \notin workers' /\ jobs'[w.job] # jobs[w.job])
            => \A v \in workers : v.job = w.job => v.revision <= w.revision]_vars

\* Every transaction of the queue is one the schema's triggers accept.
Lifecycle == INSTANCE MemoryJobLifecycle WITH
    state <- [k \in Keys |-> jobs[k].state],
    revision <- [k \in Keys |-> jobs[k].revision]

LifecycleSpec == Lifecycle!Spec

\* The queue is consistent in every state, whatever the order of claims,
\* recoveries, retries, cancellations and stale reports: attempts and running
\* jobs are within their limits and every input has at most one live job.
QueueInv == TypeOK /\ AttemptsBounded /\ ConcurrencyBounded /\ OneLiveJobPerInput
===========================================================================

-------------------------- MODULE MemoryJobTable --------------------------
(***************************************************************************)
(* The durable memory-job table of crates/storage: what one row holds and  *)
(* what each queue transaction does to the table.  Every operator here is  *)
(* a function of the table value, so that the queue on its own             *)
(* (MemoryQueue) and the queue inside the application (MemoryRuntime) are  *)
(* built from the same transactions.                                       *)
(*                                                                         *)
(* Abstractions.  A job is named by its idempotency key (its id is a       *)
(* digest of that key).  InputOf is the fingerprint of its immutable input *)
(* together with kind, conversation, branch and source range: the columns  *)
(* of the partial unique index memory_jobs_one_live_input.  The attempts   *)
(* column and the payload's attempt_started_at list are only ever written  *)
(* together, so a row keeps the list and Attempts is its length.           *)
(* started_at is the list's last element while the row is running.         *)
(***************************************************************************)
EXTENDS Integers, Sequences, FiniteSets

CONSTANTS
    Keys,               \* idempotency keys of the memory jobs
    InputOf,            \* key -> immutable input (unique-index columns)
    TaskProfiles,       \* exact task-profile revisions
    ProfileOf,          \* key -> task-profile revision stored on the row
    ConcurrencyLimit,   \* task profile -> concurrency_limit
    RateLimitRequests,  \* task profile -> rate_limit_requests
    RateLimitWindow,    \* task profile -> rate_limit_per_seconds
    MaxAttempts,        \* MAX_MEMORY_JOB_ATTEMPTS (32 in the code)
    Time                \* the values the wall clock can show

ASSUME KeysAssumption ==
    /\ IsFiniteSet(Keys)
    /\ ProfileOf \in [Keys -> TaskProfiles]
    /\ DOMAIN InputOf = Keys

ASSUME LimitsAssumption ==
    /\ ConcurrencyLimit \in [TaskProfiles -> Nat \ {0}]
    /\ RateLimitRequests \in [TaskProfiles -> Nat \ {0}]
    /\ RateLimitWindow \in [TaskProfiles -> Nat \ {0}]
    /\ MaxAttempts \in Nat \ {0}

ASSUME TimeAssumption == Time \subseteq Int

---------------------------------------------------------------------------
LiveStates == {"queued", "running"}

CancellableStates == {"queued", "running", "interrupted"}

TerminalStates == {"succeeded", "failed", "cancelled"}

States == {"absent"} \union CancellableStates \union TerminalStates

Rows == [state : States, revision : Nat, available : Int, starts : Seq(Time)]

NoRow == [state |-> "absent", revision |-> 0, available |-> 0, starts |-> <<>>]

EmptyTable == [k \in Keys |-> NoRow]

Attempts(T, k) == Len(T[k].starts)

\* Every update of a row moves its state and bumps the CAS revision once.
Advance(row, state) ==
    [state |-> state, revision |-> row.revision + 1,
     available |-> row.available, starts |-> row.starts]

---------------------------------------------------------------------------
\* No other row with the same input is queued or running: what
\* find_live_memory_job_for_input looks up before an insert.
InputIsFree(T, k) ==
    \A j \in Keys : (j # k /\ InputOf[j] = InputOf[k]) => T[j].state \notin LiveStates

EnqueueAllowed(T, k) == T[k].state = "absent" /\ InputIsFree(T, k)

Enqueued(T, k, availableAt) ==
    [T EXCEPT ![k] = [state |-> "queued", revision |-> 1,
                      available |-> availableAt, starts |-> <<>>]]

---------------------------------------------------------------------------
RunningOf(T, p) == {k \in Keys : T[k].state = "running" /\ ProfileOf[k] = p}

\* The attempt starts of a profile later than t, over all rows in any state.
StartsAfter(T, p, t) ==
    {a \in Keys \X (1 .. MaxAttempts) :
        /\ ProfileOf[a[1]] = p
        /\ a[2] <= Attempts(T, a[1])
        /\ T[a[1]].starts[a[2]] > t}

\* Mutant of Claimable: starts stamped later than now are not counted.
ClaimableIgnoringLaterStarts(T, k, now) ==
    /\ T[k].state = "queued"
    /\ Attempts(T, k) < MaxAttempts
    /\ T[k].available <= now
    /\ Cardinality(RunningOf(T, ProfileOf[k])) < ConcurrencyLimit[ProfileOf[k]]
    /\ Cardinality(StartsAfter(T, ProfileOf[k], now - RateLimitWindow[ProfileOf[k]])
                     \ StartsAfter(T, ProfileOf[k], now))
         < RateLimitRequests[ProfileOf[k]]

Claimable(T, k, now) ==
    /\ T[k].state = "queued"
    /\ Attempts(T, k) < MaxAttempts
    /\ T[k].available <= now
    /\ Cardinality(RunningOf(T, ProfileOf[k])) < ConcurrencyLimit[ProfileOf[k]]
    /\ Cardinality(StartsAfter(T, ProfileOf[k], now - RateLimitWindow[ProfileOf[k]]))
         < RateLimitRequests[ProfileOf[k]]

\* ORDER BY available_at ... LIMIT 1.  Rows with equal available_at are
\* ordered by created_at and a digest; here either may come first.
OldestClaimable(T, now) ==
    {k \in Keys : /\ Claimable(T, k, now)
                  /\ \A j \in Keys : Claimable(T, j, now) => T[k].available <= T[j].available}

Claimed(T, k, now) ==
    [T EXCEPT ![k] = [state |-> "running", revision |-> T[k].revision + 1,
                      available |-> T[k].available, starts |-> Append(T[k].starts, now)]]

---------------------------------------------------------------------------
Recovered(T) ==
    [k \in Keys |-> IF T[k].state = "running" THEN Advance(T[k], "interrupted") ELSE T[k]]

\* Mutant of ReportAccepted: the claim's revision is not compared.
ReportAcceptedFromAnyone(T, k, expectedRevision, now) ==
    /\ T[k].state = "running"
    /\ now >= T[k].starts[Attempts(T, k)]

\* A worker's report (interrupt, finish, complete) is accepted when the row
\* is still running under the revision its claim returned and the clock has
\* not gone behind the durable start of the attempt.
ReportAccepted(T, k, expectedRevision, now) ==
    /\ T[k].revision = expectedRevision
    /\ T[k].state = "running"
    /\ now >= T[k].starts[Attempts(T, k)]

Interrupted(T, k) == [T EXCEPT ![k] = Advance(T[k], "interrupted")]

Finished(T, k, outcome) == [T EXCEPT ![k] = Advance(T[k], outcome)]

Succeeded(T, k) == [T EXCEPT ![k] = Advance(T[k], "succeeded")]

---------------------------------------------------------------------------
\* Mutant of RetryAllowed: no unique index behind the update.
RetryAllowedWithoutIndex(T, k, expectedRevision) ==
    /\ T[k].revision = expectedRevision
    /\ T[k].state = "interrupted"
    /\ Attempts(T, k) < MaxAttempts

\* The explicit retry: its own checks, then the partial unique index, which
\* makes the UPDATE fail when another live row has taken the input meanwhile.
RetryAllowed(T, k, expectedRevision) ==
    /\ T[k].revision = expectedRevision
    /\ T[k].state = "interrupted"
    /\ Attempts(T, k) < MaxAttempts
    /\ InputIsFree(T, k)

\* Mutant of Retried: the revision is not advanced.
RetriedAtSameRevision(T, k, availableAt) ==
    [T EXCEPT ![k].state = "queued", ![k].available = availableAt]

Retried(T, k, availableAt) ==
    [T EXCEPT ![k] = [state |-> "queued", revision |-> T[k].revision + 1,
                      available |-> availableAt, starts |-> T[k].starts]]

\* UPDATE ... SET state = 'cancelled' over the affected rows S.
Cancelled(T, S) ==
    [k \in Keys |-> IF k \in S /\ T[k].state \in CancellableStates
                    THEN Advance(T[k], "cancelled")
                    ELSE T[k]]
===========================================================================

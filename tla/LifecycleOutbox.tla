-------------------------- MODULE LifecycleOutbox --------------------------
(***************************************************************************)
(* The durable outbox of core lifecycle occurrences in crates/storage:     *)
(* what a row holds and what each transaction does to the table.  A        *)
(* conversation start, a conversation opening and the end of a generation  *)
(* each write their occurrences in the transaction that they report.       *)
(*                                                                         *)
(* A branch here is a conversation together with one of its branches.  The *)
(* occurrence id is a string; only its order matters, which is IdRank.  An *)
(* occurrence that is neither message_committed nor after_generation is    *)
(* the start or an opening of a conversation; the code treats both alike.  *)
(* No code inserts a before_generation occurrence any more.                *)
(***************************************************************************)
EXTENDS Integers, Sequences, FiniteSets

CONSTANTS
    Occurrences,         \* occurrence ids
    Branches,            \* conversation branches
    BranchOf,            \* occurrence -> branch
    IdRank,              \* occurrence -> place of its id in string order
    MessageCommitted,    \* occurrences of kind message_committed
    AfterGenerationOf,   \* message_committed -> after_generation of its generation
    Time,                \* the values the wall clock can show
    LeaseSeconds,        \* CORE_LIFECYCLE_LEASE_SECONDS (30 in the code)
    Horizon              \* bound: a retry time beyond it counts as Horizon

\* The ids are "after-generation:<generation>" and "message-committed:<message>",
\* so the first comes before the second in string order.
ASSUME OccurrencesAssumption ==
    /\ IsFiniteSet(Occurrences)
    /\ BranchOf \in [Occurrences -> Branches]
    /\ IdRank \in [Occurrences -> Nat]
    /\ \A o, p \in Occurrences : IdRank[o] = IdRank[p] => o = p
    /\ MessageCommitted \subseteq Occurrences
    /\ AfterGenerationOf \in [MessageCommitted -> Occurrences \ MessageCommitted]
    /\ \A m \in MessageCommitted :
         /\ BranchOf[AfterGenerationOf[m]] = BranchOf[m]
         /\ IdRank[AfterGenerationOf[m]] < IdRank[m]
    /\ \A m, n \in MessageCommitted : AfterGenerationOf[m] = AfterGenerationOf[n] => m = n

ASSUME ClockAssumption ==
    /\ Time \subseteq Int
    /\ Time # {}
    /\ LeaseSeconds \in Nat \ {0}
    /\ Horizon \in Int

---------------------------------------------------------------------------
Statuses == {"absent", "pending", "claimed", "acknowledged"}

Rows == [status : Statuses, attempts : Nat, occurred : Int, available : Int, lease : Int]

NoLease == 0

NoRow == [status |-> "absent", attempts |-> 0, occurred |-> 0,
          available |-> 0, lease |-> NoLease]

Durable(T) == {o \in Occurrences : T[o].status # "absent"}

Open(T, o) == T[o].status \in {"pending", "claimed"}

Inserted(T, S, t) ==
    [o \in Occurrences |->
        IF o \in S
        THEN [status |-> "pending", attempts |-> 0, occurred |-> t,
              available |-> t, lease |-> NoLease]
        ELSE T[o]]

---------------------------------------------------------------------------
\* Mutant of Earlier: at the same time, the greater id comes first.
EarlierByDescendingId(T, p, o) ==
    \/ T[p].occurred < T[o].occurred
    \/ T[p].occurred = T[o].occurred /\ IdRank[p] > IdRank[o]

\* The order of delivery: by time, then by id.
Earlier(T, p, o) ==
    \/ T[p].occurred < T[o].occurred
    \/ T[p].occurred = T[o].occurred /\ IdRank[p] < IdRank[o]

Precedes(T, p, o) == BranchOf[p] = BranchOf[o] /\ Earlier(T, p, o)

Due(T, o, now) ==
    \/ T[o].status = "pending" /\ T[o].available <= now
    \/ T[o].status = "claimed" /\ T[o].lease <= now

\* Mutant of Unblocked: a predecessor that somebody has claimed does not count.
UnblockedByClaimed(T, o) ==
    /\ \A p \in Occurrences : T[p].status = "pending" => ~Precedes(T, p, o)
    /\ o \in MessageCommitted => ~Open(T, AfterGenerationOf[o])

\* No open predecessor on the branch, and a message_committed occurrence also
\* waits for the after_generation occurrence of its generation.
Unblocked(T, o) ==
    /\ \A p \in Occurrences : Open(T, p) => ~Precedes(T, p, o)
    /\ o \in MessageCommitted => ~Open(T, AfterGenerationOf[o])

Claimable(T, o, now) == Due(T, o, now) /\ Unblocked(T, o)

\* The claim query with its ORDER BY and LIMIT 1.
NextClaimable(T, now) ==
    {o \in Occurrences :
        /\ Claimable(T, o, now)
        /\ \A p \in Occurrences : Claimable(T, p, now) => ~Earlier(T, p, o)}

\* Mutant of Claimed: reclaiming an expired lease does not count as a delivery.
ClaimedUnderSameToken(T, o, now) ==
    [T EXCEPT ![o] =
        [status |-> "claimed",
         attempts |-> IF T[o].status = "claimed" THEN T[o].attempts ELSE T[o].attempts + 1,
         occurred |-> T[o].occurred, available |-> now, lease |-> now + LeaseSeconds]]

Claimed(T, o, now) ==
    [T EXCEPT ![o] = [status |-> "claimed", attempts |-> T[o].attempts + 1,
                      occurred |-> T[o].occurred, available |-> now,
                      lease |-> now + LeaseSeconds]]

---------------------------------------------------------------------------
\* Mutant of TokenIsCurrent: any holder of a claim may settle it.
TokenOfAnyDelivery(T, o, token) == T[o].status = "claimed"

\* The row is still claimed under the delivery that settles it.
TokenIsCurrent(T, o, token) == T[o].status = "claimed" /\ T[o].attempts = token

Acknowledged(T, o) ==
    [T EXCEPT ![o] = [status |-> "acknowledged", attempts |-> T[o].attempts,
                      occurred |-> T[o].occurred, available |-> T[o].available,
                      lease |-> NoLease]]

\* core_lifecycle_retry_seconds: doubling from one second, 256 at most.
RetryDelays == <<1, 2, 4, 8, 16, 32, 64, 128, 256>>

RetrySeconds(attempts) ==
    RetryDelays[IF attempts < 1 THEN 1 ELSE IF attempts > 9 THEN 9 ELSE attempts]

RetryAt(now, attempts) ==
    IF now + RetrySeconds(attempts) > Horizon THEN Horizon ELSE now + RetrySeconds(attempts)

Released(row, t) ==
    [status |-> "pending", attempts |-> row.attempts, occurred |-> row.occurred,
     available |-> t, lease |-> NoLease]

Deferred(T, o, t) == [T EXCEPT ![o] = Released(T[o], t)]

ExpiredReleased(T, now) ==
    [o \in Occurrences |->
        IF T[o].status = "claimed" /\ T[o].lease <= now THEN Released(T[o], now) ELSE T[o]]

AllReleased(T, now) ==
    [o \in Occurrences |->
        IF T[o].status = "claimed" THEN Released(T[o], now) ELSE T[o]]
===========================================================================

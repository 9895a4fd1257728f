------------------------- MODULE LifecycleDelivery -------------------------
(***************************************************************************)
(* The delivery of lifecycle occurrences to the interaction rules.  The    *)
(* lifecycle supervisor and any number of command threads (a room that is  *)
(* reopened, a generation about to start, an action on an old message)     *)
(* drain the same outbox: claim one occurrence under a lease, apply its    *)
(* interaction event, request the memory summary, acknowledge.  Nothing    *)
(* but the lease keeps two of them from working on the same occurrence,    *)
(* and nothing renews a lease: a slow drainer and its successor may both   *)
(* be at work on one.  The process may end between any two transactions.   *)
(*                                                                         *)
(* An interaction event is committed under an idempotency key made of the  *)
(* occurrence, against the revision of the branch's interaction state that *)
(* it was reviewed at, and it leaves the state one revision further on:    *)
(* applied keeps that resulting revision.  The events that an event itself *)
(* derives are drained behind it; here that step only succeeds or fails.   *)
(***************************************************************************)
EXTENDS LifecycleOutbox

CONSTANTS
    Drainers,        \* threads that drain the outbox
    Supervisor,      \* the one among them that starts with the process
    MaxDeliveries,   \* bound: deliveries of one occurrence
    MaxFailures,     \* bound: deliveries of one occurrence that may fail
    MaxLost,         \* bound: deliveries of one occurrence that may stay unsettled
    MaxRevision,     \* bound: interaction state revision reached by other events
    MaxRestarts      \* bound: ends of the process

ASSUME DeliveryAssumption ==
    /\ Supervisor \in Drainers
    /\ MaxDeliveries \in Nat
    /\ MaxFailures \in Nat
    /\ MaxLost \in Nat
    /\ MaxRevision \in Nat
    /\ MaxRestarts \in Nat

VARIABLES
    outbox,      \* the core_lifecycle_outbox table
    applied,     \* occurrence -> resulting_state_revision of its event, 0 before
    revisions,   \* branch -> revision of its interaction state
    summaries,   \* message_committed occurrences whose summary was requested
    drainers,    \* drainer -> what it is doing
    clock,       \* the wall clock
    restarts,    \* ends of the process so far
    known        \* history: what was durable when an occurrence was first claimed

stored == <<outbox, applied, revisions, summaries>>
vars == <<stored, drainers, clock, restarts, known>>

Phases == {"starting", "idle", "lookup", "review", "commit", "derive",
           "summary", "acknowledge", "defer"}

Working == Phases \ {"starting", "idle"}

Work(phase, occurrence, token, event, revision) ==
    [phase |-> phase, occurrence |-> occurrence, token |-> token,
     event |-> event, revision |-> revision]

Resting(phase) == Work(phase, "none", 0, "none", 0)

Works == [phase : Phases, occurrence : Occurrences \union {"none"}, token : Nat,
          event : Occurrences \union {"none"}, revision : Nat]

\* The same work in another phase.
To(w, phase) == Work(phase, w.occurrence, w.token, w.event, w.revision)

Started == [d \in Drainers |-> Resting(IF d = Supervisor THEN "starting" ELSE "idle")]

Init ==
    /\ outbox = [o \in Occurrences |-> NoRow]
    /\ applied = [o \in Occurrences |-> 0]
    /\ revisions = [b \in Branches |-> 0]
    /\ summaries = {}
    /\ drainers = Started
    /\ clock \in Time
    /\ restarts = 0
    /\ known = [o \in Occurrences |-> {}]

---------------------------------------------------------------------------
(* What happens around the delivery *)

\* The occurrences one transaction inserts.  A generation whose message is
\* kept inserts both of its occurrences, otherwise only the first.
Batches ==
    {{o} : o \in Occurrences \ MessageCommitted}
        \union {{AfterGenerationOf[m], m} : m \in MessageCommitted}

\* occurred_at is read from the clock before the transaction begins, so it
\* may be older, or after a clock change newer, than what is stored already.
InsertOccurrences(S, t) ==
    /\ \A o \in S : outbox[o].status = "absent"
    /\ outbox' = Inserted(outbox, S, t)
    /\ UNCHANGED <<applied, revisions, summaries, drainers, clock, restarts, known>>

\* Another event of the branch: a choice of the user, a decision on a proposal,
\* a derived event.
ChangeInteractionState(b) ==
    /\ revisions[b] < MaxRevision
    /\ revisions' = [revisions EXCEPT ![b] = @ + 1]
    /\ UNCHANGED <<outbox, applied, summaries, drainers, clock, restarts, known>>

ClockMoves(t) ==
    /\ clock' = t
    /\ UNCHANGED <<stored, drainers, restarts, known>>

\* The process ends and Storage::open releases every claim of the last one.
Restart ==
    /\ restarts < MaxRestarts
    /\ restarts' = restarts + 1
    /\ outbox' = AllReleased(outbox, clock)
    /\ drainers' = Started
    /\ UNCHANGED <<applied, revisions, summaries, clock, known>>

---------------------------------------------------------------------------
(* One drainer *)

\* A step of d between two transactions on the outbox.
Moves(d, work) ==
    /\ drainers' = [drainers EXCEPT ![d] = work]
    /\ UNCHANGED <<outbox, clock, restarts, known>>

\* The supervisor task releases expired leases once, before its loop.
RecoverExpiredLeases(d) ==
    /\ drainers[d].phase = "starting"
    /\ outbox' = ExpiredReleased(outbox, clock)
    /\ drainers' = [drainers EXCEPT ![d] = Resting("idle")]
    /\ UNCHANGED <<applied, revisions, summaries, clock, restarts, known>>

\* A message_committed occurrence first replays the event of its generation.
FirstEvent(o) == IF o \in MessageCommitted THEN AfterGenerationOf[o] ELSE o

ClaimOccurrence(d) ==
    /\ drainers[d].phase = "idle"
    /\ \E o \in NextClaimable(outbox, clock) :
         /\ outbox[o].attempts < MaxDeliveries
         /\ outbox' = Claimed(outbox, o, clock)
         /\ drainers' = [drainers EXCEPT ![d] =
                Work("lookup", o, outbox[o].attempts + 1, FirstEvent(o), 0)]
         /\ known' = [known EXCEPT ![o] =
                IF outbox[o].attempts = 0 THEN Durable(outbox) ELSE known[o]]
    /\ UNCHANGED <<applied, revisions, summaries, clock, restarts>>

\* The event may have been committed by an earlier or a concurrent delivery.
LookUpEvent(d) ==
    /\ drainers[d].phase = "lookup"
    /\ Moves(d, To(drainers[d],
                   IF applied[drainers[d].event] # 0 THEN "derive" ELSE "review"))
    /\ UNCHANGED <<applied, revisions, summaries>>

\* The interaction state is read, and the event evaluated against it.
ReviewEvent(d) ==
    /\ drainers[d].phase = "review"
    /\ LET w == drainers[d] IN
       Moves(d, Work("commit", w.occurrence, w.token, w.event, revisions[BranchOf[w.event]]))
    /\ UNCHANGED <<applied, revisions, summaries>>

\* Mutant of CommitEvent: the idempotency key is not looked up again.
CommitEventUnchecked(d) ==
    /\ drainers[d].phase = "commit"
    /\ LET w == drainers[d]  b == BranchOf[w.event] IN
       /\ revisions[b] = w.revision
       /\ applied' = [applied EXCEPT ![w.event] = w.revision + 1]
       /\ revisions' = [revisions EXCEPT ![b] = w.revision + 1]
       /\ Moves(d, To(w, "derive"))
    /\ UNCHANGED summaries

\* Idempotency key and state revision are both checked in the transaction.
CommitEvent(d) ==
    /\ drainers[d].phase = "commit"
    /\ LET w == drainers[d]  b == BranchOf[w.event] IN
       /\ applied[w.event] = 0
       /\ revisions[b] = w.revision
       /\ applied' = [applied EXCEPT ![w.event] = w.revision + 1]
       /\ revisions' = [revisions EXCEPT ![b] = w.revision + 1]
       /\ Moves(d, To(w, "derive"))
    /\ UNCHANGED summaries

\* The same commit again, reviewed at the same revision, is an exact replay.
ReplayCommit(d) ==
    /\ drainers[d].phase = "commit"
    /\ applied[drainers[d].event] = drainers[d].revision + 1
    /\ Moves(d, To(drainers[d], "derive"))
    /\ UNCHANGED <<applied, revisions, summaries>>

\* The key is taken by a commit with another payload, or the state has moved.
CommitConflicts(d) ==
    /\ drainers[d].phase = "commit"
    /\ \/ applied[drainers[d].event] # 0
       \/ revisions[BranchOf[drainers[d].event]] # drainers[d].revision
    /\ Moves(d, To(drainers[d], "defer"))
    /\ UNCHANGED <<applied, revisions, summaries>>

\* What follows once an event and the events it derives are done.
AfterEvent(w) ==
    IF w.event # w.occurrence
    THEN Work("lookup", w.occurrence, w.token, w.occurrence, 0)
    ELSE To(w, IF w.occurrence \in MessageCommitted THEN "summary" ELSE "acknowledge")

DrainDerivedEvents(d) ==
    /\ drainers[d].phase = "derive"
    /\ Moves(d, AfterEvent(drainers[d]))
    /\ UNCHANGED <<applied, revisions, summaries>>

RequestSummary(d) ==
    /\ drainers[d].phase = "summary"
    /\ summaries' = summaries \union {drainers[d].occurrence}
    /\ Moves(d, To(drainers[d], "acknowledge"))
    /\ UNCHANGED <<applied, revisions>>

\* Any part of the processing may fail, also when the event was committed.
ProcessFails(d) ==
    /\ drainers[d].phase \in {"lookup", "review", "commit", "derive", "summary"}
    /\ drainers[d].token <= MaxFailures
    /\ Moves(d, To(drainers[d], "defer"))
    /\ UNCHANGED <<applied, revisions, summaries>>

HoldsToken(d) == TokenIsCurrent(outbox, drainers[d].occurrence, drainers[d].token)

AcknowledgeOccurrence(d) ==
    /\ drainers[d].phase = "acknowledge"
    /\ HoldsToken(d)
    /\ outbox' = Acknowledged(outbox, drainers[d].occurrence)
    /\ drainers' = [drainers EXCEPT ![d] = Resting("idle")]
    /\ UNCHANGED <<applied, revisions, summaries, clock, restarts, known>>

DeferOccurrence(d) ==
    /\ drainers[d].phase = "defer"
    /\ HoldsToken(d)
    /\ outbox' = Deferred(outbox, drainers[d].occurrence, RetryAt(clock, drainers[d].token))
    /\ drainers' = [drainers EXCEPT ![d] = Resting("idle")]
    /\ UNCHANGED <<applied, revisions, summaries, clock, restarts, known>>

\* The lease was lost to another delivery: the drain ends with a conflict.
SettleConflicts(d) ==
    /\ drainers[d].phase \in {"acknowledge", "defer"}
    /\ ~HoldsToken(d)
    /\ Moves(d, Resting("idle"))
    /\ UNCHANGED <<applied, revisions, summaries>>

\* The settling statement itself fails: the drain ends with the error and the
\* claim stays until its lease expires.
SettleIsLost(d) ==
    /\ drainers[d].phase \in {"acknowledge", "defer"}
    /\ drainers[d].token <= MaxLost
    /\ Moves(d, Resting("idle"))
    /\ UNCHANGED <<applied, revisions, summaries>>

Drains(d) ==
    \/ RecoverExpiredLeases(d)
    \/ ClaimOccurrence(d)
    \/ LookUpEvent(d)
    \/ ReviewEvent(d)
    \/ CommitEvent(d)
    \/ ReplayCommit(d)
    \/ CommitConflicts(d)
    \/ DrainDerivedEvents(d)
    \/ RequestSummary(d)
    \/ ProcessFails(d)
    \/ AcknowledgeOccurrence(d)
    \/ DeferOccurrence(d)
    \/ SettleConflicts(d)
    \/ SettleIsLost(d)

Next ==
    \/ \E S \in Batches, t \in Time : InsertOccurrences(S, t)
    \/ \E b \in Branches : ChangeInteractionState(b)
    \/ \E t \in Time : ClockMoves(t)
    \/ Restart
    \/ \E d \in Drainers : Drains(d)

Spec == Init /\ [][Next]_vars

\* For liveness the clock does not go back and does go on, and every thread
\* that can take a step of its drain takes one.
FairSpec ==
    /\ Init
    /\ [][Next /\ clock' >= clock]_vars
    /\ WF_vars(\E t \in Time : t > clock /\ ClockMoves(t))
    /\ \A d \in Drainers : WF_vars(Drains(d))

---------------------------------------------------------------------------
\* Rows, events and drainers have the shape the code gives them.
TypeOK ==
    /\ outbox \in [Occurrences -> Rows]
    /\ applied \in [Occurrences -> Nat]
    /\ revisions \in [Branches -> Nat]
    /\ summaries \subseteq Occurrences
    /\ drainers \in [Drainers -> Works]
    /\ \A d \in Drainers : drainers[d].phase \in Working =>
         /\ drainers[d].occurrence \in Occurrences
         /\ drainers[d].event \in {drainers[d].occurrence, FirstEvent(drainers[d].occurrence)}
    /\ clock \in Time
    /\ restarts \in Nat
    /\ known \in [Occurrences -> SUBSET Occurrences]

\* An acknowledged occurrence has had all of its consequences: its event is
\* committed, and for a kept message the event of its generation before it
\* and the request for its summary.  No crash, lost lease or failure between
\* them lets an acknowledgement through without one of them.
AcknowledgedIsApplied ==
    \A o \in Occurrences :
        outbox[o].status = "acknowledged" =>
            /\ applied[o] # 0
            /\ o \in MessageCommitted =>
                 /\ o \in summaries
                 /\ applied[AfterGenerationOf[o]] \in 1 .. applied[o] - 1

\* The event of an occurrence is committed at most once, although two
\* drainers may have looked it up and found nothing.
AppliedOnce ==
    [][\A o \in Occurrences : applied[o] # 0 => applied'[o] = applied[o]]_vars

\* Events reach a branch in the order of their occurrences: whatever was in
\* the outbox when an occurrence was first claimed and precedes it on its
\* branch has changed the interaction state before it.
AppliedInOrder ==
    \A o \in Occurrences : applied[o] # 0 =>
        \A p \in known[o] : Precedes(outbox, p, o) => applied[p] \in 1 .. applied[o] - 1

\* A drainer settles an occurrence only under its latest delivery: one that
\* lost its lease can neither acknowledge nor defer its successor's work.
OnlyLatestDeliverySettles ==
    [][\A d \in Drainers :
         (/\ drainers[d].phase \in {"acknowledge", "defer"}
          /\ outbox'[drainers[d].occurrence] # outbox[drainers[d].occurrence]
          /\ drainers'[d] # drainers[d]
          /\ restarts' = restarts)
            => \A e \in Drainers :
                 drainers[e].occurrence = drainers[d].occurrence
                    => drainers[e].token <= drainers[d].token]_vars

\* The conditions under which an occurrence waits for others never close a
\* circle: a branch with open occurrences has one that waits for nobody.
SomebodyIsUnblocked ==
    \A b \in Branches :
        (\E o \in Occurrences : BranchOf[o] = b /\ Open(outbox, o))
            => \E o \in Occurrences : BranchOf[o] = b /\ Open(outbox, o) /\ Unblocked(outbox, o)

\* Every statement on the outbox is one its trigger accepts.
Lifecycle == INSTANCE OutboxLifecycle WITH
    status <- [o \in Occurrences |-> outbox[o].status],
    attempts <- [o \in Occurrences |-> outbox[o].attempts],
    lease <- [o \in Occurrences |-> outbox[o].lease]

OutboxSpec == Lifecycle!Spec

\* Every durable occurrence is eventually acknowledged, when the process
\* stops ending and its processing stops failing.  Retries, delivery by two
\* threads and the order on the branch leave no occurrence behind.
OccurrencesAreDelivered ==
    \A o \in Occurrences :
        outbox[o].status = "pending" ~> outbox[o].status = "acknowledged"

\* What a delivery promises in every state: an acknowledgement stands for all
\* consequences of its occurrence, and these came in the order of the branch.
DeliveryIsSafe == TypeOK /\ AcknowledgedIsApplied /\ AppliedInOrder
===========================================================================

---------------------- MODULE LifecycleDeliveryProofs ----------------------
(***************************************************************************)
(* Proofs about the delivery of lifecycle occurrences for every set of     *)
(* occurrences, branches and drainers, every clock and every lease.        *)
(***************************************************************************)
EXTENDS LifecycleDelivery, FiniteSetTheorems, WellFoundedInduction, TLAPS

---------------------------------------------------------------------------
(* Type correctness *)

\* A retry time is a time.
LEMMA RetryAtType ==
    ASSUME NEW now \in Int, NEW n \in Nat
    PROVE  RetryAt(now, n) \in Int
  <1>1. CASE n > 9
    BY <1>1, ClockAssumption DEF RetryAt, RetrySeconds, RetryDelays
  <1>2. CASE n \in 1 .. 9
    BY <1>2, ClockAssumption DEF RetryAt, RetrySeconds, RetryDelays
  <1>3. CASE n = 0
    BY <1>3, ClockAssumption DEF RetryAt, RetrySeconds, RetryDelays
  <1> QED
    BY <1>1, <1>2, <1>3

\* Every transaction on the outbox yields a table of rows.
LEMMA TableTypes ==
    ASSUME NEW T \in [Occurrences -> Rows], NEW o \in Occurrences, NEW t \in Int
    PROVE  /\ \A S \in SUBSET Occurrences : Inserted(T, S, t) \in [Occurrences -> Rows]
           /\ Claimed(T, o, t) \in [Occurrences -> Rows]
           /\ Acknowledged(T, o) \in [Occurrences -> Rows]
           /\ Deferred(T, o, t) \in [Occurrences -> Rows]
           /\ ExpiredReleased(T, t) \in [Occurrences -> Rows]
           /\ AllReleased(T, t) \in [Occurrences -> Rows]
  <1> USE DEF Rows, Statuses, NoLease
  <1>0. LeaseSeconds \in Int
    BY ClockAssumption
  <1>1. \A S \in SUBSET Occurrences : Inserted(T, S, t) \in [Occurrences -> Rows]
    BY DEF Inserted
  <1>2. Claimed(T, o, t) \in [Occurrences -> Rows]
    BY <1>0 DEF Claimed
  <1>3. Acknowledged(T, o) \in [Occurrences -> Rows]
    BY DEF Acknowledged
  <1>4. Deferred(T, o, t) \in [Occurrences -> Rows]
    BY DEF Deferred, Released
  <1>5. ExpiredReleased(T, t) \in [Occurrences -> Rows]
    BY DEF ExpiredReleased, Released
  <1>6. AllReleased(T, t) \in [Occurrences -> Rows]
    BY DEF AllReleased, Released
  <1> QED
    BY <1>1, <1>2, <1>3, <1>4, <1>5, <1>6

\* The first event of an occurrence is an occurrence, and batches are sets
\* of occurrences.
LEMMA EventTypes ==
    /\ \A o \in Occurrences : FirstEvent(o) \in Occurrences
    /\ \A S \in Batches : S \subseteq Occurrences
  BY OccurrencesAssumption DEF FirstEvent, Batches

\* What TypeOK says of one drainer.
WorkTyped(w) ==
    /\ w \in Works
    /\ w.phase \in Working => /\ w.occurrence \in Occurrences
                              /\ w.event \in {w.occurrence, FirstEvent(w.occurrence)}

\* In a well-typed state every drainer is well typed.
LEMMA WorksTyped == TypeOK => \A d \in Drainers : WorkTyped(drainers[d])
  BY DEF TypeOK, WorkTyped

\* Replacing the work of one drainer by well-typed work keeps all well typed.
LEMMA MovesTyped ==
    ASSUME TypeOK, NEW d \in Drainers, NEW w, WorkTyped(w),
           drainers' = [drainers EXCEPT ![d] = w]
    PROVE  /\ drainers' \in [Drainers -> Works]
           /\ \A e \in Drainers : WorkTyped(drainers'[e])
  BY DEF TypeOK, WorkTyped

\* A drainer at rest is well typed.
LEMMA RestingTyped == \A p \in {"starting", "idle"} : WorkTyped(Resting(p))
  BY DEF WorkTyped, Resting, Work, Works, Phases, Working

\* The steps of a drainer's work keep it well typed.
LEMMA WorkTypes ==
    ASSUME NEW w, WorkTyped(w), w.phase \in Working
    PROVE  /\ \A p \in Working : WorkTyped(To(w, p))
           /\ \A r \in Nat : WorkTyped(Work("commit", w.occurrence, w.token, w.event, r))
           /\ WorkTyped(AfterEvent(w))
  <1> USE DEF WorkTyped, Work, Works, Phases, Working
  <1>1. \A p \in Working : WorkTyped(To(w, p))
    BY DEF To
  <1>2. \A r \in Nat : WorkTyped(Work("commit", w.occurrence, w.token, w.event, r))
    OBVIOUS
  <1>3. WorkTyped(AfterEvent(w))
    BY DEF AfterEvent, To
  <1> QED
    BY <1>1, <1>2, <1>3

\* The initial state has the types.
LEMMA TypeInit == Init => TypeOK
  <1> SUFFICES ASSUME Init PROVE TypeOK
    OBVIOUS
  <1>1. \A d \in Drainers : WorkTyped(drainers[d])
    BY RestingTyped DEF Init, Started
  <1>2. drainers \in [Drainers -> Works]
    BY <1>1 DEF Init, Started, WorkTyped
  <1> QED
    BY <1>1, <1>2 DEF Init, TypeOK, WorkTyped, NoRow, Rows, Statuses, NoLease

\* Each step keeps the types.
LEMMA TypeStep == TypeOK /\ [Next]_vars => TypeOK'
  <1> SUFFICES ASSUME TypeOK, [Next]_vars PROVE TypeOK'
    OBVIOUS
  <1>0. clock \in Int
    BY ClockAssumption DEF TypeOK
  <1> DEFINE WorksStay == /\ drainers' \in [Drainers -> Works]
                          /\ \A d \in Drainers : WorkTyped(drainers'[d])
  <1>1. ASSUME NEW S \in Batches, NEW t \in Time, InsertOccurrences(S, t) PROVE TypeOK'
    <2>1. outbox' \in [Occurrences -> Rows]
      BY <1>1, EventTypes, TableTypes, ClockAssumption DEF InsertOccurrences, TypeOK, Inserted, Rows, Statuses, NoLease
    <2> QED
      BY <1>1, <2>1 DEF InsertOccurrences, TypeOK
  <1>2. ASSUME NEW b \in Branches, ChangeInteractionState(b) PROVE TypeOK'
    BY <1>2 DEF ChangeInteractionState, TypeOK
  <1>3. ASSUME NEW t \in Time, ClockMoves(t) PROVE TypeOK'
    BY <1>3 DEF ClockMoves, TypeOK, stored
  <1>4. CASE Restart
    <2>1. outbox' \in [Occurrences -> Rows]
      BY <1>4, <1>0 DEF Restart, TypeOK, AllReleased, Released, Rows, Statuses, NoLease
    <2>2. \A d \in Drainers : WorkTyped(drainers'[d])
      BY <1>4, RestingTyped DEF Restart, Started
    <2>3. drainers' \in [Drainers -> Works]
      BY <1>4, <2>2 DEF Restart, Started, WorkTyped
    <2> QED
      BY <1>4, <2>1, <2>2, <2>3 DEF Restart, TypeOK, WorkTyped
  <1>5. ASSUME NEW d \in Drainers, Drains(d) PROVE TypeOK'
    <2> DEFINE w == drainers[d]
    <2>0. WorkTyped(w)
      BY WorksTyped
    <2>1. CASE RecoverExpiredLeases(d)
      <3>1. WorksStay
        BY <2>1, RestingTyped, MovesTyped DEF RecoverExpiredLeases
      <3>2. outbox' \in [Occurrences -> Rows]
        BY <2>1, <1>0 DEF RecoverExpiredLeases, TypeOK, ExpiredReleased, Released, Rows, Statuses, NoLease
      <3> QED
        BY <2>1, <3>1, <3>2 DEF RecoverExpiredLeases, TypeOK, WorkTyped
    <2>2. CASE ClaimOccurrence(d)
      <3>1. PICK o \in NextClaimable(outbox, clock) :
               /\ outbox' = Claimed(outbox, o, clock)
               /\ drainers' = [drainers EXCEPT ![d] =
                      Work("lookup", o, outbox[o].attempts + 1, FirstEvent(o), 0)]
               /\ known' = [known EXCEPT ![o] =
                      IF outbox[o].attempts = 0 THEN Durable(outbox) ELSE known[o]]
        BY <2>2 DEF ClaimOccurrence
      <3>2. o \in Occurrences
        BY DEF NextClaimable
      <3>3. WorkTyped(Work("lookup", o, outbox[o].attempts + 1, FirstEvent(o), 0))
        BY <3>2, EventTypes DEF WorkTyped, Work, Works, Phases, Working, TypeOK, Rows
      <3>4. WorksStay
        BY <3>1, <3>3, MovesTyped
      <3>5. outbox' \in [Occurrences -> Rows]
        BY <3>1, <3>2, <1>0, TableTypes DEF TypeOK
      <3>6. known' \in [Occurrences -> SUBSET Occurrences]
        BY <3>1 DEF TypeOK, Durable
      <3> QED
        BY <2>2, <3>4, <3>5, <3>6 DEF ClaimOccurrence, TypeOK, WorkTyped
    <2>3. ASSUME NEW p \in Working, w.phase \in Working,
                 drainers' = [drainers EXCEPT ![d] = To(w, p)]
          PROVE  WorksStay
      BY <2>0, <2>3, WorkTypes, MovesTyped
    <2>4. CASE LookUpEvent(d)
      <3>1. WorksStay
        BY <2>4, <2>3 DEF LookUpEvent, Moves, Working, Phases
      <3> QED
        BY <2>4, <3>1 DEF LookUpEvent, Moves, TypeOK, WorkTyped
    <2>5. CASE ReviewEvent(d)
      <3>1. revisions[BranchOf[w.event]] \in Nat
        BY <2>5, <2>0, EventTypes, OccurrencesAssumption
           DEF ReviewEvent, WorkTyped, Working, Phases, TypeOK
      <3>2. WorksStay
        BY <2>5, <2>0, <3>1, WorkTypes, MovesTyped DEF ReviewEvent, Moves, Working, Phases
      <3> QED
        BY <2>5, <3>2 DEF ReviewEvent, Moves, TypeOK, WorkTyped
    <2>6. CASE CommitEvent(d)
      <3>1. WorksStay
        BY <2>6, <2>3 DEF CommitEvent, Moves, Working, Phases
      <3>2. w.revision + 1 \in Nat
        BY <2>0 DEF WorkTyped, Works
      <3> QED
        BY <2>6, <3>1, <3>2 DEF CommitEvent, Moves, TypeOK, WorkTyped
    <2>7. CASE ReplayCommit(d)
      <3>1. WorksStay
        BY <2>7, <2>3 DEF ReplayCommit, Moves, Working, Phases
      <3> QED
        BY <2>7, <3>1 DEF ReplayCommit, Moves, TypeOK, WorkTyped
    <2>8. CASE CommitConflicts(d)
      <3>1. WorksStay
        BY <2>8, <2>3 DEF CommitConflicts, Moves, Working, Phases
      <3> QED
        BY <2>8, <3>1 DEF CommitConflicts, Moves, TypeOK, WorkTyped
    <2>9. CASE DrainDerivedEvents(d)
      <3>1. WorksStay
        BY <2>9, <2>0, WorkTypes, MovesTyped DEF DrainDerivedEvents, Moves, Working, Phases
      <3> QED
        BY <2>9, <3>1 DEF DrainDerivedEvents, Moves, TypeOK, WorkTyped
    <2>10. CASE RequestSummary(d)
      <3>1. WorksStay
        BY <2>10, <2>3 DEF RequestSummary, Moves, Working, Phases
      <3>2. w.occurrence \in Occurrences
        BY <2>10, <2>0 DEF RequestSummary, WorkTyped, Working, Phases
      <3> QED
        BY <2>10, <3>1, <3>2 DEF RequestSummary, Moves, TypeOK, WorkTyped
    <2>11. CASE ProcessFails(d)
      <3>1. WorksStay
        BY <2>11, <2>3 DEF ProcessFails, Moves, Working, Phases
      <3> QED
        BY <2>11, <3>1 DEF ProcessFails, Moves, TypeOK, WorkTyped
    <2>12. CASE AcknowledgeOccurrence(d)
      <3>1. WorksStay
        BY <2>12, RestingTyped, MovesTyped DEF AcknowledgeOccurrence
      <3>2. outbox' \in [Occurrences -> Rows]
        BY <2>12, <2>0, <1>0, TableTypes DEF AcknowledgeOccurrence, TypeOK, WorkTyped, Working, Phases
      <3> QED
        BY <2>12, <3>1, <3>2 DEF AcknowledgeOccurrence, TypeOK, WorkTyped
    <2>13. CASE DeferOccurrence(d)
      <3>1. WorksStay
        BY <2>13, RestingTyped, MovesTyped DEF DeferOccurrence
      <3>2. RetryAt(clock, w.token) \in Int
        BY <2>0, <1>0, RetryAtType DEF WorkTyped, Works
      <3>3. outbox' \in [Occurrences -> Rows]
        BY <2>13, <2>0, <3>2, TableTypes DEF DeferOccurrence, TypeOK, WorkTyped, Working, Phases
      <3> QED
        BY <2>13, <3>1, <3>3 DEF DeferOccurrence, TypeOK, WorkTyped
    <2>14. CASE SettleConflicts(d) \/ SettleIsLost(d)
      <3>1. WorksStay
        BY <2>14, RestingTyped, MovesTyped DEF SettleConflicts, SettleIsLost, Moves
      <3> QED
        BY <2>14, <3>1 DEF SettleConflicts, SettleIsLost, Moves, TypeOK, WorkTyped
    <2> QED
      BY <1>5, <2>1, <2>2, <2>4, <2>5, <2>6, <2>7, <2>8, <2>9, <2>10, <2>11, <2>12,
         <2>13, <2>14 DEF Drains
  <1>6. CASE UNCHANGED vars
    BY <1>6 DEF vars, stored, TypeOK
  <1> QED
    BY <1>1, <1>2, <1>3, <1>4, <1>5, <1>6 DEF Next

\* Rows, events and drainers keep their shape in every behaviour.
THEOREM DeliveryTypeCorrect == Spec => []TypeOK
  BY TypeInit, TypeStep, PTL DEF Spec

---------------------------------------------------------------------------
(* What a step may do to a row, to an event and to a drainer *)

\* The changes of one row.  A claim is only of an occurrence that waits for
\* nobody, and an acknowledgement only by a drainer that has come to it.
RowRests(o) == outbox'[o] = outbox[o] /\ known'[o] = known[o]

RowInserted(o) ==
    /\ outbox[o].status = "absent"
    /\ outbox'[o].status = "pending"
    /\ outbox'[o].attempts = 0
    /\ known'[o] = known[o]
    /\ o \in MessageCommitted => /\ outbox'[AfterGenerationOf[o]].status = "pending"
                                 /\ outbox'[AfterGenerationOf[o]].occurred = outbox'[o].occurred

RowClaimed(o) ==
    /\ Open(outbox, o)
    /\ Unblocked(outbox, o)
    /\ outbox'[o].status = "claimed"
    /\ outbox'[o].attempts = outbox[o].attempts + 1
    /\ outbox'[o].occurred = outbox[o].occurred
    /\ known'[o] = IF outbox[o].attempts = 0 THEN Durable(outbox) ELSE known[o]

RowSettled(o) ==
    /\ outbox[o].status = "claimed"
    /\ outbox'[o].attempts = outbox[o].attempts
    /\ outbox'[o].occurred = outbox[o].occurred
    /\ known'[o] = known[o]
    /\ \/ outbox'[o].status = "pending"
       \/ /\ outbox'[o].status = "acknowledged"
          /\ \E d \in Drainers : drainers[d].phase = "acknowledge" /\ drainers[d].occurrence = o

RowMoves(o) == RowRests(o) \/ RowInserted(o) \/ RowClaimed(o) \/ RowSettled(o)

\* The changes of one event and of its branch.
EventCommitted(o) ==
    \E d \in Drainers :
        /\ drainers[d].phase = "commit"
        /\ drainers[d].event = o
        /\ applied[o] = 0
        /\ applied'[o] = revisions[BranchOf[o]] + 1
        /\ revisions'[BranchOf[o]] = revisions[BranchOf[o]] + 1

EventMoves(o) == applied'[o] = applied[o] \/ EventCommitted(o)

\* Every step changes rows in these ways only.
LEMMA RowStep ==
    ASSUME TypeOK, [Next]_vars, NEW o \in Occurrences
    PROVE  RowMoves(o)
  <1>0. clock \in Int
    BY ClockAssumption DEF TypeOK
  <1> USE DEF RowMoves
  <1>1. ASSUME NEW S \in Batches, NEW t \in Time, InsertOccurrences(S, t) PROVE RowMoves(o)
    <2>1. CASE o \in S
      <3>1. o \in MessageCommitted => AfterGenerationOf[o] \in S
        BY <2>1, OccurrencesAssumption DEF Batches
      <3>2. RowInserted(o)
        BY <1>1, <2>1, <3>1, OccurrencesAssumption DEF InsertOccurrences, Inserted, RowInserted
      <3> QED
        BY <3>2
    <2>2. CASE o \notin S
      BY <1>1, <2>2 DEF InsertOccurrences, Inserted, RowRests
    <2> QED
      BY <2>1, <2>2
  <1>2. ASSUME NEW b \in Branches, ChangeInteractionState(b) PROVE RowMoves(o)
    BY <1>2 DEF ChangeInteractionState, RowRests
  <1>3. ASSUME NEW t \in Time, ClockMoves(t) PROVE RowMoves(o)
    BY <1>3 DEF ClockMoves, stored, RowRests
  <1>4. CASE Restart
    BY <1>4 DEF Restart, AllReleased, Released, RowRests, RowSettled
  <1>5. ASSUME NEW d \in Drainers, Drains(d) PROVE RowMoves(o)
    <2>0. WorkTyped(drainers[d])
      BY WorksTyped
    <2>1. CASE RecoverExpiredLeases(d)
      BY <2>1 DEF RecoverExpiredLeases, ExpiredReleased, Released, RowRests, RowSettled
    <2>2. CASE ClaimOccurrence(d)
      <3>1. PICK c \in NextClaimable(outbox, clock) :
               /\ outbox' = Claimed(outbox, c, clock)
               /\ known' = [known EXCEPT ![c] =
                      IF outbox[c].attempts = 0 THEN Durable(outbox) ELSE known[c]]
        BY <2>2 DEF ClaimOccurrence
      <3>2. c \in Occurrences /\ Open(outbox, c) /\ Unblocked(outbox, c)
        BY DEF NextClaimable, Claimable, Due, Open
      <3>3. CASE o = c
        BY <3>1, <3>2, <3>3 DEF Claimed, RowClaimed, TypeOK
      <3>4. CASE o # c
        BY <3>1, <3>2, <3>4 DEF Claimed, RowRests, TypeOK
      <3> QED
        BY <3>3, <3>4
    <2>3. CASE UNCHANGED <<outbox, known>>
      BY <2>3 DEF RowRests
    <2>4. CASE AcknowledgeOccurrence(d)
      BY <2>0, <2>4 DEF AcknowledgeOccurrence, Acknowledged, HoldsToken, TokenIsCurrent, RowRests,
         RowSettled, TypeOK, WorkTyped, Working, Phases
    <2>5. CASE DeferOccurrence(d)
      BY <2>0, <2>5 DEF DeferOccurrence, Deferred, Released, HoldsToken, TokenIsCurrent, RowRests,
         RowSettled, TypeOK, WorkTyped, Working, Phases
    <2> QED
      BY <1>5, <2>1, <2>2, <2>3, <2>4, <2>5 DEF Drains, LookUpEvent, ReviewEvent, CommitEvent,
         ReplayCommit, CommitConflicts, DrainDerivedEvents, RequestSummary, ProcessFails,
         SettleConflicts, SettleIsLost, Moves
  <1>6. CASE UNCHANGED vars
    BY <1>6 DEF vars, stored, RowRests
  <1> QED
    BY <1>1, <1>2, <1>3, <1>4, <1>5, <1>6 DEF Next

\* Every step commits events in this way only, and takes no revision back.
LEMMA EventStep ==
    ASSUME TypeOK, [Next]_vars
    PROVE  /\ \A o \in Occurrences : EventMoves(o)
           /\ \A b \in Branches : revisions[b] <= revisions'[b]
           /\ summaries \subseteq summaries'
  <1> DEFINE Goal == /\ \A o \in Occurrences : EventMoves(o)
                     /\ \A b \in Branches : revisions[b] <= revisions'[b]
                     /\ summaries \subseteq summaries'
  <1>0. UNCHANGED <<applied, revisions>> /\ summaries \subseteq summaries' => Goal
    BY DEF EventMoves, TypeOK
  <1>1. ASSUME NEW b \in Branches, ChangeInteractionState(b) PROVE Goal
    BY <1>1 DEF ChangeInteractionState, EventMoves, TypeOK
  <1>2. ASSUME NEW d \in Drainers, CommitEvent(d) PROVE Goal
    <2> DEFINE w == drainers[d]
    <2>1. w.event \in Occurrences /\ BranchOf[w.event] \in Branches
      BY <1>2, WorksTyped, EventTypes, OccurrencesAssumption
         DEF CommitEvent, WorkTyped, Working, Phases
    <2>2. /\ w.phase = "commit"
          /\ applied[w.event] = 0
          /\ revisions[BranchOf[w.event]] = w.revision
          /\ applied' = [applied EXCEPT ![w.event] = w.revision + 1]
          /\ revisions' = [revisions EXCEPT ![BranchOf[w.event]] = w.revision + 1]
          /\ summaries' = summaries
      BY <1>2 DEF CommitEvent
    <2>3. \A o \in Occurrences : EventMoves(o)
      <3> TAKE o \in Occurrences
      <3>1. CASE o = w.event
        BY <2>1, <2>2, <3>1 DEF EventMoves, EventCommitted, TypeOK
      <3>2. CASE o # w.event
        BY <2>1, <2>2, <3>2 DEF EventMoves, TypeOK
      <3> QED
        BY <3>1, <3>2
    <2>4. \A b \in Branches : revisions[b] <= revisions'[b]
      BY <2>1, <2>2 DEF TypeOK
    <2> QED
      BY <2>2, <2>3, <2>4
  <1> QED
    BY <1>0, <1>1, <1>2 DEF Next, Drains, InsertOccurrences, ClockMoves, Restart, stored, vars,
       RecoverExpiredLeases, ClaimOccurrence, LookUpEvent, ReviewEvent, ReplayCommit,
       CommitConflicts, DrainDerivedEvents, RequestSummary, ProcessFails, AcknowledgeOccurrence,
       DeferOccurrence, SettleConflicts, SettleIsLost

\* An event that is committed stays as it was committed.
THEOREM EventsAppliedOnce == Spec => AppliedOnce
  <1>1. TypeOK /\ [Next]_vars
            => [\A o \in Occurrences : applied[o] # 0 => applied'[o] = applied[o]]_vars
    BY EventStep DEF EventMoves, EventCommitted
  <1> QED
    BY <1>1, DeliveryTypeCorrect, PTL DEF Spec, AppliedOnce

---------------------------------------------------------------------------
(* The inductive invariant *)

\* A row is claimed before its event is applied, and rows that were never
\* claimed are new.
NewRows ==
    \A o \in Occurrences :
        /\ outbox[o].status = "absent" => outbox[o].attempts = 0
        /\ outbox[o].attempts = 0 => outbox[o].status \in {"absent", "pending"}
        /\ applied[o] # 0 => outbox[o].attempts > 0

\* The occurrences of a kept message come into the outbox together.
DurableTogether ==
    \A m \in MessageCommitted :
        outbox[m].status # "absent" =>
            /\ outbox[AfterGenerationOf[m]].status # "absent"
            /\ outbox[AfterGenerationOf[m]].occurred = outbox[m].occurred

\* Once an occurrence is claimed, its known predecessors are acknowledged.
KnownSettled ==
    \A o \in Occurrences : outbox[o].attempts > 0 =>
        \A p \in known[o] :
            /\ outbox[p].status # "absent"
            /\ Precedes(outbox, p, o) => outbox[p].status = "acknowledged"

\* What has been done by the time a drainer is in a phase of its work, given
\* the outbox T, the events A and the summaries S.
Justified(T, A, S, w) ==
    w.phase \in Working =>
        /\ w.occurrence \in MessageCommitted
             => T[AfterGenerationOf[w.occurrence]].status = "acknowledged"
        /\ T[w.occurrence].attempts > 0
        /\ w.phase \in {"review", "commit", "summary", "acknowledge"} => w.event = w.occurrence
        /\ w.phase \in {"derive", "summary", "acknowledge"} => A[w.event] # 0
        /\ w.phase = "acknowledge" /\ w.occurrence \in MessageCommitted => w.occurrence \in S

WorkIsJustified == \A d \in Drainers : Justified(outbox, applied, summaries, drainers[d])

\* The acknowledged occurrences have their event and their summary.
SettledIsApplied ==
    \A o \in Occurrences :
        outbox[o].status = "acknowledged" =>
            applied[o] # 0 /\ (o \in MessageCommitted => o \in summaries)

\* No event is ahead of the interaction state of its branch.
AppliedBound == \A o \in Occurrences : applied[o] <= revisions[BranchOf[o]]

\* The event of a kept message follows the event of its generation.
GenerationFirst ==
    \A m \in MessageCommitted : applied[m] # 0 =>
        applied[AfterGenerationOf[m]] \in 1 .. applied[m] - 1

DeliveryInv ==
    /\ TypeOK
    /\ NewRows
    /\ DurableTogether
    /\ KnownSettled
    /\ WorkIsJustified
    /\ SettledIsApplied
    /\ AppliedBound
    /\ GenerationFirst
    /\ AppliedInOrder

\* Nothing that has been done is undone.
LEMMA Progress ==
    ASSUME TypeOK, [Next]_vars
    PROVE  /\ \A o \in Occurrences :
                /\ outbox[o].status = "acknowledged" => outbox'[o].status = "acknowledged"
                /\ outbox[o].status # "absent" => /\ outbox'[o].status # "absent"
                                                  /\ outbox'[o].occurred = outbox[o].occurred
                                                  /\ outbox[o].attempts <= outbox'[o].attempts
                /\ applied[o] # 0 => applied'[o] = applied[o]
           /\ summaries \subseteq summaries'
  <1>1. ASSUME NEW o \in Occurrences
        PROVE  /\ outbox[o].status = "acknowledged" => outbox'[o].status = "acknowledged"
               /\ outbox[o].status # "absent" => /\ outbox'[o].status # "absent"
                                                 /\ outbox'[o].occurred = outbox[o].occurred
                                                 /\ outbox[o].attempts <= outbox'[o].attempts
    <2>1. RowMoves(o)
      BY RowStep
    <2>2. outbox[o] \in Rows
      BY DEF TypeOK
    <2> QED
      BY <2>1, <2>2 DEF RowMoves, RowRests, RowInserted, RowClaimed, RowSettled, Open, Rows
  <1>2. \A o \in Occurrences : applied[o] # 0 => applied'[o] = applied[o]
    BY EventStep DEF EventMoves, EventCommitted
  <1>3. summaries \subseteq summaries'
    BY EventStep
  <1> QED
    BY <1>1, <1>2, <1>3

\* The initial state satisfies the invariant.
LEMMA DeliveryInvInit == Init => DeliveryInv
  <1> SUFFICES ASSUME Init PROVE DeliveryInv
    OBVIOUS
  <1>1. WorkIsJustified
    BY DEF Init, Started, Resting, Work, WorkIsJustified, Justified, Working
  <1>2. NewRows /\ DurableTogether /\ KnownSettled /\ SettledIsApplied
    BY OccurrencesAssumption
       DEF Init, NoRow, NewRows, DurableTogether, KnownSettled, SettledIsApplied
  <1>3. AppliedBound /\ GenerationFirst /\ AppliedInOrder
    BY OccurrencesAssumption DEF Init, AppliedBound, GenerationFirst, AppliedInOrder
  <1> QED
    BY <1>1, <1>2, <1>3, TypeInit DEF DeliveryInv

\* Work that is justified stays so while the drainer rests.
LEMMA JustifiedStays ==
    ASSUME DeliveryInv, [Next]_vars, NEW w, WorkTyped(w),
           Justified(outbox, applied, summaries, w)
    PROVE  Justified(outbox', applied', summaries', w)
  <1> SUFFICES ASSUME w.phase \in Working
               PROVE  Justified(outbox', applied', summaries', w)
    BY DEF Justified
  <1>1. w.occurrence \in Occurrences /\ w.event \in Occurrences
    BY EventTypes DEF WorkTyped
  <1>2. TypeOK /\ outbox[w.occurrence] \in Rows /\ outbox'[w.occurrence] \in Rows
    BY <1>1, TypeStep DEF DeliveryInv, TypeOK
  <1>3. outbox[w.occurrence].status # "absent"
    BY <1>1 DEF Justified, DeliveryInv, NewRows
  <1>4. outbox'[w.occurrence].attempts > 0
    BY <1>1, <1>2, <1>3, Progress DEF Justified, Rows
  <1>5. w.occurrence \in MessageCommitted
          => outbox'[AfterGenerationOf[w.occurrence]].status = "acknowledged"
    BY <1>2, Progress, OccurrencesAssumption DEF Justified
  <1> QED
    BY <1>1, <1>2, <1>4, <1>5, Progress DEF Justified

\* A drainer that moves to another phase has done what the phase needs.
LEMMA JustifiedStep == DeliveryInv /\ [Next]_vars => WorkIsJustified'
  <1> SUFFICES ASSUME DeliveryInv, [Next]_vars, NEW e \in Drainers
               PROVE  Justified(outbox', applied', summaries', drainers'[e])
    BY DEF WorkIsJustified
  <1>0. TypeOK /\ WorkTyped(drainers[e]) /\ Justified(outbox, applied, summaries, drainers[e])
    BY WorksTyped DEF DeliveryInv, WorkIsJustified
  <1>1. CASE drainers'[e] = drainers[e]
    BY <1>0, <1>1, JustifiedStays
  <1>2. CASE drainers'[e].phase \in {"starting", "idle"}
    BY <1>2 DEF Justified, Working
  <1>3. CASE Restart
    BY <1>3 DEF Restart, Started, Resting, Work, Justified, Working
  <1>4. CASE Drains(e)
    <2> DEFINE w == drainers[e]
    <2> DEFINE Goal == Justified(outbox', applied', summaries', drainers'[e])
    <2>0. drainers \in [Drainers -> Works]
      BY <1>0 DEF TypeOK
    <2>1. w.phase \in Working => Justified(outbox', applied', summaries', w)
      BY <1>0, JustifiedStays
    <2>2. w.phase \in Working => w.occurrence \in Occurrences /\ w.event \in Occurrences
      BY <1>0, EventTypes DEF WorkTyped
    <2>3. RecoverExpiredLeases(e) \/ AcknowledgeOccurrence(e) \/ DeferOccurrence(e)
             \/ SettleConflicts(e) \/ SettleIsLost(e) => Goal
      BY <2>0, <1>2 DEF RecoverExpiredLeases, AcknowledgeOccurrence, DeferOccurrence,
         SettleConflicts, SettleIsLost, Moves, Resting, Work
    <2>4. CASE ClaimOccurrence(e)
      <3>1. PICK o \in NextClaimable(outbox, clock) :
               /\ outbox' = Claimed(outbox, o, clock)
               /\ drainers' = [drainers EXCEPT ![e] =
                      Work("lookup", o, outbox[o].attempts + 1, FirstEvent(o), 0)]
        BY <2>4 DEF ClaimOccurrence
      <3>2. o \in Occurrences /\ Open(outbox, o) /\ Unblocked(outbox, o)
        BY DEF NextClaimable, Claimable, Due, Open
      <3>3. drainers'[e] = Work("lookup", o, outbox[o].attempts + 1, FirstEvent(o), 0)
        BY <2>0, <3>1
      <3>4. outbox'[o].attempts > 0
        BY <1>0, <3>1, <3>2 DEF Claimed, TypeOK, Rows
      <3>5. ASSUME o \in MessageCommitted
            PROVE  outbox'[AfterGenerationOf[o]].status = "acknowledged"
        <4>1. AfterGenerationOf[o] \in Occurrences
          BY <3>5, OccurrencesAssumption
        <4>2. outbox[AfterGenerationOf[o]].status = "acknowledged"
          BY <1>0, <3>2, <3>5, <4>1 DEF Unblocked, Open, DeliveryInv, DurableTogether, TypeOK,
             Rows, Statuses
        <4> QED
          BY <1>0, <4>1, <4>2, Progress
      <3> QED
        BY <3>3, <3>4, <3>5 DEF Justified, Work
    <2>5. CASE LookUpEvent(e)
      <3>1. CASE applied[w.event] # 0
        <4>1. drainers'[e] = To(w, "derive") /\ w.phase \in Working /\ applied' = applied
          BY <2>0, <2>5, <3>1 DEF LookUpEvent, Moves, Working, Phases
        <4> QED
          BY <2>1, <3>1, <4>1 DEF Justified, To, Work, Working, Phases
      <3>2. CASE applied[w.event] = 0
        <4>1. drainers'[e] = To(w, "review") /\ w.phase \in Working
          BY <2>0, <2>5, <3>2 DEF LookUpEvent, Moves, Working, Phases
        <4>2. w.event = w.occurrence
          BY <1>0, <2>2, <3>2, <4>1, OccurrencesAssumption
             DEF WorkTyped, FirstEvent, Justified, DeliveryInv, SettledIsApplied
        <4> QED
          BY <2>1, <4>1, <4>2 DEF Justified, To, Work, Working, Phases
      <3> QED
        BY <3>1, <3>2
    <2>6. CASE ReviewEvent(e)
      <3>1. /\ w.phase = "review"
            /\ drainers'[e] = Work("commit", w.occurrence, w.token, w.event,
                                   revisions[BranchOf[w.event]])
        BY <2>0, <2>6 DEF ReviewEvent, Moves
      <3> QED
        BY <2>1, <3>1 DEF Justified, Work, Working, Phases
    <2>7. CASE CommitEvent(e) \/ ReplayCommit(e)
      <3>1. w.phase = "commit" /\ drainers'[e] = To(w, "derive")
        BY <2>0, <2>7 DEF CommitEvent, ReplayCommit, Moves
      <3>2. w.event \in Occurrences /\ w.revision \in Nat
        BY <1>0, <2>2, <3>1 DEF WorkTyped, Works, Working, Phases
      <3>3. applied'[w.event] # 0
        BY <1>0, <2>7, <3>2 DEF CommitEvent, ReplayCommit, TypeOK
      <3> QED
        BY <2>1, <3>1, <3>3 DEF Justified, To, Work, Working, Phases
    <2>8. CASE CommitConflicts(e) \/ ProcessFails(e)
      <3>1. w.phase \in Working /\ drainers'[e] = To(w, "defer")
        BY <2>0, <2>8 DEF CommitConflicts, ProcessFails, Moves, Working, Phases
      <3> QED
        BY <2>1, <3>1 DEF Justified, To, Work, Working, Phases
    <2>9. CASE DrainDerivedEvents(e)
      <3>1. w.phase = "derive" /\ drainers'[e] = AfterEvent(w)
        BY <2>0, <2>9 DEF DrainDerivedEvents, Moves
      <3> QED
        BY <2>1, <3>1 DEF Justified, AfterEvent, To, Work, Working, Phases
    <2>10. CASE RequestSummary(e)
      <3>1. w.phase = "summary" /\ drainers'[e] = To(w, "acknowledge")
              /\ w.occurrence \in summaries'
        BY <2>0, <2>10 DEF RequestSummary, Moves
      <3> QED
        BY <2>1, <3>1 DEF Justified, To, Work, Working, Phases
    <2> QED
      BY <1>4, <2>3, <2>4, <2>5, <2>6, <2>7, <2>8, <2>9, <2>10 DEF Drains
  <1>5. ASSUME NEW d \in Drainers, d # e, Drains(d) PROVE drainers'[e] = drainers[e]
    <2>1. \E w : drainers' = [drainers EXCEPT ![d] = w]
      BY <1>5 DEF Drains, RecoverExpiredLeases, ClaimOccurrence, LookUpEvent, ReviewEvent,
         CommitEvent, ReplayCommit, CommitConflicts, DrainDerivedEvents, RequestSummary,
         ProcessFails, AcknowledgeOccurrence, DeferOccurrence, SettleConflicts, SettleIsLost, Moves
    <2> QED
      BY <1>0, <1>5, <2>1 DEF TypeOK
  <1>6. \/ Restart
        \/ drainers' = drainers
        \/ \E d \in Drainers : Drains(d)
    BY DEF Next, InsertOccurrences, ChangeInteractionState, ClockMoves, vars
  <1> QED
    BY <1>1, <1>3, <1>4, <1>5, <1>6

\* The facts about rows are kept.
LEMMA RowsKept == DeliveryInv /\ [Next]_vars => NewRows' /\ DurableTogether' /\ KnownSettled'
  <1> SUFFICES ASSUME DeliveryInv, [Next]_vars
               PROVE  NewRows' /\ DurableTogether' /\ KnownSettled'
    OBVIOUS
  <1>0. TypeOK /\ TypeOK'
    BY TypeStep DEF DeliveryInv
  <1>1. ASSUME NEW o \in Occurrences
        PROVE  /\ outbox'[o].status = "absent" => outbox'[o].attempts = 0
               /\ outbox'[o].attempts = 0 => outbox'[o].status \in {"absent", "pending"}
               /\ applied'[o] # 0 => outbox'[o].attempts > 0
    <2>1. outbox[o] \in Rows /\ outbox'[o] \in Rows
      BY <1>0 DEF TypeOK
    <2>2. RowMoves(o) /\ EventMoves(o)
      BY <1>0, RowStep, EventStep
    <2>3. /\ outbox'[o].status = "absent" => outbox'[o].attempts = 0
          /\ outbox'[o].attempts = 0 => outbox'[o].status \in {"absent", "pending"}
      BY <2>1, <2>2 DEF RowMoves, RowRests, RowInserted, RowClaimed, RowSettled, Rows,
         DeliveryInv, NewRows
    <2>4. applied[o] # 0 \/ EventCommitted(o) => outbox[o].attempts > 0
      BY <1>0, WorksTyped DEF EventCommitted, DeliveryInv, NewRows, WorkIsJustified, Justified,
         Working, Phases
    <2>5. outbox[o].attempts > 0 => outbox'[o].attempts > 0
      BY <1>0, <2>1, Progress DEF DeliveryInv, NewRows, Rows
    <2> QED
      BY <2>2, <2>3, <2>4, <2>5 DEF EventMoves
  <1>2. ASSUME NEW m \in MessageCommitted, outbox'[m].status # "absent"
        PROVE  /\ outbox'[AfterGenerationOf[m]].status # "absent"
               /\ outbox'[AfterGenerationOf[m]].occurred = outbox'[m].occurred
    <2>1. m \in Occurrences /\ AfterGenerationOf[m] \in Occurrences
      BY OccurrencesAssumption
    <2>2. CASE outbox[m].status = "absent"
      BY <1>0, <1>2, <2>1, <2>2, RowStep DEF RowMoves, RowRests, RowInserted, RowClaimed,
         RowSettled, Open
    <2>3. CASE outbox[m].status # "absent"
      BY <1>0, <2>1, <2>3, Progress DEF DeliveryInv, DurableTogether
    <2> QED
      BY <2>2, <2>3
  <1>3. ASSUME NEW o \in Occurrences, outbox'[o].attempts > 0, NEW p \in known'[o]
        PROVE  /\ outbox'[p].status # "absent"
               /\ Precedes(outbox', p, o) => outbox'[p].status = "acknowledged"
    <2>1. p \in Occurrences /\ outbox[o] \in Rows /\ outbox[p] \in Rows
      BY <1>0, <1>3 DEF TypeOK
    <2>2. RowMoves(o)
      BY <1>0, RowStep
    <2>3. /\ outbox[o].status # "absent"
          /\ outbox[p].status # "absent"
          /\ Precedes(outbox, p, o) => outbox[p].status = "acknowledged"
      <3>1. CASE outbox[o].attempts = 0
        <4>1. RowClaimed(o) /\ known'[o] = Durable(outbox)
          BY <1>3, <2>2, <3>1 DEF RowMoves, RowRests, RowInserted, RowClaimed, RowSettled
        <4> QED
          BY <1>3, <2>1, <4>1 DEF RowClaimed, Open, Durable, Unblocked, Rows, Statuses
      <3>2. CASE outbox[o].attempts # 0
        <4>1. outbox[o].attempts > 0 /\ outbox[o].status # "absent" /\ known'[o] = known[o]
          BY <2>1, <2>2, <3>2 DEF RowMoves, RowRests, RowInserted, RowClaimed, RowSettled, Rows,
             DeliveryInv, NewRows
        <4> QED
          BY <1>3, <4>1 DEF DeliveryInv, KnownSettled
      <3> QED
        BY <3>1, <3>2
    <2> QED
      BY <1>0, <2>1, <2>3, Progress DEF Precedes, Earlier
  <1>4. NewRows'
    BY <1>1 DEF NewRows
  <1>5. DurableTogether'
    BY <1>2 DEF DurableTogether
  <1>6. KnownSettled'
    BY <1>3 DEF KnownSettled
  <1> QED
    BY <1>4, <1>5, <1>6

\* What a drainer that commits an event knows: all that precedes the event
\* has been applied.
LEMMA CommitIsInOrder ==
    ASSUME DeliveryInv, NEW o \in Occurrences, EventCommitted(o)
    PROVE  /\ o \in MessageCommitted => applied[AfterGenerationOf[o]] # 0
           /\ \A p \in known[o] : Precedes(outbox, p, o) => applied[p] # 0
  <1>1. PICK d \in Drainers : drainers[d].phase = "commit" /\ drainers[d].event = o
    BY DEF EventCommitted
  <1>2. Justified(outbox, applied, summaries, drainers[d]) /\ drainers[d].phase \in Working
    BY <1>1 DEF DeliveryInv, WorkIsJustified, Working, Phases
  <1>3. /\ outbox[o].attempts > 0
        /\ o \in MessageCommitted => outbox[AfterGenerationOf[o]].status = "acknowledged"
    BY <1>1, <1>2 DEF Justified
  <1>4. known[o] \subseteq Occurrences
    BY DEF DeliveryInv, TypeOK
  <1> QED
    BY <1>3, <1>4, OccurrencesAssumption DEF DeliveryInv, KnownSettled, SettledIsApplied

\* The facts about events are kept.
LEMMA EventsKept ==
    DeliveryInv /\ [Next]_vars
        => SettledIsApplied' /\ AppliedBound' /\ GenerationFirst' /\ AppliedInOrder'
  <1> SUFFICES ASSUME DeliveryInv, [Next]_vars
               PROVE  SettledIsApplied' /\ AppliedBound' /\ GenerationFirst' /\ AppliedInOrder'
    OBVIOUS
  <1>0. TypeOK /\ TypeOK'
    BY TypeStep DEF DeliveryInv
  <1>1. ASSUME NEW o \in Occurrences, outbox'[o].status = "acknowledged"
        PROVE  applied'[o] # 0 /\ (o \in MessageCommitted => o \in summaries')
    <2>1. applied[o] # 0 /\ (o \in MessageCommitted => o \in summaries)
      <3>1. CASE outbox[o].status = "acknowledged"
        BY <3>1 DEF DeliveryInv, SettledIsApplied
      <3>2. CASE outbox[o].status # "acknowledged"
        <4>1. PICK d \in Drainers : /\ drainers[d].phase = "acknowledge"
                                    /\ drainers[d].occurrence = o
          BY <1>0, <1>1, <3>2, RowStep DEF RowMoves, RowRests, RowInserted, RowClaimed, RowSettled
        <4> QED
          BY <4>1 DEF DeliveryInv, WorkIsJustified, Justified, Working, Phases
      <3> QED
        BY <3>1, <3>2
    <2> QED
      BY <1>0, <2>1, Progress
  <1>2. ASSUME NEW o \in Occurrences
        PROVE  applied'[o] <= revisions'[BranchOf[o]]
    <2>1. /\ applied[o] \in Nat /\ revisions[BranchOf[o]] \in Nat
          /\ revisions'[BranchOf[o]] \in Nat
          /\ revisions[BranchOf[o]] <= revisions'[BranchOf[o]]
          /\ applied[o] <= revisions[BranchOf[o]]
      BY <1>0, EventStep, OccurrencesAssumption DEF TypeOK, DeliveryInv, AppliedBound
    <2> QED
      BY <1>0, <2>1, EventStep DEF EventMoves, EventCommitted
  <1>3. ASSUME NEW o \in Occurrences, NEW p \in Occurrences, BranchOf[p] = BranchOf[o],
               applied'[o] # 0,
               applied[o] # 0 => applied[p] \in 1 .. applied[o] - 1,
               EventCommitted(o) => applied[p] # 0
        PROVE  applied'[p] \in 1 .. applied'[o] - 1
    <2>1. applied[p] \in Nat /\ applied[o] \in Nat /\ applied'[p] \in Nat /\ applied'[o] \in Nat
            /\ revisions[BranchOf[o]] \in Nat /\ applied[p] <= revisions[BranchOf[o]]
      BY <1>0, <1>3, OccurrencesAssumption DEF TypeOK, DeliveryInv, AppliedBound
    <2>2. CASE applied[o] # 0
      BY <1>0, <1>3, <2>1, <2>2, Progress
    <2>3. CASE applied[o] = 0
      <3>1. EventCommitted(o)
        BY <1>0, <1>3, <2>3, EventStep DEF EventMoves
      <3>2. applied'[o] = revisions[BranchOf[o]] + 1 /\ applied'[p] = applied[p]
              /\ applied[p] # 0
        BY <1>0, <1>3, <3>1, Progress DEF EventCommitted
      <3> QED
        BY <2>1, <3>2
    <2> QED
      BY <2>2, <2>3
  <1>4. SettledIsApplied'
    BY <1>1 DEF SettledIsApplied
  <1>5. AppliedBound'
    BY <1>2 DEF AppliedBound
  <1>6. GenerationFirst'
    BY <1>3, CommitIsInOrder, OccurrencesAssumption DEF GenerationFirst, DeliveryInv
  <1>7. ASSUME NEW o \in Occurrences, applied'[o] # 0, NEW p \in known'[o],
               Precedes(outbox', p, o)
        PROVE  applied'[p] \in 1 .. applied'[o] - 1
    <2>1. outbox[o] \in Rows /\ p \in Occurrences
      BY <1>0, <1>7 DEF TypeOK
    <2>2. outbox[o].attempts > 0 /\ outbox[o].status # "absent"
      <3>1. applied[o] # 0 \/ EventCommitted(o)
        BY <1>0, <1>7, EventStep DEF EventMoves
      <3>2. outbox[o].attempts > 0
        BY <1>0, <3>1, WorksTyped DEF EventCommitted, DeliveryInv, NewRows, WorkIsJustified,
           Justified, Working, Phases
      <3> QED
        BY <2>1, <3>2 DEF DeliveryInv, NewRows, Rows
    <2>3. known'[o] = known[o]
      BY <1>0, <2>1, <2>2, RowStep DEF RowMoves, RowRests, RowInserted, RowClaimed, RowSettled,
         Rows
    <2>4. outbox[p].status # "absent"
      BY <1>7, <2>2, <2>3 DEF DeliveryInv, KnownSettled
    <2>5. Precedes(outbox, p, o)
      BY <1>0, <1>7, <2>1, <2>2, <2>4, Progress DEF Precedes, Earlier
    <2>6. applied[o] # 0 => applied[p] \in 1 .. applied[o] - 1
      BY <1>7, <2>3, <2>5 DEF DeliveryInv, AppliedInOrder
    <2>7. EventCommitted(o) => applied[p] # 0
      BY <1>7, <2>3, <2>5, CommitIsInOrder
    <2> QED
      BY <1>3, <1>7, <2>1, <2>5, <2>6, <2>7 DEF Precedes
  <1>8. AppliedInOrder'
    BY <1>7 DEF AppliedInOrder
  <1> QED
    BY <1>4, <1>5, <1>6, <1>8

\* The invariant holds in every reachable state.
THEOREM DeliveryInvariant == Spec => []DeliveryInv
  <1>1. DeliveryInv /\ [Next]_vars => DeliveryInv'
    BY TypeStep, RowsKept, JustifiedStep, EventsKept DEF DeliveryInv
  <1> QED
    BY <1>1, DeliveryInvInit, PTL DEF Spec

\* No acknowledgement without the event, the earlier event and the summary.
THEOREM AcknowledgedMeansApplied == Spec => []AcknowledgedIsApplied
  <1>1. DeliveryInv => AcknowledgedIsApplied
    BY DEF DeliveryInv, SettledIsApplied, GenerationFirst, AcknowledgedIsApplied
  <1> QED
    BY <1>1, DeliveryInvariant, PTL

\* Events reach their branch in the order of their occurrences.
THEOREM EventsAppliedInOrder == Spec => []AppliedInOrder
  <1>1. DeliveryInv => AppliedInOrder
    BY DEF DeliveryInv
  <1> QED
    BY <1>1, DeliveryInvariant, PTL

\* Acknowledgements stand for applied events, in the order of the branch.
THEOREM DeliveryStaysSafe == Spec => []DeliveryIsSafe
  <1>1. TypeOK /\ AcknowledgedIsApplied /\ AppliedInOrder => DeliveryIsSafe
    BY DEF DeliveryIsSafe
  <1> QED
    BY <1>1, DeliveryTypeCorrect, AcknowledgedMeansApplied, EventsAppliedInOrder, PTL

---------------------------------------------------------------------------
(* Nobody waits in a circle *)

\* A set of naturals has a least element.
LEMMA LeastNatural ==
    ASSUME NEW S \in SUBSET Nat, S # {}
    PROVE  \E n \in S : \A m \in S : n <= m
  <1>1. \E n \in S : \A m \in S : ~(<<m, n>> \in OpToRel(<, Nat))
    BY NatLessThanWellFounded, WFMin
  <1>2. ASSUME NEW m \in Nat, NEW n \in Nat, m < n
        PROVE  <<m, n>> \in OpToRel(<, Nat)
    <2>1. <<m, n>> \in Nat \X Nat /\ <<m, n>>[1] = m /\ <<m, n>>[2] = n
      OBVIOUS
    <2> QED
      BY <1>2, <2>1, Zenon DEF OpToRel
  <1>3. \E n \in S : \A m \in S : ~(m < n)
    BY <1>1, <1>2, Zenon
  <1> QED
    BY <1>3

\* The order of delivery is a strict order.
LEMMA EarlierIsAnOrder ==
    ASSUME NEW T \in [Occurrences -> Rows],
           NEW p \in Occurrences, NEW q \in Occurrences, NEW o \in Occurrences,
           Earlier(T, p, q), Earlier(T, q, o)
    PROVE  Earlier(T, p, o)
  <1>1. T[p] \in Rows /\ T[q] \in Rows /\ T[o] \in Rows
    OBVIOUS
  <1>2. T[p].occurred \in Int /\ T[q].occurred \in Int /\ T[o].occurred \in Int
    BY <1>1 DEF Rows
  <1>3. IdRank[p] \in Nat /\ IdRank[q] \in Nat /\ IdRank[o] \in Nat
    BY OccurrencesAssumption
  <1> QED
    BY <1>2, <1>3 DEF Earlier

\* Among some occurrences there is one that none of the others precedes.
LEMMA SomebodyIsFirst ==
    ASSUME NEW T \in [Occurrences -> Rows], NEW S \in SUBSET Occurrences, S # {}
    PROVE  \E o \in S : \A p \in S : ~Earlier(T, p, o)
  <1>1. IsFiniteSet(S)
    BY OccurrencesAssumption, FS_Subset
  <1> DEFINE N == Cardinality(S)
  <1>2. N \in Nat /\ N # 0
    BY <1>1, FS_CardinalityType, FS_EmptySet
  <1>3. PICK f \in [1..N -> S] : \A o \in S : \E k \in 1..N : f[k] = o
    <2>1. ExistsBijection(1..N, S)
      BY <1>1, FS_CardinalityType
    <2> HIDE DEF N
    <2> QED
      BY <2>1 DEF ExistsBijection, Bijection, Surjection
  <1> HIDE DEF N
  <1> DEFINE First(m) == \E k \in 1..m : \A j \in 1..m : ~Earlier(T, f[j], f[k])
             Bad == {m \in 1..N : ~First(m)}
  <1>4. \A k \in 1..N : f[k] \in Occurrences
    OBVIOUS
  <1>5. \A o \in Occurrences : ~Earlier(T, o, o)
    <2> SUFFICES ASSUME NEW o \in Occurrences PROVE ~Earlier(T, o, o)
      OBVIOUS
    <2>1. T[o] \in Rows /\ IdRank[o] \in Nat
      BY OccurrencesAssumption
    <2>2. T[o].occurred \in Int
      BY <2>1 DEF Rows
    <2> QED
      BY <2>1, <2>2 DEF Earlier
  <1>6. Bad = {}
    <2> SUFFICES ASSUME Bad # {} PROVE FALSE
      OBVIOUS
    <2>1. PICK m \in Bad : \A k \in Bad : m <= k
      <3> HIDE DEF Bad
      <3>1. Bad \in SUBSET Nat
        BY <1>2 DEF Bad
      <3> QED
        BY <3>1, LeastNatural
    <2>2. m \in 1..N /\ m \in Nat /\ ~First(m)
      BY <1>2
    <2>3. CASE m = 1
      <3>1. \A j \in 1..1 : j = 1
        OBVIOUS
      <3>2. First(1)
        BY <1>4, <1>5, <2>2, <2>3, <3>1
      <3> QED
        BY <2>2, <2>3, <3>2
    <2>4. CASE m # 1
      <3>1. m - 1 \in 1..N /\ ~(m <= m - 1) /\ \A j \in 1..m : j \in 1..(m - 1) \/ j = m
        BY <1>2, <2>2, <2>4
      <3>2. m - 1 \notin Bad
        <4> HIDE DEF Bad
        <4> QED
          BY <2>1, <3>1
      <3>3. PICK k \in 1..(m - 1) : \A j \in 1..(m - 1) : ~Earlier(T, f[j], f[k])
        BY <3>1, <3>2
      <3>4. k \in 1..m /\ m \in 1..m /\ \A j \in 1..m : f[j] \in Occurrences
        BY <1>2, <1>4, <2>2
      <3>5. CASE Earlier(T, f[m], f[k])
        <4>1. \A j \in 1..(m - 1) : ~Earlier(T, f[j], f[m])
          <5> SUFFICES ASSUME NEW j \in 1..(m - 1), Earlier(T, f[j], f[m]) PROVE FALSE
            OBVIOUS
          <5>1. j \in 1..m
            BY <2>2
          <5> QED
            BY <3>3, <3>4, <3>5, <5>1, EarlierIsAnOrder
        <4>2. \A j \in 1..m : ~Earlier(T, f[j], f[m])
          BY <1>5, <3>1, <3>4, <4>1
        <4> QED
          BY <2>2, <3>4, <4>2
      <3>6. CASE ~Earlier(T, f[m], f[k])
        <4>1. \A j \in 1..m : ~Earlier(T, f[j], f[k])
          BY <3>1, <3>3, <3>6
        <4> QED
          BY <2>2, <3>4, <4>1
      <3> QED
        BY <3>5, <3>6
    <2> QED
      BY <2>3, <2>4
  <1>7. First(N)
    <2>1. N \in 1..N
      BY <1>2
    <2> HIDE DEF First
    <2> QED
      BY <1>6, <2>1
  <1> QED
    BY <1>3, <1>7

\* The conditions under which an occurrence waits never close a circle, though
\* two different orders are at work, the branch's and the generation's.
THEOREM SomebodyStaysUnblocked == Spec => []SomebodyIsUnblocked
  <1>1. DeliveryInv => SomebodyIsUnblocked
    <2> SUFFICES ASSUME DeliveryInv, NEW b \in Branches,
                        \E o \in Occurrences : BranchOf[o] = b /\ Open(outbox, o)
                 PROVE  \E o \in Occurrences : BranchOf[o] = b /\ Open(outbox, o) /\ Unblocked(outbox, o)
      BY DEF SomebodyIsUnblocked
    <2> DEFINE S == {o \in Occurrences : BranchOf[o] = b /\ Open(outbox, o)}
    <2>1. PICK o \in S : \A p \in S : ~Earlier(outbox, p, o)
      <3>1. S \in SUBSET Occurrences /\ S # {} /\ outbox \in [Occurrences -> Rows]
        BY DEF DeliveryInv, TypeOK
      <3> HIDE DEF S
      <3> QED
        BY <3>1, SomebodyIsFirst
    <2>2. \A p \in Occurrences : Open(outbox, p) => ~Precedes(outbox, p, o)
      BY <2>1 DEF Precedes
    <2>3. o \in MessageCommitted => ~Open(outbox, AfterGenerationOf[o])
      <3> SUFFICES ASSUME o \in MessageCommitted, Open(outbox, AfterGenerationOf[o]) PROVE FALSE
        OBVIOUS
      <3> DEFINE g == AfterGenerationOf[o]
      <3>1. g \in Occurrences /\ BranchOf[g] = b /\ IdRank[g] < IdRank[o]
        BY OccurrencesAssumption
      <3>2. outbox[g].occurred = outbox[o].occurred
        BY DEF DeliveryInv, DurableTogether, Open
      <3>3. Earlier(outbox, g, o)
        BY <3>1, <3>2 DEF Earlier
      <3> QED
        BY <2>1, <3>1, <3>3
    <2> QED
      BY <2>1, <2>2, <2>3 DEF Unblocked
  <1> QED
    BY <1>1, DeliveryInvariant, PTL

---------------------------------------------------------------------------
(* Delivery tokens *)

\* No drainer holds a token from a later delivery than the last.
TokensArePast ==
    \A d \in Drainers :
        drainers[d].occurrence \in Occurrences =>
            drainers[d].token <= outbox[drainers[d].occurrence].attempts

\* How a step may change the token of a drainer.
TokenMoves(e) ==
    \/ drainers'[e].occurrence = drainers[e].occurrence /\ drainers'[e].token = drainers[e].token
    \/ drainers'[e].token = 0
    \/ /\ drainers'[e].occurrence \in Occurrences
       /\ drainers'[e].token = outbox'[drainers'[e].occurrence].attempts

\* A drainer keeps its token, drops it or takes the one of a new delivery.
LEMMA TokenStep ==
    ASSUME TypeOK, [Next]_vars, NEW e \in Drainers
    PROVE  TokenMoves(e)
  <1>0. drainers \in [Drainers -> Works]
    BY DEF TypeOK
  <1>1. CASE Restart
    BY <1>1 DEF Restart, Started, Resting, Work, TokenMoves
  <1>2. ASSUME NEW d \in Drainers, Drains(d) PROVE TokenMoves(e)
    <2>1. CASE ClaimOccurrence(d)
      <3>1. PICK o \in NextClaimable(outbox, clock) :
               /\ outbox' = Claimed(outbox, o, clock)
               /\ drainers' = [drainers EXCEPT ![d] =
                      Work("lookup", o, outbox[o].attempts + 1, FirstEvent(o), 0)]
        BY <2>1 DEF ClaimOccurrence
      <3>2. o \in Occurrences
        BY DEF NextClaimable
      <3>3. outbox'[o].attempts = outbox[o].attempts + 1
        BY <3>1, <3>2 DEF Claimed, TypeOK
      <3> QED
        BY <1>0, <3>1, <3>2, <3>3 DEF Work, TokenMoves
    <2>2. CASE drainers' = [drainers EXCEPT ![d] = Resting("idle")]
      BY <1>0, <2>2 DEF Resting, Work, TokenMoves
    <2>3. ASSUME NEW w, drainers' = [drainers EXCEPT ![d] = w],
                 w.occurrence = drainers[d].occurrence, w.token = drainers[d].token
          PROVE  TokenMoves(e)
      BY <1>0, <2>3 DEF TokenMoves
    <2>4. \A p : /\ To(drainers[d], p).occurrence = drainers[d].occurrence
                 /\ To(drainers[d], p).token = drainers[d].token
      BY DEF To, Work
    <2>5. CASE ReviewEvent(d)
      BY <2>3, <2>5 DEF ReviewEvent, Moves, Work
    <2>6. CASE DrainDerivedEvents(d)
      BY <2>3, <2>6 DEF DrainDerivedEvents, Moves, AfterEvent, To, Work
    <2>7. CASE LookUpEvent(d) \/ CommitEvent(d) \/ ReplayCommit(d) \/ CommitConflicts(d)
                 \/ RequestSummary(d) \/ ProcessFails(d)
      BY <2>3, <2>4, <2>7 DEF LookUpEvent, CommitEvent, ReplayCommit, CommitConflicts,
         RequestSummary, ProcessFails, Moves
    <2>8. CASE RecoverExpiredLeases(d) \/ AcknowledgeOccurrence(d) \/ DeferOccurrence(d)
                 \/ SettleConflicts(d) \/ SettleIsLost(d)
      BY <2>2, <2>8 DEF RecoverExpiredLeases, AcknowledgeOccurrence, DeferOccurrence,
         SettleConflicts, SettleIsLost, Moves
    <2> QED
      BY <1>2, <2>1, <2>5, <2>6, <2>7, <2>8 DEF Drains
  <1>3. CASE drainers' = drainers
    BY <1>3 DEF TokenMoves
  <1> QED
    BY <1>1, <1>2, <1>3 DEF Next, InsertOccurrences, ChangeInteractionState, ClockMoves, vars

\* Tokens stay in the past.
LEMMA TokensStay == DeliveryInv /\ TokensArePast /\ [Next]_vars => TokensArePast'
  <1> SUFFICES ASSUME DeliveryInv, TokensArePast, [Next]_vars, NEW e \in Drainers,
                      drainers'[e].occurrence \in Occurrences
               PROVE  drainers'[e].token <= outbox'[drainers'[e].occurrence].attempts
    BY DEF TokensArePast
  <1> DEFINE o == drainers'[e].occurrence
  <1>0. TypeOK /\ TypeOK'
    BY TypeStep DEF DeliveryInv
  <1>1. outbox[o] \in Rows /\ outbox'[o] \in Rows /\ drainers[e].token \in Nat
    BY <1>0 DEF TypeOK, Works
  <1>2. outbox[o].attempts <= outbox'[o].attempts
    BY <1>0, <1>1, Progress DEF DeliveryInv, NewRows, Rows
  <1> QED
    BY <1>0, <1>1, <1>2, TokenStep DEF TokenMoves, TokensArePast, Rows

\* A drainer that lost its lease never settles the occurrence.
THEOREM LatestDeliverySettles == Spec => OnlyLatestDeliverySettles
  <1> DEFINE Latest ==
        \A d \in Drainers :
         (/\ drainers[d].phase \in {"acknowledge", "defer"}
          /\ outbox'[drainers[d].occurrence] # outbox[drainers[d].occurrence]
          /\ drainers'[d] # drainers[d]
          /\ restarts' = restarts)
            => \A e \in Drainers :
                 drainers[e].occurrence = drainers[d].occurrence
                    => drainers[e].token <= drainers[d].token
  <1>1. Init => TokensArePast
    BY DEF Init, Started, Resting, Work, TokensArePast, NoRow
  <1>2. DeliveryInv /\ TokensArePast /\ [Next]_vars => [Latest]_vars
    <2> SUFFICES ASSUME DeliveryInv, TokensArePast, [Next]_vars,
                        NEW d \in Drainers,
                        drainers[d].phase \in {"acknowledge", "defer"},
                        outbox'[drainers[d].occurrence] # outbox[drainers[d].occurrence],
                        drainers'[d] # drainers[d],
                        restarts' = restarts,
                        NEW e \in Drainers,
                        drainers[e].occurrence = drainers[d].occurrence
                 PROVE  drainers[e].token <= drainers[d].token
      OBVIOUS
    <2>1. drainers[d].occurrence \in Occurrences /\ restarts \in Nat
            /\ drainers \in [Drainers -> Works]
      BY WorksTyped DEF DeliveryInv, TypeOK, WorkTyped, Working, Phases
    <2>2. ~Restart /\ outbox' # outbox /\ drainers' # drainers
      BY <2>1 DEF Restart
    <2>3. PICK c \in Drainers : Drains(c)
      BY <2>2 DEF Next, InsertOccurrences, ChangeInteractionState, ClockMoves, stored, vars
    <2>4. c = d
      <3>1. \E w : drainers' = [drainers EXCEPT ![c] = w]
        BY <2>3 DEF Drains, RecoverExpiredLeases, ClaimOccurrence, LookUpEvent, ReviewEvent,
           CommitEvent, ReplayCommit, CommitConflicts, DrainDerivedEvents, RequestSummary,
           ProcessFails, AcknowledgeOccurrence, DeferOccurrence, SettleConflicts, SettleIsLost, Moves
      <3> QED
        BY <2>1, <3>1
    <2>5. HoldsToken(d)
      BY <2>2, <2>3, <2>4 DEF Drains, RecoverExpiredLeases, ClaimOccurrence, LookUpEvent,
         ReviewEvent, CommitEvent, ReplayCommit, CommitConflicts, DrainDerivedEvents,
         RequestSummary, ProcessFails, AcknowledgeOccurrence, DeferOccurrence,
         SettleConflicts, SettleIsLost, Moves
    <2> QED
      BY <2>1, <2>5 DEF HoldsToken, TokenIsCurrent, TokensArePast
  <1> QED
    BY <1>1, <1>2, TokensStay, DeliveryInvariant, PTL DEF Spec, OnlyLatestDeliverySettles

---------------------------------------------------------------------------
(* The trigger of the outbox *)

\* Every statement on the outbox is one that its trigger accepts.
THEOREM OutboxImplemented == Spec => OutboxSpec
  <1>1. Init => Lifecycle!Init
    BY DEF Init, NoRow, Lifecycle!Init
  <1>2. TypeOK /\ [Next]_vars => Lifecycle!Write
    <2> SUFFICES ASSUME TypeOK, [Next]_vars, NEW o \in Occurrences
                 PROVE  \/ Lifecycle!Insert(o) \/ Lifecycle!Claim(o)
                        \/ Lifecycle!Settle(o) \/ Lifecycle!Rest(o)
      BY DEF Lifecycle!Write
    <2>1. RowMoves(o)
      BY RowStep
    <2> QED
      BY <2>1 DEF RowMoves, RowRests, RowInserted, RowClaimed, RowSettled, Open,
         Lifecycle!Insert, Lifecycle!Claim, Lifecycle!Settle, Lifecycle!Rest
  <1> QED
    BY <1>1, <1>2, DeliveryTypeCorrect, PTL DEF Spec, OutboxSpec, Lifecycle!Spec
===========================================================================

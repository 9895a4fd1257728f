---------------------------- MODULE DerivedOutbox ----------------------------
(***************************************************************************)
(* The derived events of interactions, from the transaction that enqueues  *)
(* them to the one that applies them.  The core of LorePia drains them     *)
(* after every event it commits and from a supervisor task, so several     *)
(* threads drain the same table; each claims one occurrence under a lease, *)
(* reviews it against the interaction state of its branch and commits the  *)
(* result, its children and the acknowledgement in one transaction.  An    *)
(* occurrence whose sealed policy cannot be reconstructed is quarantined.  *)
(*                                                                         *)
(* The interaction state of a branch is its log of applied events: every   *)
(* event adds one to the state's revision, so the revision is the log's    *)
(* length.  What an event derives depends on the rules and on the state;   *)
(* here it is any sequence of at most MaxFanout events.  A row is ripe     *)
(* when the clock has passed its available_at (pending) or its lease_until *)
(* (claimed).                                                              *)
(***************************************************************************)
EXTENDS DerivedChain

CONSTANTS
    Drainers,            \* threads that drain the outbox
    Writers,             \* threads that commit root events
    WriterKinds,         \* the transactions they use, a subset of AllWriterKinds
    ClaimLimit,          \* the limit a drain gives to the claim (1 in the code)
    LegacyOn,            \* the branches of the unsealed rows a schema-35 database holds
    MaxFanout,           \* bound: events that one event derives
    MaxRoots,            \* bound: root events
    MaxFaults,           \* bound: failures, lost responses and overrun leases
    MaxRestarts,         \* bound: ends of the process
    MaxRows              \* how many rows OccurrencesSettle looks at

\* commit_interaction_event, a generation's append, consume_interaction_choice,
\* approve_interaction_proposal, and the rejection or expiry of a proposal.
AllWriterKinds == {"event", "generation", "choice", "approval", "rejection"}

ASSUME OutboxAssumption ==
    /\ IsFiniteSet(Drainers) /\ IsFiniteSet(Writers) /\ IsFiniteSet(Branches)
    /\ WriterKinds \subseteq AllWriterKinds
    /\ ClaimLimit \in Nat \ {0}
    /\ Branches # {}
    /\ LegacyOn \in Seq(Branches)
    /\ LegacyOn # << >> => \E d, e \in Events : d # e
    /\ \A b \in Branches : Cardinality({n \in DOMAIN LegacyOn : LegacyOn[n] = b}) <= MaxChainEvents
    /\ MaxFanout \in Nat /\ MaxRoots \in Nat /\ MaxFaults \in Nat /\ MaxRestarts \in Nat
    /\ MaxRows \in Nat

VARIABLES
    log,        \* branch -> the events applied to its interaction state
    rows,       \* interaction_derived_event_outbox with its quarantines
    drainer,    \* drainer -> the occurrence it works on and how far it got
    writer,     \* writer -> the root event it prepares
    roots, faults, restarts   \* how much of each bound is used

vars == <<log, rows, drainer, writer, roots, faults, restarts>>

---------------------------------------------------------------------------
Derivations == UNION {[1..n -> Events] : n \in 0..MaxFanout}

Entries == [kind : AllWriterKinds \cup {"derived"}, row : Nat, event : Events]

IdleDrainer == [at |-> "idle", row |-> 0, token |-> 0, seen |-> 0]

IdleWriter == [at |-> "idle", branch |-> CHOOSE b \in Branches : TRUE, kind |-> "event",
               seen |-> 0]

TypeOK ==
    /\ log \in [Branches -> Seq(Entries)]
    /\ rows \in Seq(Rows)
    /\ drainer \in [Drainers -> [at : {"idle", "claimed", "reviewed", "failed"},
                                 row : 0..Len(rows), token : Nat, seen : Nat]]
    /\ writer \in [Writers -> [at : {"idle", "reviewed"}, branch : Branches,
                               kind : AllWriterKinds, seen : Nat]]
    /\ roots \in 0..MaxRoots /\ faults \in 0..MaxFaults /\ restarts \in 0..MaxRestarts

Revision(b) == Len(log[b])

\* The rows that migration 0036 finds, one for each place of LegacyOn: unsealed
\* children of the first event of their branch, all of them pending and ripe since
\* opening the database recovers every lease.
LegacyTable ==
    LET root  == CHOOSE e \in Events : TRUE
        child == CHOOSE e \in Events : e # root
    IN  [n \in 1..Len(LegacyOn) |->
            [branch |-> LegacyOn[n], chain |-> 1, parent |-> 0, depth |-> 1,
             ordinal |-> Cardinality({k \in 1..n : LegacyOn[k] = LegacyOn[n]}),
             revision |-> 1, event |-> child, visited |-> {root}, sealed |-> FALSE,
             status |-> "pending", attempts |-> 0, ripe |-> TRUE, quarantined |-> FALSE]]

LegacyLog ==
    [b \in Branches |->
        IF \E n \in DOMAIN LegacyOn : LegacyOn[n] = b
        THEN <<[kind |-> "event", row |-> 0, event |-> CHOOSE e \in Events : TRUE]>>
        ELSE << >>]

Init ==
    /\ log = LegacyLog
    /\ rows = LegacyTable
    /\ drainer = [d \in Drainers |-> IdleDrainer]
    /\ writer = [w \in Writers |-> IdleWriter]
    /\ roots = 0 /\ faults = 0 /\ restarts = 0

---------------------------------------------------------------------------
\* What a drainer does.

\* Mutant of LegacyVictims: one row fewer than the limit allows.
LegacyVictimsBelowLimit(T) ==
    LET legacy == {i \in DOMAIN T : Live(T, i) /\ ~T[i].sealed}
    IN  {Q \in SUBSET legacy : Cardinality(Q) = Min({ClaimLimit - 1, Cardinality(legacy)})}

\* A claim first quarantines unsealed rows, at most ClaimLimit of them, whoever
\* holds them; their order is that of their digests.
LegacyVictims(T) ==
    LET legacy == {i \in DOMAIN T : Live(T, i) /\ ~T[i].sealed}
    IN  {Q \in SUBSET legacy : Cardinality(Q) = Min({ClaimLimit, Cardinality(legacy)})}

WithoutLegacy(T, Q) ==
    [i \in DOMAIN T |->
        IF i \in Q
        THEN [T[i] EXCEPT !.status = "claimed", !.attempts = @ + 1, !.ripe = TRUE,
                          !.quarantined = TRUE]
        ELSE T[i]]

Claimed(T, i) ==
    [T EXCEPT ![i].status = "claimed", ![i].attempts = @ + 1, ![i].ripe = FALSE]

Claim(d) ==
    /\ drainer[d].at = "idle"
    /\ \E Q \in LegacyVictims(rows) :
         LET T == WithoutLegacy(rows, Q)
         IN  \E i \in ClaimHeads(T) :
               /\ T[i].sealed
               /\ rows' = Claimed(T, i)
               /\ drainer' = [drainer EXCEPT ![d] =
                                 [at |-> "claimed", row |-> i, token |-> T[i].attempts + 1,
                                  seen |-> 0]]
    /\ UNCHANGED <<log, writer, roots, faults, restarts>>

\* The claim decodes the row it found; one that is not sealed fails the whole
\* transaction, with the quarantines in it, and the drain returns the error.
ClaimAborts(d) ==
    /\ drainer[d].at = "idle"
    /\ \E Q \in LegacyVictims(rows) :
         \E i \in ClaimHeads(WithoutLegacy(rows, Q)) : ~rows[i].sealed
    /\ UNCHANGED vars

\* Nothing to claim; the quarantines of the transaction remain.
ClaimNothing(d) ==
    /\ drainer[d].at = "idle"
    /\ \E Q \in LegacyVictims(rows) :
         /\ Q # {}
         /\ ClaimHeads(WithoutLegacy(rows, Q)) = {}
         /\ rows' = WithoutLegacy(rows, Q)
    /\ UNCHANGED <<log, drainer, writer, roots, faults, restarts>>

\* The sealed policy is reconstructed and the state of the branch is read.
Review(d) ==
    /\ drainer[d].at = "claimed"
    /\ drainer' = [drainer EXCEPT ![d].at = "reviewed",
                                  ![d].seen = Revision(rows[drainer[d].row].branch)]
    /\ UNCHANGED <<log, rows, writer, roots, faults, restarts>>

\* The drainer's delivery is still the latest, and nobody has settled it.
HoldsClaim(d) ==
    LET row == rows[drainer[d].row]
    IN  row.status = "claimed" /\ row.attempts = drainer[d].token /\ ~row.quarantined

\* The sealed policy cannot be reconstructed, and never will be.
Quarantine(d) ==
    /\ drainer[d].at = "claimed"
    /\ HoldsClaim(d)
    /\ rows' = [rows EXCEPT ![drainer[d].row].quarantined = TRUE]
    /\ drainer' = [drainer EXCEPT ![d] = IdleDrainer]
    /\ UNCHANGED <<log, writer, roots, faults, restarts>>

Acknowledged(T, i) == [T EXCEPT ![i].status = "acknowledged", ![i].ripe = FALSE]

\* Mutant of CommitOccurrence: the children are enqueued, the row stays claimed.
CommitWithoutAcknowledging(d, ds) ==
    LET i == drainer[d].row
        b == rows[i].branch
    IN  /\ drainer[d].at = "reviewed"
        /\ HoldsClaim(d)
        /\ drainer[d].seen = Revision(b)
        /\ log' = [log EXCEPT ![b] =
                      Append(@, [kind |-> "derived", row |-> i, event |-> rows[i].event])]
        /\ rows' = Enqueued(rows, b, ChildLineage(rows, i), ds, Revision(b) + 1)
        /\ UNCHANGED <<writer, roots, restarts>>

\* One transaction: the event, the rows of what it derived, the acknowledgement.
CommitOccurrence(d, ds) ==
    LET i == drainer[d].row
        b == rows[i].branch
    IN  /\ drainer[d].at = "reviewed"
        /\ HoldsClaim(d)
        /\ drainer[d].seen = Revision(b)
        /\ log' = [log EXCEPT ![b] =
                      Append(@, [kind |-> "derived", row |-> i, event |-> rows[i].event])]
        /\ rows' = Acknowledged(
                      Enqueued(rows, b, ChildLineage(rows, i), ds, Revision(b) + 1), i)
        /\ UNCHANGED <<writer, roots, restarts>>

Commit(d) ==
    /\ \E ds \in Derivations : CommitOccurrence(d, ds)
    /\ drainer' = [drainer EXCEPT ![d] = IdleDrainer]
    /\ UNCHANGED faults

\* The transaction is durable, and the drainer is told that it failed.
CommitIsLost(d) ==
    /\ faults < MaxFaults
    /\ faults' = faults + 1
    /\ \E ds \in Derivations : CommitOccurrence(d, ds)
    /\ drainer' = [drainer EXCEPT ![d].at = "failed"]

\* The claim or the revision is no longer the one the drainer has seen.
Refused(d) ==
    /\ \/ drainer[d].at = "claimed" /\ ~HoldsClaim(d)
       \/ /\ drainer[d].at = "reviewed"
          /\ ~HoldsClaim(d) \/ drainer[d].seen # Revision(rows[drainer[d].row].branch)
    /\ drainer' = [drainer EXCEPT ![d].at = "failed"]
    /\ UNCHANGED <<log, rows, writer, roots, faults, restarts>>

\* Any other error of process_interaction_derived_occurrence.
Fail(d) ==
    /\ drainer[d].at \in {"claimed", "reviewed"}
    /\ faults < MaxFaults
    /\ faults' = faults + 1
    /\ drainer' = [drainer EXCEPT ![d].at = "failed"]
    /\ UNCHANGED <<log, rows, writer, roots, restarts>>

Deferred(d) ==
    IF HoldsClaim(d)
    THEN [rows EXCEPT ![drainer[d].row].status = "pending", ![drainer[d].row].ripe = FALSE]
    ELSE rows

\* retry_interaction_derived_event_after; a stale token changes nothing.
Retry(d) ==
    /\ drainer[d].at = "failed"
    /\ rows' = Deferred(d)
    /\ drainer' = [drainer EXCEPT ![d] = IdleDrainer]
    /\ UNCHANGED <<log, writer, roots, faults, restarts>>

\* The retry itself fails, and the claim stays until its lease expires.
RetryFails(d) ==
    /\ drainer[d].at = "failed"
    /\ faults < MaxFaults
    /\ faults' = faults + 1
    /\ drainer' = [drainer EXCEPT ![d] = IdleDrainer]
    /\ UNCHANGED <<log, rows, writer, roots, restarts>>

---------------------------------------------------------------------------
\* What the writers of root events do.  Each reads the state of the branch,
\* reviews the event and commits in a transaction that compares the revision.

WriterReview(w, b, k) ==
    /\ writer[w].at = "idle"
    /\ roots < MaxRoots
    /\ roots' = roots + 1
    /\ writer' = [writer EXCEPT ![w] =
                     [at |-> "reviewed", branch |-> b, kind |-> k, seen |-> Revision(b)]]
    /\ UNCHANGED <<log, rows, drainer, faults, restarts>>

\* Mutant of NoPendingPredecessor: an occurrence that is being worked on does not count.
NoUnclaimedPredecessor(b) == ~\E i \in DOMAIN rows : rows[i].branch = b /\ rows[i].status = "pending"

NoPendingPredecessor(b) == ~\E i \in DOMAIN rows : rows[i].branch = b /\ Live(rows, i)

\* A choice and a decision about a proposal are not held back by what is still to
\* be drained.  A generation's append compares with the boundary its review has seen,
\* which is the current revision, so its test comes to the same.
WriterMayCommit(w) ==
    /\ writer[w].seen = Revision(writer[w].branch)
    /\ writer[w].kind \in {"event", "generation"} => NoPendingPredecessor(writer[w].branch)

\* A generation's append has applied what its events derived and enqueues nothing.
\* A decision about a proposal writes a state of its own; an approval then applies
\* the event it causes, in the same transaction.
WriterCommit(w) ==
    LET b == writer[w].branch
        k == writer[w].kind
        r == Revision(b) + (IF k = "approval" THEN 2 ELSE 1)
    IN  /\ writer[w].at = "reviewed"
        /\ WriterMayCommit(w)
        /\ \E e \in Events :
             LET entry == [kind |-> k, row |-> 0, event |-> e]
             IN  /\ log' = [log EXCEPT ![b] =
                               @ \o (IF k = "approval" THEN <<entry, entry>> ELSE <<entry>>)]
                 /\ IF k \in {"generation", "rejection"}
                    THEN UNCHANGED rows
                    ELSE \E ds \in Derivations :
                           rows' = Enqueued(rows, b, RootLineage(b, e, r), ds, r)
        /\ writer' = [writer EXCEPT ![w] = IdleWriter]
        /\ UNCHANGED <<drainer, roots, faults, restarts>>

WriterRefused(w) ==
    /\ writer[w].at = "reviewed"
    /\ ~WriterMayCommit(w)
    /\ writer' = [writer EXCEPT ![w] = IdleWriter]
    /\ UNCHANGED <<log, rows, drainer, roots, faults, restarts>>

---------------------------------------------------------------------------
\* Time, and the end of the process.

\* A drainer works on the row under its latest delivery.
AtWork(i) == \E d \in Drainers : drainer[d].row = i /\ drainer[d].at # "idle" /\ HoldsClaim(d)

Ripen(i) ==
    /\ ~rows[i].ripe
    /\ Live(rows, i)
    /\ ~AtWork(i)
    /\ rows' = [rows EXCEPT ![i].ripe = TRUE]
    /\ UNCHANGED <<log, drainer, writer, roots, faults, restarts>>

\* A drainer takes longer than its lease of 30 seconds, which is not renewed.
LeaseOverrun(i) ==
    /\ ~rows[i].ripe
    /\ AtWork(i)
    /\ faults < MaxFaults
    /\ faults' = faults + 1
    /\ rows' = [rows EXCEPT ![i].ripe = TRUE]
    /\ UNCHANGED <<log, drainer, writer, roots, restarts>>

\* recover_all_interaction_derived_event_leases
Recovered(T) ==
    [i \in DOMAIN T |->
        IF T[i].status = "claimed" /\ ~T[i].quarantined
        THEN [T[i] EXCEPT !.status = "pending", !.ripe = TRUE]
        ELSE T[i]]

Restart ==
    /\ restarts < MaxRestarts
    /\ restarts' = restarts + 1
    /\ rows' = Recovered(rows)
    /\ drainer' = [d \in Drainers |-> IdleDrainer]
    /\ writer' = [w \in Writers |-> IdleWriter]
    /\ UNCHANGED <<log, roots, faults>>

\* The bounds are used up and every occurrence is settled.
Done ==
    /\ roots = MaxRoots
    /\ \A i \in DOMAIN rows : ~Live(rows, i)
    /\ \A d \in Drainers : drainer[d].at = "idle"
    /\ \A w \in Writers : writer[w].at = "idle"
    /\ UNCHANGED vars

DrainerStep(d) ==
    \/ Claim(d) \/ ClaimAborts(d) \/ ClaimNothing(d)
    \/ Review(d) \/ Quarantine(d) \/ Commit(d) \/ CommitIsLost(d)
    \/ Refused(d) \/ Fail(d) \/ Retry(d) \/ RetryFails(d)

WriterStep(w) ==
    \/ \E b \in Branches, k \in WriterKinds : WriterReview(w, b, k)
    \/ WriterCommit(w)
    \/ WriterRefused(w)

Next ==
    \/ \E d \in Drainers : DrainerStep(d)
    \/ \E w \in Writers : WriterStep(w)
    \/ \E i \in DOMAIN rows : Ripen(i) \/ LeaseOverrun(i)
    \/ Restart
    \/ Done

Spec == Init /\ [][Next]_vars

\* The supervisor task drains again after every pass, whatever the pass returned, and
\* a thread at work goes on; the clock advances.
Fairness ==
    /\ \A d \in Drainers :
         /\ WF_vars(Claim(d) \/ ClaimNothing(d))
         /\ WF_vars(Review(d) \/ Quarantine(d))
         /\ WF_vars(Commit(d) \/ Refused(d))
         /\ WF_vars(Retry(d))
    /\ WF_vars(\E i \in DOMAIN rows : Ripen(i))

FairSpec == Spec /\ Fairness

---------------------------------------------------------------------------
\* The occurrences of a branch are applied in the order of the claim query, each
\* at most once, though leases overrun and several threads drain (claim.rs:103).
AppliedInOrder ==
    \A b \in Branches : \A k, l \in DOMAIN log[b] :
        k < l /\ log[b][k].row # 0 /\ log[b][l].row # 0
            => Before(rows, log[b][k].row, log[b][l].row)

\* An occurrence is acknowledged exactly when its event is part of the state: no
\* event is lost behind an acknowledgement and none is applied and left open, also
\* when the drainer never learns of its commit (commit.rs:26).
AcknowledgedIffApplied ==
    \A i \in DOMAIN rows :
        rows[i].status = "acknowledged"
            <=> \E k \in DOMAIN log[rows[i].branch] : log[rows[i].branch][k].row = i

\* An ordinary event and a generation see the state only after everything that
\* earlier events derived has settled (validation.rs:16 and :48).
RootsFollowClosure ==
    \A b \in Branches : \A k \in DOMAIN log[b], i \in DOMAIN rows :
        /\ log[b][k].kind \in {"event", "generation"}
        /\ rows[i].branch = b
        /\ rows[i].revision < k
        => \/ rows[i].quarantined
           \/ \E l \in 1..(k - 1) : log[b][l].row = i

\* The events on the way from the root event to row i, that of i not included.
PathTo ==
    LET path[i \in DOMAIN rows] ==
            IF rows[i].parent = 0
            THEN <<log[rows[i].branch][rows[i].chain].event>>
            ELSE Append(path[rows[i].parent], rows[rows[i].parent].event)
    IN  path

\* However the rules feed each other, no event derives itself again, a path has at
\* most MaxDepth derived events and a chain at most MaxChainEvents rows, numbered
\* without gaps (enqueue.rs:153, :198 and :206).
ChainsAreFinite ==
    \A i \in DOMAIN rows :
        LET path == Append(PathTo[i], rows[i].event)
            c    == ChainRows(rows, rows[i].branch, rows[i].chain)
        IN  /\ \A k, l \in DOMAIN path : path[k] = path[l] => k = l
            /\ Len(path) <= MaxDepth + 1
            /\ Cardinality(c) <= MaxChainEvents
            /\ {rows[j].ordinal : j \in c} = 1..Cardinality(c)

\* What is settled stays as it is: neither a late retry nor a restart opens an
\* acknowledged or a quarantined occurrence again (claim.rs:184, recovery.rs:16).
SettledStaysSettled ==
    [][\A i \in DOMAIN rows : Settled(rows[i]) => rows'[i] = rows[i]]_vars

\* The rows of schema 35 that still wait to be quarantined.
Unsealed == {i \in DOMAIN rows : Live(rows, i) /\ ~rows[i].sealed}

\* Every derived event is applied or quarantined in the end, once failures end:
\* the branch never waits for an occurrence nobody can claim (claim.rs:79).  The
\* exception is a database that for good holds more unsealed rows than one claim
\* quarantines: the claim may find one of them, fail to decode it and roll its
\* quarantines back, each time anew (ClaimAborts, claim.rs:102).
OccurrencesSettle ==
    \/ <>[](Cardinality(Unsealed) > ClaimLimit)
    \/ \A n \in 1..MaxRows : (n \in DOMAIN rows) ~> (n \in DOMAIN rows /\ Settled(rows[n]))

\* Types, and the bounds of every chain.
DerivedInv == TypeOK /\ ChainsAreFinite

\* Every occurrence settles, but for a claim that unsealed rows make fail for ever,
\* and what is settled is not opened again.
OccurrencesSettleForGood == OccurrencesSettle /\ SettledStaysSettled
=============================================================================

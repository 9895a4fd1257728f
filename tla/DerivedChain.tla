---------------------------- MODULE DerivedChain ----------------------------
(***************************************************************************)
(* The rows of interaction_derived_event_outbox and the rules by which an  *)
(* applied interaction event enqueues the events it derived: a variable    *)
(* that changed, knowledge that became active.  A derived event may derive *)
(* further events; the rows that descend from one root event are a chain.  *)
(* Three guards make a chain finite: an event that is already on the path  *)
(* from the root is a cycle, a path has a greatest depth and a chain has a *)
(* greatest number of rows.                                                *)
(*                                                                         *)
(* An event stands for its SHA-256 digest.  A chain is named by the state  *)
(* revision that its root event resulted in.  The columns that seal the    *)
(* policy and the evaluation are one flag: sealed.                         *)
(***************************************************************************)
EXTENDS Integers, Sequences, FiniteSets, FiniteSetsExt

CONSTANTS
    Events,              \* digests of interaction events
    Branches,            \* conversation branches
    MaxDepth,            \* MAX_INTERACTION_DERIVED_CHAIN_DEPTH (16 in the code)
    MaxChainEvents       \* MAX_INTERACTION_DERIVED_CHAIN_EVENTS (256 in the code)

ASSUME ChainAssumption ==
    /\ IsFiniteSet(Events)
    /\ MaxDepth \in Nat \ {0}
    /\ MaxChainEvents \in Nat \ {0}

---------------------------------------------------------------------------
\* parent is the place of the parent occurrence in the table, 0 for a child of
\* the root event; revision is parent_resulting_state_revision.
Rows == [branch : Branches, chain : Nat, parent : Nat, depth : Nat, ordinal : Nat,
         revision : Nat, event : Events, visited : SUBSET Events, sealed : BOOLEAN,
         status : {"pending", "claimed", "acknowledged"}, attempts : Nat,
         ripe : BOOLEAN, quarantined : BOOLEAN]

ChainRows(T, b, chain) == {i \in DOMAIN T : T[i].branch = b /\ T[i].chain = chain}

NextOrdinal(T, b, chain) == Max({0} \cup {T[i].ordinal : i \in ChainRows(T, b, chain)})

\* What the children of an applied event inherit.  The event is a root event of
\* branch b that resulted in revision r, or the occurrence in row p.
RootLineage(b, e, r) == [chain |-> r, parent |-> 0, depth |-> 1, visited |-> {e}]

\* Mutant of ChildLineage: the children do not remember the event that derived them.
ChildLineageForgets(T, p) ==
    [chain |-> T[p].chain, parent |-> p, depth |-> T[p].depth + 1, visited |-> T[p].visited]

ChildLineage(T, p) ==
    [chain |-> T[p].chain, parent |-> p, depth |-> T[p].depth + 1,
     visited |-> T[p].visited \cup {T[p].event}]

\* The loop over the derived events ds, as the function from how many it has looked
\* at to those of them that become rows: an event on the path from the root is
\* skipped, and so is one for which the chain has no room.
Taken(visited, last, ds) ==
    LET taken[n \in 0..Len(ds)] ==
            IF n = 0 THEN << >>
            ELSE IF ds[n] \in visited \/ last + Len(taken[n - 1]) >= MaxChainEvents
                 THEN taken[n - 1]
                 ELSE Append(taken[n - 1], ds[n])
    IN  taken

\* Of the derived events in sequence ds, those that become rows.
Accepted(T, b, l, ds) ==
    IF l.depth > MaxDepth
    THEN << >>
    ELSE Taken(l.visited, NextOrdinal(T, b, l.chain), ds)[Len(ds)]

\* write_derived_event_outbox: table T after an event of lineage l on branch b
\* resulted in revision r and derived ds.
Enqueued(T, b, l, ds, r) ==
    LET accepted == Accepted(T, b, l, ds)
        last     == NextOrdinal(T, b, l.chain)
    IN  T \o [k \in 1..Len(accepted) |->
              [branch |-> b, chain |-> l.chain, parent |-> l.parent, depth |-> l.depth,
               ordinal |-> last + k, revision |-> r, event |-> accepted[k],
               visited |-> l.visited, sealed |-> TRUE, status |-> "pending",
               attempts |-> 0, ripe |-> TRUE, quarantined |-> FALSE]]

---------------------------------------------------------------------------
Settled(row) == row.status = "acknowledged" \/ row.quarantined

Live(T, i) == ~Settled(T[i])

\* The order in which the occurrences of a branch are applied.
Before(T, i, j) ==
    \/ T[i].revision < T[j].revision
    \/ T[i].revision = T[j].revision /\ T[i].chain < T[j].chain
    \/ T[i].revision = T[j].revision /\ T[i].chain = T[j].chain /\ T[i].ordinal < T[j].ordinal

\* Mutant of Unblocked: only a predecessor that still waits to be claimed counts.
UnblockedByClaimed(T, i) ==
    ~\E j \in DOMAIN T : T[j].branch = T[i].branch /\ T[j].status = "pending" /\ Before(T, j, i)

\* No live predecessor on the branch.
Unblocked(T, i) ==
    ~\E j \in DOMAIN T : T[j].branch = T[i].branch /\ Live(T, j) /\ Before(T, j, i)

Claimable(T, i) ==
    /\ T[i].status # "acknowledged"
    /\ T[i].ripe
    /\ ~T[i].quarantined
    /\ Unblocked(T, i)

\* The claim query with its ORDER BY and LIMIT 1; the order of the chain ids of
\* two branches is that of two digests, so either may come first.
ClaimHeads(T) ==
    {i \in DOMAIN T :
        /\ Claimable(T, i)
        /\ \A j \in DOMAIN T : Claimable(T, j) => T[i].revision <= T[j].revision}
=============================================================================

------------------------ MODULE DerivedOutboxProofs ------------------------
(***************************************************************************)
(* Proofs about the derived-event outbox for every set of events, branches *)
(* and threads, every limit of a chain and every bound.                    *)
(***************************************************************************)
EXTENDS DerivedOutbox, FiniteSetTheorems, SequenceTheorems, WellFoundedInduction, TLAPS

---------------------------------------------------------------------------
(* Naturals: the least element, the largest, and small extrema *)

\* A set of naturals has a least element; the inductions below argue from the
\* least counterexample.
LEMMA LeastNatural ==
    ASSUME NEW S \in SUBSET Nat, S # {}
    PROVE  \E n \in S : \A m \in S : n <= m
  <1>1. \E n \in S : \A m \in S : ~(<<m, n>> \in OpToRel(<, Nat))
    BY NatLessThanWellFounded, WFMin
  <1>2. ASSUME NEW m \in Nat, NEW n \in Nat, m < n
        PROVE  <<m, n>> \in OpToRel(<, Nat)
    <2>1. <<m, n>> \in Nat \X Nat /\ <<m, n>>[1] = m /\ <<m, n>>[2] = n
      OBVIOUS
    <2> QED
      BY <1>2, <2>1, Zenon DEF OpToRel
  <1>3. \E n \in S : \A m \in S : ~(m < n)
    BY <1>1, <1>2, Zenon
  <1> QED
    BY <1>3

\* A nonempty set of naturals below a bound has a maximum, and Max is it.
LEMMA MaxNatural ==
    ASSUME NEW S \in SUBSET Nat, S # {}, NEW bound \in Nat, \A n \in S : n <= bound
    PROVE  Max(S) \in S /\ \A n \in S : n <= Max(S)
  <1> DEFINE D == {d \in Nat : \E n \in S : d = bound - n}
  <1>1. \E n \in S : bound - n \in D
    <2>1. PICK n \in S : TRUE
      OBVIOUS
    <2>2. n \in Nat /\ n <= bound /\ bound - n \in Nat
      OBVIOUS
    <2> QED
      BY <2>2
  <1>2. PICK d \in D : \A e \in D : d <= e
    <2> HIDE DEF D
    <2>1. D \in SUBSET Nat
      BY DEF D
    <2> QED
      BY <1>1, <2>1, LeastNatural
  <1>3. PICK n \in S : d = bound - n
    OBVIOUS
  <1>4. \A m \in S : n >= m
    BY <1>2, <1>3
  <1>5. \E x \in S : \A y \in S : x >= y
    BY <1>4
  <1> QED
    BY <1>5 DEF Max

---------------------------------------------------------------------------
(* The loop of write_derived_event_outbox *)

\* One round of the loop: what the first n events yield, given what the
\* first n - 1 yield.
Round(visited, last, ds, f, n) ==
    IF n = 0 THEN << >>
    ELSE IF ds[n] \in visited \/ last + Len(f[n - 1]) >= MaxChainEvents
         THEN f[n - 1]
         ELSE Append(f[n - 1], ds[n])

\* The loop is defined: round after round, for as many as there are events.
LEMMA TakenUnfolds ==
    ASSUME NEW visited, NEW last, NEW ds \in Seq(Events)
    PROVE  LET f == Taken(visited, last, ds) IN
           f = [n \in 0..Len(ds) |-> Round(visited, last, ds, f, n)]
  <1> DEFINE R(f, n) == Round(visited, last, ds, f, n)
             Loop(f, m) == f = [n \in 0..m |-> R(f, n)]
             Bad == {m \in Nat : ~\E f : Loop(f, m)}
  <1>1. Bad = {}
    <2> SUFFICES ASSUME Bad # {} PROVE FALSE
      OBVIOUS
    <2>1. PICK m \in Bad : \A k \in Bad : m <= k
      <3> HIDE DEF Bad
      <3>1. Bad \in SUBSET Nat
        BY DEF Bad
      <3> QED
        BY <3>1, LeastNatural
    <2>2. m \in Nat
      OBVIOUS
    <2>3. CASE m = 0
      <3> DEFINE f == [n \in 0..0 |-> << >>]
      <3>1. \A n \in 0..0 : R(f, n) = << >>
        BY DEF Round
      <3>2. Loop(f, 0)
        BY <3>1
      <3> QED
        BY <2>1, <2>3, <3>2
    <2>4. CASE m # 0
      <3>1. m - 1 \in Nat /\ m - 1 \notin Bad
        BY <2>1, <2>2, <2>4
      <3>2. PICK f : Loop(f, m - 1)
        BY <3>1
      <3> HIDE DEF R
      <3> DEFINE g == [n \in 0..m |-> IF n = m THEN R(f, m) ELSE f[n]]
      <3>3. \A n \in 0..(m - 1) : f[n] = R(f, n)
        BY <3>2
      <3>4. \A n \in 0..m : n # 0 => g[n - 1] = f[n - 1]
        BY <2>2
      <3>5. \A n \in 0..m : R(g, n) = R(f, n)
        <4> HIDE DEF g
        <4> QED
          BY <3>4 DEF R, Round
      <3>6. \A n \in 0..m : g[n] = R(g, n)
        <4>1. \A n \in 0..m : n # m => n \in 0..(m - 1)
          BY <2>2
        <4> QED
          BY <3>3, <3>5, <4>1
      <3>7. g = [n \in 0..m |-> R(g, n)]
        BY <3>6
      <3> QED
        BY <2>1, <3>7
    <2> QED
      BY <2>3, <2>4
  <1>2. Len(ds) \in Nat
    OBVIOUS
  <1>3. \E f : Loop(f, Len(ds))
    BY <1>1, <1>2
  <1>4. Taken(visited, last, ds) = CHOOSE f : Loop(f, Len(ds))
    BY DEF Taken, Round
  <1> QED
    BY <1>3, <1>4

\* What the loop yields: new events only, and no more than the chain has
\* room for.
LEMMA TakenFacts ==
    ASSUME NEW visited, NEW last \in Nat, NEW ds \in Seq(Events)
    PROVE  LET s == Taken(visited, last, ds)[Len(ds)] IN
           /\ s \in Seq(Events)
           /\ \A k \in 1..Len(s) : s[k] \notin visited
           /\ Len(s) > 0 => last + Len(s) <= MaxChainEvents
  <1> DEFINE f == Taken(visited, last, ds)
             Good(s) == /\ s \in Seq(Events)
                        /\ \A k \in 1..Len(s) : s[k] \notin visited
                        /\ Len(s) > 0 => last + Len(s) <= MaxChainEvents
             Bad == {n \in 0..Len(ds) : ~Good(f[n])}
  <1>0. Len(ds) \in Nat /\ MaxChainEvents \in Nat
    BY ChainAssumption
  <1>1. \A n \in 0..Len(ds) : f[n] = Round(visited, last, ds, f, n)
    <2>1. f = [n \in 0..Len(ds) |-> Round(visited, last, ds, f, n)]
      BY TakenUnfolds
    <2> HIDE DEF f
    <2> QED
      BY <2>1
  <1> HIDE DEF f
  <1>2. Bad = {}
    <2> SUFFICES ASSUME Bad # {} PROVE FALSE
      OBVIOUS
    <2>1. PICK n \in Bad : \A k \in Bad : n <= k
      <3> HIDE DEF Bad
      <3>1. Bad \in SUBSET Nat
        BY <1>0 DEF Bad
      <3> QED
        BY <3>1, LeastNatural
    <2>2. n \in 0..Len(ds) /\ ~Good(f[n])
      OBVIOUS
    <2>3. CASE n = 0
      <3>1. f[n] = << >>
        BY <1>1, <2>2, <2>3 DEF Round
      <3> QED
        BY <2>2, <3>1
    <2>4. CASE n # 0
      <3>1. n - 1 \in 0..Len(ds) /\ n - 1 \notin Bad
        BY <1>0, <2>1, <2>2, <2>4
      <3> DEFINE s == f[n - 1]
      <3>2. Good(s)
        BY <3>1
      <3>3. f[n] = IF ds[n] \in visited \/ last + Len(s) >= MaxChainEvents THEN s ELSE Append(s, ds[n])
        BY <1>1, <2>2, <2>4 DEF Round
      <3>4. f[n] # s
        BY <2>2, <3>2
      <3>5. f[n] = Append(s, ds[n]) /\ ds[n] \notin visited /\ ~(last + Len(s) >= MaxChainEvents)
        BY <3>3, <3>4
      <3>6. ds[n] \in Events
        BY <1>0, <2>2, <2>4
      <3> HIDE DEF s
      <3>7. Good(Append(s, ds[n]))
        <4>1. /\ Len(Append(s, ds[n])) = Len(s) + 1
              /\ Len(s) \in Nat
              /\ Append(s, ds[n]) \in Seq(Events)
              /\ \A k \in 1..Len(s) : Append(s, ds[n])[k] = s[k]
              /\ Append(s, ds[n])[Len(s) + 1] = ds[n]
          BY <3>2, <3>6
        <4>2. last + (Len(s) + 1) <= MaxChainEvents
          BY <1>0, <3>5, <4>1
        <4>3. \A k \in 1..(Len(s) + 1) : Append(s, ds[n])[k] \notin visited
          BY <3>2, <3>5, <4>1
        <4> QED
          BY <4>1, <4>2, <4>3
      <3> QED
        BY <2>2, <3>5, <3>7
    <2> QED
      BY <2>3, <2>4
  <1> QED
    BY <1>0, <1>2 DEF f

---------------------------------------------------------------------------
(* The rows an event enqueues *)

\* An ordinal is at most the row's place in the table, so every chain has a
\* greatest one.
OrdinalsBounded(T) == \A i \in DOMAIN T : T[i].ordinal <= i

\* What the children of an event inherit.
Lineages == [chain : Nat, parent : Nat, depth : Nat, visited : SUBSET Events]

\* COALESCE(MAX(chain_ordinal), 0) of a chain.
LEMMA NextOrdinalFacts ==
    ASSUME NEW T \in Seq(Rows), OrdinalsBounded(T), NEW b, NEW chain
    PROVE  LET last == NextOrdinal(T, b, chain) IN
           /\ last \in Nat
           /\ last <= Len(T)
           /\ \A i \in ChainRows(T, b, chain) : T[i].ordinal <= last
           /\ last = 0 \/ \E i \in ChainRows(T, b, chain) : T[i].ordinal = last
  <1> DEFINE S == {0} \cup {T[i].ordinal : i \in ChainRows(T, b, chain)}
  <1>0. DOMAIN T = 1..Len(T) /\ Len(T) \in Nat
    OBVIOUS
  <1>1. \A i \in ChainRows(T, b, chain) :
          i \in DOMAIN T /\ T[i].ordinal \in Nat /\ T[i].ordinal <= Len(T)
    <2> SUFFICES ASSUME NEW i \in ChainRows(T, b, chain)
                 PROVE  i \in DOMAIN T /\ T[i].ordinal \in Nat /\ T[i].ordinal <= Len(T)
      OBVIOUS
    <2>1. i \in DOMAIN T
      BY DEF ChainRows
    <2>2. T[i] \in Rows /\ T[i].ordinal <= i
      BY <2>1 DEF OrdinalsBounded
    <2> QED
      BY <1>0, <2>1, <2>2 DEF Rows
  <1>2. S \in SUBSET Nat /\ S # {} /\ \A n \in S : n <= Len(T)
    BY <1>0, <1>1
  <1>3. Max(S) \in S /\ \A n \in S : n <= Max(S)
    <2> HIDE DEF S
    <2> QED
      BY <1>0, <1>2, MaxNatural
  <1>4. NextOrdinal(T, b, chain) = Max(S)
    BY DEF NextOrdinal
  <1> QED
    BY <1>0, <1>2, <1>3, <1>4

\* The new row at place i of table U, which was T before.
NewRow(T, U, b, l, r, i) ==
    /\ U[i].branch = b
    /\ U[i].chain = l.chain
    /\ U[i].parent = l.parent
    /\ U[i].depth = l.depth
    /\ U[i].depth <= MaxDepth
    /\ U[i].ordinal = NextOrdinal(T, b, l.chain) + (i - Len(T))
    /\ U[i].ordinal <= MaxChainEvents
    /\ U[i].revision = r
    /\ U[i].event \notin l.visited
    /\ U[i].visited = l.visited
    /\ U[i].status = "pending"
    /\ ~U[i].quarantined

\* An enqueue appends new rows and touches no other.
LEMMA EnqueuedFacts ==
    ASSUME NEW T \in Seq(Rows), OrdinalsBounded(T), NEW b \in Branches, NEW l \in Lineages,
           NEW ds \in Seq(Events), NEW r \in Nat
    PROVE  LET U == Enqueued(T, b, l, ds, r) IN
           /\ U \in Seq(Rows)
           /\ Len(U) \in Nat
           /\ Len(T) <= Len(U)
           /\ \A i \in 1..Len(T) : U[i] = T[i]
           /\ \A i \in (Len(T) + 1)..Len(U) : NewRow(T, U, b, l, r, i)
           /\ OrdinalsBounded(U)
  <1> DEFINE U == Enqueued(T, b, l, ds, r)
             acc == Accepted(T, b, l, ds)
             last == NextOrdinal(T, b, l.chain)
             Row(k) == [branch |-> b, chain |-> l.chain, parent |-> l.parent, depth |-> l.depth,
                        ordinal |-> last + k, revision |-> r, event |-> acc[k],
                        visited |-> l.visited, sealed |-> TRUE, status |-> "pending",
                        attempts |-> 0, ripe |-> TRUE, quarantined |-> FALSE]
             N == Len(acc)
             New == [k \in 1..N |-> Row(k)]
  <1>1. last \in Nat /\ last <= Len(T) /\ Len(T) \in Nat
    BY NextOrdinalFacts
  <1>2. /\ acc \in Seq(Events)
        /\ \A k \in 1..N : acc[k] \notin l.visited
        /\ N > 0 => last + N <= MaxChainEvents /\ l.depth <= MaxDepth
    <2>0. l.depth \in Nat /\ MaxDepth \in Nat
      BY ChainAssumption DEF Lineages
    <2>1. CASE l.depth > MaxDepth
      <3>1. acc = << >>
        BY <2>1 DEF Accepted
      <3> QED
        BY <3>1
    <2>2. CASE ~(l.depth > MaxDepth)
      <3>1. acc = Taken(l.visited, last, ds)[Len(ds)]
        BY <2>2 DEF Accepted
      <3> HIDE DEF acc, last
      <3> QED
        BY <1>1, <2>0, <2>2, <3>1, TakenFacts
    <2> QED
      BY <2>1, <2>2
  <1>3. U = T \o New
    BY DEF Enqueued
  <1> HIDE DEF U, acc, last
  <1>4. N \in Nat
    BY <1>2
  <1>5. \A k \in 1..N : Row(k) \in Rows
    <2> SUFFICES ASSUME NEW k \in 1..N PROVE Row(k) \in Rows
      OBVIOUS
    <2>1. last + k \in Nat /\ acc[k] \in Events
      BY <1>1, <1>2, <1>4
    <2>2. /\ l.chain \in Nat /\ l.parent \in Nat /\ l.depth \in Nat
          /\ l.visited \in SUBSET Events
      BY DEF Lineages
    <2> QED
      BY <2>1, <2>2 DEF Rows
  <1>6. New \in Seq(Rows) /\ Len(New) = N /\ \A k \in 1..N : New[k] = Row(k)
    <2> HIDE DEF Row
    <2> QED
      BY <1>4, <1>5
  <1>7. /\ U \in Seq(Rows)
        /\ Len(U) = Len(T) + N
        /\ \A i \in 1..Len(T) : U[i] = T[i]
        /\ \A i \in (Len(T) + 1)..(Len(T) + N) : U[i] = New[i - Len(T)]
    <2>0. New \in Seq(Rows) /\ Len(New) = N
      BY <1>6
    <2> HIDE DEF New, N
    <2>1. /\ T \o New \in Seq(Rows)
          /\ Len(T \o New) = Len(T) + N
          /\ \A i \in 1..(Len(T) + N) : (T \o New)[i] = IF i <= Len(T) THEN T[i] ELSE New[i - Len(T)]
      BY <2>0, ConcatProperties
    <2> QED
      BY <1>1, <1>3, <1>4, <2>1
  <1>8. \A i \in (Len(T) + 1)..Len(U) :
          /\ i - Len(T) \in 1..N
          /\ U[i] = Row(i - Len(T))
    <2> HIDE DEF New, Row, N
    <2> QED
      BY <1>1, <1>4, <1>6, <1>7
  <1>9. \A i \in (Len(T) + 1)..Len(U) : NewRow(T, U, b, l, r, i)
    <2> SUFFICES ASSUME NEW i \in (Len(T) + 1)..Len(U) PROVE NewRow(T, U, b, l, r, i)
      OBVIOUS
    <2> DEFINE k == i - Len(T)
    <2>1. k \in 1..N /\ U[i] = Row(k)
      BY <1>8
    <2>2. last + k <= MaxChainEvents /\ l.depth <= MaxDepth
      <3>0. MaxChainEvents \in Nat
        BY ChainAssumption
      <3> HIDE DEF k
      <3> QED
        BY <1>1, <1>2, <1>4, <2>1, <3>0
    <2>3. acc[k] \notin l.visited
      BY <1>2, <2>1
    <2> HIDE DEF k, N
    <2>4. k = i - Len(T)
      BY DEF k
    <2> QED
      BY <2>1, <2>2, <2>3, <2>4 DEF NewRow, last
  <1>10. OrdinalsBounded(U)
    <2>1. DOMAIN U = 1..Len(U) /\ DOMAIN T = 1..Len(T) /\ Len(U) \in Nat
      BY <1>7
    <2>2. \A i \in 1..Len(T) : U[i].ordinal <= i
      BY <1>7, <2>1 DEF OrdinalsBounded
    <2>3. \A i \in (Len(T) + 1)..Len(U) : U[i].ordinal <= i
      BY <1>1, <1>9, <2>1 DEF NewRow, last
    <2> QED
      BY <1>1, <2>1, <2>2, <2>3 DEF OrdinalsBounded
  <1> QED
    BY <1>1, <1>4, <1>7, <1>9, <1>10 DEF U

---------------------------------------------------------------------------
(* The invariants of table and log *)

\* Two rows are versions of the same occurrence: the columns that the table's
\* immutability trigger protects agree.
SameOccurrence(p, q) ==
    /\ p.branch = q.branch
    /\ p.chain = q.chain
    /\ p.parent = q.parent
    /\ p.depth = q.depth
    /\ p.ordinal = q.ordinal
    /\ p.revision = q.revision
    /\ p.event = q.event
    /\ p.visited = q.visited

\* The rows of a branch lie in the table in the order they are applied in.
InTableOrder(T) ==
    \A i, j \in DOMAIN T : i < j /\ T[i].branch = T[j].branch => Before(T, i, j)

\* A row was enqueued by a state its branch has reached.
RevisionsPast(T, L) == \A i \in DOMAIN T : T[i].revision <= Len(L[T[i].branch])

\* Each row inherits from the row or the root event that derived it.
LineagesGood(T, L) ==
    \A i \in DOMAIN T :
        /\ T[i].parent < i
        /\ T[i].parent # 0 =>
             /\ T[T[i].parent].branch = T[i].branch
             /\ T[T[i].parent].chain = T[i].chain
             /\ T[i].depth = T[T[i].parent].depth + 1
             /\ T[i].visited = T[T[i].parent].visited \cup {T[T[i].parent].event}
        /\ T[i].parent = 0 =>
             /\ T[i].chain \in DOMAIN L[T[i].branch]
             /\ T[i].depth = 1
             /\ T[i].visited = {L[T[i].branch][T[i].chain].event}
        /\ T[i].event \notin T[i].visited
        /\ T[i].depth <= MaxDepth

\* The ordinals of a chain are used once each and without gaps.
OrdinalsFill(T) ==
    /\ \A i \in DOMAIN T : 1 <= T[i].ordinal /\ T[i].ordinal <= MaxChainEvents
    /\ \A i \in DOMAIN T : \A n \in 1..T[i].ordinal :
         \E j \in ChainRows(T, T[i].branch, T[i].chain) : T[j].ordinal = n
    /\ \A i, j \in DOMAIN T :
         (T[i].branch = T[j].branch /\ T[i].chain = T[j].chain /\ T[i].ordinal = T[j].ordinal)
             => i = j

Static(T, L) ==
    /\ OrdinalsBounded(T)
    /\ InTableOrder(T)
    /\ RevisionsPast(T, L)
    /\ LineagesGood(T, L)
    /\ OrdinalsFill(T)

\* An occurrence that is being applied, or was, has only settled ones before it.
StartedAfterSettled(T) ==
    \A i, j \in DOMAIN T :
        (/\ j < i
         /\ T[j].branch = T[i].branch
         /\ T[i].status # "pending"
         /\ ~T[i].quarantined) => Settled(T[j])

\* A quarantined occurrence is not applied.
AppliedIsNotQuarantined(T) ==
    \A i \in DOMAIN T : T[i].status = "acknowledged" => ~T[i].quarantined

\* A derived entry of a branch's log names an applied row of that branch.
EntriesAreRows(T, L) ==
    \A b \in Branches : \A k \in DOMAIN L[b] :
        L[b][k].row # 0 => /\ L[b][k].row \in DOMAIN T
                           /\ T[L[b][k].row].branch = b
                           /\ T[L[b][k].row].status = "acknowledged"

\* An acknowledged row is in the log of its branch.
AppliedIsLogged(T, L) ==
    \A i \in DOMAIN T : T[i].status = "acknowledged"
        => \E k \in DOMAIN L[T[i].branch] : L[T[i].branch][k].row = i

\* The log of a branch applies the rows in the order of the table.
AppliedByPlace(L) ==
    \A b \in Branches : \A k, l \in DOMAIN L[b] :
        k < l /\ L[b][k].row # 0 /\ L[b][l].row # 0 => L[b][k].row < L[b][l].row

\* RootsFollowClosure of table T and log L.
RootsClosed(T, L) ==
    \A b \in Branches : \A k \in DOMAIN L[b], i \in DOMAIN T :
        /\ L[b][k].kind \in {"event", "generation"}
        /\ T[i].branch = b
        /\ T[i].revision < k
        => \/ T[i].quarantined
           \/ \E l \in 1..(k - 1) : L[b][l].row = i

Progress(T, L) ==
    /\ StartedAfterSettled(T)
    /\ AppliedIsNotQuarantined(T)
    /\ EntriesAreRows(T, L)
    /\ AppliedIsLogged(T, L)
    /\ AppliedByPlace(L)
    /\ RootsClosed(T, L)

Tables == Seq(Rows)

Logs == [Branches -> Seq(Entries)]

\* In a table in order, the claim query's order is the order of places.
LEMMA BeforeIsPlace ==
    ASSUME NEW T \in Tables, InTableOrder(T), NEW i \in DOMAIN T, NEW j \in DOMAIN T,
           T[i].branch = T[j].branch
    PROVE  Before(T, i, j) <=> i < j
  <1>0. /\ i \in Nat /\ j \in Nat
        /\ T[i].revision \in Nat /\ T[i].chain \in Nat /\ T[i].ordinal \in Nat
        /\ T[j].revision \in Nat /\ T[j].chain \in Nat /\ T[j].ordinal \in Nat
    <2>1. DOMAIN T = 1..Len(T) /\ T[i] \in Rows /\ T[j] \in Rows
      BY DEF Tables
    <2> QED
      BY <2>1 DEF Rows
  <1>1. CASE i < j
    BY <1>1 DEF InTableOrder
  <1>2. CASE i = j
    BY <1>0, <1>2 DEF Before
  <1>3. CASE j < i
    <2>1. Before(T, j, i)
      BY <1>3 DEF InTableOrder
    <2>2. ~Before(T, i, j)
      BY <1>0, <2>1 DEF Before
    <2> QED
      BY <1>0, <1>3, <2>2
  <1> QED
    BY <1>0, <1>1, <1>2, <1>3

---------------------------------------------------------------------------
(* Steps that add no row and apply none *)

\* Row i of table T becomes that of U: claimed, deferred, quarantined or ripe.
Touched(T, U, i) ==
    /\ SameOccurrence(U[i], T[i])
    /\ Settled(T[i]) => U[i] = T[i]
    /\ U[i].status = "acknowledged" => T[i].status = "acknowledged"
    /\ (U[i].status # "pending" /\ ~U[i].quarantined) =>
         \/ T[i].status # "pending" /\ ~T[i].quarantined
         \/ \A j \in DOMAIN T : j < i /\ T[j].branch = T[i].branch => Settled(U[j])

\* Such steps keep every invariant of table and log.
LEMMA TouchKeeps ==
    ASSUME NEW T \in Tables, NEW U \in Tables, NEW L \in Logs, Len(U) = Len(T),
           \A i \in DOMAIN T : Touched(T, U, i), Static(T, L), Progress(T, L)
    PROVE  Static(U, L) /\ Progress(U, L)
  <1>0. DOMAIN U = DOMAIN T /\ DOMAIN T = 1..Len(T) /\ Len(T) \in Nat
    BY DEF Tables
  <1>1. \A i \in DOMAIN T : SameOccurrence(U[i], T[i])
    BY DEF Touched
  <1>2. OrdinalsBounded(U) /\ InTableOrder(U) /\ RevisionsPast(U, L)
    BY <1>0, <1>1 DEF Static, OrdinalsBounded, InTableOrder, RevisionsPast, SameOccurrence, Before
  <1>3. LineagesGood(U, L)
    <2> SUFFICES ASSUME NEW i \in DOMAIN T
                 PROVE  /\ U[i].parent < i
                        /\ U[i].parent # 0 =>
                             /\ U[U[i].parent].branch = U[i].branch
                             /\ U[U[i].parent].chain = U[i].chain
                             /\ U[i].depth = U[U[i].parent].depth + 1
                             /\ U[i].visited = U[U[i].parent].visited \cup {U[U[i].parent].event}
                        /\ U[i].parent = 0 =>
                             /\ U[i].chain \in DOMAIN L[U[i].branch]
                             /\ U[i].depth = 1
                             /\ U[i].visited = {L[U[i].branch][U[i].chain].event}
                        /\ U[i].event \notin U[i].visited
                        /\ U[i].depth <= MaxDepth
      BY <1>0 DEF LineagesGood
    <2>1. T[i] \in Rows
      BY DEF Tables
    <2>2. T[i].parent \in Nat /\ T[i].parent < i
      BY <2>1 DEF Static, LineagesGood, Rows
    <2>3. T[i].parent # 0 => T[i].parent \in DOMAIN T
      BY <1>0, <2>2
    <2> QED
      BY <1>1, <2>2, <2>3 DEF Static, LineagesGood, SameOccurrence
  <1>4. OrdinalsFill(U)
    <2>1. \A i \in DOMAIN T :
            ChainRows(U, U[i].branch, U[i].chain) = ChainRows(T, T[i].branch, T[i].chain)
      BY <1>0, <1>1 DEF ChainRows, SameOccurrence
    <2>2. \A i \in DOMAIN T : ChainRows(T, T[i].branch, T[i].chain) \subseteq DOMAIN T
      BY DEF ChainRows
    <2>3. \A i \in DOMAIN U : 1 <= U[i].ordinal /\ U[i].ordinal <= MaxChainEvents
      BY <1>0, <1>1 DEF Static, OrdinalsFill, SameOccurrence
    <2>4. ASSUME NEW i \in DOMAIN U, NEW n \in 1..U[i].ordinal
          PROVE  \E j \in ChainRows(U, U[i].branch, U[i].chain) : U[j].ordinal = n
      <3>1. i \in DOMAIN T /\ n \in 1..T[i].ordinal
        BY <1>0, <1>1, <2>4 DEF SameOccurrence
      <3>2. PICK j \in ChainRows(T, T[i].branch, T[i].chain) : T[j].ordinal = n
        BY <3>1 DEF Static, OrdinalsFill
      <3>3. j \in ChainRows(U, U[i].branch, U[i].chain) /\ j \in DOMAIN T
        BY <2>1, <2>2, <3>1
      <3> QED
        BY <1>1, <3>2, <3>3 DEF SameOccurrence
    <2>5. ASSUME NEW i \in DOMAIN U, NEW j \in DOMAIN U,
                 U[i].branch = U[j].branch, U[i].chain = U[j].chain, U[i].ordinal = U[j].ordinal
          PROVE  i = j
      BY <1>0, <1>1, <2>5 DEF Static, OrdinalsFill, SameOccurrence
    <2> QED
      BY <2>3, <2>4, <2>5 DEF OrdinalsFill
  <1>5. \A i \in DOMAIN T : Settled(T[i]) => Settled(U[i])
    BY DEF Touched
  <1>6. StartedAfterSettled(U)
    BY <1>0, <1>1, <1>5 DEF Progress, StartedAfterSettled, Touched, SameOccurrence
  <1>7. \A i \in DOMAIN T : (U[i].status = "acknowledged") = (T[i].status = "acknowledged")
    BY DEF Touched, Settled
  <1>8. AppliedIsNotQuarantined(U)
    BY <1>0 DEF Progress, AppliedIsNotQuarantined, Touched, Settled
  <1>9. EntriesAreRows(U, L) /\ AppliedIsLogged(U, L)
    BY <1>0, <1>1, <1>7 DEF Progress, EntriesAreRows, AppliedIsLogged, SameOccurrence
  <1>10. RootsClosed(U, L)
    <2>1. \A i \in DOMAIN T : T[i].quarantined => U[i].quarantined
      BY DEF Touched, Settled
    <2> SUFFICES ASSUME NEW b \in Branches, NEW k \in DOMAIN L[b], NEW i \in DOMAIN U,
                        L[b][k].kind \in {"event", "generation"},
                        U[i].branch = b, U[i].revision < k
                 PROVE  U[i].quarantined \/ \E l \in 1..(k - 1) : L[b][l].row = i
      BY DEF RootsClosed
    <2>2. i \in DOMAIN T /\ T[i].branch = b /\ T[i].revision < k
      BY <1>0, <1>1 DEF SameOccurrence
    <2>3. T[i].quarantined \/ \E l \in 1..(k - 1) : L[b][l].row = i
      BY <2>2 DEF Progress, RootsClosed
    <2> QED
      BY <2>1, <2>2, <2>3
  <1> QED
    BY <1>2, <1>3, <1>4, <1>6, <1>8, <1>9, <1>10 DEF Static, Progress

---------------------------------------------------------------------------
(* Steps that apply an event *)

\* Entries es are appended to the log of branch b and new rows of lineage l to
\* the table, and row c is acknowledged (0: a root event is applied).
Applies(T, U, L, M, b, l, c, es) ==
    /\ M = [L EXCEPT ![b] = L[b] \o es]
    /\ Len(T) <= Len(U)
    /\ OrdinalsBounded(U)
    /\ \A i \in 1..Len(T) : i # c => U[i] = T[i]
    /\ \A i \in (Len(T) + 1)..Len(U) : NewRow(T, U, b, l, Len(L[b]) + Len(es), i)

\* The row that is applied was claimed, and its entry is the one appended.
AppliesRow(T, U, b, c, es) ==
    /\ c \in 1..Len(T)
    /\ T[c].branch = b
    /\ T[c].status = "claimed"
    /\ ~T[c].quarantined
    /\ SameOccurrence(U[c], T[c])
    /\ U[c].status = "acknowledged"
    /\ ~U[c].quarantined
    /\ Len(es) = 1
    /\ es[1].kind = "derived"
    /\ es[1].row = c

\* A root event is applied; an ordinary one finds the branch settled.
AppliesRoot(T, b, c, es) ==
    /\ c = 0
    /\ Len(es) >= 1
    /\ \A k \in 1..Len(es) : es[k].row = 0
    /\ (\E k \in 1..Len(es) : es[k].kind \in {"event", "generation"}) =>
         /\ Len(es) = 1
         /\ \A i \in DOMAIN T : T[i].branch = b => Settled(T[i])

\* The new rows inherit from the applied row or from the applied root event.
Inherits(T, M, b, l, c) ==
    /\ l \in Lineages
    /\ l.parent # 0 => /\ l.parent = c
                       /\ c \in 1..Len(T)
                       /\ T[c].branch = b
                       /\ l.chain = T[c].chain
                       /\ l.depth = T[c].depth + 1
                       /\ l.visited = T[c].visited \cup {T[c].event}
    /\ l.parent = 0 => /\ l.chain \in DOMAIN M[b]
                       /\ l.depth = 1
                       /\ l.visited = {M[b][l.chain].event}

\* Log M extends log L of branch b by es, and U extends T.
Grown(T, U, L, M, b, es) ==
    /\ M \in Logs
    /\ Len(T) \in Nat /\ Len(U) \in Nat /\ DOMAIN T = 1..Len(T) /\ DOMAIN U = 1..Len(U)
    /\ DOMAIN T \subseteq DOMAIN U
    /\ \A a \in Branches : a # b => M[a] = L[a]
    /\ \A a \in Branches : /\ Len(L[a]) \in Nat /\ Len(M[a]) \in Nat
                           /\ DOMAIN L[a] = 1..Len(L[a])
                           /\ DOMAIN M[a] = 1..Len(M[a])
                           /\ Len(L[a]) <= Len(M[a])
                           /\ \A k \in 1..Len(L[a]) : M[a][k] = L[a][k]
    /\ Len(M[b]) = Len(L[b]) + Len(es)
    /\ Len(es) \in Nat /\ Len(es) >= 1
    /\ \A k \in 1..Len(es) : M[b][Len(L[b]) + k] = es[k]
    /\ \A i \in DOMAIN T : SameOccurrence(U[i], T[i])
    /\ \A i \in DOMAIN T : Settled(T[i]) => U[i] = T[i]
    /\ \A i \in DOMAIN T : U[i].quarantined = T[i].quarantined

\* What holds of lengths, old rows and old entries after such a step.
LEMMA AppliesFacts ==
    ASSUME NEW T \in Tables, NEW U \in Tables, NEW L \in Logs, NEW M,
           NEW b \in Branches, NEW l, NEW c, NEW es \in Seq(Entries),
           Applies(T, U, L, M, b, l, c, es),
           AppliesRow(T, U, b, c, es) \/ AppliesRoot(T, b, c, es)
    PROVE  Grown(T, U, L, M, b, es)
  <1>1. Len(T) \in Nat /\ Len(U) \in Nat /\ DOMAIN T = 1..Len(T) /\ DOMAIN U = 1..Len(U)
    BY DEF Tables
  <1>2. DOMAIN T \subseteq DOMAIN U
    BY <1>1 DEF Applies
  <1>3. \A a \in Branches : L[a] \in Seq(Entries) /\ Len(L[a]) \in Nat /\ DOMAIN L[a] = 1..Len(L[a])
    BY DEF Logs
  <1>4. /\ L[b] \o es \in Seq(Entries)
        /\ Len(L[b] \o es) = Len(L[b]) + Len(es)
        /\ Len(es) \in Nat
        /\ \A k \in 1..(Len(L[b]) + Len(es)) :
             (L[b] \o es)[k] = IF k <= Len(L[b]) THEN L[b][k] ELSE es[k - Len(L[b])]
    BY <1>3, ConcatProperties
  <1>5. M \in Logs /\ M[b] = L[b] \o es /\ \A a \in Branches : a # b => M[a] = L[a]
    BY <1>4 DEF Applies, Logs
  <1>6. Len(es) >= 1
    BY DEF AppliesRow, AppliesRoot
  <1>7. /\ Len(M[b]) = Len(L[b]) + Len(es)
        /\ DOMAIN M[b] = 1..Len(M[b])
        /\ \A k \in 1..Len(L[b]) : M[b][k] = L[b][k]
        /\ \A k \in 1..Len(es) : M[b][Len(L[b]) + k] = es[k]
    <2>1. Len(L[b]) \in Nat
      BY <1>3
    <2>2. \A k \in 1..Len(L[b]) : M[b][k] = L[b][k]
      BY <1>4, <1>5, <2>1
    <2>3. \A k \in 1..Len(es) : M[b][Len(L[b]) + k] = es[k]
      <3> SUFFICES ASSUME NEW k \in 1..Len(es) PROVE M[b][Len(L[b]) + k] = es[k]
        OBVIOUS
      <3>1. /\ Len(L[b]) + k \in 1..(Len(L[b]) + Len(es))
            /\ ~(Len(L[b]) + k <= Len(L[b]))
            /\ (Len(L[b]) + k) - Len(L[b]) = k
        BY <1>4, <2>1
      <3> QED
        BY <1>4, <1>5, <3>1
    <2> QED
      BY <1>4, <1>5, <2>2, <2>3
  <1>8. \A a \in Branches : /\ Len(M[a]) \in Nat
                            /\ DOMAIN M[a] = 1..Len(M[a])
                            /\ Len(L[a]) <= Len(M[a])
                            /\ \A k \in 1..Len(L[a]) : M[a][k] = L[a][k]
    BY <1>3, <1>4, <1>5, <1>7
  <1>9. \A i \in DOMAIN T : /\ SameOccurrence(U[i], T[i])
                            /\ Settled(T[i]) => U[i] = T[i]
                            /\ U[i].quarantined = T[i].quarantined
    <2> SUFFICES ASSUME NEW i \in DOMAIN T
                 PROVE  /\ SameOccurrence(U[i], T[i])
                        /\ Settled(T[i]) => U[i] = T[i]
                        /\ U[i].quarantined = T[i].quarantined
      OBVIOUS
    <2>1. CASE i # c
      BY <1>1, <2>1 DEF Applies, SameOccurrence
    <2>2. CASE i = c
      <3>1. AppliesRow(T, U, b, c, es)
        BY <1>1, <2>2 DEF AppliesRoot
      <3>2. T[c].quarantined \in BOOLEAN /\ U[c].quarantined \in BOOLEAN
        <4>1. T[c] \in Rows /\ U[c] \in Rows
          BY <1>1, <1>2, <2>2 DEF Tables
        <4> QED
          BY <4>1 DEF Rows
      <3> QED
        BY <2>2, <3>1, <3>2 DEF AppliesRow, Settled
    <2> QED
      BY <2>1, <2>2
  <1> QED
    BY <1>1, <1>2, <1>3, <1>4, <1>5, <1>6, <1>7, <1>8, <1>9 DEF Grown

\* New rows come after every row of the branch, inherit and number on.
LEMMA AppliesKeepsStatic ==
    ASSUME NEW T \in Tables, NEW U \in Tables, NEW L \in Logs, NEW M,
           NEW b \in Branches, NEW l, NEW c, NEW es \in Seq(Entries),
           Applies(T, U, L, M, b, l, c, es), Inherits(T, M, b, l, c),
           AppliesRow(T, U, b, c, es) \/ AppliesRoot(T, b, c, es),
           Static(T, L)
    PROVE  Static(U, M)
  <1> DEFINE N == Len(T)
             r == Len(L[b]) + Len(es)
             last == NextOrdinal(T, b, l.chain)
  <1>0. /\ M \in Logs
        /\ N \in Nat /\ Len(U) \in Nat /\ DOMAIN T = 1..N /\ DOMAIN U = 1..Len(U)
        /\ N <= Len(U)
        /\ DOMAIN T \subseteq DOMAIN U
        /\ \A a \in Branches : a # b => M[a] = L[a]
        /\ \A a \in Branches : /\ Len(L[a]) \in Nat /\ Len(M[a]) \in Nat
                               /\ DOMAIN L[a] = 1..Len(L[a])
                               /\ DOMAIN M[a] = 1..Len(M[a])
                               /\ Len(L[a]) <= Len(M[a])
                               /\ \A k \in 1..Len(L[a]) : M[a][k] = L[a][k]
        /\ Len(M[b]) = r
        /\ Len(es) \in Nat /\ Len(es) >= 1
        /\ \A i \in DOMAIN T : SameOccurrence(U[i], T[i])
    <2>1. N <= Len(U)
      BY DEF Applies
    <2>2. Grown(T, U, L, M, b, es)
      BY AppliesFacts
    <2> QED
      BY <2>1, <2>2, Zenon DEF Grown
  <1>1. /\ last \in Nat
        /\ last <= N
        /\ \A i \in ChainRows(T, b, l.chain) : T[i].ordinal <= last
        /\ last = 0 \/ \E i \in ChainRows(T, b, l.chain) : T[i].ordinal = last
    BY NextOrdinalFacts DEF Static, Tables
  <1>2. \A i \in DOMAIN U : i \in DOMAIN T \/ i \in (N + 1)..Len(U)
    BY <1>0
  <1>3. \A i \in (N + 1)..Len(U) : NewRow(T, U, b, l, r, i) /\ i \in DOMAIN U
    BY <1>0 DEF Applies
  <1>4. \A i \in DOMAIN T : /\ T[i] \in Rows
                            /\ T[i].branch \in Branches
                            /\ T[i].revision \in Nat /\ T[i].parent \in Nat
                            /\ T[i].ordinal \in Nat
    <2> SUFFICES ASSUME NEW i \in DOMAIN T
                 PROVE  /\ T[i] \in Rows
                        /\ T[i].branch \in Branches
                        /\ T[i].revision \in Nat /\ T[i].parent \in Nat
                        /\ T[i].ordinal \in Nat
      OBVIOUS
    <2>1. T[i] \in Rows
      BY DEF Tables
    <2> QED
      BY <2>1 DEF Rows
  <1> HIDE DEF N, r, last
  <1>5. OrdinalsBounded(U)
    BY DEF Applies
  <1>6. RevisionsPast(U, M)
    <2> SUFFICES ASSUME NEW i \in DOMAIN U PROVE U[i].revision <= Len(M[U[i].branch])
      BY DEF RevisionsPast
    <2>1. CASE i \in DOMAIN T
      <3>1. U[i].branch = T[i].branch /\ U[i].revision = T[i].revision
        BY <1>0, <2>1 DEF SameOccurrence
      <3>2. T[i].revision <= Len(L[T[i].branch])
        BY <2>1 DEF Static, RevisionsPast
      <3> QED
        BY <1>0, <1>4, <2>1, <3>1, <3>2
    <2>2. CASE i \in (N + 1)..Len(U)
      BY <1>0, <1>3, <2>2 DEF NewRow, r
    <2> QED
      BY <1>2, <2>1, <2>2
  <1>7. InTableOrder(U)
    <2> SUFFICES ASSUME NEW i \in DOMAIN U, NEW j \in DOMAIN U, i < j, U[i].branch = U[j].branch
                 PROVE  Before(U, i, j)
      BY DEF InTableOrder
    <2>1. CASE i \in DOMAIN T /\ j \in DOMAIN T
      <3>1. Before(T, i, j)
        BY <1>0, <2>1 DEF Static, InTableOrder, SameOccurrence
      <3> QED
        BY <1>0, <2>1, <3>1 DEF Before, SameOccurrence
    <2>2. CASE i \in DOMAIN T /\ j \in (N + 1)..Len(U)
      <3>1. U[j].revision = r /\ U[j].branch = b
        BY <1>3, <2>2 DEF NewRow
      <3>2. T[i].branch = b /\ U[i].revision = T[i].revision /\ T[i].revision <= Len(L[b])
        BY <1>0, <2>2, <3>1 DEF SameOccurrence, Static, RevisionsPast
      <3>3. U[i].revision < U[j].revision
        BY <1>0, <1>4, <2>2, <3>1, <3>2 DEF r
      <3> QED
        BY <3>3 DEF Before
    <2>3. CASE i \in (N + 1)..Len(U) /\ j \in (N + 1)..Len(U)
      <3>1. /\ U[i].revision = U[j].revision /\ U[i].chain = U[j].chain
            /\ U[i].ordinal = last + (i - N) /\ U[j].ordinal = last + (j - N)
        BY <1>3, <2>3 DEF NewRow, last, N
      <3>2. last + (i - N) < last + (j - N)
        BY <1>0, <1>1, <2>3
      <3> QED
        BY <3>1, <3>2 DEF Before
    <2>4. ~(i \in (N + 1)..Len(U) /\ j \in DOMAIN T)
      BY <1>0
    <2> QED
      BY <1>2, <2>1, <2>2, <2>3, <2>4
  <1>8. LineagesGood(U, M)
    <2> DEFINE Good(i) ==
                 /\ U[i].parent < i
                 /\ U[i].parent # 0 =>
                      /\ U[U[i].parent].branch = U[i].branch
                      /\ U[U[i].parent].chain = U[i].chain
                      /\ U[i].depth = U[U[i].parent].depth + 1
                      /\ U[i].visited = U[U[i].parent].visited \cup {U[U[i].parent].event}
                 /\ U[i].parent = 0 =>
                      /\ U[i].chain \in DOMAIN M[U[i].branch]
                      /\ U[i].depth = 1
                      /\ U[i].visited = {M[U[i].branch][U[i].chain].event}
                 /\ U[i].event \notin U[i].visited
                 /\ U[i].depth <= MaxDepth
    <2>1. ASSUME NEW i \in DOMAIN T PROVE Good(i)
      <3>1. /\ T[i].parent < i
            /\ T[i].parent # 0 =>
                 /\ T[T[i].parent].branch = T[i].branch
                 /\ T[T[i].parent].chain = T[i].chain
                 /\ T[i].depth = T[T[i].parent].depth + 1
                 /\ T[i].visited = T[T[i].parent].visited \cup {T[T[i].parent].event}
            /\ T[i].parent = 0 =>
                 /\ T[i].chain \in DOMAIN L[T[i].branch]
                 /\ T[i].depth = 1
                 /\ T[i].visited = {L[T[i].branch][T[i].chain].event}
            /\ T[i].event \notin T[i].visited
            /\ T[i].depth <= MaxDepth
        BY DEF Static, LineagesGood
      <3>2. T[i].parent # 0 => T[i].parent \in DOMAIN T
        BY <1>0, <1>4, <3>1
      <3>3. SameOccurrence(U[i], T[i])
            /\ (T[i].parent # 0 => SameOccurrence(U[T[i].parent], T[T[i].parent]))
        BY <1>0, <3>2
      <3>4. T[i].parent = 0 =>
              /\ T[i].chain \in DOMAIN M[T[i].branch]
              /\ M[T[i].branch][T[i].chain] = L[T[i].branch][T[i].chain]
        <4> DEFINE a == T[i].branch
        <4>1. /\ Len(L[a]) \in Nat /\ Len(M[a]) \in Nat
              /\ DOMAIN L[a] = 1..Len(L[a]) /\ DOMAIN M[a] = 1..Len(M[a])
              /\ Len(L[a]) <= Len(M[a])
              /\ \A k \in 1..Len(L[a]) : M[a][k] = L[a][k]
          BY <1>0, <1>4
        <4> HIDE DEF a
        <4>2. T[i].parent = 0 => T[i].chain \in DOMAIN L[a]
          BY <3>1 DEF a
        <4>3. T[i].parent = 0 => T[i].chain \in DOMAIN M[a] /\ M[a][T[i].chain] = L[a][T[i].chain]
          BY <4>1, <4>2
        <4> QED
          BY <4>3 DEF a
      <3> QED
        BY <3>1, <3>3, <3>4 DEF SameOccurrence
    <2>2. ASSUME NEW i \in (N + 1)..Len(U) PROVE Good(i)
      <3>1. /\ U[i].branch = b /\ U[i].chain = l.chain /\ U[i].parent = l.parent
            /\ U[i].depth = l.depth /\ U[i].depth <= MaxDepth
            /\ U[i].event \notin l.visited /\ U[i].visited = l.visited
        BY <1>3 DEF NewRow
      <3>2. l.parent # 0 =>
              /\ l.parent = c /\ c \in DOMAIN T
              /\ T[c].branch = b
              /\ l.chain = T[c].chain
              /\ l.depth = T[c].depth + 1
              /\ l.visited = T[c].visited \cup {T[c].event}
        BY <1>0 DEF Inherits, N
      <3>3. l.parent = 0 => /\ l.chain \in DOMAIN M[b]
                            /\ l.depth = 1
                            /\ l.visited = {M[b][l.chain].event}
        BY DEF Inherits
      <3>4. l.parent # 0 => SameOccurrence(U[c], T[c])
        BY <1>0, <3>2
      <3>5. l.parent < i
        BY <1>0, <3>2
      <3> QED
        BY <3>1, <3>2, <3>3, <3>4, <3>5 DEF SameOccurrence
    <2>3. \A i \in DOMAIN U : Good(i)
      <3> HIDE DEF Good
      <3> QED
        BY <1>2, <2>1, <2>2
    <2> QED
      BY <2>3 DEF LineagesGood
  <1>9. OrdinalsFill(U)
    <2>1. ASSUME NEW i \in DOMAIN U PROVE 1 <= U[i].ordinal /\ U[i].ordinal <= MaxChainEvents
      <3>1. CASE i \in DOMAIN T
        BY <1>0, <3>1 DEF Static, OrdinalsFill, SameOccurrence
      <3>2. CASE i \in (N + 1)..Len(U)
        <4>1. U[i].ordinal = last + (i - N) /\ U[i].ordinal <= MaxChainEvents
          BY <1>3, <3>2 DEF NewRow, last, N
        <4> QED
          BY <1>0, <1>1, <3>2, <4>1
      <3> QED
        BY <1>2, <3>1, <3>2
    <2>2. ASSUME NEW i \in DOMAIN T, NEW n \in 1..T[i].ordinal
          PROVE  \E j \in ChainRows(U, T[i].branch, T[i].chain) : U[j].ordinal = n
      <3>1. PICK j \in ChainRows(T, T[i].branch, T[i].chain) : T[j].ordinal = n
        BY DEF Static, OrdinalsFill
      <3>2. j \in DOMAIN T /\ j \in DOMAIN U
        BY <1>0 DEF ChainRows
      <3>3. j \in ChainRows(U, T[i].branch, T[i].chain) /\ U[j].ordinal = n
        BY <1>0, <3>1, <3>2 DEF ChainRows, SameOccurrence
      <3> QED
        BY <3>3
    <2>3. ASSUME NEW i \in DOMAIN U, NEW n \in 1..U[i].ordinal
          PROVE  \E j \in ChainRows(U, U[i].branch, U[i].chain) : U[j].ordinal = n
      <3>1. CASE i \in DOMAIN T
        <4>1. U[i].branch = T[i].branch /\ U[i].chain = T[i].chain /\ U[i].ordinal = T[i].ordinal
          BY <1>0, <3>1 DEF SameOccurrence
        <4> QED
          BY <2>2, <3>1, <4>1
      <3>2. CASE i \in (N + 1)..Len(U)
        <4>1. U[i].branch = b /\ U[i].chain = l.chain /\ U[i].ordinal = last + (i - N)
          BY <1>3, <3>2 DEF NewRow, last, N
        <4>2. CASE n <= last
          <5>1. PICK m \in ChainRows(T, b, l.chain) : T[m].ordinal = last
            BY <1>1, <4>2
          <5>2. m \in DOMAIN T /\ T[m].branch = b /\ T[m].chain = l.chain
            BY <5>1 DEF ChainRows
          <5>3. n \in 1..T[m].ordinal
            BY <1>1, <4>1, <4>2, <5>1
          <5> QED
            BY <2>2, <4>1, <5>2, <5>3
        <4>3. CASE ~(n <= last)
          <5> DEFINE j == N + (n - last)
          <5>1. j \in (N + 1)..Len(U) /\ last + (j - N) = n
            BY <1>0, <1>1, <3>2, <4>1, <4>3
          <5>2. U[j].branch = b /\ U[j].chain = l.chain /\ U[j].ordinal = n /\ j \in DOMAIN U
            BY <1>3, <5>1 DEF NewRow, last, N
          <5> HIDE DEF j
          <5>3. j \in ChainRows(U, U[i].branch, U[i].chain)
            BY <4>1, <5>2 DEF ChainRows
          <5> QED
            BY <5>2, <5>3
        <4> QED
          BY <4>2, <4>3
      <3> QED
        BY <1>2, <3>1, <3>2
    <2>4. ASSUME NEW i \in DOMAIN U, NEW j \in DOMAIN U,
                 U[i].branch = U[j].branch, U[i].chain = U[j].chain, U[i].ordinal = U[j].ordinal
          PROVE  i = j
      <3>1. CASE i \in DOMAIN T /\ j \in DOMAIN T
        BY <1>0, <2>4, <3>1 DEF Static, OrdinalsFill, SameOccurrence
      <3>2. ASSUME NEW m \in DOMAIN T, NEW n \in (N + 1)..Len(U),
                   U[m].branch = U[n].branch, U[m].chain = U[n].chain, U[m].ordinal = U[n].ordinal
            PROVE  FALSE
        <4>1. U[n].branch = b /\ U[n].chain = l.chain /\ U[n].ordinal = last + (n - N)
          BY <1>3 DEF NewRow, last, N
        <4>2. m \in ChainRows(T, b, l.chain) /\ U[m].ordinal = T[m].ordinal
          BY <1>0, <3>2, <4>1 DEF ChainRows, SameOccurrence
        <4>3. T[m].ordinal <= last /\ T[m].ordinal \in Nat
          BY <1>1, <1>4, <4>2
        <4> QED
          BY <1>0, <1>1, <3>2, <4>1, <4>2, <4>3
      <3>3. CASE i \in (N + 1)..Len(U) /\ j \in (N + 1)..Len(U)
        <4>1. U[i].ordinal = last + (i - N) /\ U[j].ordinal = last + (j - N)
          BY <1>3, <3>3 DEF NewRow, last, N
        <4>2. last + (i - N) = last + (j - N)
          BY <2>4, <4>1
        <4> QED
          BY <1>0, <1>1, <3>3, <4>2
      <3> QED
        BY <1>2, <2>4, <3>1, <3>2, <3>3
    <2> QED
      BY <2>1, <2>3, <2>4 DEF OrdinalsFill
  <1> QED
    BY <1>5, <1>6, <1>7, <1>8, <1>9 DEF Static

\* The applied row is the first of its branch that was not settled, and an
\* ordinary root event finds all of them settled.
LEMMA AppliesKeepsProgress ==
    ASSUME NEW T \in Tables, NEW U \in Tables, NEW L \in Logs, NEW M,
           NEW b \in Branches, NEW l, NEW c, NEW es \in Seq(Entries),
           Applies(T, U, L, M, b, l, c, es),
           AppliesRow(T, U, b, c, es) \/ AppliesRoot(T, b, c, es),
           Static(T, L), Progress(T, L)
    PROVE  Progress(U, M)
  <1> DEFINE N == Len(T)
             r == Len(L[b]) + Len(es)
  <1>0. /\ N \in Nat /\ Len(U) \in Nat /\ DOMAIN T = 1..N /\ DOMAIN U = 1..Len(U)
        /\ DOMAIN T \subseteq DOMAIN U
        /\ \A a \in Branches : a # b => M[a] = L[a]
        /\ \A a \in Branches : /\ Len(L[a]) \in Nat /\ Len(M[a]) \in Nat
                               /\ DOMAIN L[a] = 1..Len(L[a])
                               /\ DOMAIN M[a] = 1..Len(M[a])
                               /\ Len(L[a]) <= Len(M[a])
                               /\ \A k \in 1..Len(L[a]) : M[a][k] = L[a][k]
        /\ Len(M[b]) = r
        /\ Len(es) \in Nat /\ Len(es) >= 1
        /\ \A k \in 1..Len(es) : M[b][Len(L[b]) + k] = es[k]
        /\ \A i \in DOMAIN T : SameOccurrence(U[i], T[i])
        /\ \A i \in DOMAIN T : Settled(T[i]) => U[i] = T[i]
        /\ \A i \in DOMAIN T : U[i].quarantined = T[i].quarantined
    <2>1. Grown(T, U, L, M, b, es)
      BY AppliesFacts
    <2> QED
      BY <2>1, Zenon DEF Grown
  <1>1. \A i \in DOMAIN U : i \in DOMAIN T \/ i \in (N + 1)..Len(U)
    BY <1>0
  <1>2. \A i \in (N + 1)..Len(U) :
          U[i].branch = b /\ U[i].revision = r /\ U[i].status = "pending" /\ ~U[i].quarantined
    BY DEF Applies, NewRow
  <1>3. \A i \in DOMAIN T : i # c => U[i] = T[i]
    BY <1>0 DEF Applies
  <1>4. c # 0 => AppliesRow(T, U, b, c, es) /\ c \in DOMAIN T
    BY <1>0 DEF AppliesRow, AppliesRoot
  <1>5. c = 0 => AppliesRoot(T, b, c, es)
    BY <1>0 DEF AppliesRow
  <1>6. \A i \in DOMAIN T : i \in Nat /\ i # 0 /\ T[i].branch \in Branches
    <2> SUFFICES ASSUME NEW i \in DOMAIN T PROVE i \in Nat /\ i # 0 /\ T[i].branch \in Branches
      OBVIOUS
    <2>1. T[i] \in Rows
      BY DEF Tables
    <2> QED
      BY <1>0, <2>1 DEF Rows
  \* an entry of the new log is an old one or one of es
  <1>7. \A a \in Branches : \A k \in DOMAIN M[a] :
          \/ k \in DOMAIN L[a] /\ M[a][k] = L[a][k]
          \/ /\ a = b
             /\ k - Len(L[b]) \in 1..Len(es)
             /\ k > Len(L[b])
             /\ M[a][k] = es[k - Len(L[b])]
    <2> SUFFICES ASSUME NEW a \in Branches, NEW k \in DOMAIN M[a], ~(k \in DOMAIN L[a])
                 PROVE  /\ a = b
                        /\ k - Len(L[b]) \in 1..Len(es)
                        /\ k > Len(L[b])
                        /\ M[a][k] = es[k - Len(L[b])]
      BY <1>0
    <2>1. a = b
      BY <1>0
    <2>2. k \in 1..(Len(L[b]) + Len(es)) /\ k > Len(L[b]) /\ Len(L[b]) \in Nat
      BY <1>0, <2>1
    <2>3. k - Len(L[b]) \in 1..Len(es) /\ k = Len(L[b]) + (k - Len(L[b]))
      BY <1>0, <2>2
    <2> QED
      BY <1>0, <2>1, <2>2, <2>3
  <1> HIDE DEF N, r
  <1>8. StartedAfterSettled(U)
    <2> SUFFICES ASSUME NEW i \in DOMAIN U, NEW j \in DOMAIN U, j < i, U[j].branch = U[i].branch,
                        U[i].status # "pending", ~U[i].quarantined
                 PROVE  Settled(U[j])
      BY DEF StartedAfterSettled
    <2>1. i \in DOMAIN T
      BY <1>1, <1>2
    <2>2. j \in DOMAIN T
      BY <1>0, <2>1
    <2>3. T[j].branch = T[i].branch /\ T[i].status # "pending" /\ ~T[i].quarantined
      <3>1. SameOccurrence(U[i], T[i]) /\ SameOccurrence(U[j], T[j])
        BY <1>0, <2>1, <2>2, Zenon
      <3>2. T[j].branch = T[i].branch
        BY <3>1 DEF SameOccurrence
      <3>3. ~T[i].quarantined
        BY <1>0, <2>1, Zenon
      <3>4. CASE i = c
        <4>1. T[c].status = "claimed"
          BY <1>4, <1>6, <2>1, <3>4, Zenon DEF AppliesRow
        <4> QED
          BY <3>2, <3>3, <3>4, <4>1
      <3>5. CASE i # c
        BY <1>3, <2>1, <3>2, <3>3, <3>5, Zenon
      <3> QED
        BY <3>4, <3>5
    <2>4. Settled(T[j])
      BY <2>1, <2>2, <2>3 DEF Progress, StartedAfterSettled
    <2> QED
      BY <1>0, <2>2, <2>4
  <1>9. AppliedIsNotQuarantined(U)
    <2> SUFFICES ASSUME NEW i \in DOMAIN U, U[i].status = "acknowledged" PROVE ~U[i].quarantined
      BY DEF AppliedIsNotQuarantined
    <2>1. i \in DOMAIN T
      BY <1>1, <1>2
    <2>2. CASE i = c
      BY <1>4, <1>6, <2>1, <2>2 DEF AppliesRow
    <2>3. CASE i # c
      BY <1>3, <2>1, <2>3 DEF Progress, AppliedIsNotQuarantined
    <2> QED
      BY <2>2, <2>3
  <1>10. EntriesAreRows(U, M)
    <2> SUFFICES ASSUME NEW a \in Branches, NEW k \in DOMAIN M[a], M[a][k].row # 0
                 PROVE  /\ M[a][k].row \in DOMAIN U
                        /\ U[M[a][k].row].branch = a
                        /\ U[M[a][k].row].status = "acknowledged"
      BY DEF EntriesAreRows
    <2>1. CASE k \in DOMAIN L[a] /\ M[a][k] = L[a][k]
      <3>1. /\ M[a][k].row \in DOMAIN T
            /\ T[M[a][k].row].branch = a
            /\ T[M[a][k].row].status = "acknowledged"
        BY <2>1 DEF Progress, EntriesAreRows
      <3> QED
        BY <1>0, <3>1 DEF Settled
    <2>2. CASE a = b /\ k - Len(L[b]) \in 1..Len(es) /\ M[a][k] = es[k - Len(L[b])]
      <3>1. c # 0
        BY <1>5, <2>2 DEF AppliesRoot
      <3>2. AppliesRow(T, U, b, c, es) /\ c \in DOMAIN T
        BY <1>4, <3>1
      <3>3. \A x \in 1..Len(es) : es[x] = es[1]
        <4>1. Len(es) = 1
          BY <3>2 DEF AppliesRow
        <4> QED
          BY <4>1
      <3>4. M[a][k].row = c
        BY <2>2, <3>2, <3>3 DEF AppliesRow
      <3> QED
        BY <1>0, <2>2, <3>2, <3>4 DEF AppliesRow, SameOccurrence
    <2> QED
      BY <1>7, <2>1, <2>2
  <1>11. AppliedIsLogged(U, M)
    <2> SUFFICES ASSUME NEW i \in DOMAIN U, U[i].status = "acknowledged"
                 PROVE  \E k \in DOMAIN M[U[i].branch] : M[U[i].branch][k].row = i
      BY DEF AppliedIsLogged
    <2>1. i \in DOMAIN T /\ U[i].branch = T[i].branch
      BY <1>0, <1>1, <1>2 DEF SameOccurrence
    <2>2. CASE i = c
      <3>1. AppliesRow(T, U, b, c, es)
        BY <1>4, <1>6, <2>1, <2>2
      <3>2. Len(L[b]) + 1 \in DOMAIN M[b] /\ M[b][Len(L[b]) + 1] = es[1] /\ es[1].row = i /\ T[i].branch = b
        BY <1>0, <2>2, <3>1 DEF AppliesRow, r
      <3> QED
        BY <2>1, <3>2
    <2>3. CASE i # c
      <3>1. PICK k \in DOMAIN L[T[i].branch] : L[T[i].branch][k].row = i
        BY <1>3, <2>1, <2>3 DEF Progress, AppliedIsLogged
      <3>2. k \in DOMAIN M[T[i].branch] /\ M[T[i].branch][k] = L[T[i].branch][k]
        <4> DEFINE a == T[i].branch
        <4>1. /\ Len(L[a]) \in Nat /\ Len(M[a]) \in Nat
              /\ DOMAIN L[a] = 1..Len(L[a]) /\ DOMAIN M[a] = 1..Len(M[a])
              /\ Len(L[a]) <= Len(M[a])
              /\ \A n \in 1..Len(L[a]) : M[a][n] = L[a][n]
          BY <1>0, <1>6, <2>1
        <4>2. k \in DOMAIN L[a]
          OBVIOUS
        <4> HIDE DEF a
        <4>3. k \in DOMAIN M[a] /\ M[a][k] = L[a][k]
          BY <4>1, <4>2
        <4> QED
          BY <4>3 DEF a
      <3> QED
        BY <2>1, <3>1, <3>2
    <2> QED
      BY <2>2, <2>3
  <1>12. AppliedByPlace(M)
    <2> SUFFICES ASSUME NEW a \in Branches, NEW k \in DOMAIN M[a], NEW n \in DOMAIN M[a],
                        k < n, M[a][k].row # 0, M[a][n].row # 0
                 PROVE  M[a][k].row < M[a][n].row
      BY DEF AppliedByPlace
    <2>1. CASE n \in DOMAIN L[a]
      <3>1. k \in DOMAIN L[a]
        BY <1>0, <2>1
      <3>2. M[a][k] = L[a][k] /\ M[a][n] = L[a][n]
        BY <1>0, <2>1, <3>1
      <3> QED
        BY <2>1, <3>1, <3>2 DEF Progress, AppliedByPlace
    <2>2. CASE n \notin DOMAIN L[a]
      <3>1. a = b /\ n - Len(L[b]) \in 1..Len(es) /\ M[a][n] = es[n - Len(L[b])]
        BY <1>7, <2>2
      <3>2. c # 0
        BY <1>5, <3>1 DEF AppliesRoot
      <3>3. Len(es) = 1 /\ es[1].row = c
        BY <1>4, <3>2 DEF AppliesRow
      <3>11. M[a][n].row = c
        <4>1. \A x \in 1..Len(es) : es[x] = es[1]
          BY <3>3
        <4> QED
          BY <3>1, <3>3, <4>1
      <3>4. k \in DOMAIN L[a] /\ M[a][k] = L[a][k]
        <4>1. /\ Len(L[b]) \in Nat /\ DOMAIN L[b] = 1..Len(L[b])
              /\ DOMAIN M[b] = 1..(Len(L[b]) + 1)
          BY <1>0, <3>3 DEF r
        <4>2. k \in 1..(Len(L[b]) + 1) /\ n \in 1..(Len(L[b]) + 1)
          BY <3>1, <4>1
        <4>3. k \in 1..Len(L[b])
          BY <4>1, <4>2
        <4> QED
          BY <1>0, <3>1, <4>1, <4>3
      <3> DEFINE j == M[a][k].row
      <3>5. j \in DOMAIN T /\ T[j].branch = b /\ T[j].status = "acknowledged" /\ ~T[j].quarantined
        BY <3>1, <3>4 DEF Progress, EntriesAreRows, AppliedIsNotQuarantined
      <3>6. c \in DOMAIN T /\ T[c].branch = b /\ T[c].status = "claimed" /\ ~T[c].quarantined
        BY <1>4, <3>2 DEF AppliesRow
      <3>7. ~Settled(T[c])
        BY <3>6 DEF Settled
      <3> HIDE DEF j
      <3>8. ~(c < j)
        BY <3>5, <3>6, <3>7 DEF Progress, StartedAfterSettled
      <3>9. j # c /\ j \in Nat /\ c \in Nat
        BY <1>6, <3>5, <3>6
      <3>10. j < c
        BY <3>8, <3>9
      <3> QED
        BY <3>11, <3>10 DEF j
    <2> QED
      BY <2>1, <2>2
  <1>13. RootsClosed(U, M)
    <2> SUFFICES ASSUME NEW a \in Branches, NEW k \in DOMAIN M[a], NEW i \in DOMAIN U,
                        M[a][k].kind \in {"event", "generation"},
                        U[i].branch = a, U[i].revision < k
                 PROVE  U[i].quarantined \/ \E m \in 1..(k - 1) : M[a][m].row = i
      BY DEF RootsClosed
    <2>1. i \in DOMAIN T
      <3> SUFFICES ASSUME i \in (N + 1)..Len(U) PROVE FALSE
        BY <1>1
      <3>1. a = b /\ r < k
        BY <1>2
      <3> QED
        BY <1>0, <3>1
    <2>2. /\ T[i].branch = a /\ T[i].revision < k
          /\ U[i].quarantined = T[i].quarantined
      BY <1>0, <2>1 DEF SameOccurrence
    <2>3. CASE k \in DOMAIN L[a] /\ M[a][k] = L[a][k]
      <3>1. T[i].quarantined \/ \E m \in 1..(k - 1) : L[a][m].row = i
        BY <2>1, <2>2, <2>3 DEF Progress, RootsClosed
      <3>2. \A m \in 1..(k - 1) : M[a][m] = L[a][m]
        BY <1>0, <2>3
      <3> QED
        BY <2>2, <3>1, <3>2
    <2>4. CASE a = b /\ k - Len(L[b]) \in 1..Len(es) /\ k > Len(L[b]) /\ M[a][k] = es[k - Len(L[b])]
      <3>1. c = 0
        BY <1>4, <2>4 DEF AppliesRow
      <3>2. AppliesRoot(T, b, c, es)
        BY <1>5, <3>1
      <3>3. Settled(T[i])
        BY <2>1, <2>2, <2>4, <3>2 DEF AppliesRoot
      <3>4. CASE T[i].status = "acknowledged"
        <4>1. PICK m \in DOMAIN L[b] : L[b][m].row = i
          BY <2>1, <2>2, <2>4, <3>4 DEF Progress, AppliedIsLogged
        <4>2. m \in 1..Len(L[b]) /\ Len(L[b]) \in Nat /\ M[b][m] = L[b][m] /\ k \in Nat
          <5>1. Len(L[b]) \in Nat /\ Len(M[b]) \in Nat /\ DOMAIN L[b] = 1..Len(L[b])
                /\ DOMAIN M[b] = 1..Len(M[b])
            BY <1>0
          <5>2. m \in 1..Len(L[b]) /\ k \in 1..Len(M[b])
            BY <2>4, <5>1
          <5>3. M[b][m] = L[b][m]
            BY <1>0, <5>2
          <5> QED
            BY <5>1, <5>2, <5>3
        <4>3. m \in 1..(k - 1)
          BY <2>4, <4>2
        <4> QED
          BY <2>4, <4>1, <4>2, <4>3
      <3>5. CASE T[i].quarantined
        BY <2>2, <3>5
      <3> QED
        BY <3>3, <3>4, <3>5 DEF Settled
    <2> QED
      BY <1>7, <2>3, <2>4
  <1> QED
    BY <1>8, <1>9, <1>10, <1>11, <1>12, <1>13 DEF Progress

---------------------------------------------------------------------------
(* The rows of a schema-35 database *)

\* The legacy rows of n's branch up to place n, and their number.
LegacyUpTo(n) == {k \in 1..n : LegacyOn[k] = LegacyOn[n]}

LegacyOrdinal(n) == Cardinality(LegacyUpTo(n))

\* Ordinals of legacy rows count from one, within the limit, and grow along a branch.
LEMMA LegacyOrdinalFacts ==
    /\ \A n \in 1..Len(LegacyOn) :
         /\ LegacyOrdinal(n) \in Nat
         /\ 1 <= LegacyOrdinal(n)
         /\ LegacyOrdinal(n) <= n
         /\ LegacyOrdinal(n) <= MaxChainEvents
    /\ \A m, n \in 1..Len(LegacyOn) :
         m < n /\ LegacyOn[m] = LegacyOn[n] => LegacyOrdinal(m) < LegacyOrdinal(n)
  <1>0. /\ LegacyOn \in Seq(Branches) /\ Len(LegacyOn) \in Nat
        /\ DOMAIN LegacyOn = 1..Len(LegacyOn)
        /\ MaxChainEvents \in Nat
    BY OutboxAssumption, ChainAssumption
  <1>1. \A n \in Nat : IsFiniteSet(1..n) /\ Cardinality(1..n) = n
    <2> SUFFICES ASSUME NEW n \in Nat PROVE IsFiniteSet(1..n) /\ Cardinality(1..n) = n
      OBVIOUS
    <2>1. IsFiniteSet(1..n) /\ Cardinality(1..n) = IF 1 > n THEN 0 ELSE n - 1 + 1
      BY FS_Interval
    <2> QED
      BY <2>1
  <1>2. ASSUME NEW n \in 1..Len(LegacyOn)
        PROVE  /\ IsFiniteSet(LegacyUpTo(n))
               /\ LegacyOrdinal(n) \in Nat
               /\ 1 <= LegacyOrdinal(n)
               /\ LegacyOrdinal(n) <= n
               /\ LegacyOrdinal(n) <= MaxChainEvents
    <2>1. LegacyUpTo(n) \subseteq 1..n /\ n \in LegacyUpTo(n) /\ n \in Nat
      BY <1>0 DEF LegacyUpTo
    <2>2. IsFiniteSet(LegacyUpTo(n)) /\ LegacyOrdinal(n) <= n
      BY <1>1, <2>1, FS_Subset DEF LegacyOrdinal
    <2>3. LegacyOrdinal(n) \in Nat /\ LegacyOrdinal(n) # 0
      <3>1. LegacyOrdinal(n) \in Nat
        BY <2>2, FS_CardinalityType DEF LegacyOrdinal
      <3>2. Cardinality(LegacyUpTo(n)) = 0 <=> LegacyUpTo(n) = {}
        BY <2>2, FS_EmptySet
      <3> QED
        BY <2>1, <3>1, <3>2 DEF LegacyOrdinal
    <2>4. LegacyOrdinal(n) <= MaxChainEvents
      <3> DEFINE All == {k \in DOMAIN LegacyOn : LegacyOn[k] = LegacyOn[n]}
      <3>1. LegacyOn[n] \in Branches
        BY <1>0
      <3>2. Cardinality(All) <= MaxChainEvents
        BY <3>1, OutboxAssumption
      <3>3. LegacyUpTo(n) \subseteq All /\ All \subseteq 1..Len(LegacyOn)
        BY <1>0 DEF LegacyUpTo
      <3> HIDE DEF All
      <3>4. IsFiniteSet(All)
        BY <1>0, <1>1, <3>3, FS_Subset
      <3>5. Cardinality(All) \in Nat /\ Cardinality(LegacyUpTo(n)) <= Cardinality(All)
        BY <3>3, <3>4, FS_Subset, FS_CardinalityType
      <3> QED
        BY <1>0, <2>3, <3>2, <3>5 DEF LegacyOrdinal
    <2> QED
      BY <2>2, <2>3, <2>4
  <1>3. ASSUME NEW m \in 1..Len(LegacyOn), NEW n \in 1..Len(LegacyOn),
               m < n, LegacyOn[m] = LegacyOn[n]
        PROVE  LegacyOrdinal(m) < LegacyOrdinal(n)
    <2>1. LegacyUpTo(m) \subseteq LegacyUpTo(n)
      BY <1>0, <1>3 DEF LegacyUpTo
    <2>2. n \in LegacyUpTo(n) /\ n \notin LegacyUpTo(m)
      BY <1>0, <1>3 DEF LegacyUpTo
    <2>3. IsFiniteSet(LegacyUpTo(n))
      BY <1>2
    <2>4. /\ LegacyOrdinal(m) <= LegacyOrdinal(n)
          /\ LegacyOrdinal(m) = LegacyOrdinal(n) => LegacyUpTo(m) = LegacyUpTo(n)
      BY <2>1, <2>3, FS_Subset DEF LegacyOrdinal
    <2> QED
      BY <1>2, <2>2, <2>4
  <1> QED
    BY <1>2, <1>3

\* They leave no gap.
LEMMA LegacyOrdinalsFill ==
    \A i \in 1..Len(LegacyOn) : \A n \in 1..LegacyOrdinal(i) :
        \E j \in 1..Len(LegacyOn) : LegacyOn[j] = LegacyOn[i] /\ LegacyOrdinal(j) = n
  <1> DEFINE Filled(i) == \A n \in 1..LegacyOrdinal(i) :
                            \E j \in 1..Len(LegacyOn) :
                               LegacyOn[j] = LegacyOn[i] /\ LegacyOrdinal(j) = n
             Bad == {i \in 1..Len(LegacyOn) : ~Filled(i)}
  <1>0. Len(LegacyOn) \in Nat
    BY OutboxAssumption
  <1> SUFFICES ASSUME Bad # {} PROVE FALSE
    OBVIOUS
  <1>1. PICK i \in Bad : \A k \in Bad : i <= k
    <2> HIDE DEF Bad
    <2>1. Bad \in SUBSET Nat
      BY <1>0 DEF Bad
    <2> QED
      BY <2>1, LeastNatural
  <1>2. i \in 1..Len(LegacyOn) /\ i \in Nat
    BY <1>0
  <1>3. PICK n \in 1..LegacyOrdinal(i) :
           ~\E j \in 1..Len(LegacyOn) : LegacyOn[j] = LegacyOn[i] /\ LegacyOrdinal(j) = n
    OBVIOUS
  <1>4. LegacyOrdinal(i) \in Nat /\ n # LegacyOrdinal(i)
    BY <1>2, <1>3, LegacyOrdinalFacts
  <1> DEFINE Earlier == {k \in 1..(i - 1) : LegacyOn[k] = LegacyOn[i]}
  <1>5. LegacyUpTo(i) = Earlier \cup {i} /\ i \notin Earlier
    BY <1>2 DEF LegacyUpTo
  <1>6. IsFiniteSet(Earlier) /\ Cardinality(Earlier) \in Nat
    <2>1. IsFiniteSet(1..(i - 1))
      BY <1>2, FS_Interval
    <2>2. Earlier \subseteq 1..(i - 1)
      OBVIOUS
    <2> HIDE DEF Earlier
    <2> QED
      BY <2>1, <2>2, FS_Subset, FS_CardinalityType
  <1>7. LegacyOrdinal(i) = Cardinality(Earlier) + 1
    <2> HIDE DEF Earlier
    <2> QED
      BY <1>5, <1>6, FS_AddElement DEF LegacyOrdinal
  <1>8. CASE Earlier = {}
    <2>1. Cardinality(Earlier) = 0
      BY <1>8, FS_EmptySet
    <2> QED
      BY <1>4, <1>7, <2>1
  <1>9. CASE Earlier # {}
    <2>1. Earlier \in SUBSET Nat /\ \A k \in Earlier : k <= i
      BY <1>2
    <2>2. Max(Earlier) \in Earlier /\ \A k \in Earlier : k <= Max(Earlier)
      <3> HIDE DEF Earlier
      <3> QED
        BY <1>2, <1>9, <2>1, MaxNatural
    <2> DEFINE m == Max(Earlier)
    <2> HIDE DEF m
    <2>3. m \in 1..(i - 1) /\ LegacyOn[m] = LegacyOn[i] /\ \A k \in Earlier : k <= m
      BY <2>2 DEF m
    <2>4. LegacyUpTo(m) = Earlier
      BY <1>2, <2>3 DEF LegacyUpTo
    <2>5. m \in 1..Len(LegacyOn) /\ m \notin Bad
      <3>1. m \in 1..Len(LegacyOn) /\ ~(i <= m)
        BY <1>0, <1>2, <2>3
      <3> HIDE DEF Bad
      <3> QED
        BY <1>1, <3>1
    <2>6. Filled(m)
      BY <2>5
    <2>7. n \in 1..LegacyOrdinal(m)
      <3>1. LegacyOrdinal(m) = Cardinality(Earlier)
        BY <2>4 DEF LegacyOrdinal
      <3> QED
        BY <1>3, <1>4, <1>6, <1>7, <3>1
    <2> QED
      BY <1>3, <2>3, <2>6, <2>7
  <1> QED
    BY <1>8, <1>9

\* The migrated database satisfies the invariants of table and log.
LEMMA LegacyGood ==
    /\ LegacyTable \in Tables
    /\ LegacyLog \in Logs
    /\ Static(LegacyTable, LegacyLog)
    /\ Progress(LegacyTable, LegacyLog)
  <1> DEFINE root == CHOOSE e \in Events : TRUE
             child == CHOOSE e \in Events : e # root
             T == LegacyTable
             L == LegacyLog
             N == Len(LegacyOn)
             Row(n) == [branch |-> LegacyOn[n], chain |-> 1, parent |-> 0, depth |-> 1,
                        ordinal |-> LegacyOrdinal(n),
                        revision |-> 1, event |-> child, visited |-> {root}, sealed |-> FALSE,
                        status |-> "pending", attempts |-> 0, ripe |-> TRUE,
                        quarantined |-> FALSE]
             Entry == [kind |-> "event", row |-> 0, event |-> root]
  <1>0. /\ LegacyOn \in Seq(Branches) /\ N \in Nat /\ DOMAIN LegacyOn = 1..N
        /\ \A n \in 1..N : LegacyOn[n] \in Branches
        /\ MaxDepth \in Nat /\ 1 <= MaxDepth
    BY OutboxAssumption, ChainAssumption
  <1>1. T = [n \in 1..N |-> Row(n)]
    BY DEF LegacyTable, LegacyOrdinal, LegacyUpTo
  <1>2. 1..N # {} => root \in Events /\ child \in Events /\ child # root
    <2> SUFFICES ASSUME 1..N # {} PROVE root \in Events /\ child \in Events /\ child # root
      OBVIOUS
    <2>1. LegacyOn # << >>
      BY <1>0
    <2>2. PICK d \in Events, c \in Events : d # c
      BY <2>1, OutboxAssumption
    <2>3. root \in Events
      BY <2>2
    <2> HIDE DEF root
    <2>4. \E e \in Events : e # root
      BY <2>2
    <2> QED
      BY <2>3, <2>4
  <1> HIDE DEF root, child, T, N
  <1>3. \A n \in 1..N : Row(n) \in Rows
    <2> SUFFICES ASSUME NEW n \in 1..N PROVE Row(n) \in Rows
      OBVIOUS
    <2>1. /\ LegacyOrdinal(n) \in Nat /\ LegacyOn[n] \in Branches
          /\ child \in Events /\ {root} \in SUBSET Events
      BY <1>0, <1>2, LegacyOrdinalFacts DEF N
    <2> QED
      BY <2>1 DEF Rows
  <1>4. T \in Tables /\ DOMAIN T = 1..N /\ Len(T) = N /\ \A n \in 1..N : T[n] = Row(n)
    <2> HIDE DEF Row
    <2> QED
      BY <1>0, <1>1, <1>3 DEF Tables
  <1>5. \A n \in 1..N :
          /\ T[n].branch = LegacyOn[n] /\ T[n].chain = 1 /\ T[n].parent = 0 /\ T[n].depth = 1
          /\ T[n].ordinal = LegacyOrdinal(n) /\ T[n].revision = 1
          /\ T[n].event = child /\ T[n].visited = {root}
          /\ T[n].status = "pending" /\ ~T[n].quarantined
    BY <1>4
  <1> HIDE DEF Row
  <1>6. \A b \in Branches : L[b] = << >> \/ (L[b] = <<Entry>> /\ Entry \in Entries)
    <2> SUFFICES ASSUME NEW b \in Branches, NEW n \in 1..N, LegacyOn[n] = b
                 PROVE  Entry \in Entries
      BY <1>0 DEF LegacyLog, root
    <2>1. root \in Events
      BY <1>2
    <2> QED
      BY <2>1 DEF Entries, AllWriterKinds
  <1>7. \A n \in 1..N : L[LegacyOn[n]] = <<Entry>>
    BY <1>0 DEF LegacyLog, root
  <1>8. L \in Logs
    <2>1. L = [b \in Branches |-> L[b]]
      BY DEF LegacyLog
    <2>2. \A b \in Branches : L[b] \in Seq(Entries)
      <3> SUFFICES ASSUME NEW b \in Branches PROVE L[b] \in Seq(Entries)
        OBVIOUS
      <3>1. << >> \in Seq(Entries)
        OBVIOUS
      <3>2. Entry \in Entries => <<Entry>> \in Seq(Entries)
        <4> HIDE DEF Entry
        <4> QED
          OBVIOUS
      <3> QED
        BY <1>6, <3>1, <3>2, Zenon
    <2> HIDE DEF L
    <2> QED
      BY <2>1, <2>2 DEF Logs
  <1>9. \A b \in Branches : \A k \in DOMAIN L[b] : k = 1 /\ L[b][k].row = 0
    <2> SUFFICES ASSUME NEW b \in Branches, NEW k \in DOMAIN L[b] PROVE k = 1 /\ L[b][k].row = 0
      OBVIOUS
    <2> HIDE DEF L
    <2>1. L[b] = <<Entry>>
      BY <1>6
    <2> QED
      BY <2>1
  <1>10. \A n \in 1..N :
           Len(L[T[n].branch]) = 1 /\ 1 \in DOMAIN L[T[n].branch] /\ L[T[n].branch][1].event = root
    <2> SUFFICES ASSUME NEW n \in 1..N
                 PROVE  /\ Len(L[T[n].branch]) = 1 /\ 1 \in DOMAIN L[T[n].branch]
                        /\ L[T[n].branch][1].event = root
      OBVIOUS
    <2> HIDE DEF L
    <2>1. L[T[n].branch] = <<Entry>>
      BY <1>5, <1>7
    <2> QED
      BY <2>1
  <1> HIDE DEF L, Entry
  <1>11. /\ \A n \in 1..N : /\ LegacyOrdinal(n) \in Nat /\ 1 <= LegacyOrdinal(n)
                            /\ LegacyOrdinal(n) <= n /\ LegacyOrdinal(n) <= MaxChainEvents
         /\ \A m, n \in 1..N :
              m < n /\ LegacyOn[m] = LegacyOn[n] => LegacyOrdinal(m) < LegacyOrdinal(n)
    BY LegacyOrdinalFacts DEF N
  <1>12. OrdinalsBounded(T) /\ InTableOrder(T) /\ RevisionsPast(T, L)
    <2>1. OrdinalsBounded(T)
      BY <1>4, <1>5, <1>11 DEF OrdinalsBounded
    <2>2. InTableOrder(T)
      BY <1>4, <1>5, <1>11 DEF InTableOrder, Before
    <2>3. RevisionsPast(T, L)
      BY <1>4, <1>5, <1>10 DEF RevisionsPast
    <2> QED
      BY <2>1, <2>2, <2>3
  <1>13. LineagesGood(T, L)
    <2>1. \A n \in 1..N : 0 < n /\ child \notin {root}
      BY <1>0, <1>2
    <2> QED
      BY <1>0, <1>4, <1>5, <1>10, <2>1 DEF LineagesGood
  <1>14. OrdinalsFill(T)
    <2>1. \A i \in DOMAIN T : 1 <= T[i].ordinal /\ T[i].ordinal <= MaxChainEvents
      BY <1>4, <1>5, <1>11
    <2>2. ASSUME NEW i \in DOMAIN T, NEW n \in 1..T[i].ordinal
          PROVE  \E j \in ChainRows(T, T[i].branch, T[i].chain) : T[j].ordinal = n
      <3>1. i \in 1..N /\ n \in 1..LegacyOrdinal(i)
        BY <1>4, <1>5
      <3>2. PICK j \in 1..N : LegacyOn[j] = LegacyOn[i] /\ LegacyOrdinal(j) = n
        BY <3>1, LegacyOrdinalsFill DEF N
      <3> QED
        BY <1>4, <1>5, <3>1, <3>2 DEF ChainRows
    <2>3. ASSUME NEW i \in DOMAIN T, NEW j \in DOMAIN T,
                 T[i].branch = T[j].branch, T[i].ordinal = T[j].ordinal
          PROVE  i = j
      <3>1. /\ i \in Nat /\ j \in Nat /\ i \in 1..N /\ j \in 1..N
            /\ LegacyOn[i] = LegacyOn[j] /\ LegacyOrdinal(i) = LegacyOrdinal(j)
        BY <1>0, <1>4, <1>5, <2>3
      <3>2. ~(i < j) /\ ~(j < i)
        BY <1>11, <3>1
      <3> QED
        BY <3>1, <3>2
    <2> QED
      BY <2>1, <2>2, <2>3 DEF OrdinalsFill
  <1>15. /\ StartedAfterSettled(T) /\ AppliedIsNotQuarantined(T) /\ AppliedIsLogged(T, L)
         /\ EntriesAreRows(T, L) /\ AppliedByPlace(L)
    BY <1>4, <1>5, <1>9 DEF StartedAfterSettled, AppliedIsNotQuarantined, AppliedIsLogged,
                            EntriesAreRows, AppliedByPlace
  <1>16. RootsClosed(T, L)
    <2>1. \A i \in DOMAIN T : ~(T[i].revision < 1)
      BY <1>4, <1>5
    <2> QED
      BY <1>9, <2>1 DEF RootsClosed
  <1> QED
    BY <1>4, <1>8, <1>12, <1>13, <1>14, <1>15, <1>16 DEF Static, Progress, T, L

---------------------------------------------------------------------------
(* The inductive invariant *)

TablesOK ==
    /\ rows \in Tables
    /\ log \in Logs
    /\ Static(rows, log)
    /\ Progress(rows, log)

DrainerStates == [at : {"idle", "claimed", "reviewed", "failed"}, row : Nat, token : Nat, seen : Nat]

WriterStates == [at : {"idle", "reviewed"}, branch : Branches, kind : AllWriterKinds, seen : Nat]

\* A drainer at work has a row.
DrainersOK ==
    /\ drainer \in [Drainers -> DrainerStates]
    /\ \A d \in Drainers : drainer[d].row <= Len(rows)
    /\ \A d \in Drainers : drainer[d].at # "idle" => drainer[d].row \in DOMAIN rows

WritersOK == writer \in [Writers -> WriterStates]

BoundsOK == roots \in 0..MaxRoots /\ faults \in 0..MaxFaults /\ restarts \in 0..MaxRestarts

IndInv == TablesOK /\ DrainersOK /\ WritersOK /\ BoundsOK

\* The states a drainer and a writer start in.
LEMMA IdleStates == IdleDrainer \in DrainerStates /\ IdleWriter \in WriterStates
  <1>1. IdleDrainer \in DrainerStates
    BY DEF IdleDrainer, DrainerStates
  <1>2. IdleWriter \in WriterStates
    BY OutboxAssumption DEF IdleWriter, AllWriterKinds, WriterStates
  <1> QED
    BY <1>1, <1>2

\* The tables as the migration leaves them satisfy the invariant.
LEMMA InitInd == Init => IndInv
  <1> SUFFICES ASSUME Init PROVE IndInv
    OBVIOUS
  <1>1. TablesOK
    BY LegacyGood DEF Init, TablesOK
  <1>2. Len(rows) \in Nat
    BY <1>1 DEF TablesOK, Tables
  <1>3. DrainersOK
    <2>1. \A d \in Drainers : drainer[d].row <= Len(rows) /\ drainer[d].at = "idle"
      BY <1>2 DEF Init, IdleDrainer
    <2> QED
      BY <2>1, IdleStates DEF DrainersOK, Init
  <1>4. WritersOK /\ BoundsOK
    BY IdleStates, OutboxAssumption DEF WritersOK, BoundsOK, Init
  <1> QED
    BY <1>1, <1>3, <1>4 DEF IndInv

---------------------------------------------------------------------------
(* What a step does to the threads *)

\* A drainer moves on; the table does not shrink.
LEMMA DrainerMoves ==
    ASSUME IndInv, rows' \in Tables, Len(rows) <= Len(rows'),
           NEW d \in Drainers, NEW x \in DrainerStates, x.row <= Len(rows'),
           x.at # "idle" => x.row \in DOMAIN rows',
           drainer' = [drainer EXCEPT ![d] = x]
    PROVE  DrainersOK'
  <1>0. /\ Len(rows) \in Nat /\ Len(rows') \in Nat
        /\ DOMAIN rows = 1..Len(rows) /\ DOMAIN rows' = 1..Len(rows')
    BY DEF IndInv, TablesOK, Tables
  <1>1. drainer' \in [Drainers -> DrainerStates]
    BY DEF IndInv, DrainersOK
  <1>2. ASSUME NEW a \in Drainers
        PROVE  drainer'[a].row <= Len(rows') /\ (drainer'[a].at # "idle" => drainer'[a].row \in DOMAIN rows')
    <2>1. CASE a = d
      <3>1. drainer'[a] = x
        BY <2>1 DEF IndInv, DrainersOK
      <3> QED
        BY <3>1
    <2>2. CASE a # d
      <3>1. drainer'[a] = drainer[a]
        BY <2>2 DEF IndInv, DrainersOK
      <3>2. drainer[a] \in DrainerStates
        BY DEF IndInv, DrainersOK
      <3>3. /\ drainer[a].row \in Nat
            /\ drainer[a].row <= Len(rows)
            /\ drainer[a].at # "idle" => drainer[a].row \in DOMAIN rows
        BY <3>2 DEF IndInv, DrainersOK, DrainerStates
      <3> QED
        BY <1>0, <3>1, <3>3
    <2> QED
      BY <2>1, <2>2
  <1> QED
    BY <1>1, <1>2 DEF DrainersOK

\* No drainer moves.
LEMMA DrainersStay ==
    ASSUME IndInv, rows' \in Tables, Len(rows) <= Len(rows'), drainer' = drainer
    PROVE  DrainersOK'
  <1>0. /\ Len(rows) \in Nat /\ Len(rows') \in Nat
        /\ DOMAIN rows = 1..Len(rows) /\ DOMAIN rows' = 1..Len(rows')
    BY DEF IndInv, TablesOK, Tables
  <1>1. ASSUME NEW a \in Drainers
        PROVE  drainer[a].row <= Len(rows') /\ (drainer[a].at # "idle" => drainer[a].row \in DOMAIN rows')
    <2>1. drainer[a] \in DrainerStates
      BY DEF IndInv, DrainersOK
    <2>2. /\ drainer[a].row \in Nat
          /\ drainer[a].row <= Len(rows)
          /\ drainer[a].at # "idle" => drainer[a].row \in DOMAIN rows
      BY <2>1 DEF IndInv, DrainersOK, DrainerStates
    <2> QED
      BY <1>0, <2>2
  <1> QED
    BY <1>1 DEF DrainersOK, IndInv

\* An idle drainer names no row.
LEMMA IdleIsFree ==
    ASSUME NEW T \in Tables
    PROVE  IdleDrainer.row <= Len(T) /\ IdleDrainer.at = "idle" /\ IdleDrainer \in DrainerStates
  <1>1. Len(T) \in Nat
    BY DEF Tables
  <1>2. IdleDrainer.row <= Len(T) /\ IdleDrainer.at = "idle"
    BY <1>1 DEF IdleDrainer
  <1> QED
    BY <1>2, IdleStates

\* The states a drainer can be put into.
LEMMA DrainerStateFacts ==
    ASSUME IndInv, NEW d \in Drainers
    PROVE  /\ IdleDrainer \in DrainerStates /\ IdleDrainer.row = 0 /\ IdleDrainer.at = "idle"
           /\ drainer[d].at # "idle" =>
                LET x == [drainer[d] EXCEPT !.at = "failed"] IN
                x \in DrainerStates /\ x.row \in DOMAIN rows /\ x.row <= Len(rows)
           /\ \A n \in Nat : drainer[d].at # "idle" =>
                LET x == [drainer[d] EXCEPT !.at = "reviewed", !.seen = n] IN
                x \in DrainerStates /\ x.row \in DOMAIN rows /\ x.row <= Len(rows)
  <1>1. drainer[d] \in DrainerStates
    BY DEF IndInv, DrainersOK
  <1>2. drainer[d].row <= Len(rows) /\ (drainer[d].at # "idle" => drainer[d].row \in DOMAIN rows)
    BY DEF IndInv, DrainersOK
  <1>3. IdleDrainer.row = 0 /\ IdleDrainer.at = "idle"
    BY DEF IdleDrainer
  <1> QED
    BY <1>1, <1>2, <1>3, IdleStates DEF DrainerStates

---------------------------------------------------------------------------
(* What a step does to the table *)

\* A step that only touches rows keeps the tables.
LEMMA TouchStep ==
    ASSUME IndInv, rows' \in Tables, Len(rows') = Len(rows), log' = log,
           \A i \in DOMAIN rows : Touched(rows, rows', i)
    PROVE  TablesOK'
  <1>1. Static(rows', log) /\ Progress(rows', log)
    BY TouchKeeps DEF IndInv, TablesOK
  <1> QED
    BY <1>1 DEF IndInv, TablesOK

\* A change of one open row that neither claims nor applies it.
LEMMA OneRowTouched ==
    ASSUME NEW T \in Tables, NEW i \in DOMAIN T, NEW x \in Rows,
           SameOccurrence(x, T[i]), ~Settled(T[i]), x.status # "acknowledged",
           (x.status # "pending" /\ ~x.quarantined) => (T[i].status # "pending" /\ ~T[i].quarantined)
    PROVE  LET U == [T EXCEPT ![i] = x] IN
           U \in Tables /\ Len(U) = Len(T) /\ \A j \in DOMAIN T : Touched(T, U, j)
  <1> DEFINE U == [T EXCEPT ![i] = x]
  <1>1. U \in Tables /\ Len(U) = Len(T) /\ DOMAIN U = DOMAIN T
    BY DEF Tables
  <1>2. U[i] = x /\ \A j \in DOMAIN T : j # i => U[j] = T[j]
    OBVIOUS
  <1> HIDE DEF U
  <1>3. \A j \in DOMAIN T : Touched(T, U, j)
    <2> SUFFICES ASSUME NEW j \in DOMAIN T PROVE Touched(T, U, j)
      OBVIOUS
    <2>1. CASE j = i
      BY <1>2, <2>1 DEF Touched
    <2>2. CASE j # i
      BY <1>2, <2>2 DEF Touched, SameOccurrence
    <2> QED
      BY <2>1, <2>2
  <1> QED
    BY <1>1, <1>3 DEF U

\* The changes of one row that the actions make.
LEMMA RowChanges ==
    ASSUME NEW p \in Rows
    PROVE  /\ LET x == [p EXCEPT !.ripe = TRUE] IN
              /\ x \in Rows /\ SameOccurrence(x, p)
              /\ x.status = p.status /\ x.quarantined = p.quarantined
           /\ LET x == [p EXCEPT !.quarantined = TRUE] IN
              x \in Rows /\ SameOccurrence(x, p) /\ x.status = p.status /\ x.quarantined
           /\ LET x == [p EXCEPT !.status = "pending", !.ripe = FALSE] IN
              x \in Rows /\ SameOccurrence(x, p) /\ x.status = "pending"
           /\ LET x == [p EXCEPT !.status = "pending", !.ripe = TRUE] IN
              x \in Rows /\ SameOccurrence(x, p) /\ x.status = "pending"
           /\ LET x == [p EXCEPT !.status = "acknowledged", !.ripe = FALSE] IN
              /\ x \in Rows /\ SameOccurrence(x, p) /\ x.status = "acknowledged"
              /\ x.quarantined = p.quarantined
           /\ LET x == [p EXCEPT !.status = "claimed", !.attempts = @ + 1, !.ripe = FALSE] IN
              /\ x \in Rows /\ SameOccurrence(x, p) /\ x.status = "claimed"
              /\ x.quarantined = p.quarantined
           /\ LET x == [p EXCEPT !.status = "claimed", !.attempts = @ + 1, !.ripe = TRUE,
                                 !.quarantined = TRUE] IN
              x \in Rows /\ SameOccurrence(x, p) /\ x.status = "claimed" /\ x.quarantined
  <1>0. p.attempts + 1 \in Nat
    BY DEF Rows
  <1>1. LET x == [p EXCEPT !.ripe = TRUE] IN
        /\ x \in Rows /\ SameOccurrence(x, p)
        /\ x.status = p.status /\ x.quarantined = p.quarantined
    BY DEF Rows, SameOccurrence
  <1>2. LET x == [p EXCEPT !.quarantined = TRUE] IN
        x \in Rows /\ SameOccurrence(x, p) /\ x.status = p.status /\ x.quarantined
    BY DEF Rows, SameOccurrence
  <1>3. LET x == [p EXCEPT !.status = "pending", !.ripe = FALSE] IN
        x \in Rows /\ SameOccurrence(x, p) /\ x.status = "pending"
    BY DEF Rows, SameOccurrence
  <1>4. LET x == [p EXCEPT !.status = "pending", !.ripe = TRUE] IN
        x \in Rows /\ SameOccurrence(x, p) /\ x.status = "pending"
    BY DEF Rows, SameOccurrence
  <1>5. LET x == [p EXCEPT !.status = "acknowledged", !.ripe = FALSE] IN
        /\ x \in Rows /\ SameOccurrence(x, p) /\ x.status = "acknowledged"
        /\ x.quarantined = p.quarantined
    BY DEF Rows, SameOccurrence
  <1>6. LET x == [p EXCEPT !.status = "claimed", !.attempts = @ + 1, !.ripe = FALSE] IN
        /\ x \in Rows /\ SameOccurrence(x, p) /\ x.status = "claimed"
        /\ x.quarantined = p.quarantined
    BY <1>0 DEF Rows, SameOccurrence
  <1>7. LET x == [p EXCEPT !.status = "claimed", !.attempts = @ + 1, !.ripe = TRUE,
                           !.quarantined = TRUE] IN
        x \in Rows /\ SameOccurrence(x, p) /\ x.status = "claimed" /\ x.quarantined
    BY <1>0 DEF Rows, SameOccurrence
  <1> QED
    BY <1>1, <1>2, <1>3, <1>4, <1>5, <1>6, <1>7, Zenon

\* Quarantining unsealed rows touches open rows only.
LEMMA WithoutLegacyFacts ==
    ASSUME NEW T \in Tables, NEW Q \in LegacyVictims(T)
    PROVE  LET U == WithoutLegacy(T, Q) IN
           U \in Tables /\ Len(U) = Len(T) /\ \A j \in DOMAIN T : Touched(T, U, j)
  <1> DEFINE U == WithoutLegacy(T, Q)
             X(j) == [T[j] EXCEPT !.status = "claimed", !.attempts = @ + 1, !.ripe = TRUE,
                                  !.quarantined = TRUE]
  <1>0. DOMAIN T = 1..Len(T) /\ Len(T) \in Nat /\ \A j \in DOMAIN T : T[j] \in Rows
    BY DEF Tables
  <1>1. \A j \in Q : j \in DOMAIN T /\ ~Settled(T[j])
    BY DEF LegacyVictims, Live
  <1>2. ASSUME NEW j \in DOMAIN T
        PROVE  /\ X(j) \in Rows /\ SameOccurrence(X(j), T[j])
               /\ X(j).status = "claimed" /\ X(j).quarantined
    BY <1>0, RowChanges
  <1>3. U = [j \in DOMAIN T |-> IF j \in Q THEN X(j) ELSE T[j]]
    BY DEF WithoutLegacy
  <1> HIDE DEF U, X
  <1>4. /\ DOMAIN U = DOMAIN T
        /\ \A j \in DOMAIN T : U[j] \in Rows
        /\ \A j \in DOMAIN T : j \in Q => U[j] = X(j)
        /\ \A j \in DOMAIN T : j \notin Q => U[j] = T[j]
    BY <1>0, <1>2, <1>3
  <1>5. U \in Tables /\ Len(U) = Len(T)
    BY <1>0, <1>3, <1>4 DEF Tables
  <1>6. \A j \in DOMAIN T : Touched(T, U, j)
    <2> SUFFICES ASSUME NEW j \in DOMAIN T PROVE Touched(T, U, j)
      OBVIOUS
    <2>1. CASE j \in Q
      BY <1>1, <1>2, <1>4, <2>1 DEF Touched
    <2>2. CASE j \notin Q
      BY <1>4, <2>2 DEF Touched, SameOccurrence
    <2> QED
      BY <2>1, <2>2
  <1> QED
    BY <1>5, <1>6 DEF U

\* A claim takes a row whose predecessors are settled.
LEMMA ClaimedFacts ==
    ASSUME NEW T \in Tables, InTableOrder(T), NEW i \in ClaimHeads(T)
    PROVE  LET U == Claimed(T, i) IN
           U \in Tables /\ Len(U) = Len(T) /\ \A j \in DOMAIN T : Touched(T, U, j)
  <1> DEFINE U == Claimed(T, i)
             x == [T[i] EXCEPT !.status = "claimed", !.attempts = @ + 1, !.ripe = FALSE]
  <1>0. i \in DOMAIN T /\ T[i] \in Rows /\ Claimable(T, i) /\ DOMAIN T = 1..Len(T) /\ Len(T) \in Nat
    BY DEF ClaimHeads, Tables
  <1>1. x \in Rows /\ SameOccurrence(x, T[i]) /\ x.status = "claimed" /\ x.quarantined = T[i].quarantined
    BY <1>0, RowChanges
  <1>2. U = [T EXCEPT ![i] = x]
    BY <1>0 DEF Claimed
  <1> HIDE DEF x, U
  <1>3. /\ U \in Tables /\ Len(U) = Len(T) /\ DOMAIN U = DOMAIN T
        /\ U[i] = x /\ \A j \in DOMAIN T : j # i => U[j] = T[j]
    BY <1>0, <1>1, <1>2 DEF Tables
  <1>4. ~Settled(T[i])
    BY <1>0 DEF Claimable, Settled
  <1>5. \A j \in DOMAIN T : j < i /\ T[j].branch = T[i].branch => Settled(U[j])
    <2> SUFFICES ASSUME NEW j \in DOMAIN T, j < i, T[j].branch = T[i].branch PROVE Settled(U[j])
      OBVIOUS
    <2>1. Before(T, j, i)
      BY <1>0 DEF InTableOrder
    <2>2. Settled(T[j])
      BY <1>0, <2>1 DEF Claimable, Unblocked, Live
    <2> QED
      BY <1>0, <1>3, <2>2
  <1>6. \A j \in DOMAIN T : Touched(T, U, j)
    <2> SUFFICES ASSUME NEW j \in DOMAIN T PROVE Touched(T, U, j)
      OBVIOUS
    <2>1. CASE j = i
      BY <1>1, <1>3, <1>4, <1>5, <2>1 DEF Touched
    <2>2. CASE j # i
      BY <1>3, <2>2 DEF Touched, SameOccurrence
    <2> QED
      BY <2>1, <2>2
  <1> QED
    BY <1>3, <1>6 DEF U

---------------------------------------------------------------------------
(* One lemma per action *)

\* What SettledStaysSettled says of one step.
SettledKept == \A i \in DOMAIN rows : Settled(rows[i]) => rows'[i] = rows[i]

\* A touched table keeps what is settled.
LEMMA TouchStepKeeps ==
    ASSUME IndInv, rows' \in Tables, Len(rows') = Len(rows), log' = log,
           \A i \in DOMAIN rows : Touched(rows, rows', i)
    PROVE  TablesOK' /\ SettledKept
  BY TouchStep DEF Touched, SettledKept

\* A step that writes neither table.
LEMMA UnchangedTables ==
    ASSUME IndInv, UNCHANGED <<log, rows>>
    PROVE  TablesOK' /\ SettledKept /\ rows' \in Tables /\ Len(rows) <= Len(rows') /\ DOMAIN rows' = DOMAIN rows
  <1>1. Len(rows) \in Nat
    BY DEF IndInv, TablesOK, Tables
  <1> QED
    BY <1>1 DEF IndInv, TablesOK, SettledKept

\* Claiming the head of a chain, after quarantining unclaimable legacy rows.
LEMMA ClaimInd ==
    ASSUME IndInv, NEW d \in Drainers, Claim(d)
    PROVE  IndInv' /\ SettledKept
  <1>0. rows \in Tables /\ log \in Logs /\ Static(rows, log) /\ Progress(rows, log)
    BY DEF IndInv, TablesOK
  <1>1. PICK Q \in LegacyVictims(rows) :
          LET T == WithoutLegacy(rows, Q)
          IN  \E i \in ClaimHeads(T) :
                /\ T[i].sealed
                /\ rows' = Claimed(T, i)
                /\ drainer' = [drainer EXCEPT ![d] =
                                  [at |-> "claimed", row |-> i, token |-> T[i].attempts + 1,
                                   seen |-> 0]]
    BY DEF Claim
  <1> DEFINE T == WithoutLegacy(rows, Q)
  <1>2. PICK i \in ClaimHeads(T) :
          /\ rows' = Claimed(T, i)
          /\ drainer' = [drainer EXCEPT ![d] =
                            [at |-> "claimed", row |-> i, token |-> T[i].attempts + 1, seen |-> 0]]
    BY <1>1
  <1>3. T \in Tables /\ Len(T) = Len(rows) /\ \A j \in DOMAIN rows : Touched(rows, T, j)
    BY <1>0, WithoutLegacyFacts
  <1> HIDE DEF T
  <1>4. Static(T, log) /\ Progress(T, log)
    BY <1>0, <1>3, TouchKeeps
  <1>5. rows' \in Tables /\ Len(rows') = Len(T) /\ \A j \in DOMAIN T : Touched(T, rows', j)
    BY <1>2, <1>3, <1>4, ClaimedFacts DEF Static
  <1>6. Static(rows', log) /\ Progress(rows', log)
    BY <1>0, <1>3, <1>4, <1>5, TouchKeeps
  <1>7. log' = log /\ UNCHANGED <<writer, roots, faults, restarts>>
    BY DEF Claim
  <1>8. TablesOK'
    BY <1>0, <1>5, <1>6, <1>7 DEF TablesOK
  <1>9. DOMAIN T = DOMAIN rows /\ DOMAIN rows' = DOMAIN rows /\ DOMAIN rows = 1..Len(rows) /\ Len(rows) \in Nat
    BY <1>0, <1>3, <1>5 DEF Tables
  <1>10. SettledKept
    <2> SUFFICES ASSUME NEW j \in DOMAIN rows, Settled(rows[j]) PROVE rows'[j] = rows[j]
      BY DEF SettledKept
    <2>1. T[j] = rows[j]
      BY <1>3 DEF Touched
    <2> QED
      BY <1>5, <1>9, <2>1 DEF Touched
  <1>11. DrainersOK'
    <2> DEFINE x == [at |-> "claimed", row |-> i, token |-> T[i].attempts + 1, seen |-> 0]
    <2>1. i \in DOMAIN rows /\ T[i] \in Rows
      BY <1>3, <1>9 DEF ClaimHeads, Tables
    <2>2. T[i].attempts + 1 \in Nat
      BY <2>1 DEF Rows
    <2>3. i \in Nat /\ i <= Len(rows') /\ Len(rows) <= Len(rows')
      BY <1>3, <1>5, <1>9, <2>1
    <2>4. x \in DrainerStates /\ x.row = i
      BY <2>2, <2>3 DEF DrainerStates
    <2>5. drainer' = [drainer EXCEPT ![d] = x]
      BY <1>2
    <2> HIDE DEF x
    <2> QED
      BY <1>5, <1>9, <2>1, <2>3, <2>4, <2>5, DrainerMoves
  <1> QED
    BY <1>7, <1>8, <1>10, <1>11 DEF IndInv, WritersOK, BoundsOK

\* A claim that finds no head may still quarantine legacy rows.
LEMMA ClaimNothingInd ==
    ASSUME IndInv, NEW d \in Drainers, ClaimNothing(d)
    PROVE  IndInv' /\ SettledKept
  <1>1. PICK Q \in LegacyVictims(rows) : rows' = WithoutLegacy(rows, Q)
    BY DEF ClaimNothing
  <1>2. rows' \in Tables /\ Len(rows') = Len(rows) /\ \A j \in DOMAIN rows : Touched(rows, rows', j)
    BY <1>1, WithoutLegacyFacts DEF IndInv, TablesOK
  <1>3. UNCHANGED <<log, drainer, writer, roots, faults, restarts>>
    BY DEF ClaimNothing
  <1>4. TablesOK' /\ SettledKept
    BY <1>2, <1>3, TouchStepKeeps
  <1>5. Len(rows) <= Len(rows')
    BY <1>2 DEF IndInv, TablesOK, Tables
  <1>6. DrainersOK'
    BY <1>2, <1>3, <1>5, DrainersStay
  <1> QED
    BY <1>3, <1>4, <1>6 DEF IndInv, WritersOK, BoundsOK

\* One open row changes and the drainer that held it is idle again.
LEMMA OneRowStep ==
    ASSUME IndInv, NEW i \in DOMAIN rows, NEW x \in Rows,
           SameOccurrence(x, rows[i]), ~Settled(rows[i]), x.status # "acknowledged",
           (x.status # "pending" /\ ~x.quarantined) =>
               (rows[i].status # "pending" /\ ~rows[i].quarantined),
           rows' = [rows EXCEPT ![i] = x], log' = log
    PROVE  /\ TablesOK' /\ SettledKept
           /\ rows' \in Tables /\ Len(rows) <= Len(rows') /\ Len(rows) \in Nat
  <1>1. rows' \in Tables /\ Len(rows') = Len(rows) /\ \A j \in DOMAIN rows : Touched(rows, rows', j)
    <2>1. rows \in Tables
      BY DEF IndInv, TablesOK
    <2> QED
      BY <2>1, OneRowTouched
  <1>2. Len(rows) \in Nat
    BY DEF IndInv, TablesOK, Tables
  <1>3. Len(rows) <= Len(rows')
    BY <1>1, <1>2
  <1>4. TablesOK' /\ SettledKept
    BY <1>1, TouchStepKeeps
  <1> QED
    BY <1>1, <1>2, <1>3, <1>4

\* The row of a drainer that holds its claim is open.
LEMMA HeldRowIsOpen ==
    ASSUME IndInv, NEW d \in Drainers, drainer[d].at # "idle", HoldsClaim(d)
    PROVE  LET i == drainer[d].row IN
           /\ i \in DOMAIN rows /\ i \in Nat /\ rows[i] \in Rows
           /\ rows[i].status = "claimed" /\ ~rows[i].quarantined /\ ~Settled(rows[i])
  <1>1. drainer[d].row \in DOMAIN rows
    BY DEF IndInv, DrainersOK
  <1>2. drainer[d].row \in Nat /\ rows[drainer[d].row] \in Rows
    BY <1>1 DEF IndInv, TablesOK, Tables
  <1> QED
    BY <1>1, <1>2 DEF HoldsClaim, Settled

\* Quarantining a claimed row whose sealed policy cannot be reconstructed.
LEMMA QuarantineInd ==
    ASSUME IndInv, NEW d \in Drainers, Quarantine(d)
    PROVE  IndInv' /\ SettledKept
  <1> DEFINE i == drainer[d].row
             x == [rows[i] EXCEPT !.quarantined = TRUE]
  <1>1. /\ i \in DOMAIN rows /\ rows[i] \in Rows
        /\ rows[i].status = "claimed" /\ ~rows[i].quarantined /\ ~Settled(rows[i])
    BY HeldRowIsOpen DEF Quarantine
  <1>2. x \in Rows /\ SameOccurrence(x, rows[i]) /\ x.status = "claimed" /\ x.quarantined
    BY <1>1, RowChanges
  <1>3. /\ rows' = [rows EXCEPT ![i] = x] /\ drainer' = [drainer EXCEPT ![d] = IdleDrainer]
        /\ UNCHANGED <<log, writer, roots, faults, restarts>>
    BY DEF Quarantine
  <1> HIDE DEF i, x
  <1>4. /\ TablesOK' /\ SettledKept
        /\ rows' \in Tables /\ Len(rows) <= Len(rows') /\ Len(rows) \in Nat
    BY <1>1, <1>2, <1>3, OneRowStep
  <1>5. DrainersOK'
    <2>1. IdleDrainer.row <= Len(rows') /\ IdleDrainer.at = "idle" /\ IdleDrainer \in DrainerStates
      BY <1>4, IdleIsFree
    <2> QED
      BY <1>3, <1>4, <2>1, DrainerMoves
  <1> QED
    BY <1>3, <1>4, <1>5 DEF IndInv, WritersOK, BoundsOK

\* Putting a claimed row back for a later attempt.
LEMMA RetryInd ==
    ASSUME IndInv, NEW d \in Drainers, Retry(d)
    PROVE  IndInv' /\ SettledKept
  <1> DEFINE i == drainer[d].row
             x == [rows[i] EXCEPT !.status = "pending", !.ripe = FALSE]
  <1>1. /\ rows' = Deferred(d) /\ drainer' = [drainer EXCEPT ![d] = IdleDrainer]
        /\ UNCHANGED <<log, writer, roots, faults, restarts>> /\ drainer[d].at # "idle"
    BY DEF Retry
  <1>2. /\ TablesOK' /\ SettledKept
        /\ rows' \in Tables /\ Len(rows) <= Len(rows') /\ Len(rows) \in Nat
    <2>1. CASE HoldsClaim(d)
      <3>1. /\ i \in DOMAIN rows /\ rows[i] \in Rows
            /\ rows[i].status = "claimed" /\ ~rows[i].quarantined /\ ~Settled(rows[i])
        BY <1>1, <2>1, HeldRowIsOpen
      <3>2. x \in Rows /\ SameOccurrence(x, rows[i]) /\ x.status = "pending"
        BY <3>1, RowChanges
      <3>3. rows' = [rows EXCEPT ![i] = x]
        BY <1>1, <2>1, <3>1 DEF Deferred
      <3> HIDE DEF i, x
      <3> QED
        BY <1>1, <3>1, <3>2, <3>3, OneRowStep
    <2>2. CASE ~HoldsClaim(d)
      <3>1. rows' = rows
        BY <1>1, <2>2 DEF Deferred
      <3>2. Len(rows) \in Nat
        BY DEF IndInv, TablesOK, Tables
      <3> QED
        BY <1>1, <3>1, <3>2, UnchangedTables
    <2> QED
      BY <2>1, <2>2
  <1>3. DrainersOK'
    <2>1. IdleDrainer.row <= Len(rows') /\ IdleDrainer.at = "idle" /\ IdleDrainer \in DrainerStates
      BY <1>2, IdleIsFree
    <2> QED
      BY <1>1, <1>2, <2>1, DrainerMoves
  <1> QED
    BY <1>1, <1>2, <1>3 DEF IndInv, WritersOK, BoundsOK

\* The clock passes a row's time, whether a drainer is at work on it or not.
LEMMA RipenInd ==
    ASSUME IndInv, NEW i \in DOMAIN rows, Ripen(i) \/ LeaseOverrun(i)
    PROVE  IndInv' /\ SettledKept
  <1> DEFINE x == [rows[i] EXCEPT !.ripe = TRUE]
  <1>1. ~Settled(rows[i])
    <2>1. CASE Ripen(i)
      BY <2>1 DEF Ripen, Live
    <2>2. CASE LeaseOverrun(i)
      <3>1. PICK d \in Drainers : drainer[d].row = i /\ drainer[d].at # "idle" /\ HoldsClaim(d)
        BY <2>2 DEF LeaseOverrun, AtWork
      <3> QED
        BY <3>1, HeldRowIsOpen
    <2> QED
      BY <2>1, <2>2
  <1>2. rows[i] \in Rows
    BY DEF IndInv, TablesOK, Tables
  <1>3. /\ x \in Rows /\ SameOccurrence(x, rows[i])
        /\ x.status = rows[i].status /\ x.quarantined = rows[i].quarantined
    BY <1>2, RowChanges
  <1>4. /\ rows' = [rows EXCEPT ![i] = x] /\ UNCHANGED <<log, drainer, writer, roots, restarts>>
        /\ faults' = faults \/ (faults < MaxFaults /\ faults' = faults + 1)
    BY DEF Ripen, LeaseOverrun
  <1> HIDE DEF x
  <1>5. /\ TablesOK' /\ SettledKept
        /\ rows' \in Tables /\ Len(rows) <= Len(rows') /\ Len(rows) \in Nat
    BY <1>1, <1>3, <1>4, OneRowStep DEF Settled
  <1>6. DrainersOK'
    BY <1>4, <1>5, DrainersStay
  <1>7. BoundsOK'
    BY <1>4, OutboxAssumption DEF IndInv, BoundsOK
  <1> QED
    BY <1>4, <1>5, <1>6, <1>7 DEF IndInv, WritersOK

\* A restart resets the claims the stopped process held.
LEMMA RestartInd ==
    ASSUME IndInv, Restart
    PROVE  IndInv' /\ SettledKept
  <1> DEFINE Back(i) == rows[i].status = "claimed" /\ ~rows[i].quarantined
             X(i) == [rows[i] EXCEPT !.status = "pending", !.ripe = TRUE]
  <1>0. DOMAIN rows = 1..Len(rows) /\ Len(rows) \in Nat /\ \A i \in DOMAIN rows : rows[i] \in Rows
    BY DEF IndInv, TablesOK, Tables
  <1>1. \A i \in DOMAIN rows :
          X(i) \in Rows /\ SameOccurrence(X(i), rows[i]) /\ X(i).status = "pending"
    BY <1>0, RowChanges
  <1>2. /\ rows' = [i \in DOMAIN rows |-> IF Back(i) THEN X(i) ELSE rows[i]]
        /\ drainer' = [d \in Drainers |-> IdleDrainer]
        /\ writer' = [w \in Writers |-> IdleWriter]
        /\ UNCHANGED <<log, roots, faults>>
        /\ restarts < MaxRestarts /\ restarts' = restarts + 1
    BY DEF Restart, Recovered
  <1> HIDE DEF X
  <1>3. rows' \in Tables /\ Len(rows') = Len(rows) /\ DOMAIN rows' = DOMAIN rows
    BY <1>0, <1>1, <1>2 DEF Tables
  <1>4. \A i \in DOMAIN rows : Touched(rows, rows', i)
    <2> SUFFICES ASSUME NEW i \in DOMAIN rows PROVE Touched(rows, rows', i)
      OBVIOUS
    <2>1. CASE Back(i)
      <3>1. rows'[i] = X(i)
        BY <1>2, <2>1
      <3> QED
        BY <1>1, <2>1, <3>1 DEF Touched, Settled
    <2>2. CASE ~Back(i)
      <3>1. rows'[i] = rows[i]
        BY <1>2, <2>2
      <3> QED
        BY <3>1 DEF Touched, SameOccurrence
    <2> QED
      BY <2>1, <2>2
  <1>5. TablesOK' /\ SettledKept
    BY <1>2, <1>3, <1>4, TouchStepKeeps
  <1>6. DrainersOK'
    <2>1. \A d \in Drainers : drainer'[d].row <= Len(rows') /\ drainer'[d].at = "idle"
      BY <1>0, <1>2, <1>3 DEF IdleDrainer
    <2> QED
      BY <1>2, <2>1, IdleStates DEF DrainersOK
  <1>7. WritersOK' /\ BoundsOK'
    BY <1>2, IdleStates, OutboxAssumption DEF IndInv, WritersOK, BoundsOK
  <1> QED
    BY <1>5, <1>6, <1>7 DEF IndInv

\* Applying an event keeps tables and settled rows.
LEMMA AppliesStep ==
    ASSUME IndInv, rows' \in Tables,
           NEW b \in Branches, NEW l, NEW c, NEW es \in Seq(Entries),
           Applies(rows, rows', log, log', b, l, c, es), Inherits(rows, log', b, l, c),
           AppliesRow(rows, rows', b, c, es) \/ AppliesRoot(rows, b, c, es)
    PROVE  TablesOK' /\ SettledKept /\ Len(rows) <= Len(rows')
  <1>0. rows \in Tables /\ log \in Logs /\ Static(rows, log) /\ Progress(rows, log)
    BY DEF IndInv, TablesOK
  <1>1. Grown(rows, rows', log, log', b, es)
    BY <1>0, AppliesFacts
  <1>2. log' \in Logs /\ \A i \in DOMAIN rows : Settled(rows[i]) => rows'[i] = rows[i]
    BY <1>1 DEF Grown
  <1>3. Static(rows', log')
    BY <1>0, AppliesKeepsStatic
  <1>4. Progress(rows', log')
    BY <1>0, AppliesKeepsProgress
  <1> QED
    BY <1>2, <1>3, <1>4 DEF TablesOK, SettledKept, Applies

\* What an event derives is a sequence of events.
LEMMA DerivationsAreSequences == Derivations \subseteq Seq(Events)
  <1> SUFFICES ASSUME NEW ds \in Derivations PROVE ds \in Seq(Events)
    OBVIOUS
  <1>1. PICK n \in 0..MaxFanout : ds \in [1..n -> Events]
    BY DEF Derivations
  <1>2. n \in Nat
    BY OutboxAssumption
  <1> QED
    BY <1>1, <1>2

\* The commit of an occurrence: one log entry, its row applied, its children enqueued.
LEMMA CommitOccurrenceKeeps ==
    ASSUME IndInv, NEW d \in Drainers, NEW ds \in Derivations, CommitOccurrence(d, ds)
    PROVE  TablesOK' /\ SettledKept /\ rows' \in Tables /\ Len(rows) <= Len(rows')
  <1> DEFINE i == drainer[d].row
             b == rows[i].branch
             l == ChildLineage(rows, i)
             r == Len(log[b]) + 1
             E == Enqueued(rows, b, l, ds, r)
             entry == [kind |-> "derived", row |-> i, event |-> rows[i].event]
             es == <<entry>>
             x == [E[i] EXCEPT !.status = "acknowledged", !.ripe = FALSE]
  <1>0. /\ i \in DOMAIN rows /\ i \in Nat /\ rows[i] \in Rows
        /\ rows[i].status = "claimed" /\ ~rows[i].quarantined
    BY HeldRowIsOpen DEF CommitOccurrence
  <1>1. /\ rows \in Tables /\ log \in Logs /\ OrdinalsBounded(rows)
        /\ DOMAIN rows = 1..Len(rows) /\ Len(rows) \in Nat
    BY DEF IndInv, TablesOK, Static, Tables
  <1>2. /\ b \in Branches /\ rows[i].event \in Events /\ rows[i].chain \in Nat
        /\ rows[i].depth + 1 \in Nat /\ rows[i].visited \in SUBSET Events
    BY <1>0 DEF Rows
  <1>3. log[b] \in Seq(Entries) /\ r \in Nat
    BY <1>1, <1>2 DEF Logs
  <1>4. entry \in Entries
    BY <1>0, <1>2 DEF Entries
  <1>5. l \in Lineages /\ l.parent = i /\ l.chain = rows[i].chain /\ l.depth = rows[i].depth + 1
        /\ l.visited = rows[i].visited \cup {rows[i].event}
    BY <1>0, <1>2 DEF Lineages, ChildLineage
  <1>6. ds \in Seq(Events)
    BY DerivationsAreSequences
  <1>7. /\ log' = [log EXCEPT ![b] = Append(log[b], entry)]
        /\ rows' = Acknowledged(E, i)
    BY DEF CommitOccurrence, Revision
  <1>8. es \in Seq(Entries) /\ Len(es) = 1 /\ es[1] = entry
    <2> HIDE DEF entry
    <2> QED
      BY <1>4
  <1>9. log' = [log EXCEPT ![b] = log[b] \o es]
    <2> HIDE DEF entry, b
    <2>1. Append(log[b], entry) = log[b] \o <<entry>>
      BY <1>3, <1>4, AppendIsConcat
    <2> QED
      BY <1>7, <2>1
  <1>10. entry.kind = "derived" /\ entry.row = i
    OBVIOUS
  <1> HIDE DEF i, b, l, r, entry, es
  <1>11. /\ E \in Tables
         /\ Len(E) \in Nat
         /\ Len(rows) <= Len(E)
         /\ \A j \in 1..Len(rows) : E[j] = rows[j]
         /\ \A j \in (Len(rows) + 1)..Len(E) : NewRow(rows, E, b, l, r, j)
         /\ OrdinalsBounded(E)
    BY <1>1, <1>2, <1>3, <1>5, <1>6, EnqueuedFacts DEF Tables
  <1>12. i \in DOMAIN E /\ E[i] = rows[i] /\ DOMAIN E = 1..Len(E)
    BY <1>0, <1>1, <1>11 DEF Tables
  <1>13. /\ x \in Rows /\ SameOccurrence(x, rows[i]) /\ x.status = "acknowledged"
         /\ x.quarantined = rows[i].quarantined
    <2> HIDE DEF E
    <2>1. x = [rows[i] EXCEPT !.status = "acknowledged", !.ripe = FALSE]
      BY <1>12
    <2> HIDE DEF x
    <2> QED
      BY <1>0, <2>1, RowChanges
  <1>14. rows' = [E EXCEPT ![i] = x]
    BY <1>7, <1>12 DEF Acknowledged
  <1> HIDE DEF E, x
  <1>15. /\ rows' \in Tables /\ Len(rows') = Len(E) /\ DOMAIN rows' = DOMAIN E
         /\ rows'[i] = x /\ \A j \in DOMAIN E : j # i => rows'[j] = E[j]
    BY <1>11, <1>12, <1>13, <1>14 DEF Tables
  <1>16. Applies(rows, rows', log, log', b, l, i, es)
    <2>1. Len(rows) <= Len(rows')
      BY <1>11, <1>15
    <2>2. OrdinalsBounded(rows')
      <3> SUFFICES ASSUME NEW j \in DOMAIN E PROVE rows'[j].ordinal <= j
        BY <1>15 DEF OrdinalsBounded
      <3>1. rows'[j].ordinal = E[j].ordinal
        BY <1>12, <1>13, <1>15 DEF SameOccurrence
      <3> QED
        BY <1>11, <3>1 DEF OrdinalsBounded
    <2>3. \A j \in 1..Len(rows) : j # i => rows'[j] = rows[j]
      BY <1>1, <1>11, <1>12, <1>15
    <2>4. \A j \in (Len(rows) + 1)..Len(rows') : NewRow(rows, rows', b, l, Len(log[b]) + Len(es), j)
      <3> SUFFICES ASSUME NEW j \in (Len(rows) + 1)..Len(rows')
                   PROVE  NewRow(rows, rows', b, l, r, j)
        BY <1>8 DEF r
      <3>1. j \in (Len(rows) + 1)..Len(E) /\ j # i /\ j \in DOMAIN E
        BY <1>0, <1>1, <1>11, <1>12, <1>15
      <3>2. rows'[j] = E[j] /\ NewRow(rows, E, b, l, r, j)
        BY <1>11, <1>15, <3>1
      <3> QED
        BY <3>2 DEF NewRow
    <2> QED
      BY <1>9, <2>1, <2>2, <2>3, <2>4 DEF Applies
  <1>17. AppliesRow(rows, rows', b, i, es)
    BY <1>0, <1>1, <1>8, <1>10, <1>13, <1>15 DEF AppliesRow, b
  <1>18. Inherits(rows, log', b, l, i)
    BY <1>0, <1>1, <1>5 DEF Inherits, b
  <1> QED
    BY <1>2, <1>8, <1>15, <1>16, <1>17, <1>18, AppliesStep

\* The same commit, whether or not its answer reaches the drainer.
LEMMA CommitInd ==
    ASSUME IndInv, NEW d \in Drainers, Commit(d) \/ CommitIsLost(d)
    PROVE  IndInv' /\ SettledKept
  <1>1. PICK ds \in Derivations : CommitOccurrence(d, ds)
    BY DEF Commit, CommitIsLost
  <1>2. TablesOK' /\ SettledKept /\ rows' \in Tables /\ Len(rows) <= Len(rows')
    BY <1>1, CommitOccurrenceKeeps
  <1>3. UNCHANGED <<writer, roots, restarts>> /\ drainer[d].at # "idle"
    BY <1>1 DEF CommitOccurrence
  <1>4. BoundsOK'
    BY <1>3, OutboxAssumption DEF IndInv, BoundsOK, Commit, CommitIsLost
  <1>5. DrainersOK'
    <2>1. CASE Commit(d)
      <3>1. IdleDrainer.row <= Len(rows') /\ IdleDrainer.at = "idle" /\ IdleDrainer \in DrainerStates
        BY <1>2, IdleIsFree
      <3> QED
        BY <1>2, <2>1, <3>1, DrainerMoves DEF Commit
    <2>2. CASE CommitIsLost(d)
      <3> DEFINE x == [drainer[d] EXCEPT !.at = "failed"]
      <3>1. x \in DrainerStates /\ x.row \in DOMAIN rows
        BY <1>3, DrainerStateFacts
      <3>2. drainer' = [drainer EXCEPT ![d] = x]
        BY <2>2 DEF CommitIsLost
      <3> HIDE DEF x
      <3>3. x.row \in DOMAIN rows' /\ x.row <= Len(rows')
        <4>1. /\ Len(rows) \in Nat /\ Len(rows') \in Nat
              /\ DOMAIN rows = 1..Len(rows) /\ DOMAIN rows' = 1..Len(rows')
          BY <1>2 DEF IndInv, TablesOK, Tables
        <4> QED
          BY <1>2, <3>1, <4>1
      <3> QED
        BY <1>2, <3>1, <3>2, <3>3, DrainerMoves
    <2> QED
      BY <2>1, <2>2
  <1> QED
    BY <1>2, <1>3, <1>4, <1>5 DEF IndInv, WritersOK

\* A writer's commit: the log entries of its command and the rows of its events.
LEMMA WriterCommitInd ==
    ASSUME IndInv, NEW w \in Writers, WriterCommit(w)
    PROVE  IndInv' /\ SettledKept
  <1> DEFINE b == writer[w].branch
             k == writer[w].kind
             r == Len(log[b]) + (IF k = "approval" THEN 2 ELSE 1)
  <1>0. writer[w] \in WriterStates
    BY DEF IndInv, WritersOK
  <1>1. b \in Branches /\ k \in AllWriterKinds
    BY <1>0 DEF WriterStates
  <1>2. /\ rows \in Tables /\ log \in Logs /\ OrdinalsBounded(rows)
        /\ DOMAIN rows = 1..Len(rows) /\ Len(rows) \in Nat
    BY DEF IndInv, TablesOK, Static, Tables
  <1>3. log[b] \in Seq(Entries) /\ Len(log[b]) \in Nat /\ r \in Nat
    <2>1. log[b] \in Seq(Entries)
      BY <1>1, <1>2 DEF Logs
    <2>2. Len(log[b]) \in Nat
      BY <2>1
    <2>3. r = Len(log[b]) + 2 \/ r = Len(log[b]) + 1
      BY Zenon
    <2> HIDE DEF b, r
    <2> QED
      BY <2>1, <2>2, <2>3
  <1>4. PICK e \in Events :
          LET entry == [kind |-> k, row |-> 0, event |-> e]
          IN  /\ log' = [log EXCEPT ![b] =
                            log[b] \o (IF k = "approval" THEN <<entry, entry>> ELSE <<entry>>)]
              /\ IF k \in {"generation", "rejection"}
                 THEN UNCHANGED rows
                 ELSE \E ds \in Derivations :
                        rows' = Enqueued(rows, b, RootLineage(b, e, r), ds, r)
    BY DEF WriterCommit, Revision
  <1> DEFINE entry == [kind |-> k, row |-> 0, event |-> e]
             es == IF k = "approval" THEN <<entry, entry>> ELSE <<entry>>
             l == RootLineage(b, e, r)
  <1>5. /\ log' = [log EXCEPT ![b] = log[b] \o es]
        /\ \/ rows' = rows
           \/ \E ds \in Derivations : rows' = Enqueued(rows, b, l, ds, r)
    BY <1>4
  <1>6. entry \in Entries /\ entry.kind = k /\ entry.row = 0 /\ entry.event = e
    BY <1>1 DEF Entries
  <1>7. l \in Lineages /\ l.chain = r /\ l.parent = 0 /\ l.depth = 1 /\ l.visited = {e}
    BY <1>3 DEF Lineages, RootLineage
  <1>8. k \in {"event", "generation"} => \A i \in DOMAIN rows : rows[i].branch = b => Settled(rows[i])
    BY DEF WriterCommit, WriterMayCommit, NoPendingPredecessor, Live
  <1> HIDE DEF b, entry, l
  <1>9. es \in Seq(Entries) /\ r = Len(log[b]) + Len(es) /\ Len(es) \in Nat /\ Len(es) >= 1
    BY <1>6
  <1>10. \A n \in 1..Len(es) : es[n] = entry
    BY <1>6
  <1>11. k \in {"event", "generation"} => Len(es) = 1
    OBVIOUS
  <1> HIDE DEF es, k, r
  <1>12. /\ rows' \in Tables
         /\ Len(rows) <= Len(rows')
         /\ \A j \in 1..Len(rows) : rows'[j] = rows[j]
         /\ \A j \in (Len(rows) + 1)..Len(rows') : NewRow(rows, rows', b, l, r, j)
         /\ OrdinalsBounded(rows')
    <2>1. CASE rows' = rows
      <3>1. (Len(rows) + 1)..Len(rows) = {}
        BY <1>2
      <3> QED
        BY <1>2, <2>1, <3>1
    <2>2. CASE \E ds \in Derivations : rows' = Enqueued(rows, b, l, ds, r)
      <3>1. PICK ds \in Derivations : rows' = Enqueued(rows, b, l, ds, r)
        BY <2>2
      <3>2. ds \in Seq(Events)
        BY DerivationsAreSequences
      <3> QED
        BY <1>1, <1>2, <1>3, <1>7, <3>1, <3>2, EnqueuedFacts DEF Tables
    <2> QED
      BY <1>5, <2>1, <2>2
  <1>13. Applies(rows, rows', log, log', b, l, 0, es)
    BY <1>5, <1>9, <1>12 DEF Applies
  <1>14. AppliesRoot(rows, b, 0, es)
    <2>1. \A n \in 1..Len(es) : es[n].row = 0 /\ es[n].kind = k
      BY <1>6, <1>10
    <2>2. Len(es) >= 1
      BY <1>9
    <2> QED
      BY <1>8, <1>11, <2>1, <2>2 DEF AppliesRoot
  <1>15. Inherits(rows, log', b, l, 0)
    <2>1. Grown(rows, rows', log, log', b, es)
      BY <1>1, <1>2, <1>9, <1>12, <1>13, <1>14, AppliesFacts
    <2>2. /\ DOMAIN log'[b] = 1..Len(log'[b]) /\ Len(log'[b]) = Len(log[b]) + Len(es)
          /\ log'[b][Len(log[b]) + Len(es)] = es[Len(es)]
      <3>1. Len(es) \in 1..Len(es)
        BY <1>9
      <3> QED
        BY <1>1, <2>1, <3>1 DEF Grown
    <2>3. r \in DOMAIN log'[b]
      BY <1>3, <1>9, <2>2
    <2>4. log'[b][r].event = e
      <3>1. Len(es) \in 1..Len(es)
        BY <1>9
      <3> QED
        BY <1>6, <1>9, <1>10, <2>2, <3>1
    <2> QED
      BY <1>7, <2>3, <2>4 DEF Inherits
  <1>16. TablesOK' /\ SettledKept
    BY <1>1, <1>9, <1>12, <1>13, <1>14, <1>15, AppliesStep
  <1>17. writer' = [writer EXCEPT ![w] = IdleWriter] /\ UNCHANGED <<drainer, roots, faults, restarts>>
    BY DEF WriterCommit
  <1>18. DrainersOK'
    BY <1>12, <1>17, DrainersStay
  <1>19. WritersOK' /\ BoundsOK'
    BY <1>17, IdleStates DEF IndInv, WritersOK, BoundsOK
  <1> QED
    BY <1>16, <1>18, <1>19 DEF IndInv

\* The steps of a drainer that change no row.
LEMMA DrainerOnlyInd ==
    ASSUME IndInv, NEW d \in Drainers, Review(d) \/ Refused(d) \/ Fail(d) \/ RetryFails(d)
    PROVE  IndInv' /\ SettledKept
  <1>1. /\ UNCHANGED <<log, rows, writer, roots, restarts>> /\ drainer[d].at # "idle"
        /\ faults' = faults \/ (faults < MaxFaults /\ faults' = faults + 1)
    BY DEF Review, Refused, Fail, RetryFails
  <1>2. TablesOK' /\ SettledKept /\ rows' \in Tables /\ Len(rows) <= Len(rows') /\ DOMAIN rows' = DOMAIN rows
    BY <1>1, UnchangedTables
  <1>3. BoundsOK'
    BY <1>1, OutboxAssumption DEF IndInv, BoundsOK
  <1>4. DrainersOK'
    <2>1. CASE Review(d)
      <3> DEFINE n == Revision(rows[drainer[d].row].branch)
                 x == [drainer[d] EXCEPT !.at = "reviewed", !.seen = n]
      <3>1. n \in Nat
        <4>1. rows[drainer[d].row] \in Rows
          BY <1>1 DEF IndInv, DrainersOK, TablesOK, Tables
        <4>2. rows[drainer[d].row].branch \in Branches
          BY <4>1 DEF Rows
        <4>3. log[rows[drainer[d].row].branch] \in Seq(Entries)
          BY <4>2 DEF IndInv, TablesOK, Logs
        <4> QED
          BY <4>3 DEF Revision
      <3>2. drainer' = [drainer EXCEPT ![d] = x]
        BY <2>1 DEF Review, IndInv, DrainersOK
      <3> HIDE DEF n
      <3>3. x \in DrainerStates /\ x.row \in DOMAIN rows /\ x.row <= Len(rows)
        BY <1>1, <3>1, DrainerStateFacts
      <3> HIDE DEF x
      <3> QED
        BY <1>1, <1>2, <3>2, <3>3, DrainerMoves
    <2>2. CASE Refused(d) \/ Fail(d)
      <3> DEFINE x == [drainer[d] EXCEPT !.at = "failed"]
      <3>1. x \in DrainerStates /\ x.row \in DOMAIN rows /\ x.row <= Len(rows)
        BY <1>1, DrainerStateFacts
      <3>2. drainer' = [drainer EXCEPT ![d] = x]
        BY <2>2 DEF Refused, Fail
      <3> HIDE DEF x
      <3> QED
        BY <1>1, <1>2, <3>1, <3>2, DrainerMoves
    <2>3. CASE RetryFails(d)
      <3>1. IdleDrainer.row <= Len(rows') /\ IdleDrainer.at = "idle" /\ IdleDrainer \in DrainerStates
        BY <1>2, IdleIsFree
      <3> QED
        BY <1>2, <2>3, <3>1, DrainerMoves DEF RetryFails
    <2> QED
      BY <2>1, <2>2, <2>3
  <1> QED
    BY <1>1, <1>2, <1>3, <1>4 DEF IndInv, WritersOK

\* The steps of a writer that commit nothing.
LEMMA WriterOnlyInd ==
    ASSUME IndInv, NEW w \in Writers,
           WriterRefused(w) \/ \E b \in Branches, k \in WriterKinds : WriterReview(w, b, k)
    PROVE  IndInv' /\ SettledKept
  <1>1. UNCHANGED <<log, rows, drainer, faults, restarts>>
    BY DEF WriterRefused, WriterReview
  <1>2. TablesOK' /\ SettledKept /\ rows' \in Tables /\ Len(rows) <= Len(rows')
    BY <1>1, UnchangedTables
  <1>3. DrainersOK'
    BY <1>1, <1>2, DrainersStay
  <1>4. WritersOK' /\ BoundsOK'
    <2>1. CASE WriterRefused(w)
      BY <2>1, IdleStates DEF WriterRefused, IndInv, WritersOK, BoundsOK
    <2>2. CASE \E b \in Branches, k \in WriterKinds : WriterReview(w, b, k)
      <3>1. PICK b \in Branches, k \in WriterKinds : WriterReview(w, b, k)
        BY <2>2
      <3>2. log[b] \in Seq(Entries)
        BY DEF IndInv, TablesOK, Logs
      <3>3. Revision(b) \in Nat
        BY <3>2 DEF Revision
      <3>4. [at |-> "reviewed", branch |-> b, kind |-> k, seen |-> Revision(b)] \in WriterStates
        BY <3>3, OutboxAssumption DEF WriterStates
      <3>5. WritersOK'
        BY <3>1, <3>4 DEF WriterReview, IndInv, WritersOK
      <3>6. BoundsOK'
        BY <3>1, OutboxAssumption DEF WriterReview, IndInv, BoundsOK
      <3> QED
        BY <3>5, <3>6
    <2> QED
      BY <2>1, <2>2
  <1> QED
    BY <1>2, <1>3, <1>4 DEF IndInv

\* Every step keeps the invariant and what is settled.
LEMMA NextInd ==
    ASSUME IndInv, [Next]_vars
    PROVE  IndInv' /\ SettledKept
  <1>1. CASE UNCHANGED vars
    BY <1>1 DEF vars, IndInv, TablesOK, DrainersOK, WritersOK, BoundsOK, SettledKept
  <1>2. ASSUME NEW d \in Drainers, DrainerStep(d)
        PROVE  IndInv' /\ SettledKept
    <2>1. CASE Claim(d)
      BY <2>1, ClaimInd
    <2>2. CASE ClaimAborts(d)
      BY <1>1, <2>2 DEF ClaimAborts
    <2>3. CASE ClaimNothing(d)
      BY <2>3, ClaimNothingInd
    <2>4. CASE Quarantine(d)
      BY <2>4, QuarantineInd
    <2>5. CASE Commit(d) \/ CommitIsLost(d)
      BY <2>5, CommitInd
    <2>6. CASE Retry(d)
      BY <2>6, RetryInd
    <2>7. CASE Review(d) \/ Refused(d) \/ Fail(d) \/ RetryFails(d)
      BY <2>7, DrainerOnlyInd
    <2> QED
      BY <1>2, <2>1, <2>2, <2>3, <2>4, <2>5, <2>6, <2>7 DEF DrainerStep
  <1>3. ASSUME NEW w \in Writers, WriterStep(w)
        PROVE  IndInv' /\ SettledKept
    <2>1. CASE WriterCommit(w)
      BY <2>1, WriterCommitInd
    <2>2. CASE WriterRefused(w) \/ \E b \in Branches, k \in WriterKinds : WriterReview(w, b, k)
      BY <2>2, WriterOnlyInd
    <2> QED
      BY <1>3, <2>1, <2>2 DEF WriterStep
  <1>4. ASSUME NEW i \in DOMAIN rows, Ripen(i) \/ LeaseOverrun(i)
        PROVE  IndInv' /\ SettledKept
    BY <1>4, RipenInd
  <1>5. CASE Restart
    BY <1>5, RestartInd
  <1>6. CASE Done
    BY <1>1, <1>6 DEF Done
  <1> QED
    BY <1>1, <1>2, <1>3, <1>4, <1>5, <1>6 DEF Next

\* The invariant holds throughout.
THEOREM OutboxIsConsistent == Spec => []IndInv
  <1>1. IndInv /\ [Next]_vars => IndInv'
    BY NextInd
  <1> QED
    BY InitInd, <1>1, PTL DEF Spec

---------------------------------------------------------------------------
(* The properties the runs check *)

\* However many threads drain, and though leases overrun and commits get lost on
\* their way back, the occurrences of a branch are applied in the claim query's
\* order, each at most once.
THEOREM AppliedInOrderTheorem == Spec => []AppliedInOrder
  <1>1. IndInv => AppliedInOrder
    <2> SUFFICES ASSUME IndInv, NEW b \in Branches, NEW k \in DOMAIN log[b], NEW l \in DOMAIN log[b],
                        k < l, log[b][k].row # 0, log[b][l].row # 0
                 PROVE  Before(rows, log[b][k].row, log[b][l].row)
      BY DEF AppliedInOrder
    <2>1. log[b][k].row < log[b][l].row
      BY DEF IndInv, TablesOK, Progress, AppliedByPlace
    <2>2. /\ log[b][k].row \in DOMAIN rows /\ log[b][l].row \in DOMAIN rows
          /\ rows[log[b][k].row].branch = rows[log[b][l].row].branch
      BY DEF IndInv, TablesOK, Progress, EntriesAreRows
    <2> QED
      BY <2>1, <2>2 DEF IndInv, TablesOK, Static, InTableOrder
  <1> QED
    BY OutboxIsConsistent, <1>1, PTL

\* An occurrence is acknowledged exactly when its event is in the log of its
\* branch: event, children and acknowledgement are one transaction.
THEOREM AcknowledgedIffAppliedTheorem == Spec => []AcknowledgedIffApplied
  <1>1. IndInv => AcknowledgedIffApplied
    <2> SUFFICES ASSUME IndInv, NEW i \in DOMAIN rows
                 PROVE  rows[i].status = "acknowledged"
                          <=> \E k \in DOMAIN log[rows[i].branch] : log[rows[i].branch][k].row = i
      BY DEF AcknowledgedIffApplied
    <2>1. rows[i] \in Rows /\ i # 0
      BY DEF IndInv, TablesOK, Tables
    <2>2. rows[i].branch \in Branches
      BY <2>1 DEF Rows
    <2>3. ASSUME NEW k \in DOMAIN log[rows[i].branch], log[rows[i].branch][k].row = i
          PROVE  rows[i].status = "acknowledged"
      BY <2>1, <2>2, <2>3 DEF IndInv, TablesOK, Progress, EntriesAreRows
    <2> QED
      BY <2>3 DEF IndInv, TablesOK, Progress, AppliedIsLogged
  <1> QED
    BY OutboxIsConsistent, <1>1, PTL

\* Ordinary events and generations see only states in which everything that
\* earlier events derived has settled.
THEOREM RootsFollowClosureTheorem == Spec => []RootsFollowClosure
  <1>1. IndInv => RootsFollowClosure
    BY DEF IndInv, TablesOK, Progress, RootsClosed, RootsFollowClosure
  <1> QED
    BY OutboxIsConsistent, <1>1, PTL

\* Neither a late retry nor a restart opens a settled occurrence again.
THEOREM SettledStaysSettledTheorem == Spec => SettledStaysSettled
  <1>1. IndInv /\ [Next]_vars => [\A i \in DOMAIN rows : Settled(rows[i]) => rows'[i] = rows[i]]_vars
    BY NextInd DEF SettledKept
  <1> QED
    BY OutboxIsConsistent, <1>1, PTL DEF Spec, SettledStaysSettled

---------------------------------------------------------------------------
(* Chains are finite *)

\* The way to row i, given the ways to the rows before it.
WayTo(f, i) ==
    IF rows[i].parent = 0
    THEN <<log[rows[i].branch][rows[i].chain].event>>
    ELSE Append(f[rows[i].parent], rows[rows[i].parent].event)

\* The recursion along the parents is defined: a parent is before its children.
LEMMA PathToUnfolds ==
    ASSUME IndInv
    PROVE  PathTo = [i \in DOMAIN rows |-> WayTo(PathTo, i)]
  <1> DEFINE Way(f, m) == f = [i \in 1..m |-> WayTo(f, i)]
             Bad == {m \in 0..Len(rows) : ~\E f : Way(f, m)}
  <1>0. DOMAIN rows = 1..Len(rows) /\ Len(rows) \in Nat
    BY DEF IndInv, TablesOK, Tables
  <1>1. \A i \in DOMAIN rows : rows[i].parent \in Nat /\ rows[i].parent < i
    <2> SUFFICES ASSUME NEW i \in DOMAIN rows PROVE rows[i].parent \in Nat /\ rows[i].parent < i
      OBVIOUS
    <2>1. rows[i] \in Rows
      BY DEF IndInv, TablesOK, Tables
    <2> QED
      BY <2>1 DEF IndInv, TablesOK, Static, LineagesGood, Rows
  <1>2. Bad = {}
    <2> SUFFICES ASSUME Bad # {} PROVE FALSE
      OBVIOUS
    <2>1. PICK m \in Bad : \A k \in Bad : m <= k
      <3> HIDE DEF Bad
      <3>1. Bad \in SUBSET Nat
        BY <1>0 DEF Bad
      <3> QED
        BY <3>1, LeastNatural
    <2>2. m \in 0..Len(rows) /\ m \in Nat
      BY <1>0
    <2>3. CASE m = 0
      <3> DEFINE f == [i \in 1..0 |-> << >>]
      <3>1. 1..0 = {}
        OBVIOUS
      <3>2. f = [i \in 1..0 |-> WayTo(f, i)]
        BY <3>1
      <3>3. Way(f, 0)
        BY <3>2
      <3> QED
        BY <2>1, <2>3, <3>3
    <2>4. CASE m # 0
      <3>1. m - 1 \in 0..Len(rows) /\ ~(m <= m - 1)
        BY <1>0, <2>2, <2>4
      <3>2. m - 1 \notin Bad
        <4> HIDE DEF Bad
        <4> QED
          BY <2>1, <3>1
      <3>3. PICK f : Way(f, m - 1)
        BY <3>1, <3>2
      <3> DEFINE g == [i \in 1..m |-> IF i = m THEN WayTo(f, m) ELSE f[i]]
      <3>4. \A i \in 1..(m - 1) : f[i] = WayTo(f, i)
        BY <3>3
      <3>5. \A i \in 1..m : rows[i].parent # 0 => g[rows[i].parent] = f[rows[i].parent]
        <4> SUFFICES ASSUME NEW i \in 1..m, rows[i].parent # 0
                     PROVE  g[rows[i].parent] = f[rows[i].parent]
          OBVIOUS
        <4>1. i \in DOMAIN rows
          BY <1>0, <2>2
        <4>2. rows[i].parent \in 1..m /\ rows[i].parent # m
          BY <1>1, <2>2, <4>1
        <4> QED
          BY <4>2
      <3>6. \A i \in 1..m : WayTo(g, i) = WayTo(f, i)
        <4> HIDE DEF g
        <4> QED
          BY <3>5 DEF WayTo
      <3>7. \A i \in 1..m : g[i] = WayTo(g, i)
        <4>1. \A i \in 1..m : i # m => i \in 1..(m - 1)
          BY <2>2
        <4> QED
          BY <3>4, <3>6, <4>1
      <3>8. g = [i \in 1..m |-> WayTo(g, i)]
        BY <3>7
      <3> QED
        BY <2>1, <3>8
    <2> QED
      BY <2>3, <2>4
  <1>3. \E f : Way(f, Len(rows))
    BY <1>0, <1>2
  <1>4. PathTo = CHOOSE f : Way(f, Len(rows))
    BY <1>0 DEF PathTo, WayTo
  <1> QED
    BY <1>0, <1>3, <1>4

\* The way to a row has an event for each level, all different and all visited.
LEMMA PathToFacts ==
    ASSUME IndInv
    PROVE  \A i \in DOMAIN rows :
              /\ PathTo[i] \in Seq(Events)
              /\ Len(PathTo[i]) = rows[i].depth
              /\ \A k \in 1..Len(PathTo[i]) : PathTo[i][k] \in rows[i].visited
              /\ \A k, l \in 1..Len(PathTo[i]) : PathTo[i][k] = PathTo[i][l] => k = l
  <1> DEFINE Good(s, i) == /\ s \in Seq(Events)
                           /\ Len(s) = rows[i].depth
                           /\ \A k \in 1..Len(s) : s[k] \in rows[i].visited
                           /\ \A k, l \in 1..Len(s) : s[k] = s[l] => k = l
             Bad == {i \in DOMAIN rows : ~Good(PathTo[i], i)}
  <1>0. DOMAIN rows = 1..Len(rows) /\ Len(rows) \in Nat
    BY DEF IndInv, TablesOK, Tables
  <1> SUFFICES ASSUME Bad # {} PROVE FALSE
    OBVIOUS
  <1>1. PICK i \in Bad : \A k \in Bad : i <= k
    <2> HIDE DEF Bad
    <2>1. Bad \in SUBSET Nat
      BY <1>0 DEF Bad
    <2> QED
      BY <2>1, LeastNatural
  <1>2. i \in DOMAIN rows /\ i \in Nat /\ ~Good(PathTo[i], i) /\ rows[i] \in Rows
    BY <1>0 DEF IndInv, TablesOK, Tables
  <1>3. PathTo[i] = WayTo(PathTo, i)
    BY <1>2, PathToUnfolds
  <1>4. /\ rows[i].parent \in Nat /\ rows[i].parent < i
        /\ rows[i].branch \in Branches
    BY <1>2 DEF IndInv, TablesOK, Static, LineagesGood, Rows
  <1>5. CASE rows[i].parent = 0
    <2> DEFINE e == log[rows[i].branch][rows[i].chain].event
    <2>1. rows[i].chain \in DOMAIN log[rows[i].branch] /\ rows[i].depth = 1 /\ rows[i].visited = {e}
      BY <1>2, <1>5 DEF IndInv, TablesOK, Static, LineagesGood
    <2>2. e \in Events
      <3>1. log[rows[i].branch] \in Seq(Entries)
        BY <1>4 DEF IndInv, TablesOK, Logs
      <3>2. log[rows[i].branch][rows[i].chain] \in Entries
        BY <2>1, <3>1
      <3> QED
        BY <3>2 DEF Entries
    <2>3. PathTo[i] = <<e>>
      BY <1>3, <1>5 DEF WayTo
    <2> HIDE DEF e
    <2>4. /\ <<e>> \in Seq(Events) /\ Len(<<e>>) = 1
          /\ \A k \in 1..Len(<<e>>) : <<e>>[k] = e /\ k = 1
      BY <2>2
    <2>5. Good(<<e>>, i)
      BY <2>1, <2>4
    <2> HIDE DEF Good
    <2> QED
      BY <1>2, <2>3, <2>5
  <1>6. CASE rows[i].parent # 0
    <2> DEFINE p == rows[i].parent
               s == PathTo[p]
               e == rows[p].event
    <2>1. p \in DOMAIN rows /\ p \notin Bad
      <3>1. p \in DOMAIN rows /\ ~(i <= p)
        BY <1>0, <1>2, <1>4, <1>6
      <3> HIDE DEF Bad, p
      <3> QED
        BY <1>1, <3>1
    <2>2. Good(s, p)
      BY <2>1
    <2>3. /\ rows[i].depth = rows[p].depth + 1
          /\ rows[i].visited = rows[p].visited \cup {e}
      BY <1>2, <1>6 DEF IndInv, TablesOK, Static, LineagesGood
    <2>4. e \in Events /\ e \notin rows[p].visited
      <3>1. rows[p] \in Rows
        BY <2>1 DEF IndInv, TablesOK, Tables
      <3> QED
        BY <2>1, <3>1 DEF IndInv, TablesOK, Static, LineagesGood, Rows
    <2>5. PathTo[i] = Append(s, e)
      BY <1>3, <1>6 DEF WayTo
    <2> HIDE DEF p, s, e
    <2>6. /\ Append(s, e) \in Seq(Events) /\ Len(s) \in Nat
          /\ Len(Append(s, e)) = Len(s) + 1
          /\ \A k \in 1..Len(s) : Append(s, e)[k] = s[k]
          /\ Append(s, e)[Len(s) + 1] = e
      BY <2>2, <2>4
    <2> DEFINE t == Append(s, e)
    <2> HIDE DEF t
    <2>7. /\ t \in Seq(Events) /\ Len(t) = Len(s) + 1
          /\ \A k \in 1..Len(s) : t[k] = s[k]
          /\ t[Len(s) + 1] = e
      BY <2>6 DEF t
    <2>8. Len(t) = rows[i].depth
      BY <2>2, <2>3, <2>7
    <2>9. \A k \in 1..Len(t) : k \in 1..Len(s) \/ k = Len(s) + 1
      BY <2>6, <2>7
    <2>10. \A k \in 1..Len(t) : t[k] \in rows[i].visited
      BY <2>2, <2>3, <2>7, <2>9
    <2>11. \A k, l \in 1..Len(t) : t[k] = t[l] => k = l
      BY <2>2, <2>4, <2>7, <2>9
    <2>12. Good(t, i)
      BY <2>7, <2>8, <2>10, <2>11
    <2> HIDE DEF Good
    <2> QED
      BY <1>2, <2>5, <2>12 DEF t
  <1> QED
    BY <1>5, <1>6

\* A chain's rows are as many as its last ordinal says.
LEMMA ChainCount ==
    ASSUME IndInv, NEW i \in DOMAIN rows
    PROVE  LET c == ChainRows(rows, rows[i].branch, rows[i].chain) IN
           /\ Cardinality(c) \in Nat
           /\ Cardinality(c) <= MaxChainEvents
           /\ {rows[j].ordinal : j \in c} = 1..Cardinality(c)
  <1> DEFINE b == rows[i].branch
             chain == rows[i].chain
             c == ChainRows(rows, b, chain)
             last == NextOrdinal(rows, b, chain)
  <1>0. /\ rows \in Tables /\ OrdinalsBounded(rows) /\ OrdinalsFill(rows)
        /\ DOMAIN rows = 1..Len(rows) /\ Len(rows) \in Nat /\ MaxChainEvents \in Nat
    BY ChainAssumption DEF IndInv, TablesOK, Static, Tables
  <1>1. /\ last \in Nat
        /\ \A j \in c : rows[j].ordinal <= last
        /\ last = 0 \/ \E j \in c : rows[j].ordinal = last
    BY <1>0, NextOrdinalFacts DEF Tables
  <1> HIDE DEF last
  <1>2. \A j \in c : j \in DOMAIN rows /\ rows[j].branch = b /\ rows[j].chain = chain
    BY DEF ChainRows
  <1>3. i \in c
    BY DEF ChainRows
  <1>4. \A j \in c : rows[j].ordinal \in Nat /\ 1 <= rows[j].ordinal /\ rows[j].ordinal <= MaxChainEvents
    <2> SUFFICES ASSUME NEW j \in c
                 PROVE  rows[j].ordinal \in Nat /\ 1 <= rows[j].ordinal /\ rows[j].ordinal <= MaxChainEvents
      OBVIOUS
    <2>1. j \in DOMAIN rows /\ rows[j] \in Rows
      BY <1>0, <1>2 DEF Tables
    <2> QED
      BY <1>0, <2>1 DEF OrdinalsFill, Rows
  <1>5. PICK m \in c : rows[m].ordinal = last
    BY <1>1, <1>3, <1>4
  <1>6. last <= MaxChainEvents
    BY <1>4, <1>5
  <1>7. \A n \in 1..last : \E j \in c : rows[j].ordinal = n
    BY <1>0, <1>2, <1>5 DEF OrdinalsFill
  <1>8. \A j, k \in c : rows[j].ordinal = rows[k].ordinal => j = k
    BY <1>0, <1>2 DEF OrdinalsFill
  <1>9. \A j \in c : rows[j].ordinal \in 1..last
    BY <1>1, <1>4
  <1> HIDE DEF c
  <1>10. {rows[j].ordinal : j \in c} = 1..last
    BY <1>7, <1>9
  <1>11. IsFiniteSet(c)
    <2>1. IsFiniteSet(1..Len(rows))
      BY <1>0, FS_Interval
    <2>2. c \subseteq 1..Len(rows)
      BY <1>0, <1>2
    <2> QED
      BY <2>1, <2>2, FS_Subset
  <1>12. Cardinality(c) = last
    <2> DEFINE f == [j \in c |-> rows[j].ordinal]
    <2>1. f \in Injection(c, 1..last)
      BY <1>8, <1>9 DEF Injection, IsInjective
    <2>2. f \in Surjection(c, 1..last)
      BY <1>7, <1>9 DEF Surjection
    <2>3. ExistsBijection(c, 1..last)
      BY <2>1, <2>2 DEF ExistsBijection, Bijection
    <2>4. Cardinality(1..last) = Cardinality(c)
      BY <1>11, <2>3, FS_Bijection
    <2>5. Cardinality(1..last) = IF 1 > last THEN 0 ELSE last - 1 + 1
      BY <1>1, FS_Interval
    <2> QED
      BY <1>1, <2>4, <2>5
  <1> QED
    BY <1>1, <1>6, <1>10, <1>12 DEF c

\* Types are kept, no event derives itself again however the rules feed each
\* other, and a path and a chain stay within their limits.
THEOREM DerivedInvTheorem == Spec => []DerivedInv
  <1>1. IndInv => TypeOK
    <2> SUFFICES ASSUME IndInv PROVE TypeOK
      OBVIOUS
    <2>1. rows \in Seq(Rows) /\ log \in [Branches -> Seq(Entries)] /\ Len(rows) \in Nat
      BY DEF IndInv, TablesOK, Tables, Logs
    <2>2. \A d \in Drainers : drainer[d] \in [at : {"idle", "claimed", "reviewed", "failed"},
                                              row : 0..Len(rows), token : Nat, seen : Nat]
      <3> SUFFICES ASSUME NEW d \in Drainers
                   PROVE  drainer[d] \in [at : {"idle", "claimed", "reviewed", "failed"},
                                          row : 0..Len(rows), token : Nat, seen : Nat]
        OBVIOUS
      <3>1. drainer[d] \in DrainerStates /\ drainer[d].row <= Len(rows)
        BY DEF IndInv, DrainersOK
      <3>2. drainer[d].row \in 0..Len(rows)
        BY <2>1, <3>1 DEF DrainerStates
      <3> QED
        BY <3>1, <3>2 DEF DrainerStates
    <2>3. drainer \in [Drainers -> [at : {"idle", "claimed", "reviewed", "failed"},
                                    row : 0..Len(rows), token : Nat, seen : Nat]]
      BY <2>2 DEF IndInv, DrainersOK
    <2> QED
      BY <2>1, <2>3 DEF TypeOK, IndInv, WritersOK, WriterStates, BoundsOK
  <1>2. IndInv => ChainsAreFinite
    <2> SUFFICES ASSUME IndInv, NEW i \in DOMAIN rows
                 PROVE  LET path == Append(PathTo[i], rows[i].event)
                            c    == ChainRows(rows, rows[i].branch, rows[i].chain)
                        IN  /\ \A k, l \in DOMAIN path : path[k] = path[l] => k = l
                            /\ Len(path) <= MaxDepth + 1
                            /\ Cardinality(c) <= MaxChainEvents
                            /\ {rows[j].ordinal : j \in c} = 1..Cardinality(c)
      BY DEF ChainsAreFinite
    <2> DEFINE s == PathTo[i]
               e == rows[i].event
               path == Append(s, e)
    <2>1. /\ s \in Seq(Events) /\ Len(s) = rows[i].depth
          /\ \A k \in 1..Len(s) : s[k] \in rows[i].visited
          /\ \A k, l \in 1..Len(s) : s[k] = s[l] => k = l
      BY PathToFacts
    <2>2. e \in Events /\ e \notin rows[i].visited /\ rows[i].depth <= MaxDepth /\ MaxDepth \in Nat
      <3>1. rows[i] \in Rows
        BY DEF IndInv, TablesOK, Tables
      <3> QED
        BY <3>1, ChainAssumption DEF IndInv, TablesOK, Static, LineagesGood, Rows
    <2> HIDE DEF s, e
    <2>3. /\ Len(s) \in Nat /\ Len(path) = Len(s) + 1 /\ DOMAIN path = 1..(Len(s) + 1)
          /\ \A k \in 1..Len(s) : path[k] = s[k]
          /\ path[Len(s) + 1] = e
      BY <2>1, <2>2
    <2> HIDE DEF path
    <2>4. \A k \in DOMAIN path : k \in 1..Len(s) \/ k = Len(s) + 1
      BY <2>3
    <2>5. \A k, l \in DOMAIN path : path[k] = path[l] => k = l
      BY <2>1, <2>2, <2>3, <2>4
    <2>6. Len(path) <= MaxDepth + 1
      BY <2>1, <2>2, <2>3
    <2>7. /\ Cardinality(ChainRows(rows, rows[i].branch, rows[i].chain)) <= MaxChainEvents
          /\ {rows[j].ordinal : j \in ChainRows(rows, rows[i].branch, rows[i].chain)}
               = 1..Cardinality(ChainRows(rows, rows[i].branch, rows[i].chain))
      BY ChainCount
    <2> QED
      BY <2>5, <2>6, <2>7, Zenon DEF path, s, e
  <1> QED
    BY OutboxIsConsistent, <1>1, <1>2, PTL DEF DerivedInv
===========================================================================

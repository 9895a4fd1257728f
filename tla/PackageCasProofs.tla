-------------------------- MODULE PackageCasProofs --------------------------
(***************************************************************************)
(* Proofs about the content-addressed store: for every set of threads,     *)
(* imports, digests and media types, journal, rows and files agree, a      *)
(* product reference never dangles and nothing is leaked, whatever fails,  *)
(* dies and is recovered.                                                  *)
(***************************************************************************)
EXTENDS PackageCas, TLAPS

-----------------------------------------------------------------------------
(* The inductive invariant.                                                *)

Pcs == {"idle", "ensure", "store", "durable", "register", "verify", "commit",
        "discard", "cleanup_tx", "cleanup_file", "cleanup_row", "card_store"}

Promoting == {"store", "durable", "register"}
Removing == {"cleanup_file", "cleanup_row"}

\* Where cas_mutation is held.
Holding == Promoting \cup Removing \cup {"cleanup_tx", "card_store"}

Procs == [pc : Pcs, import : Imports \cup {None}, staged : SUBSET Objects,
          todo : SUBSET Objects, cur : Objects \cup {None}, inner : BOOLEAN]

Recs == [pc : {"jobs", "entries", "file", "row"},
         todo : SUBSET (Objects \cup Entries), entry : Entries \cup {None}]

LocalsTyped == proc \in [Threads -> Procs] /\ rec \in Recs

\* What an import may promote.
ObjectsOf(i) == {SourceOf[i]} \cup AssetsOf[i]

\* A journal row is of an object of its import.
EntriesOwned == \A i \in Imports, o \in Objects :
    journal[<<i, o>>] # None => o \in ObjectsOf(i)

\* A metadata row has a media type that someone declared.
Declared(o, m) ==
    \/ o \in Sources /\ m = SourceRow
    \/ o \in Assets /\ \E i \in Imports : o \in AssetsOf[i] /\ m = MediaOf[i][o]
    \/ o \in Assets /\ o \in CardObjects /\ m = CardMedia

RowsDeclared == \A o \in Objects : row[o] # None => Declared(o, row[o])

\* A row is known to a product or to the journal; a job does not account for
\* it, because the end of a job does not remove it.
RowsKnown == \A o \in Objects :
    ~Contested(o) /\ row[o] # None =>
        o \in refs \/ \E i \in Imports : journal[<<i, o>>] # None

\* Replaying a completed import may drop its journal rows.
CompletedIsReferenced == \A i \in Imports :
    state[i] = "completed" => AssetsOf[i] \subseteq refs

\* Nobody needs the object that is being removed, and its row is gone.
Unneeded(o) == o \notin refs /\ (row[o] = None \/ Contested(o))

HasAnImport(t) == proc[t].pc \notin {"idle", "card_store"} =>
    proc[t].import \in Imports /\ proc[t].staged \subseteq ObjectsOf(proc[t].import)

Promotes(t) == proc[t].pc \in Promoting =>
    /\ proc[t].todo \subseteq proc[t].staged
    /\ proc[t].pc # "store" => proc[t].todo = {}
    /\ \A o \in proc[t].staged :
         /\ journal[<<proc[t].import, o>>] # None \/ o \in refs
         /\ o \notin proc[t].todo => file[o]

Removes(t) == proc[t].pc \in Removing =>
    /\ proc[t].cur \in Objects
    /\ journal[<<proc[t].import, proc[t].cur>>] = "cleanup_pending"
    /\ ~SharedBy(proc[t].import, proc[t].cur)
    /\ Unneeded(proc[t].cur)
    /\ proc[t].pc = "cleanup_row" /\ file[proc[t].cur] => proc[t].cur \in Pinned

StoresCard(t) == proc[t].pc = "card_store" =>
    /\ jobs > 0
    /\ \A o \in CardObjects : o \notin proc[t].todo => file[o]

ThreadOK(t) ==
    /\ (proc[t].pc \in Holding) <=> (lock = t)
    /\ HasAnImport(t)
    /\ Promotes(t)
    /\ Removes(t)
    /\ StoresCard(t)

ThreadsOK == \A t \in Threads : ThreadOK(t)

\* Outside the running mode no thread is at work.
Quiet == mode # "running" => lock = None /\ \A t \in Threads : proc[t].pc = "idle"

\* The files of interrupted card imports that are done with.
RecoversJobs == mode = "recovering" /\ rec.pc = "jobs" =>
    \A o \in CardObjects :
        jobs = 0 \/ o \in rec.todo \/ row[o] # None \/ (file[o] => o \in Pinned)

\* The journal rows that are done with are those of active imports.
RecoversEntries == mode = "recovering" /\ rec.pc # "jobs" =>
    /\ jobs = 0
    /\ \A e \in Entries : e \in rec.todo => journal[e] # None
    /\ \A e \in Entries : journal[e] # None =>
         \/ e \in rec.todo
         \/ rec.pc \in {"file", "row"} /\ e = rec.entry
         \/ ActiveAsset(e) /\ e[2] \notin refs

RecoversAbandoned == mode = "recovering" /\ rec.pc \in {"file", "row"} =>
    /\ rec.entry \in Entries /\ rec.entry \notin rec.todo
    /\ journal[rec.entry] = "cleanup_pending"
    /\ Unneeded(rec.entry[2])
    /\ \A i \in Imports : ~ActiveAsset(<<i, rec.entry[2]>>)
    /\ rec.pc = "row" /\ file[rec.entry[2]] => rec.entry[2] \in Pinned

RecoveryOK == RecoversJobs /\ RecoversEntries /\ RecoversAbandoned

RowsOK == EntriesOwned /\ RowsDeclared /\ RowsKnown /\ CompletedIsReferenced

Typed == TypeOK /\ LocalsTyped
DiskOK == RegisteredIsStored /\ NothingLeaked /\ ReferenceIsStored /\ RowsOK

IndInv == Typed /\ DiskOK /\ ThreadsOK /\ Quiet /\ RecoveryOK

-----------------------------------------------------------------------------
(* The journal and its entries.                                            *)

\* An entry of the journal is an import and an object.
LEMMA EntryIsPair ==
    \A e \in Entries : e[1] \in Imports /\ e[2] \in Objects /\ e = <<e[1], e[2]>>
BY DEF Entries

\* An import and an object are an entry of the journal.
LEMMA PairIsEntry ==
    \A i \in Imports, o \in Objects :
        <<i, o>> \in Entries /\ <<i, o>>[1] = i /\ <<i, o>>[2] = o
BY DEF Entries

\* The media type of a promotion is one that was declared, and never None.
LEMMA MediaForFacts ==
    ASSUME NEW i \in Imports, NEW o \in ObjectsOf(i)
    PROVE  /\ o \in Objects
           /\ MediaFor(i, o) \in Media \cup {SourceRow}
           /\ MediaFor(i, o) # None
           /\ Declared(o, MediaFor(i, o))
<1>a. SourceOf[i] \in Sources /\ AssetsOf[i] \in SUBSET Assets
  BY PackageCasAssumption
<1>1. o \in Sources \/ (o \in AssetsOf[i] /\ o \in Assets)
  <2>1. o = SourceOf[i] \/ o \in AssetsOf[i]
    BY DEF ObjectsOf
  <2> QED BY <1>a, <2>1
<1>2. o \in Assets => o \notin Sources
  BY PackageCasAssumption
<1>3. CASE o \in Sources
  BY <1>3 DEF MediaFor, Declared, Objects, None, SourceRow
<1>4. CASE o \in Assets /\ o \in AssetsOf[i]
  <2>1. MediaFor(i, o) = MediaOf[i][o]
    BY <1>2, <1>4 DEF MediaFor
  <2>2. MediaOf[i][o] \in Media
    BY <1>4, PackageCasAssumption
  <2> QED BY <2>1, <2>2, <1>4, PackageCasAssumption DEF Declared, Objects
<1> QED BY <1>1, <1>3, <1>4

\* Two declared media types of the same bytes contest them.
LEMMA TwoDeclarations ==
    ASSUME NEW o \in Objects, NEW m, NEW n, Declared(o, m), Declared(o, n), m # n
    PROVE  Contested(o)
<1>1. o \notin Sources
  BY PackageCasAssumption DEF Declared
<1>2. o \in Assets
  BY <1>1 DEF Objects
<1> DEFINE M == {MediaOf[i][o] : i \in {j \in Imports : o \in AssetsOf[j]}}
                \cup (IF o \in CardObjects THEN {CardMedia} ELSE {})
<1>3. m \in M /\ n \in M
  BY <1>1 DEF Declared
<1> QED BY <1>2, <1>3 DEF Contested

\* The type of the journal after the phase of some of an import's entries is
\* set, and what is in it.
LEMMA SetPhaseFacts ==
    ASSUME Typed, NEW k \in Imports, NEW S, NEW p \in Phases \cup {None}
    PROVE  /\ SetPhase(k, S, p) \in [Entries -> Phases \cup {None}]
           /\ \A i \in Imports, o \in Objects :
                SetPhase(k, S, p)[<<i, o>>]
                  = IF i = k /\ o \in S THEN p ELSE journal[<<i, o>>]
BY PairIsEntry DEF SetPhase, Typed, TypeOK

\* Stored and registered, entry by entry.
RegisteredPairs ==
    \A i \in Imports, o \in Objects :
        (/\ journal[<<i, o>>] = "row_registered"
         /\ mode = "running" \/ (o \in Assets /\ state[i] \in Active))
        => row[o] = MediaFor(i, o) /\ file[o]

\* The registered rows, by import and object instead of by entry.
LEMMA RegisteredByPairs ==
    /\ RegisteredIsStored <=> RegisteredPairs
    /\ RegisteredIsStored' <=> RegisteredPairs'
<1>1. RegisteredIsStored <=> RegisteredPairs
  BY EntryIsPair, PairIsEntry DEF RegisteredIsStored, RegisteredPairs, ActiveAsset, Stored
<1>2. RegisteredIsStored' <=> RegisteredPairs'
  BY EntryIsPair, PairIsEntry DEF RegisteredIsStored, RegisteredPairs, ActiveAsset, Stored, MediaFor
<1> QED BY <1>1, <1>2

\* A thread's next program counter and local variables.
LEMMA BecomeFacts ==
    ASSUME Typed, NEW t \in Threads, NEW p \in Procs, Become(t, p)
    PROVE  /\ proc' \in [Threads -> Procs]
           /\ proc'[t] = p
           /\ \A u \in Threads \ {t} : proc'[u] = proc[u]
BY DEF Become, Typed, LocalsTyped

\* A thread between two commands.
LEMMA IdleTyped == Idle \in Procs
BY DEF Idle, Procs, Pcs, None

-----------------------------------------------------------------------------
(* What leaves the parts of the invariant alone.                           *)

\* In the running mode only types, disk and threads are to be shown.
LEMMA WhileRunning ==
    ASSUME mode' = "running", Typed', DiskOK', ThreadsOK'
    PROVE  IndInv'
BY DEF IndInv, Quiet, RecoveryOK, RecoversJobs, RecoversEntries, RecoversAbandoned

\* A step that changes no table, file or mode.
LEMMA SameDisk ==
    ASSUME DiskOK, UNCHANGED <<disk, mode>>
    PROVE  DiskOK'
BY DEF disk, DiskOK, RegisteredIsStored, ActiveAsset, Stored, MediaFor, NothingLeaked,
       ReferenceIsStored, RowsOK, EntriesOwned, RowsDeclared, RowsKnown, CompletedIsReferenced

\* While the application runs, only a completed import says something of the
\* tables.
LEMMA RunningDisk ==
    ASSUME DiskOK, mode = "running", UNCHANGED <<file, row, journal, refs, jobs, mode>>,
           \A i \in Imports : state'[i] = "completed" => state[i] = "completed"
    PROVE  DiskOK'
BY DEF DiskOK, RegisteredIsStored, ActiveAsset, Stored, MediaFor, NothingLeaked,
       ReferenceIsStored, RowsOK, EntriesOwned, RowsDeclared, RowsKnown, CompletedIsReferenced

\* A thread that does not hold the mutex is not disturbed by what the others
\* do under it.
LEMMA WithoutTheMutex ==
    ASSUME NEW u \in Threads, ThreadOK(u), proc'[u] = proc[u], lock # u, lock' # u
    PROVE  ThreadOK(u)'
BY DEF ThreadOK, HasAnImport, Promotes, Removes, StoresCard, Holding

\* A thread that holds it is not disturbed by steps that change no table the
\* mutex protects.
LEMMA WithTheMutex ==
    ASSUME NEW u \in Threads, ThreadOK(u), proc'[u] = proc[u],
           lock' = u <=> lock = u, UNCHANGED <<file, row, journal, refs, jobs>>
    PROVE  ThreadOK(u)'
BY DEF ThreadOK, HasAnImport, Promotes, Removes, StoresCard, SharedBy, Unneeded

-----------------------------------------------------------------------------
(* Steps that change no table.                                             *)

\* A thread moves to a place where it does not need the mutex.
Rests(t) == \E p \in Procs :
    /\ Become(t, p)
    /\ p.pc \notin Holding
    /\ p.pc # "idle" => p.import \in Imports /\ p.staged \subseteq ObjectsOf(p.import)

\* A thread that comes to rest no longer needs the mutex.
LEMMA RestsFacts ==
    ASSUME Typed, NEW t \in Threads, Rests(t), lock' # t
    PROVE  /\ proc' \in [Threads -> Procs]
           /\ ThreadOK(t)'
           /\ \A u \in Threads \ {t} : proc'[u] = proc[u]
<1>1. PICK p \in Procs : /\ Become(t, p)
                         /\ p.pc \notin Holding
                         /\ p.pc # "idle" => p.import \in Imports /\ p.staged \subseteq ObjectsOf(p.import)
  BY DEF Rests
<1>2. /\ proc' \in [Threads -> Procs]
      /\ proc'[t] = p
      /\ \A u \in Threads \ {t} : proc'[u] = proc[u]
  BY <1>1, BecomeFacts
<1>3. ThreadOK(t)'
  BY <1>1, <1>2 DEF ThreadOK, HasAnImport, Promotes, Removes, StoresCard, Holding, ObjectsOf
<1> QED BY <1>2, <1>3

\* The steps by which a thread comes to rest.
LEMMA WaysToRest ==
    ASSUME Typed, NEW t \in Threads, HasAnImport(t)
    PROVE  /\ Become(t, Idle) => Rests(t)
           /\ proc[t].pc \notin {"idle", "card_store"} =>
                /\ ToDiscard(t) => Rests(t)
                /\ PromoteFails(t) => Rests(t)
                /\ ToVerify(t) => Rests(t)
<1>1. proc[t] \in Procs
  BY DEF Typed, LocalsTyped
<1>2. ASSUME Become(t, Idle) PROVE Rests(t)
  <2>1. Idle.pc = "idle" /\ Idle.pc \notin Holding
    BY DEF Idle, Holding, Promoting, Removing
  <2> QED BY <1>2, <2>1, IdleTyped DEF Rests
<1>3. ASSUME proc[t].pc \notin {"idle", "card_store"}, ToDiscard(t) PROVE Rests(t)
  <2> DEFINE p == [proc[t] EXCEPT !.pc = "discard"]
  <2>1. p \in Procs /\ p.pc = "discard" /\ p.import = proc[t].import /\ p.staged = proc[t].staged
    BY <1>1 DEF Procs, Pcs
  <2>2. p.import \in Imports /\ p.staged \subseteq ObjectsOf(p.import)
    BY <2>1, <1>3 DEF HasAnImport
  <2>3. p.pc \notin Holding
    BY <2>1 DEF Holding, Promoting, Removing
  <2>4. Become(t, p)
    BY <1>3 DEF ToDiscard
  <2> HIDE DEF p
  <2> QED BY <2>1, <2>2, <2>3, <2>4 DEF Rests
<1>4. ASSUME proc[t].pc \notin {"idle", "card_store"}, PromoteFails(t) PROVE Rests(t)
  BY <1>2, <1>3, <1>4 DEF PromoteFails
<1>5. ASSUME proc[t].pc \notin {"idle", "card_store"}, ToVerify(t) PROVE Rests(t)
  <2>1. PICK S : S = {SourceOf[proc[t].import]}
                       \cup IF Inspecting(t) THEN {} ELSE AssetsOf[proc[t].import]
    OBVIOUS
  <2> DEFINE p == [proc[t] EXCEPT !.pc = "verify", !.todo = S]
  <2>2. Become(t, p)
    BY <1>5, <2>1 DEF ToVerify
  <2>3. proc[t].import \in Imports /\ proc[t].staged \subseteq ObjectsOf(proc[t].import)
    BY <1>5 DEF HasAnImport
  <2>4. S \subseteq Objects
    BY <2>1, <2>3, PackageCasAssumption DEF Objects
  <2>5. p \in Procs /\ p.pc = "verify" /\ p.import = proc[t].import /\ p.staged = proc[t].staged
    BY <1>1, <2>4 DEF Procs, Pcs
  <2>6. p.pc \notin Holding
    BY <2>5 DEF Holding, Promoting, Removing
  <2> HIDE DEF p
  <2> QED BY <2>2, <2>3, <2>5, <2>6 DEF Rests
<1> QED BY <1>2, <1>3, <1>4, <1>5

\* The tables stay; one thread moves on, and takes, keeps or gives up the mutex.
LEMMA LocalStep ==
    ASSUME IndInv, NEW t \in Threads, mode = "running",
           UNCHANGED <<disk, mode, rec, crashes>>,
           faults' \in 0 .. MaxFaults,
           lock' \in Threads \cup {None},
           \A u \in Threads \ {t} : lock' = u <=> lock = u,
           proc' \in [Threads -> Procs],
           \A u \in Threads \ {t} : proc'[u] = proc[u],
           ThreadOK(t)'
    PROVE  IndInv'
<1>1. Typed'
  <2>1. \A u \in Threads : proc'[u] \in Procs
    OBVIOUS
  <2>2. \A u \in Threads : /\ proc'[u].import \in Imports \cup {None}
                           /\ proc'[u].staged \subseteq Objects
                           /\ proc'[u].todo \subseteq Objects
    BY <2>1 DEF Procs
  <2>3. TypeOK'
    BY <2>2 DEF IndInv, Typed, TypeOK, disk
  <2> QED BY <2>3 DEF IndInv, Typed, LocalsTyped
<1>2. DiskOK'
  BY SameDisk DEF IndInv
<1>3. ThreadsOK'
  <2>1. ASSUME NEW u \in Threads, u # t PROVE ThreadOK(u)'
    BY <2>1, WithTheMutex DEF IndInv, ThreadsOK, disk
  <2> QED BY <2>1 DEF ThreadsOK
<1> QED BY <1>1, <1>2, <1>3, WhileRunning

\* A thread that comes to rest and writes nothing to the disk.
LEMMA RestStep ==
    ASSUME IndInv, NEW t \in Threads, mode = "running",
           UNCHANGED <<disk, mode, rec, crashes>>,
           faults' \in 0 .. MaxFaults,
           lock' \in Threads \cup {None}, lock' # t,
           \A u \in Threads \ {t} : lock' = u <=> lock = u,
           Rests(t)
    PROVE  IndInv'
<1>1. /\ proc' \in [Threads -> Procs]
      /\ ThreadOK(t)'
      /\ \A u \in Threads \ {t} : proc'[u] = proc[u]
  BY RestsFacts DEF IndInv
<1> QED BY <1>1, LocalStep

\* A thread holds the mutex exactly at the places where it needs it.
LEMMA WhoHolds ==
    ASSUME IndInv, NEW t \in Threads
    PROVE  /\ proc[t] \in Procs
           /\ HasAnImport(t)
           /\ (proc[t].pc \in Holding) <=> (lock = t)
           /\ lock = None => lock # t
           /\ lock = t => \A u \in Threads \ {t} : lock # u /\ None # u
           /\ t # None
           /\ lock \in Threads \cup {None}
           /\ faults \in 0 .. MaxFaults
           /\ Fault => faults' \in 0 .. MaxFaults
<1>1. /\ proc[t] \in Procs
      /\ lock \in Threads \cup {None}
      /\ faults \in 0 .. MaxFaults
  BY DEF IndInv, Typed, TypeOK, LocalsTyped
<1>2. Fault => faults' \in 0 .. MaxFaults
  BY <1>1, PackageCasAssumption DEF Fault
<1>3. t # None /\ \A u \in Threads : u # None
  BY PackageCasAssumption
<1> QED BY <1>1, <1>2, <1>3 DEF IndInv, ThreadsOK, ThreadOK

\* An inspection begins.
LEMMA InspectStep ==
    ASSUME IndInv, NEW t \in Threads, NEW i \in Imports, Inspect(t, i)
    PROVE  IndInv'
<1> DEFINE p == [Idle EXCEPT !.pc = "ensure", !.import = i, !.staged = {SourceOf[i]}]
<1>1. p.pc = "ensure" /\ p.import = i /\ p.staged = {SourceOf[i]}
  BY DEF Idle
<1>2. SourceOf[i] \in Objects
  BY PackageCasAssumption DEF Objects
<1>3. p \in Procs
  BY <1>2, IdleTyped DEF Procs, Pcs
<1>4. Become(t, p)
  BY DEF Inspect
<1>5. p.pc \notin Holding /\ p.staged \subseteq ObjectsOf(i)
  BY <1>1 DEF Holding, Promoting, Removing, ObjectsOf
<1> HIDE DEF p
<1>6. Rests(t)
  BY <1>1, <1>3, <1>4, <1>5 DEF Rests
<1>7. /\ mode = "running" /\ mode' = mode /\ rec' = rec /\ proc[t].pc = "idle"
      /\ UNCHANGED <<file, row, journal, refs, jobs, lock, faults, crashes>>
      /\ state' = [state EXCEPT ![i] = "inspecting"]
  BY DEF Inspect, At
<1>8. lock # t
  BY <1>7, WhoHolds DEF Holding, Promoting, Removing
<1>9. /\ proc' \in [Threads -> Procs]
      /\ ThreadOK(t)'
      /\ \A u \in Threads \ {t} : proc'[u] = proc[u]
  BY <1>6, <1>7, <1>8, RestsFacts DEF IndInv
<1>10. state' \in [Imports -> States]
  BY <1>7 DEF IndInv, Typed, TypeOK, States
<1>11. Typed'
  <2>1. \A u \in Threads : proc'[u] \in Procs
    BY <1>9
  <2>2. \A u \in Threads : /\ proc'[u].import \in Imports \cup {None}
                           /\ proc'[u].staged \subseteq Objects
                           /\ proc'[u].todo \subseteq Objects
    BY <2>1 DEF Procs
  <2> QED BY <2>2, <1>7, <1>9, <1>10 DEF IndInv, Typed, TypeOK, LocalsTyped
<1>12. \A j \in Imports : state'[j] = "completed" => state[j] = "completed"
  BY <1>7 DEF IndInv, Typed, TypeOK
<1>13. DiskOK'
  BY <1>7, <1>12, RunningDisk DEF IndInv
<1>14. ThreadsOK'
  BY <1>7, <1>9, WithTheMutex DEF IndInv, ThreadsOK
<1> QED BY <1>7, <1>11, <1>13, <1>14, WhileRunning

\* A commit loads its import.
LEMMA LoadStep ==
    ASSUME IndInv, NEW t \in Threads, NEW i \in Imports, Load(t, i)
    PROVE  IndInv'
<1>1. PICK S : S = IF state[i] = "completed" THEN {} ELSE AssetsOf[i]
  OBVIOUS
<1> DEFINE p == [Idle EXCEPT !.pc = "ensure", !.import = i, !.staged = S]
<1>2. p.pc = "ensure" /\ p.import = i /\ p.staged = S
  BY DEF Idle
<1>3. S \subseteq Objects /\ S \subseteq ObjectsOf(i)
  BY <1>1, PackageCasAssumption DEF Objects, ObjectsOf
<1>4. p \in Procs
  BY <1>3, IdleTyped DEF Procs, Pcs
<1>5. Become(t, p)
  BY <1>1 DEF Load
<1>6. p.pc \notin Holding
  BY <1>2 DEF Holding, Promoting, Removing
<1> HIDE DEF p
<1>7. Rests(t)
  BY <1>2, <1>3, <1>4, <1>5, <1>6 DEF Rests
<1>8. proc[t].pc \notin Holding /\ mode = "running" /\ UNCHANGED <<disk, lock, mode, rec, faults, crashes>>
  BY DEF Load, At, Holding, Promoting, Removing
<1>9. faults' \in 0 .. MaxFaults /\ lock' # t /\ lock' \in Threads \cup {None}
  BY <1>8, WhoHolds
<1> QED BY <1>7, <1>8, <1>9, RestStep

\* A staged object is verified under the mutex.
LEMMA VerifyStep ==
    ASSUME IndInv, NEW t \in Threads, NEW o \in Objects, Verify(t, o)
    PROVE  IndInv'
<1>1. /\ proc[t].pc = "verify" /\ mode = "running" /\ lock = None
      /\ UNCHANGED <<disk, lock, mode, rec, faults, crashes>>
  BY DEF Verify, At
<1>2. Rests(t)
  <2>1. CASE ToDiscard(t)
    BY <1>1, <2>1, WhoHolds, WaysToRest DEF IndInv
  <2>2. CASE ~ToDiscard(t)
    <3>1. PICK T, c : /\ T = proc[t].todo \ {o}
                      /\ c = IF T = {} THEN "commit" ELSE "verify"
      OBVIOUS
    <3> DEFINE p == [proc[t] EXCEPT !.todo = T, !.pc = c]
    <3>2. Become(t, p)
      BY <2>2, <3>1 DEF Verify
    <3>3. proc[t] \in Procs /\ proc[t].todo \subseteq Objects
      BY WhoHolds DEF Procs
    <3>4. c \in {"commit", "verify"} /\ T \subseteq Objects
      BY <3>1, <3>3
    <3>5. p \in Procs /\ p.pc = c /\ p.import = proc[t].import /\ p.staged = proc[t].staged
      BY <3>3, <3>4 DEF Procs, Pcs
    <3>6. proc[t].import \in Imports /\ proc[t].staged \subseteq ObjectsOf(proc[t].import)
      BY <1>1, WhoHolds DEF HasAnImport
    <3>7. p.pc \notin Holding
      BY <3>4, <3>5 DEF Holding, Promoting, Removing
    <3> HIDE DEF p
    <3> QED BY <3>2, <3>5, <3>6, <3>7 DEF Rests
  <2> QED BY <2>1, <2>2
<1>3. faults' \in 0 .. MaxFaults /\ lock' # t /\ lock' \in Threads \cup {None}
  BY <1>1, WhoHolds
<1> QED BY <1>1, <1>2, <1>3, RestStep

\* A verification or a commit fails before anything was written.
LEMMA GiveUpStep ==
    ASSUME IndInv, NEW t \in Threads, GiveUp(t)
    PROVE  IndInv'
<1>1. /\ proc[t].pc \in {"verify", "commit"} /\ mode = "running" /\ Fault /\ ToDiscard(t)
      /\ UNCHANGED <<disk, lock, mode, rec, crashes>>
  BY DEF GiveUp, At
<1>2. proc[t].pc \notin Holding /\ proc[t].pc \notin {"idle", "card_store"}
  BY <1>1 DEF Holding, Promoting, Removing
<1>3. Rests(t)
  BY <1>1, <1>2, WhoHolds, WaysToRest DEF IndInv
<1>4. faults' \in 0 .. MaxFaults /\ lock' # t /\ lock' \in Threads \cup {None}
  BY <1>1, <1>2, WhoHolds
<1> QED BY <1>1, <1>3, <1>4, RestStep

\* The mutex is taken to clean up what a failed command staged.
LEMMA DiscardStep ==
    ASSUME IndInv, NEW t \in Threads, Discard(t)
    PROVE  IndInv'
<1> DEFINE p == [proc[t] EXCEPT !.pc = "cleanup_tx", !.todo = proc[t].staged, !.inner = FALSE]
<1>1. /\ proc[t].pc = "discard" /\ mode = "running" /\ lock = None /\ lock' = t
      /\ Become(t, p) /\ UNCHANGED <<disk, mode, rec, faults, crashes>>
  BY DEF Discard, At
<1>2. proc[t] \in Procs /\ proc[t].staged \subseteq Objects
  BY WhoHolds DEF Procs
<1>3. p \in Procs /\ p.pc = "cleanup_tx" /\ p.import = proc[t].import /\ p.staged = proc[t].staged
  BY <1>2 DEF Procs, Pcs
<1> HIDE DEF p
<1>4. /\ proc' \in [Threads -> Procs]
      /\ proc'[t] = p
      /\ \A u \in Threads \ {t} : proc'[u] = proc[u]
  BY <1>1, <1>3, BecomeFacts DEF IndInv
<1>5. proc[t].import \in Imports /\ proc[t].staged \subseteq ObjectsOf(proc[t].import)
  BY <1>1, WhoHolds DEF HasAnImport
<1>6. ThreadOK(t)'
  BY <1>1, <1>3, <1>4, <1>5
     DEF ThreadOK, HasAnImport, Promotes, Removes, StoresCard, Holding, Promoting, Removing, ObjectsOf
<1>7. faults' \in 0 .. MaxFaults /\ \A u \in Threads \ {t} : lock' # u /\ lock # u
  BY <1>1, WhoHolds
<1> QED BY <1>1, <1>4, <1>6, <1>7, LocalStep

\* A cleanup gives the mutex up and returns.
LEMMA ReturnsStep ==
    ASSUME IndInv, NEW t \in Threads, mode = "running",
           proc[t].pc \in {"cleanup_tx", "cleanup_file", "cleanup_row"},
           CleanupReturns(t), faults' \in 0 .. MaxFaults,
           UNCHANGED <<disk, mode, rec, crashes>>
    PROVE  IndInv'
<1>1. lock = t /\ proc[t].pc \notin {"idle", "card_store"}
  BY WhoHolds DEF Holding, Promoting, Removing
<1>2. Rests(t) /\ lock' = None
  BY <1>1, WhoHolds, WaysToRest DEF IndInv, CleanupReturns
<1>3. lock' # t /\ \A u \in Threads \ {t} : lock' # u /\ lock # u
  BY <1>1, <1>2, WhoHolds
<1> QED BY <1>2, <1>3, RestStep

\* The cleanup finds nothing more to remove.
LEMMA CleanupEndsStep ==
    ASSUME IndInv, NEW t \in Threads, CleanupEnds(t) \/ CleanupFails(t)
    PROVE  IndInv'
<1>1. /\ mode = "running"
      /\ proc[t].pc \in {"cleanup_tx", "cleanup_file", "cleanup_row"}
      /\ CleanupReturns(t)
      /\ Fault \/ faults' = faults
      /\ UNCHANGED <<disk, mode, rec, crashes>>
  BY DEF CleanupEnds, CleanupFails, At
<1>2. faults' \in 0 .. MaxFaults
  BY <1>1, WhoHolds
<1> QED BY <1>1, <1>2, ReturnsStep

\* A card store fails.
LEMMA CardFailsStep ==
    ASSUME IndInv, NEW t \in Threads, CardFails(t)
    PROVE  IndInv'
<1>1. /\ proc[t].pc = "card_store" /\ mode = "running" /\ Fault /\ lock' = None
      /\ Become(t, Idle) /\ UNCHANGED <<disk, mode, rec, crashes>>
  BY DEF CardFails, At
<1>2. lock = t
  BY <1>1, WhoHolds DEF Holding
<1>3. /\ faults' \in 0 .. MaxFaults /\ lock' # t
      /\ \A u \in Threads \ {t} : lock' # u /\ lock # u
  BY <1>1, <1>2, WhoHolds
<1>4. Rests(t)
  BY <1>1, WhoHolds, WaysToRest DEF IndInv
<1> QED BY <1>1, <1>3, <1>4, RestStep

\* select_package_import, approve_package_import and discard_package_import.
LEMMA UserStep ==
    ASSUME IndInv, NEW i \in Imports, Approve(i) \/ DiscardImport(i)
    PROVE  IndInv'
<1>1. PICK s \in {"approved", "discarded"} :
        /\ mode = "running" /\ mode' = mode
        /\ state' = [state EXCEPT ![i] = s]
        /\ UNCHANGED <<file, row, journal, refs, jobs, lock, proc, rec, faults, crashes>>
  BY DEF Approve, DiscardImport
<1>2. /\ state' \in [Imports -> States]
      /\ \A j \in Imports : state'[j] = "completed" => state[j] = "completed"
  BY <1>1 DEF IndInv, Typed, TypeOK, States
<1>3. Typed'
  BY <1>1, <1>2 DEF IndInv, Typed, TypeOK, LocalsTyped
<1>4. DiskOK'
  BY <1>1, <1>2, RunningDisk DEF IndInv
<1>5. ThreadsOK'
  BY <1>1, WithTheMutex DEF IndInv, ThreadsOK
<1> QED BY <1>1, <1>3, <1>4, <1>5, WhileRunning

-----------------------------------------------------------------------------
(* Promotion.                                                              *)

\* The types, from those of the variables.
LEMMA TypedNext ==
    ASSUME proc' \in [Threads -> Procs], rec' \in Recs,
           file' \in [Objects -> BOOLEAN],
           row' \in [Objects -> Media \cup {SourceRow, None}],
           journal' \in [Entries -> Phases \cup {None}],
           refs' \subseteq Objects,
           state' \in [Imports -> States],
           jobs' \in 0 .. MaxJobs,
           lock' \in Threads \cup {None},
           mode' \in {"running", "recovering", "failed", "refused"},
           faults' \in 0 .. MaxFaults,
           crashes' \in 0 .. MaxCrashes
    PROVE  Typed'
<1>1. \A u \in Threads : proc'[u] \in Procs
  OBVIOUS
<1>2. \A u \in Threads : /\ proc'[u].import \in Imports \cup {None}
                         /\ proc'[u].staged \subseteq Objects
                         /\ proc'[u].todo \subseteq Objects
  BY <1>1 DEF Procs
<1>3. TypeOK'
  BY <1>2 DEF TypeOK
<1> QED BY <1>3 DEF Typed, LocalsTyped

\* The step of a thread that takes, has or gives up the mutex.
LEMMA MutexStep ==
    ASSUME IndInv, NEW t \in Threads, mode = "running",
           UNCHANGED <<mode, rec, crashes>>,
           lock \in {t, None}, lock' \in {t, None},
           proc' \in [Threads -> Procs],
           \A u \in Threads \ {t} : proc'[u] = proc[u],
           faults' \in 0 .. MaxFaults,
           file' \in [Objects -> BOOLEAN],
           row' \in [Objects -> Media \cup {SourceRow, None}],
           journal' \in [Entries -> Phases \cup {None}],
           refs' \subseteq Objects,
           state' \in [Imports -> States],
           jobs' \in 0 .. MaxJobs,
           DiskOK', ThreadOK(t)'
    PROVE  IndInv'
<1>1. Typed'
  BY TypedNext DEF IndInv, Typed, TypeOK, LocalsTyped
<1>2. \A u \in Threads \ {t} : lock # u /\ lock' # u
  BY PackageCasAssumption
<1>3. ThreadsOK'
  BY <1>2, WithoutTheMutex DEF IndInv, ThreadsOK
<1> QED BY <1>1, <1>3, WhileRunning

\* Journal rows appear or move on; none is registered.
LEMMA JournalGrows ==
    ASSUME DiskOK, mode = "running", UNCHANGED <<file, row, refs, state, jobs, mode>>,
           \A i \in Imports, o \in Objects :
             /\ journal[<<i, o>>] # None => journal'[<<i, o>>] # None
             /\ journal'[<<i, o>>] = "row_registered" => journal[<<i, o>>] = "row_registered"
             /\ journal'[<<i, o>>] # None => o \in ObjectsOf(i)
    PROVE  DiskOK'
<1>1. RegisteredIsStored'
  BY RegisteredByPairs DEF DiskOK, RegisteredPairs, MediaFor
<1>2. NothingLeaked' /\ RowsKnown'
  BY DEF DiskOK, RowsOK, NothingLeaked, RowsKnown
<1>3. ReferenceIsStored' /\ EntriesOwned' /\ RowsDeclared' /\ CompletedIsReferenced'
  BY DEF DiskOK, RowsOK, ReferenceIsStored, EntriesOwned, RowsDeclared, CompletedIsReferenced
<1> QED BY <1>1, <1>2, <1>3 DEF DiskOK, RowsOK

\* A file of a known object appears.
LEMMA FileAppears ==
    ASSUME DiskOK, UNCHANGED <<row, journal, refs, state, jobs, mode>>, NEW o \in Objects,
           refs \subseteq Objects,
           file \in [Objects -> BOOLEAN], file' \in {file, [file EXCEPT ![o] = TRUE]},
           \/ o \in refs
           \/ \E i \in Imports : journal[<<i, o>>] # None
           \/ jobs > 0 /\ o \in CardObjects
    PROVE  DiskOK' /\ file' \in [Objects -> BOOLEAN] /\ \A x \in Objects : file[x] => file'[x]
<1>1. file' \in [Objects -> BOOLEAN] /\ \A x \in Objects : (file[x] => file'[x]) /\ (file'[x] => file[x] \/ x = o)
  OBVIOUS
<1>2. RegisteredIsStored'
  BY <1>1, RegisteredByPairs DEF DiskOK, RegisteredPairs, MediaFor
<1>3. NothingLeaked'
  BY <1>1 DEF DiskOK, NothingLeaked
<1>4. ReferenceIsStored'
  BY <1>1 DEF DiskOK, ReferenceIsStored
<1>5. RowsOK'
  BY DEF DiskOK, RowsOK, EntriesOwned, RowsDeclared, RowsKnown, CompletedIsReferenced
<1> QED BY <1>1, <1>2, <1>3, <1>4, <1>5 DEF DiskOK

\* The intents of an import are journalled before its first file is stored.
LEMMA EnsureIntentsStep ==
    ASSUME IndInv, NEW t \in Threads, EnsureIntents(t)
    PROVE  IndInv'
<1> DEFINE i == proc[t].import
           S == proc[t].staged
           N == {o \in S : journal[<<i, o>>] = None}
           p == [proc[t] EXCEPT !.pc = "store", !.todo = S]
<1>1. /\ proc[t].pc = "ensure" /\ mode = "running" /\ lock = None
      /\ UNCHANGED <<file, row, refs, state, jobs, mode, rec, crashes>>
  BY DEF EnsureIntents, At
<1>2. /\ proc[t] \in Procs /\ i \in Imports /\ S \subseteq ObjectsOf(i) /\ S \subseteq Objects
      /\ lock # t /\ \A u \in Threads : lock # u
  BY <1>1, WhoHolds, PackageCasAssumption DEF HasAnImport, Procs
<1>3. CASE /\ Rests(t) /\ UNCHANGED <<lock, journal>> /\ (Fault \/ faults' = faults)
  <2>1. faults' \in 0 .. MaxFaults /\ UNCHANGED disk
    BY <1>1, <1>3, WhoHolds DEF disk
  <2> QED BY <1>1, <1>2, <1>3, <2>1, RestStep
<1>4. CASE /\ lock' = t /\ journal' = SetPhase(i, N, "intent")
           /\ Become(t, p) /\ faults' = faults
  <2>1. p \in Procs /\ p.pc = "store" /\ p.import = i /\ p.staged = S /\ p.todo = S
    BY <1>2 DEF Procs, Pcs
  <2> HIDE DEF p
  <2>2. /\ proc' \in [Threads -> Procs]
        /\ proc'[t] = p
        /\ \A u \in Threads \ {t} : proc'[u] = proc[u]
    BY <1>4, <2>1, BecomeFacts DEF IndInv
  <2>3. /\ journal' \in [Entries -> Phases \cup {None}]
        /\ \A j \in Imports, o \in Objects :
             journal'[<<j, o>>] = IF j = i /\ o \in N THEN "intent" ELSE journal[<<j, o>>]
    BY <1>2, <1>4, SetPhaseFacts DEF IndInv, Phases
  <2>4. \A o \in S : journal'[<<i, o>>] # None
    BY <1>2, <2>3 DEF None
  <2>5. DiskOK'
    <3>1. \A j \in Imports, o \in Objects :
             /\ journal[<<j, o>>] # None => journal'[<<j, o>>] # None
             /\ journal'[<<j, o>>] = "row_registered" => journal[<<j, o>>] = "row_registered"
             /\ journal'[<<j, o>>] # None => o \in ObjectsOf(j)
      BY <1>2, <2>3 DEF IndInv, DiskOK, RowsOK, EntriesOwned, None
    <3> QED BY <1>1, <3>1, JournalGrows DEF IndInv
  <2>6. ThreadOK(t)'
    BY <1>2, <1>4, <2>1, <2>2, <2>4
       DEF ThreadOK, HasAnImport, Promotes, Removes, StoresCard, Holding, Promoting, Removing, ObjectsOf
  <2>7. faults' \in 0 .. MaxFaults
    BY <1>4, WhoHolds
  <2> HIDE DEF i, S, N
  <2> QED BY <1>1, <1>4, <2>2, <2>3, <2>5, <2>6, <2>7, MutexStep DEF IndInv, Typed, TypeOK
<1>5. PromoteFails(t) => Rests(t)
  BY <1>1, WhoHolds, WaysToRest DEF IndInv
<1>6. ToVerify(t) => Rests(t)
  BY <1>1, WhoHolds, WaysToRest DEF IndInv
<1> QED BY <1>3, <1>4, <1>5, <1>6 DEF EnsureIntents

\* A failure while promoting: the thread keeps the mutex and cleans up.
LEMMA CleanupBegins ==
    ASSUME IndInv, NEW t \in Threads, proc[t].pc \in Promoting, ToCleanup(t), lock' = t
    PROVE  /\ proc' \in [Threads -> Procs]
           /\ ThreadOK(t)'
           /\ \A u \in Threads \ {t} : proc'[u] = proc[u]
<1> DEFINE p == [proc[t] EXCEPT !.pc = "cleanup_tx", !.todo = proc[t].staged, !.inner = TRUE]
<1>1. proc[t] \in Procs /\ proc[t].staged \subseteq Objects
  BY WhoHolds DEF Procs
<1>2. p \in Procs /\ p.pc = "cleanup_tx" /\ p.import = proc[t].import /\ p.staged = proc[t].staged
  BY <1>1 DEF Procs, Pcs
<1>3. Become(t, p)
  BY DEF ToCleanup
<1> HIDE DEF p
<1>4. /\ proc' \in [Threads -> Procs]
      /\ proc'[t] = p
      /\ \A u \in Threads \ {t} : proc'[u] = proc[u]
  BY <1>2, <1>3, BecomeFacts DEF IndInv
<1>5. proc[t].import \in Imports /\ proc[t].staged \subseteq ObjectsOf(proc[t].import)
  BY WhoHolds DEF HasAnImport, Promoting
<1>6. ThreadOK(t)'
  BY <1>2, <1>4, <1>5
     DEF ThreadOK, HasAnImport, Promotes, Removes, StoresCard, Holding, Promoting, Removing, ObjectsOf
<1> QED BY <1>4, <1>6

\* What holds for a thread that is promoting.
LEMMA WhilePromoting ==
    ASSUME IndInv, NEW t \in Threads, proc[t].pc \in Promoting
    PROVE  /\ lock = t
           /\ proc[t].import \in Imports
           /\ proc[t].staged \subseteq ObjectsOf(proc[t].import)
           /\ proc[t].staged \subseteq Objects
           /\ proc[t].pc \notin {"idle", "card_store"}
           /\ proc[t].todo \subseteq proc[t].staged
           /\ proc[t].pc # "store" => proc[t].todo = {}
           /\ \A o \in proc[t].staged :
                /\ journal[<<proc[t].import, o>>] # None \/ o \in refs
                /\ o \notin proc[t].todo => file[o]
<1>1. lock = t /\ HasAnImport(t) /\ proc[t] \in Procs
  BY WhoHolds DEF Holding
<1>2. Promotes(t)
  BY DEF IndInv, ThreadsOK, ThreadOK
<1> QED BY <1>1, <1>2 DEF HasAnImport, Promotes, Procs, Promoting

\* A file is stored under its digest.
LEMMA StoreFileStep ==
    ASSUME IndInv, NEW t \in Threads, NEW o \in Objects, StoreFile(t, o)
    PROVE  IndInv'
<1>1. PICK T, c : /\ T = proc[t].todo \ {o}
                  /\ c = IF T = {} THEN "durable" ELSE "store"
  OBVIOUS
<1> DEFINE p == [proc[t] EXCEPT !.todo = T, !.pc = c]
<1>2. /\ proc[t].pc = "store" /\ mode = "running" /\ o \in proc[t].todo
      /\ file' = [file EXCEPT ![o] = TRUE] /\ Become(t, p)
      /\ UNCHANGED <<row, journal, refs, state, jobs, lock, mode, rec, faults, crashes>>
  BY <1>1 DEF StoreFile, At
<1>3. proc[t].pc \in Promoting
  BY <1>2 DEF Promoting
<1>4. proc[t] \in Procs /\ proc[t].todo \subseteq Objects
  BY WhoHolds DEF Procs
<1>5. c \in {"durable", "store"} /\ T \subseteq Objects
  BY <1>1, <1>4
<1>6. p \in Procs /\ p.pc = c /\ p.import = proc[t].import /\ p.staged = proc[t].staged /\ p.todo = T
  BY <1>4, <1>5 DEF Procs, Pcs
<1> HIDE DEF p
<1>7. /\ proc' \in [Threads -> Procs]
      /\ proc'[t] = p
      /\ \A u \in Threads \ {t} : proc'[u] = proc[u]
  BY <1>2, <1>6, BecomeFacts DEF IndInv
<1>8. /\ lock = t /\ proc[t].import \in Imports /\ proc[t].staged \subseteq ObjectsOf(proc[t].import)
      /\ proc[t].staged \subseteq Objects
      /\ proc[t].todo \subseteq proc[t].staged
      /\ \A x \in proc[t].staged :
           /\ journal[<<proc[t].import, x>>] # None \/ x \in refs
           /\ x \notin proc[t].todo => file[x]
  BY <1>3, WhilePromoting
<1>9. /\ file \in [Objects -> BOOLEAN] /\ refs \subseteq Objects
      /\ faults \in 0 .. MaxFaults
  BY DEF IndInv, Typed, TypeOK
<1>10. o \in refs \/ \E i \in Imports : journal[<<i, o>>] # None
  BY <1>2, <1>8
<1>11. DiskOK' /\ file' \in [Objects -> BOOLEAN] /\ \A x \in Objects : file[x] => file'[x]
  BY <1>2, <1>9, <1>10, FileAppears DEF IndInv
<1>12. \A x \in proc[t].staged : x \notin T => file'[x]
  BY <1>1, <1>2, <1>8, <1>9, <1>11
<1>13. Promotes(t)'
  BY <1>1, <1>2, <1>6, <1>7, <1>8, <1>12 DEF Promotes
<1>14. ThreadOK(t)'
  BY <1>2, <1>5, <1>6, <1>7, <1>8, <1>13
     DEF ThreadOK, HasAnImport, Removes, StoresCard, Holding, Promoting, Removing, ObjectsOf
<1> QED BY <1>2, <1>7, <1>8, <1>9, <1>11, <1>14, MutexStep DEF IndInv, Typed, TypeOK

\* Storing a file fails.
LEMMA StoreFailsStep ==
    ASSUME IndInv, NEW t \in Threads, NEW o \in Objects, StoreFails(t, o)
    PROVE  IndInv'
<1>1. /\ proc[t].pc = "store" /\ mode = "running" /\ o \in proc[t].todo /\ Fault
      /\ UNCHANGED <<row, journal, refs, state, jobs, mode, rec, crashes>>
      /\ \/ file' \in {file, [file EXCEPT ![o] = TRUE]} /\ ToCleanup(t) /\ lock' = lock
         \/ lock' = None /\ PromoteFails(t) /\ file' = file
  BY DEF StoreFails, At
<1>2. proc[t].pc \in Promoting
  BY <1>1 DEF Promoting
<1>3. /\ lock = t /\ proc[t].import \in Imports
      /\ proc[t].pc \notin {"idle", "card_store"}
      /\ proc[t].todo \subseteq proc[t].staged
      /\ \A x \in proc[t].staged : journal[<<proc[t].import, x>>] # None \/ x \in refs
  BY <1>2, WhilePromoting
<1>4. /\ file \in [Objects -> BOOLEAN] /\ refs \subseteq Objects
  BY DEF IndInv, Typed, TypeOK
<1>5. faults' \in 0 .. MaxFaults
  BY <1>1, WhoHolds
<1>6. CASE file' \in {file, [file EXCEPT ![o] = TRUE]} /\ ToCleanup(t) /\ lock' = lock
  <2>1. o \in refs \/ \E i \in Imports : journal[<<i, o>>] # None
    BY <1>1, <1>3
  <2>2. DiskOK' /\ file' \in [Objects -> BOOLEAN]
    BY <1>1, <1>4, <1>6, <2>1, FileAppears DEF IndInv
  <2>3. /\ proc' \in [Threads -> Procs]
        /\ ThreadOK(t)'
        /\ \A u \in Threads \ {t} : proc'[u] = proc[u]
    BY <1>2, <1>3, <1>6, CleanupBegins
  <2> QED BY <1>1, <1>3, <1>5, <1>6, <2>2, <2>3, MutexStep DEF IndInv, Typed, TypeOK
<1>7. CASE lock' = None /\ PromoteFails(t) /\ file' = file
  <2>1. Rests(t) /\ UNCHANGED disk
    BY <1>1, <1>3, <1>7, WhoHolds, WaysToRest DEF IndInv, disk
  <2>2. lock' # t /\ \A u \in Threads \ {t} : lock' # u /\ lock # u
    BY <1>3, <1>7, WhoHolds
  <2> QED BY <1>1, <1>5, <1>7, <2>1, <2>2, RestStep
<1> QED BY <1>1, <1>6, <1>7

\* The journal records that the file of an entry is durable.
LEMMA MarkDurableStep ==
    ASSUME IndInv, NEW t \in Threads, MarkDurable(t)
    PROVE  IndInv'
<1> DEFINE i == proc[t].import
           S == {o \in proc[t].staged : journal[<<i, o>>] = "intent"}
           p == [proc[t] EXCEPT !.pc = "register"]
<1>1. /\ proc[t].pc = "durable" /\ mode = "running"
      /\ journal' = SetPhase(i, S, "file_durable") /\ Become(t, p)
      /\ UNCHANGED <<file, row, refs, state, jobs, lock, mode, rec, faults, crashes>>
  BY DEF MarkDurable, At
<1>2. proc[t].pc \in Promoting
  BY <1>1 DEF Promoting
<1>3. /\ lock = t /\ i \in Imports /\ proc[t].staged \subseteq ObjectsOf(i)
      /\ proc[t].staged \subseteq Objects
      /\ proc[t].todo = {}
      /\ \A x \in proc[t].staged : (journal[<<i, x>>] # None \/ x \in refs) /\ file[x]
  BY <1>1, <1>2, WhilePromoting
<1>4. proc[t] \in Procs
  BY WhoHolds
<1>5. p \in Procs /\ p.pc = "register" /\ p.import = i /\ p.staged = proc[t].staged /\ p.todo = {}
  BY <1>3, <1>4 DEF Procs, Pcs
<1> HIDE DEF p
<1>6. /\ proc' \in [Threads -> Procs]
      /\ proc'[t] = p
      /\ \A u \in Threads \ {t} : proc'[u] = proc[u]
  BY <1>1, <1>5, BecomeFacts DEF IndInv
<1>7. /\ journal' \in [Entries -> Phases \cup {None}]
      /\ \A j \in Imports, o \in Objects :
           journal'[<<j, o>>] = IF j = i /\ o \in S THEN "file_durable" ELSE journal[<<j, o>>]
  BY <1>1, <1>3, SetPhaseFacts DEF IndInv, Phases
<1>8. \A j \in Imports, o \in Objects :
           /\ journal[<<j, o>>] # None => journal'[<<j, o>>] # None
           /\ journal'[<<j, o>>] = "row_registered" => journal[<<j, o>>] = "row_registered"
           /\ journal'[<<j, o>>] # None => o \in ObjectsOf(j)
  BY <1>3, <1>7 DEF IndInv, DiskOK, RowsOK, EntriesOwned, None
<1>9. DiskOK'
  BY <1>1, <1>8, JournalGrows DEF IndInv
<1>10. Promotes(t)'
  BY <1>1, <1>3, <1>5, <1>6, <1>8 DEF Promotes
<1>11. ThreadOK(t)'
  BY <1>1, <1>3, <1>5, <1>6, <1>10
     DEF ThreadOK, HasAnImport, Removes, StoresCard, Holding, Promoting, Removing, ObjectsOf
<1> HIDE DEF i, S
<1> QED BY <1>1, <1>3, <1>6, <1>7, <1>9, <1>11, MutexStep DEF IndInv, Typed, TypeOK

\* The asset row of an entry is registered.
LEMMA RegisterStep ==
    ASSUME IndInv, NEW t \in Threads, Register(t)
    PROVE  IndInv'
<1> DEFINE i == proc[t].import
           S == proc[t].staged
           conflict == \E o \in S : row[o] \notin {None, MediaFor(i, o)}
<1>1. /\ proc[t].pc = "register" /\ mode = "running"
      /\ UNCHANGED <<file, refs, state, jobs, mode, rec, crashes>>
  BY DEF Register, At
<1>2. proc[t].pc \in Promoting
  BY <1>1 DEF Promoting
<1>3. /\ lock = t /\ i \in Imports /\ S \subseteq ObjectsOf(i) /\ S \subseteq Objects
      /\ proc[t].pc \notin {"idle", "card_store"}
      /\ \A x \in S : file[x]
  BY <1>1, <1>2, WhilePromoting
<1>4. CASE /\ ToCleanup(t) /\ UNCHANGED <<row, journal, lock>> /\ (Fault \/ faults' = faults)
  <2>1. /\ proc' \in [Threads -> Procs]
        /\ ThreadOK(t)'
        /\ \A u \in Threads \ {t} : proc'[u] = proc[u]
    BY <1>2, <1>3, <1>4, CleanupBegins
  <2>2. faults' \in 0 .. MaxFaults /\ lock' \in Threads \cup {None} /\ UNCHANGED disk
    BY <1>1, <1>4, WhoHolds DEF disk
  <2> QED BY <1>1, <1>4, <2>1, <2>2, LocalStep
<1>5. CASE /\ ~conflict
           /\ row' = [o \in Objects |-> IF o \in S THEN MediaFor(i, o) ELSE row[o]]
           /\ journal' = SetPhase(i, S, "row_registered")
           /\ lock' = None
           /\ ToVerify(t) \/ PromoteFails(t)
           /\ Fault \/ faults' = faults
  <2>1. Rests(t)
    BY <1>3, <1>5, WhoHolds, WaysToRest DEF IndInv
  <2>2. lock' # t
    BY <1>5, WhoHolds
  <2>3. /\ proc' \in [Threads -> Procs]
        /\ ThreadOK(t)'
        /\ \A u \in Threads \ {t} : proc'[u] = proc[u]
    BY <2>1, <2>2, RestsFacts DEF IndInv
  <2>4. faults' \in 0 .. MaxFaults
    BY <1>5, WhoHolds
  <2>5. /\ journal' \in [Entries -> Phases \cup {None}]
        /\ \A j \in Imports, o \in Objects :
             journal'[<<j, o>>] = IF j = i /\ o \in S THEN "row_registered" ELSE journal[<<j, o>>]
    BY <1>3, <1>5, SetPhaseFacts DEF IndInv, Phases
  <2>6. \A o \in S : /\ MediaFor(i, o) \in Media \cup {SourceRow}
                     /\ MediaFor(i, o) # None
                     /\ Declared(o, MediaFor(i, o))
    BY <1>3, MediaForFacts
  <2>7. row \in [Objects -> Media \cup {SourceRow, None}]
    BY DEF IndInv, Typed, TypeOK
  <2>8. /\ row' \in [Objects -> Media \cup {SourceRow, None}]
        /\ \A o \in Objects : row'[o] = IF o \in S THEN MediaFor(i, o) ELSE row[o]
    BY <1>5, <2>6, <2>7
  <2>9. \A o \in S : row[o] \in {None, MediaFor(i, o)}
    BY <1>5
  <2> HIDE DEF i, S, conflict
  <2>10. \A o \in Objects : row[o] # None => row'[o] = row[o]
    BY <2>8, <2>9
  <2>11. RegisteredIsStored'
    <3>1. SUFFICES ASSUME NEW j \in Imports, NEW o \in Objects,
                          journal'[<<j, o>>] = "row_registered"
                   PROVE  row'[o] = MediaFor(j, o) /\ file[o]
      BY <1>1, RegisteredByPairs DEF RegisteredPairs, MediaFor
    <3>2. CASE j = i /\ o \in S
      BY <1>3, <2>8, <3>2
    <3>3. CASE ~(j = i /\ o \in S)
      <4>1. journal[<<j, o>>] = "row_registered"
        BY <2>5, <3>1, <3>3
      <4>2. row[o] = MediaFor(j, o) /\ file[o]
        BY <1>1, <4>1, RegisteredByPairs DEF IndInv, DiskOK, RegisteredPairs
      <4>3. o \in ObjectsOf(j)
        BY <4>1 DEF IndInv, DiskOK, RowsOK, EntriesOwned, None
      <4>4. row[o] # None
        BY <4>2, <4>3, MediaForFacts
      <4> QED BY <2>10, <4>2, <4>4
    <3> QED BY <3>2, <3>3
  <2>12. \A o \in Objects : \/ o \in S /\ journal'[<<i, o>>] # None
                            \/ /\ row'[o] = row[o]
                               /\ \A j \in Imports : journal'[<<j, o>>] = journal[<<j, o>>]
    BY <1>3, <2>5, <2>8 DEF None
  <2>13. NothingLeaked' /\ RowsKnown'
    BY <1>1, <1>3, <2>12 DEF IndInv, DiskOK, RowsOK, NothingLeaked, RowsKnown
  <2>14. ReferenceIsStored'
    <3>1. refs \subseteq Objects
      BY DEF IndInv, Typed, TypeOK
    <3> QED BY <1>1, <2>10, <3>1 DEF IndInv, DiskOK, ReferenceIsStored
  <2>15. EntriesOwned'
    BY <1>3, <2>5 DEF IndInv, DiskOK, RowsOK, EntriesOwned, ObjectsOf
  <2>16. RowsDeclared'
    BY <2>6, <2>8 DEF IndInv, DiskOK, RowsOK, RowsDeclared
  <2>17. CompletedIsReferenced'
    BY <1>1 DEF IndInv, DiskOK, RowsOK, CompletedIsReferenced
  <2>18. DiskOK'
    BY <2>11, <2>13, <2>14, <2>15, <2>16, <2>17 DEF DiskOK, RowsOK
  <2> QED BY <1>1, <1>3, <1>5, <2>3, <2>4, <2>5, <2>8, <2>18, MutexStep DEF IndInv, Typed, TypeOK
<1> QED BY <1>4, <1>5 DEF Register

-----------------------------------------------------------------------------
(* Claims: the transactions that make a promoted object a product's.  They *)
(* do not take the mutex, so another thread may be promoting or removing.  *)

\* Objects become references of a product, and their journal rows are dropped.
LEMMA ClaimStep ==
    ASSUME IndInv, NEW t \in Threads, mode = "running", proc[t].pc = "commit",
           NEW i \in Imports, NEW S \in SUBSET Objects,
           \A o \in S : o \in refs \/ journal[<<i, o>>] = "row_registered",
           journal' = SetPhase(i, S, None), refs' = refs \cup S,
           state' \in [Imports -> States],
           \A j \in Imports : state'[j] = "completed" => AssetsOf[j] \subseteq refs',
           Become(t, Idle),
           UNCHANGED <<file, row, jobs, lock, mode, rec, faults, crashes>>
    PROVE  IndInv'
<1>1. lock # t
  BY WhoHolds DEF Holding, Promoting, Removing
<1>2. Rests(t)
  BY WhoHolds, WaysToRest DEF IndInv
<1>3. /\ proc' \in [Threads -> Procs]
      /\ ThreadOK(t)'
      /\ \A u \in Threads \ {t} : proc'[u] = proc[u]
  BY <1>1, <1>2, RestsFacts DEF IndInv
<1>4. /\ journal' \in [Entries -> Phases \cup {None}]
      /\ \A j \in Imports, o \in Objects :
           journal'[<<j, o>>] = IF j = i /\ o \in S THEN None ELSE journal[<<j, o>>]
  BY SetPhaseFacts DEF IndInv
<1>5. refs \subseteq Objects /\ refs' \subseteq Objects
  BY DEF IndInv, Typed, TypeOK
<1>6. Typed'
  BY <1>3, <1>4, <1>5, TypedNext DEF IndInv, Typed, TypeOK, LocalsTyped
<1>7. RegisteredIsStored'
  <2>1. SUFFICES ASSUME NEW j \in Imports, NEW o \in Objects,
                        journal'[<<j, o>>] = "row_registered"
                 PROVE  row[o] = MediaFor(j, o) /\ file[o]
    BY RegisteredByPairs DEF RegisteredPairs, MediaFor
  <2>2. journal[<<j, o>>] = "row_registered"
    BY <1>4, <2>1 DEF None
  <2> QED BY <2>2, RegisteredByPairs DEF IndInv, DiskOK, RegisteredPairs
<1>8. ReferenceIsStored'
  <2>1. ASSUME NEW o \in S, journal[<<i, o>>] = "row_registered"
        PROVE  row[o] # None /\ file[o]
    <3>1. row[o] = MediaFor(i, o) /\ file[o]
      BY <2>1, RegisteredByPairs DEF IndInv, DiskOK, RegisteredPairs
    <3>2. o \in ObjectsOf(i)
      BY <2>1 DEF IndInv, DiskOK, RowsOK, EntriesOwned, None
    <3> QED BY <3>1, <3>2, MediaForFacts
  <2> QED BY <2>1 DEF IndInv, DiskOK, ReferenceIsStored
<1>9. \A o \in Objects : \/ o \in refs'
                         \/ \A j \in Imports : journal'[<<j, o>>] = journal[<<j, o>>]
  BY <1>4
<1>10. NothingLeaked' /\ RowsKnown'
  BY <1>9 DEF IndInv, DiskOK, RowsOK, NothingLeaked, RowsKnown
<1>11. EntriesOwned' /\ RowsDeclared' /\ CompletedIsReferenced'
  BY <1>4 DEF IndInv, DiskOK, RowsOK, EntriesOwned, RowsDeclared, CompletedIsReferenced
<1>12. ASSUME NEW u \in Threads, u # t PROVE ThreadOK(u)'
  <2>1. proc'[u] = proc[u] /\ ThreadOK(u)
    BY <1>3, <1>12 DEF IndInv, ThreadsOK
  <2>2. CASE lock # u
    BY <2>1, <2>2, WithoutTheMutex
  <2>3. CASE proc[u].pc \in Promoting
    <3>1. /\ proc[u].import \in Imports /\ proc[u].staged \subseteq Objects
          /\ \A o \in proc[u].staged : journal[<<proc[u].import, o>>] # None \/ o \in refs
      BY <2>3, WhilePromoting
    <3>2. \A o \in proc[u].staged : journal'[<<proc[u].import, o>>] # None \/ o \in refs'
      BY <1>9, <3>1
    <3> QED BY <2>1, <2>3, <3>2
            DEF ThreadOK, HasAnImport, Promotes, Removes, StoresCard, Promoting, Removing, ObjectsOf
  <2>4. CASE proc[u].pc \in Removing
    <3> DEFINE k == proc[u].import
               x == proc[u].cur
    <3>1. k \in Imports /\ x \in Objects
      BY <2>1, <2>4 DEF ThreadOK, HasAnImport, Removes, Removing
    <3>2. /\ journal[<<k, x>>] = "cleanup_pending"
          /\ \A j \in Imports \ {k} : journal[<<j, x>>] = None
          /\ x \notin refs
      BY <2>1, <2>4 DEF ThreadOK, Removes, SharedBy, Unneeded
    <3>3. x \notin S
      BY <3>1, <3>2 DEF None
    <3>4. x \notin refs' /\ \A j \in Imports : journal'[<<j, x>>] = journal[<<j, x>>]
      BY <1>4, <3>1, <3>2, <3>3
    <3>5. Removes(u)'
      BY <2>1, <2>4, <3>1, <3>4 DEF ThreadOK, Removes, SharedBy, Unneeded
    <3> QED BY <2>1, <2>4, <3>5
            DEF ThreadOK, HasAnImport, Promotes, StoresCard, Promoting, Removing, ObjectsOf
  <2>5. CASE proc[u].pc \notin Promoting /\ proc[u].pc \notin Removing
    BY <2>1, <2>5 DEF ThreadOK, HasAnImport, Promotes, Removes, StoresCard, ObjectsOf
  <2> QED BY <2>2, <2>3, <2>4, <2>5
<1>13. ThreadsOK'
  BY <1>3, <1>12 DEF ThreadsOK
<1>14. DiskOK'
  BY <1>7, <1>8, <1>10, <1>11 DEF DiskOK, RowsOK
<1> QED BY <1>6, <1>13, <1>14, WhileRunning

\* The transaction rolls back, and what was staged is discarded.
LEMMA ClaimFails ==
    ASSUME IndInv, NEW t \in Threads, mode = "running", proc[t].pc = "commit",
           ToDiscard(t), UNCHANGED <<disk, lock, mode, rec, faults, crashes>>
    PROVE  IndInv'
<1>1. lock # t
  BY WhoHolds DEF Holding, Promoting, Removing
<1>2. Rests(t)
  BY WhoHolds, WaysToRest DEF IndInv
<1>3. lock' \in Threads \cup {None} /\ faults' \in 0 .. MaxFaults
  BY WhoHolds
<1> QED BY <1>1, <1>2, <1>3, RestStep

\* An inspected import is recorded with its source.
LEMMA CreateInspectedStep ==
    ASSUME IndInv, NEW t \in Threads, CreateInspected(t)
    PROVE  IndInv'
<1> DEFINE i == proc[t].import
           S == {SourceOf[i]}
           ok == ForeignKeysHold(S) /\ Claimable(i, S, TRUE)
<1>1. /\ mode = "running" /\ proc[t].pc = "commit"
      /\ UNCHANGED <<file, row, jobs, lock, mode, rec, faults, crashes>>
      /\ IF ok THEN /\ refs' = refs \cup S
                    /\ state' = [state EXCEPT ![i] = "inspected"]
                    /\ journal' = SetPhase(i, S, None)
                    /\ Become(t, Idle)
               ELSE ToDiscard(t) /\ UNCHANGED <<refs, state, journal>>
  BY DEF CreateInspected, At
<1>2. CASE ~ok
  <2>1. ToDiscard(t) /\ UNCHANGED <<disk, lock, mode, rec, faults, crashes>>
    BY <1>1, <1>2 DEF disk
  <2> QED BY <1>1, <2>1, ClaimFails
<1>3. CASE ok
  <2>1. i \in Imports
    BY <1>1, WhoHolds DEF HasAnImport
  <2>2. S \in SUBSET Objects
    BY <2>1, PackageCasAssumption DEF Objects
  <2>3. \A o \in S : journal[<<i, o>>] = "row_registered"
    BY <1>3 DEF Claimable
  <2>4. state \in [Imports -> States]
    BY DEF IndInv, Typed, TypeOK
  <2>5. state' \in [Imports -> States]
    BY <1>1, <1>3, <2>4 DEF States
  <2>6. \A j \in Imports : state'[j] = "completed" => AssetsOf[j] \subseteq refs'
    BY <1>1, <1>3, <2>1, <2>4 DEF IndInv, DiskOK, RowsOK, CompletedIsReferenced
  <2> HIDE DEF i, S, ok
  <2> QED BY <1>1, <1>3, <2>1, <2>2, <2>3, <2>5, <2>6, ClaimStep
<1> QED BY <1>2, <1>3

\* The commit of an import: its references, and its journal rows dropped.
LEMMA CommitImportStep ==
    ASSUME IndInv, NEW t \in Threads, CommitImport(t)
    PROVE  IndInv'
<1> DEFINE i == proc[t].import
           S == AssetsOf[i]
           replay == state[i] = "completed" /\ Claimable(i, S, FALSE)
           commit == state[i] = "approved" /\ ForeignKeysHold(S) /\ Claimable(i, S, TRUE)
<1>1. /\ mode = "running" /\ proc[t].pc = "commit"
      /\ UNCHANGED <<file, row, jobs, lock, mode, rec, faults, crashes>>
      /\ \/ /\ commit
            /\ refs' = refs \cup S
            /\ state' = [state EXCEPT ![i] = "completed"]
            /\ journal' = SetPhase(i, S, None)
            /\ Become(t, Idle)
         \/ /\ replay
            /\ journal' = SetPhase(i, S, None)
            /\ Become(t, Idle)
            /\ UNCHANGED <<refs, state>>
         \/ /\ ~commit /\ ~replay
            /\ ToDiscard(t)
            /\ UNCHANGED <<refs, state, journal>>
  BY DEF CommitImport, At
<1>2. i \in Imports
  BY <1>1, WhoHolds DEF HasAnImport
<1>3. S \in SUBSET Objects
  BY <1>2, PackageCasAssumption DEF Objects
<1>4. state \in [Imports -> States]
  BY DEF IndInv, Typed, TypeOK
<1>5. \A j \in Imports : state[j] = "completed" => AssetsOf[j] \subseteq refs
  BY DEF IndInv, DiskOK, RowsOK, CompletedIsReferenced
<1>6. CASE ToDiscard(t) /\ UNCHANGED <<refs, state, journal>>
  <2>1. UNCHANGED <<disk, lock, mode, rec, faults, crashes>>
    BY <1>1, <1>6 DEF disk
  <2> QED BY <1>1, <1>6, <2>1, ClaimFails
<1>7. CASE commit /\ refs' = refs \cup S /\ state' = [state EXCEPT ![i] = "completed"]
           /\ journal' = SetPhase(i, S, None) /\ Become(t, Idle)
  <2>1. \A o \in S : journal[<<i, o>>] = "row_registered"
    BY <1>7 DEF Claimable
  <2>2. state' \in [Imports -> States]
    BY <1>4, <1>7 DEF States
  <2>3. \A j \in Imports : state'[j] = "completed" => AssetsOf[j] \subseteq refs'
    BY <1>2, <1>4, <1>5, <1>7
  <2> HIDE DEF i, S, replay, commit
  <2> QED BY <1>1, <1>2, <1>3, <1>7, <2>1, <2>2, <2>3, ClaimStep
<1>8. CASE replay /\ journal' = SetPhase(i, S, None) /\ Become(t, Idle) /\ UNCHANGED <<refs, state>>
  <2>1. S \subseteq refs
    BY <1>2, <1>5, <1>8
  <2>2. refs' = refs \cup S /\ \A o \in S : o \in refs
    BY <1>8, <2>1
  <2> HIDE DEF i, S, replay, commit
  <2> QED BY <1>1, <1>2, <1>3, <1>4, <1>5, <1>8, <2>2, ClaimStep
<1> QED BY <1>1, <1>6, <1>7, <1>8

-----------------------------------------------------------------------------
(* Cleanup.                                                                *)

\* A file goes that no product and no registered promotion needs.
LEMMA FileGoes ==
    ASSUME DiskOK, UNCHANGED <<row, journal, refs, state, jobs, mode>>, NEW o \in Objects,
           file \in [Objects -> BOOLEAN], file' = FilesWithout(o), refs \subseteq Objects,
           o \notin refs,
           \A i \in Imports : journal[<<i, o>>] = "row_registered" =>
                                mode # "running" /\ ~ActiveAsset(<<i, o>>)
    PROVE  /\ DiskOK'
           /\ file' \in [Objects -> BOOLEAN]
           /\ file'[o] => o \in Pinned
           /\ \A x \in Objects : file'[x] => file[x]
<1>1. /\ file' \in [Objects -> BOOLEAN]
      /\ file'[o] => o \in Pinned
      /\ \A x \in Objects : (file'[x] => file[x]) /\ (x # o => file'[x] = file[x])
  BY DEF FilesWithout
<1>2. RegisteredIsStored'
  <2>1. SUFFICES ASSUME NEW i \in Imports, NEW x \in Objects,
                        journal[<<i, x>>] = "row_registered",
                        mode = "running" \/ (x \in Assets /\ state[i] \in Active)
                 PROVE  row[x] = MediaFor(i, x) /\ file'[x]
    BY RegisteredByPairs DEF RegisteredPairs, MediaFor
  <2>2. row[x] = MediaFor(i, x) /\ file[x]
    BY <2>1, RegisteredByPairs DEF DiskOK, RegisteredPairs
  <2>3. x # o
    BY <2>1, PairIsEntry DEF ActiveAsset
  <2> QED BY <1>1, <2>2, <2>3
<1>3. NothingLeaked'
  BY <1>1 DEF DiskOK, NothingLeaked
<1>4. ReferenceIsStored'
  BY <1>1 DEF DiskOK, ReferenceIsStored
<1>5. RowsOK'
  BY DEF DiskOK, RowsOK, EntriesOwned, RowsDeclared, RowsKnown, CompletedIsReferenced
<1> QED BY <1>1, <1>2, <1>3, <1>4, <1>5 DEF DiskOK

\* A row goes whose object neither a product nor a registered promotion needs,
\* and the journal remembers it.
LEMMA RowGoes ==
    ASSUME DiskOK, UNCHANGED <<file, refs, state, jobs, mode>>,
           row \in [Objects -> Media \cup {SourceRow, None}], refs \subseteq Objects,
           NEW i \in Imports, NEW o \in Objects,
           journal[<<i, o>>] # None, o \notin refs,
           \A j \in Imports \ {i} : journal[<<j, o>>] = "row_registered" =>
                                      mode # "running" /\ ~ActiveAsset(<<j, o>>),
           row' = RowsWithout(i, o),
           \A j \in Imports, x \in Objects :
             journal'[<<j, x>>] = IF j = i /\ x = o THEN "cleanup_pending" ELSE journal[<<j, x>>]
    PROVE  /\ DiskOK'
           /\ row' \in [Objects -> Media \cup {SourceRow, None}]
           /\ row'[o] = None \/ Contested(o)
           /\ \A x \in Objects \ {o} : row'[x] = row[x]
<1>1. /\ row' \in [Objects -> Media \cup {SourceRow, None}]
      /\ \A x \in Objects : row'[x] \in {row[x], None} /\ (x # o => row'[x] = row[x])
      /\ row[o] = MediaFor(i, o) => row'[o] = None
  BY DEF RowsWithout
<1>2. row'[o] = None \/ Contested(o)
  <2>1. SUFFICES ASSUME row'[o] # None PROVE Contested(o)
    OBVIOUS
  <2>2. row[o] # None /\ row[o] # MediaFor(i, o)
    BY <1>1, <2>1
  <2>3. Declared(o, row[o])
    BY <2>2 DEF DiskOK, RowsOK, RowsDeclared
  <2>4. o \in ObjectsOf(i)
    BY DEF DiskOK, RowsOK, EntriesOwned
  <2>5. Declared(o, MediaFor(i, o))
    BY <2>4, MediaForFacts
  <2> QED BY <2>2, <2>3, <2>5, TwoDeclarations
<1>3. RegisteredIsStored'
  <2>1. SUFFICES ASSUME NEW j \in Imports, NEW x \in Objects,
                        journal'[<<j, x>>] = "row_registered",
                        mode = "running" \/ (x \in Assets /\ state[j] \in Active)
                 PROVE  row'[x] = MediaFor(j, x) /\ file[x]
    BY RegisteredByPairs DEF RegisteredPairs, MediaFor
  <2>2. journal[<<j, x>>] = "row_registered" /\ ~(j = i /\ x = o)
    BY <2>1
  <2>3. row[x] = MediaFor(j, x) /\ file[x]
    BY <2>1, <2>2, RegisteredByPairs DEF DiskOK, RegisteredPairs
  <2>4. x # o
    BY <2>1, <2>2, PairIsEntry DEF ActiveAsset
  <2> QED BY <1>1, <2>3, <2>4
<1>4. /\ journal'[<<i, o>>] # None
      /\ \A j \in Imports, x \in Objects : x # o => journal'[<<j, x>>] = journal[<<j, x>>]
  BY DEF None
<1>5. NothingLeaked' /\ RowsKnown'
  <2>1. ASSUME NEW x \in Objects, x # o
        PROVE  /\ row'[x] = row[x] /\ file'[x] = file[x]
               /\ (\E j \in Imports : journal'[<<j, x>>] # None)
                    <=> (\E j \in Imports : journal[<<j, x>>] # None)
    BY <1>1, <1>4, <2>1
  <2>2. \E j \in Imports : journal'[<<j, o>>] # None
    BY <1>4
  <2> QED BY <2>1, <2>2 DEF DiskOK, RowsOK, NothingLeaked, RowsKnown
<1>6. ReferenceIsStored'
  BY <1>1 DEF DiskOK, ReferenceIsStored
<1>7. EntriesOwned'
  BY DEF DiskOK, RowsOK, EntriesOwned, ObjectsOf
<1>8. RowsDeclared'
  BY <1>1 DEF DiskOK, RowsOK, RowsDeclared
<1>9. CompletedIsReferenced'
  BY DEF DiskOK, RowsOK, CompletedIsReferenced
<1> QED BY <1>1, <1>2, <1>3, <1>5, <1>6, <1>7, <1>8, <1>9 DEF DiskOK, RowsOK

\* A journal row goes: its object is a product's, is another import's, or is
\* no longer in the store.
LEMMA EntryGoes ==
    ASSUME DiskOK, UNCHANGED <<file, row, refs, state, jobs, mode>>,
           NEW i \in Imports, NEW o \in Objects,
           \A j \in Imports, x \in Objects :
             journal'[<<j, x>>] = IF j = i /\ x = o THEN None ELSE journal[<<j, x>>],
           \/ journal[<<i, o>>] = None
           \/ o \in refs
           \/ \E j \in Imports \ {i} : journal[<<j, o>>] # None
           \/ (row[o] = None \/ Contested(o)) /\ (file[o] => o \in Pinned)
    PROVE  DiskOK'
<1>1. RegisteredIsStored'
  <2>1. SUFFICES ASSUME NEW j \in Imports, NEW x \in Objects,
                        journal'[<<j, x>>] = "row_registered",
                        mode = "running" \/ (x \in Assets /\ state[j] \in Active)
                 PROVE  row[x] = MediaFor(j, x) /\ file[x]
    BY RegisteredByPairs DEF RegisteredPairs, MediaFor
  <2>2. journal[<<j, x>>] = "row_registered"
    BY <2>1 DEF None
  <2> QED BY <2>1, <2>2, RegisteredByPairs DEF DiskOK, RegisteredPairs
<1>2. \A j \in Imports, x \in Objects :
         /\ x # o => journal'[<<j, x>>] = journal[<<j, x>>]
         /\ j # i => journal'[<<j, x>>] = journal[<<j, x>>]
         /\ journal'[<<j, x>>] # None => journal[<<j, x>>] # None
  OBVIOUS
<1>3. NothingLeaked' /\ RowsKnown'
  <2>1. ASSUME NEW x \in Objects, x # o
        PROVE  (\E j \in Imports : journal'[<<j, x>>] # None)
                 <=> (\E j \in Imports : journal[<<j, x>>] # None)
    BY <1>2, <2>1
  <2>2. \/ o \in refs
        \/ \E j \in Imports : journal'[<<j, o>>] # None
        \/ ~\E j \in Imports : journal[<<j, o>>] # None
        \/ (row[o] = None \/ Contested(o)) /\ (file[o] => o \in Pinned)
    BY <1>2
  <2> QED BY <2>1, <2>2 DEF DiskOK, RowsOK, NothingLeaked, RowsKnown
<1>4. EntriesOwned'
  BY <1>2 DEF DiskOK, RowsOK, EntriesOwned, ObjectsOf
<1>5. ReferenceIsStored' /\ RowsDeclared' /\ CompletedIsReferenced'
  BY DEF DiskOK, RowsOK, ReferenceIsStored, RowsDeclared, CompletedIsReferenced
<1> QED BY <1>1, <1>3, <1>4, <1>5 DEF DiskOK, RowsOK

\* The cleanup decides, in one transaction, whether an object goes.
LEMMA PrepareCleanupStep ==
    ASSUME IndInv, NEW t \in Threads, NEW o \in Objects, PrepareCleanup(t, o)
    PROVE  IndInv'
<1> DEFINE i == proc[t].import
           T == proc[t].todo \ {o}
           p == [proc[t] EXCEPT !.todo = T]
           q == [proc[t] EXCEPT !.todo = T, !.cur = o, !.pc = "cleanup_file"]
           keep == Referenced(o) \/ SharedBy(i, o)
<1>1. /\ mode = "running" /\ proc[t].pc = "cleanup_tx"
      /\ UNCHANGED <<file, refs, state, jobs, lock, mode, rec, faults, crashes>>
      /\ \/ /\ journal[<<i, o>>] = None \/ keep
            /\ journal' = SetPhase(i, {o}, None)
            /\ Become(t, p)
            /\ row' = row
         \/ /\ journal[<<i, o>>] # None /\ ~keep
            /\ journal' = SetPhase(i, {o}, "cleanup_pending")
            /\ row' = RowsWithout(i, o)
            /\ Become(t, q)
  BY DEF PrepareCleanup, At
<1>2. proc[t] \in Procs /\ lock = t
  BY <1>1, WhoHolds DEF Holding
<1>3. i \in Imports /\ proc[t].staged \subseteq ObjectsOf(i)
  BY <1>1, WhoHolds DEF HasAnImport
<1>4. T \subseteq Objects
  BY <1>2 DEF Procs
<1>5. /\ row \in [Objects -> Media \cup {SourceRow, None}] /\ refs \subseteq Objects
      /\ faults \in 0 .. MaxFaults
  BY DEF IndInv, Typed, TypeOK
<1>6. CASE /\ journal[<<i, o>>] = None \/ keep
           /\ journal' = SetPhase(i, {o}, None)
           /\ Become(t, p)
           /\ row' = row
  <2>1. p \in Procs /\ p.pc = "cleanup_tx" /\ p.import = i /\ p.staged = proc[t].staged
    BY <1>1, <1>2, <1>4 DEF Procs
  <2> HIDE DEF p
  <2>2. /\ proc' \in [Threads -> Procs]
        /\ proc'[t] = p
        /\ \A u \in Threads \ {t} : proc'[u] = proc[u]
    BY <1>6, <2>1, BecomeFacts DEF IndInv
  <2>3. ThreadOK(t)'
    BY <1>1, <1>2, <1>3, <2>1, <2>2
       DEF ThreadOK, HasAnImport, Promotes, Removes, StoresCard, Holding, Promoting, Removing, ObjectsOf
  <2>4. /\ journal' \in [Entries -> Phases \cup {None}]
        /\ \A j \in Imports, x \in Objects :
             journal'[<<j, x>>] = IF j = i /\ x = o THEN None ELSE journal[<<j, x>>]
    BY <1>3, <1>6, SetPhaseFacts DEF IndInv
  <2>5. \/ journal[<<i, o>>] = None
        \/ o \in refs
        \/ \E j \in Imports \ {i} : journal[<<j, o>>] # None
    BY <1>6 DEF Referenced, SharedBy
  <2> HIDE DEF i, T, keep
  <2>6. DiskOK'
    BY <1>1, <1>3, <1>6, <2>4, <2>5, EntryGoes DEF IndInv
  <2> QED BY <1>1, <1>2, <1>5, <1>6, <2>2, <2>3, <2>4, <2>6, MutexStep DEF IndInv, Typed, TypeOK
<1>7. CASE /\ journal[<<i, o>>] # None /\ ~keep
           /\ journal' = SetPhase(i, {o}, "cleanup_pending")
           /\ row' = RowsWithout(i, o)
           /\ Become(t, q)
  <2>1. q \in Procs /\ q.pc = "cleanup_file" /\ q.import = i /\ q.staged = proc[t].staged /\ q.cur = o
    BY <1>1, <1>2, <1>4 DEF Procs, Pcs
  <2> HIDE DEF q
  <2>2. /\ proc' \in [Threads -> Procs]
        /\ proc'[t] = q
        /\ \A u \in Threads \ {t} : proc'[u] = proc[u]
    BY <1>7, <2>1, BecomeFacts DEF IndInv
  <2>3. /\ journal' \in [Entries -> Phases \cup {None}]
        /\ \A j \in Imports, x \in Objects :
             journal'[<<j, x>>] = IF j = i /\ x = o THEN "cleanup_pending" ELSE journal[<<j, x>>]
    BY <1>3, <1>7, SetPhaseFacts DEF IndInv, Phases
  <2>4. o \notin refs /\ \A j \in Imports \ {i} : journal[<<j, o>>] = None
    BY <1>7 DEF Referenced, SharedBy
  <2> HIDE DEF i, T, keep
  <2>5. /\ DiskOK'
        /\ row' \in [Objects -> Media \cup {SourceRow, None}]
        /\ row'[o] = None \/ Contested(o)
    <3>1. \A j \in Imports \ {i} : journal[<<j, o>>] = "row_registered" =>
                                      mode # "running" /\ ~ActiveAsset(<<j, o>>)
      BY <2>4 DEF None
    <3>2. DiskOK /\ UNCHANGED <<file, refs, state, jobs, mode>>
          /\ journal[<<i, o>>] # None /\ row' = RowsWithout(i, o)
      BY <1>1, <1>7 DEF IndInv
    <3> QED BY <1>3, <1>5, <2>3, <2>4, <3>1, <3>2, RowGoes
  <2>6. Removes(t)'
    BY <1>1, <1>3, <2>1, <2>2, <2>3, <2>4, <2>5 DEF Removes, SharedBy, Unneeded
  <2>7. ThreadOK(t)'
    BY <1>1, <1>2, <1>3, <2>1, <2>2, <2>6
       DEF ThreadOK, HasAnImport, Promotes, StoresCard, Holding, Promoting, Removing, ObjectsOf
  <2> QED BY <1>1, <1>2, <1>5, <2>2, <2>3, <2>5, <2>7, MutexStep DEF IndInv, Typed, TypeOK
<1> QED BY <1>1, <1>6, <1>7

\* What holds for a thread between the transaction and the end of a removal.
LEMMA WhileRemoving ==
    ASSUME IndInv, NEW t \in Threads, proc[t].pc \in Removing
    PROVE  /\ lock = t
           /\ proc[t].import \in Imports
           /\ proc[t].staged \subseteq ObjectsOf(proc[t].import)
           /\ proc[t].cur \in Objects
           /\ journal[<<proc[t].import, proc[t].cur>>] = "cleanup_pending"
           /\ \A j \in Imports \ {proc[t].import} : journal[<<j, proc[t].cur>>] = None
           /\ proc[t].cur \notin refs
           /\ row[proc[t].cur] = None \/ Contested(proc[t].cur)
           /\ proc[t].pc = "cleanup_row" /\ file[proc[t].cur] => proc[t].cur \in Pinned
<1>1. lock = t /\ HasAnImport(t)
  BY WhoHolds DEF Holding
<1>2. Removes(t)
  BY DEF IndInv, ThreadsOK, ThreadOK
<1>3. proc[t].import \in Imports /\ proc[t].staged \subseteq ObjectsOf(proc[t].import)
  BY <1>1 DEF HasAnImport, Removing
<1> QED BY <1>1, <1>2, <1>3 DEF Removes, SharedBy, Unneeded

\* The cleanup removes the file of an object whose row it dropped.
LEMMA CleanupFileStep ==
    ASSUME IndInv, NEW t \in Threads, CleanupFile(t)
    PROVE  IndInv'
<1> DEFINE i == proc[t].import
           x == proc[t].cur
           p == [proc[t] EXCEPT !.pc = "cleanup_row"]
<1>1. /\ mode = "running" /\ proc[t].pc = "cleanup_file" /\ file' = FilesWithout(x) /\ Become(t, p)
      /\ UNCHANGED <<row, journal, refs, state, jobs, lock, mode, rec, faults, crashes>>
  BY DEF CleanupFile, At
<1>2. /\ lock = t /\ i \in Imports /\ proc[t].staged \subseteq ObjectsOf(i)
      /\ x \in Objects /\ x \notin refs
      /\ journal[<<i, x>>] = "cleanup_pending"
      /\ \A j \in Imports \ {i} : journal[<<j, x>>] = None
  BY <1>1, WhileRemoving DEF Removing
<1>3. proc[t] \in Procs
  BY WhoHolds
<1>4. p \in Procs /\ p.pc = "cleanup_row" /\ p.import = i /\ p.staged = proc[t].staged /\ p.cur = x
  BY <1>3 DEF Procs, Pcs
<1> HIDE DEF p
<1>5. /\ proc' \in [Threads -> Procs]
      /\ proc'[t] = p
      /\ \A u \in Threads \ {t} : proc'[u] = proc[u]
  BY <1>1, <1>4, BecomeFacts DEF IndInv
<1>6. file \in [Objects -> BOOLEAN] /\ refs \subseteq Objects /\ faults \in 0 .. MaxFaults
  BY DEF IndInv, Typed, TypeOK
<1>7. Removes(t) /\ HasAnImport(t)
  BY DEF IndInv, ThreadsOK, ThreadOK
<1>8. \A j \in Imports : journal[<<j, x>>] # "row_registered"
  BY <1>2 DEF None
<1>9. DiskOK' /\ file' \in [Objects -> BOOLEAN] /\ (file'[x] => x \in Pinned)
  <2> HIDE DEF x
  <2> QED BY <1>1, <1>2, <1>6, <1>8, FileGoes DEF IndInv
<1>10. Removes(t)'
  BY <1>1, <1>4, <1>5, <1>7, <1>9 DEF Removes, SharedBy, Unneeded, Removing
<1>11. ThreadOK(t)'
  BY <1>1, <1>2, <1>4, <1>5, <1>10
     DEF ThreadOK, HasAnImport, Promotes, StoresCard, Holding, Promoting, Removing, ObjectsOf
<1> HIDE DEF i, x
<1> QED BY <1>1, <1>2, <1>5, <1>6, <1>9, <1>11, MutexStep DEF IndInv, Typed, TypeOK

\* The cleanup drops the journal row of a removed file.
LEMMA CleanupRowStep ==
    ASSUME IndInv, NEW t \in Threads, CleanupRow(t)
    PROVE  IndInv'
<1> DEFINE i == proc[t].import
           x == proc[t].cur
           p == [proc[t] EXCEPT !.pc = "cleanup_tx", !.cur = None]
<1>1. /\ mode = "running" /\ proc[t].pc = "cleanup_row" /\ Become(t, p)
      /\ journal' = IF journal[<<i, x>>] = "cleanup_pending"
                    THEN [journal EXCEPT ![<<i, x>>] = None] ELSE journal
      /\ UNCHANGED <<file, row, refs, state, jobs, lock, mode, rec, faults, crashes>>
  BY DEF CleanupRow, At
<1>2. /\ lock = t /\ i \in Imports /\ proc[t].staged \subseteq ObjectsOf(i)
      /\ x \in Objects
      /\ journal[<<i, x>>] = "cleanup_pending"
      /\ row[x] = None \/ Contested(x)
      /\ file[x] => x \in Pinned
  BY <1>1, WhileRemoving DEF Removing
<1>3. proc[t] \in Procs
  BY WhoHolds
<1>4. p \in Procs /\ p.pc = "cleanup_tx" /\ p.import = i /\ p.staged = proc[t].staged
  BY <1>3 DEF Procs, Pcs
<1> HIDE DEF p
<1>5. /\ proc' \in [Threads -> Procs]
      /\ proc'[t] = p
      /\ \A u \in Threads \ {t} : proc'[u] = proc[u]
  BY <1>1, <1>4, BecomeFacts DEF IndInv
<1>6. faults \in 0 .. MaxFaults /\ journal \in [Entries -> Phases \cup {None}]
  BY DEF IndInv, Typed, TypeOK
<1>7. /\ journal' \in [Entries -> Phases \cup {None}]
      /\ \A j \in Imports, y \in Objects :
           journal'[<<j, y>>] = IF j = i /\ y = x THEN None ELSE journal[<<j, y>>]
  <2> HIDE DEF i, x
  <2>1. journal' = [journal EXCEPT ![<<i, x>>] = None]
    BY <1>1, <1>2
  <2> QED BY <2>1, <1>2, <1>6, PairIsEntry
<1>8. DiskOK'
  <2> HIDE DEF i, x
  <2> QED BY <1>1, <1>2, <1>7, EntryGoes DEF IndInv
<1>9. ThreadOK(t)'
  BY <1>1, <1>2, <1>4, <1>5
     DEF ThreadOK, HasAnImport, Promotes, Removes, StoresCard, Holding, Promoting, Removing, ObjectsOf
<1> HIDE DEF i, x
<1> QED BY <1>1, <1>2, <1>5, <1>6, <1>7, <1>8, <1>9, MutexStep DEF IndInv, Typed, TypeOK

-----------------------------------------------------------------------------
(* Character imports.                                                      *)

\* A card store takes the mutex.
LEMMA CardBeginStep ==
    ASSUME IndInv, NEW t \in Threads, CardBegin(t)
    PROVE  IndInv'
<1> DEFINE p == [Idle EXCEPT !.pc = "card_store", !.todo = CardObjects]
<1>1. /\ mode = "running" /\ proc[t].pc = "idle" /\ lock = None /\ lock' = t
      /\ jobs < MaxJobs /\ jobs' = jobs + 1 /\ Become(t, p)
      /\ UNCHANGED <<file, row, journal, refs, state, mode, rec, faults, crashes>>
  BY DEF CardBegin, At
<1>2. p \in Procs /\ p.pc = "card_store" /\ p.todo = CardObjects
  BY IdleTyped, PackageCasAssumption DEF Idle, Procs, Pcs
<1> HIDE DEF p
<1>3. /\ proc' \in [Threads -> Procs]
      /\ proc'[t] = p
      /\ \A u \in Threads \ {t} : proc'[u] = proc[u]
  BY <1>1, <1>2, BecomeFacts DEF IndInv
<1>4. jobs \in 0 .. MaxJobs /\ faults \in 0 .. MaxFaults
  BY DEF IndInv, Typed, TypeOK
<1>5. jobs' \in 0 .. MaxJobs /\ jobs' > 0
  BY <1>1, <1>4, PackageCasAssumption
<1>6. DiskOK'
  <2>1. RegisteredIsStored' /\ ReferenceIsStored' /\ RowsOK'
    BY <1>1 DEF IndInv, DiskOK, RegisteredIsStored, ActiveAsset, Stored, MediaFor, ReferenceIsStored,
                RowsOK, EntriesOwned, RowsDeclared, RowsKnown, CompletedIsReferenced
  <2>2. NothingLeaked'
    BY <1>1, <1>5 DEF IndInv, DiskOK, NothingLeaked
  <2> QED BY <2>1, <2>2 DEF DiskOK
<1>7. ThreadOK(t)'
  BY <1>1, <1>2, <1>3, <1>5
     DEF ThreadOK, HasAnImport, Promotes, Removes, StoresCard, Holding, Promoting, Removing
<1> QED BY <1>1, <1>3, <1>4, <1>5, <1>6, <1>7, MutexStep DEF IndInv, Typed, TypeOK

\* What holds while a card is stored.
LEMMA WhileStoringCard ==
    ASSUME IndInv, NEW t \in Threads, proc[t].pc = "card_store"
    PROVE  /\ lock = t /\ jobs > 0
           /\ \A o \in CardObjects : o \notin proc[t].todo => file[o]
<1>1. lock = t
  BY WhoHolds DEF Holding
<1>2. StoresCard(t)
  BY DEF IndInv, ThreadsOK, ThreadOK
<1> QED BY <1>1, <1>2 DEF StoresCard

\* A card store writes its file.
LEMMA CardStoreStep ==
    ASSUME IndInv, NEW t \in Threads, NEW o \in CardObjects, CardStore(t, o)
    PROVE  IndInv'
<1> DEFINE T == proc[t].todo \ {o}
           p == [proc[t] EXCEPT !.todo = T]
<1>1. /\ mode = "running" /\ proc[t].pc = "card_store" /\ o \in proc[t].todo
      /\ file' = [file EXCEPT ![o] = TRUE] /\ Become(t, p)
      /\ UNCHANGED <<row, journal, refs, state, jobs, lock, mode, rec, faults, crashes>>
  BY DEF CardStore, At
<1>2. /\ lock = t /\ jobs > 0
      /\ \A x \in CardObjects : x \notin proc[t].todo => file[x]
  BY <1>1, WhileStoringCard
<1>3. proc[t] \in Procs /\ T \subseteq Objects
  BY WhoHolds DEF Procs
<1>4. p \in Procs /\ p.pc = "card_store" /\ p.todo = T
  BY <1>1, <1>3 DEF Procs
<1> HIDE DEF p
<1>5. /\ proc' \in [Threads -> Procs]
      /\ proc'[t] = p
      /\ \A u \in Threads \ {t} : proc'[u] = proc[u]
  BY <1>1, <1>4, BecomeFacts DEF IndInv
<1>6. /\ file \in [Objects -> BOOLEAN] /\ refs \subseteq Objects /\ faults \in 0 .. MaxFaults
      /\ o \in Objects /\ CardObjects \subseteq Objects
  BY PackageCasAssumption DEF IndInv, Typed, TypeOK
<1>7. DiskOK' /\ file' \in [Objects -> BOOLEAN] /\ \A x \in Objects : file[x] => file'[x]
  BY <1>1, <1>2, <1>6, FileAppears DEF IndInv
<1>8. \A x \in CardObjects : x \notin T => file'[x]
  BY <1>1, <1>2, <1>6, <1>7
<1>9. ThreadOK(t)'
  BY <1>1, <1>2, <1>4, <1>5, <1>8
     DEF ThreadOK, HasAnImport, Promotes, Removes, StoresCard, Holding, Promoting, Removing
<1> HIDE DEF T
<1> QED BY <1>1, <1>2, <1>5, <1>6, <1>7, <1>9, MutexStep DEF IndInv, Typed, TypeOK

\* A card store commits its row and its reference.
LEMMA CardCommitStep ==
    ASSUME IndInv, NEW t \in Threads, CardCommit(t)
    PROVE  IndInv'
<1>1. /\ mode = "running" /\ proc[t].pc = "card_store" /\ proc[t].todo = {}
      /\ row' = [o \in Objects |-> IF o \in CardObjects /\ row[o] = None THEN CardRow(o) ELSE row[o]]
      /\ refs' = refs \cup CardObjects /\ jobs' = jobs - 1 /\ lock' = None /\ Become(t, Idle)
      /\ UNCHANGED <<file, journal, state, mode, rec, faults, crashes>>
  BY DEF CardCommit, At
<1>2. /\ lock = t /\ jobs > 0
      /\ \A x \in CardObjects : file[x]
  BY <1>1, WhileStoringCard
<1>3. /\ refs \subseteq Objects /\ faults \in 0 .. MaxFaults /\ jobs \in 0 .. MaxJobs
      /\ row \in [Objects -> Media \cup {SourceRow, None}]
      /\ CardObjects \subseteq Objects
  BY PackageCasAssumption DEF IndInv, Typed, TypeOK
<1>4. jobs' \in 0 .. MaxJobs /\ refs' \subseteq Objects
  BY <1>1, <1>2, <1>3, PackageCasAssumption
<1>5. ASSUME NEW o \in CardObjects
      PROVE  /\ CardRow(o) \in Media \cup {SourceRow} /\ CardRow(o) # None
             /\ Declared(o, CardRow(o))
  <2>1. CASE o \in Sources
    BY <2>1 DEF CardRow, Declared, None, SourceRow
  <2>2. CASE o \notin Sources
    <3>1. CardRow(o) = CardMedia /\ o \in Assets
      BY <1>3, <2>2 DEF CardRow, Objects
    <3> QED BY <3>1, PackageCasAssumption DEF Declared
  <2> QED BY <2>1, <2>2
<1>6. /\ row' \in [Objects -> Media \cup {SourceRow, None}]
      /\ \A o \in Objects : /\ row[o] # None => row'[o] = row[o]
                            /\ o \in CardObjects => row'[o] # None
                            /\ o \notin CardObjects => row'[o] = row[o]
                            /\ row'[o] # row[o] => o \in CardObjects /\ row'[o] = CardRow(o)
  BY <1>1, <1>3, <1>5
<1>7. Rests(t) /\ lock' # t
  BY <1>1, WhoHolds, WaysToRest DEF IndInv
<1>8. /\ proc' \in [Threads -> Procs]
      /\ ThreadOK(t)'
      /\ \A u \in Threads \ {t} : proc'[u] = proc[u]
  BY <1>7, RestsFacts DEF IndInv
<1>9. RegisteredIsStored'
  <2>1. SUFFICES ASSUME NEW j \in Imports, NEW o \in Objects,
                        journal[<<j, o>>] = "row_registered"
                 PROVE  row'[o] = MediaFor(j, o) /\ file[o]
    BY <1>1, RegisteredByPairs DEF RegisteredPairs, MediaFor
  <2>2. row[o] = MediaFor(j, o) /\ file[o]
    BY <1>1, <2>1, RegisteredByPairs DEF IndInv, DiskOK, RegisteredPairs
  <2>3. o \in ObjectsOf(j)
    BY <2>1 DEF IndInv, DiskOK, RowsOK, EntriesOwned, None
  <2>4. row[o] # None
    BY <2>2, <2>3, MediaForFacts
  <2> QED BY <1>6, <2>2, <2>4
<1>10. ReferenceIsStored'
  BY <1>1, <1>2, <1>3, <1>6 DEF IndInv, DiskOK, ReferenceIsStored
<1>11. NothingLeaked' /\ RowsKnown'
  <2>1. ASSUME NEW o \in Objects, o \notin CardObjects
        PROVE  row'[o] = row[o] /\ file'[o] = file[o]
    BY <1>1, <1>6, <2>1
  <2> QED BY <1>1, <2>1 DEF IndInv, DiskOK, RowsOK, NothingLeaked, RowsKnown
<1>12. EntriesOwned' /\ CompletedIsReferenced'
  BY <1>1 DEF IndInv, DiskOK, RowsOK, EntriesOwned, CompletedIsReferenced
<1>13. RowsDeclared'
  BY <1>5, <1>6 DEF IndInv, DiskOK, RowsOK, RowsDeclared
<1>14. DiskOK'
  BY <1>9, <1>10, <1>11, <1>12, <1>13 DEF DiskOK, RowsOK
<1> QED BY <1>1, <1>2, <1>3, <1>4, <1>6, <1>8, <1>14, MutexStep DEF IndInv, Typed, TypeOK

\* A step of a thread of the running program.
LEMMA ThreadStepKeeps ==
    ASSUME IndInv, NEW t \in Threads, ThreadStep(t)
    PROVE  IndInv'
<1>1. CASE \E i \in Imports : Inspect(t, i) \/ Load(t, i)
  BY <1>1, InspectStep, LoadStep
<1>2. CASE EnsureIntents(t)
  BY <1>2, EnsureIntentsStep
<1>3. CASE \E o \in Objects : StoreFile(t, o) \/ StoreFails(t, o) \/ Verify(t, o)
  BY <1>3, StoreFileStep, StoreFailsStep, VerifyStep
<1>4. CASE MarkDurable(t) \/ Register(t) \/ GiveUp(t)
  BY <1>4, MarkDurableStep, RegisterStep, GiveUpStep
<1>5. CASE CreateInspected(t) \/ CommitImport(t) \/ Discard(t)
  BY <1>5, CreateInspectedStep, CommitImportStep, DiscardStep
<1>6. CASE \E o \in Objects : PrepareCleanup(t, o)
  BY <1>6, PrepareCleanupStep
<1>7. CASE CleanupFile(t) \/ CleanupRow(t) \/ CleanupEnds(t) \/ CleanupFails(t)
  BY <1>7, CleanupFileStep, CleanupRowStep, CleanupEndsStep
<1>8. CASE CardBegin(t) \/ (\E o \in CardObjects : CardStore(t, o)) \/ CardCommit(t) \/ CardFails(t)
  BY <1>8, CardBeginStep, CardStoreStep, CardCommitStep, CardFailsStep
<1> QED BY <1>1, <1>2, <1>3, <1>4, <1>5, <1>6, <1>7, <1>8 DEF ThreadStep

-----------------------------------------------------------------------------
(* Death and recovery.                                                     *)

\* Outside the running mode less is promised of registered promotions.
LEMMA NotRunningDisk ==
    ASSUME DiskOK, UNCHANGED disk, mode' # "running"
    PROVE  DiskOK'
<1>1. RegisteredIsStored'
  BY RegisteredByPairs DEF DiskOK, RegisteredPairs, MediaFor, disk
<1>2. NothingLeaked' /\ ReferenceIsStored' /\ RowsOK'
  BY DEF disk, DiskOK, NothingLeaked, ReferenceIsStored, RowsOK, EntriesOwned, RowsDeclared,
         RowsKnown, CompletedIsReferenced
<1> QED BY <1>1, <1>2 DEF DiskOK

\* When no thread is at work, nothing is asked of the threads.
LEMMA NobodyWorks ==
    ASSUME lock' = None, \A u \in Threads : proc'[u].pc = "idle"
    PROVE  ThreadsOK' /\ Quiet'
<1>1. \A u \in Threads : u # None
  BY PackageCasAssumption
<1> QED BY <1>1 DEF ThreadsOK, ThreadOK, HasAnImport, Promotes, Removes, StoresCard, Quiet,
                    Holding, Promoting, Removing

\* A step of recovery: no thread is at work.
LEMMA RecoveryPart ==
    ASSUME IndInv, mode = "recovering", UNCHANGED <<lock, proc>>,
           rec' \in Recs,
           file' \in [Objects -> BOOLEAN],
           row' \in [Objects -> Media \cup {SourceRow, None}],
           journal' \in [Entries -> Phases \cup {None}],
           UNCHANGED <<refs, state, crashes>>,
           jobs' \in 0 .. MaxJobs,
           mode' \in {"running", "recovering", "failed", "refused"},
           faults' \in 0 .. MaxFaults,
           DiskOK', RecoveryOK'
    PROVE  IndInv'
<1>1. Typed'
  BY TypedNext DEF IndInv, Typed, TypeOK, LocalsTyped
<1>2. ThreadsOK' /\ Quiet'
  BY NobodyWorks DEF IndInv, Quiet
<1> QED BY <1>1, <1>2 DEF IndInv

\* Recovery removes a file of an interrupted character import.
LEMMA RecoverJobFileStep ==
    ASSUME IndInv, NEW o \in CardObjects, RecoverJobFile(o)
    PROVE  IndInv'
<1> DEFINE T == rec.todo \ {o}
<1>1. /\ mode = "recovering" /\ rec.pc = "jobs" /\ o \in rec.todo
      /\ file' = IF row[o] = None THEN FilesWithout(o) ELSE file
      /\ rec' = [rec EXCEPT !.todo = T]
      /\ UNCHANGED <<row, journal, refs, state, jobs, lock, proc, mode, faults, crashes>>
  BY DEF RecoverJobFile, Recover
<1>2. /\ file \in [Objects -> BOOLEAN] /\ refs \subseteq Objects /\ o \in Objects /\ rec \in Recs
      /\ CardObjects \subseteq Objects
  BY PackageCasAssumption DEF IndInv, Typed, TypeOK, LocalsTyped
<1>3. rec' \in Recs /\ rec'.pc = "jobs" /\ rec'.todo = rec.todo \ {o}
  BY <1>1, <1>2 DEF Recs
<1>4. /\ DiskOK' /\ file' \in [Objects -> BOOLEAN]
      /\ row[o] # None \/ (file'[o] => o \in Pinned)
      /\ \A x \in Objects : file'[x] => file[x]
  <2>1. CASE row[o] # None
    <3>1. file' = file
      BY <1>1, <2>1
    <3> QED BY <1>1, <1>2, <2>1, <3>1, SameDisk DEF IndInv, disk
  <2>2. CASE row[o] = None
    <3>1. o \notin refs
      BY <2>2 DEF IndInv, DiskOK, ReferenceIsStored
    <3>2. ASSUME NEW i \in Imports, journal[<<i, o>>] = "row_registered"
          PROVE  mode # "running" /\ ~ActiveAsset(<<i, o>>)
      <4>1. o \in ObjectsOf(i)
        BY <1>2, <3>2 DEF IndInv, DiskOK, RowsOK, EntriesOwned, None
      <4>2. MediaFor(i, o) # None
        BY <4>1, MediaForFacts
      <4>3. ActiveAsset(<<i, o>>) => row[o] = MediaFor(i, o)
        BY <1>2, <3>2, PairIsEntry, RegisteredByPairs
           DEF IndInv, DiskOK, RegisteredPairs, ActiveAsset
      <4> QED BY <1>1, <2>2, <4>2, <4>3
    <3>3. file' = FilesWithout(o)
      BY <1>1, <2>2
    <3> QED BY <1>1, <1>2, <3>1, <3>2, <3>3, FileGoes DEF IndInv
  <2> QED BY <2>1, <2>2
<1>5. RecoveryOK'
  <2>1. RecoversJobs'
    BY <1>1, <1>2, <1>3, <1>4 DEF IndInv, RecoveryOK, RecoversJobs
  <2> QED BY <1>3, <2>1 DEF RecoveryOK, RecoversEntries, RecoversAbandoned
<1> QED BY <1>1, <1>3, <1>4, <1>5, RecoveryPart DEF IndInv, Typed, TypeOK

\* Recovery closes the interrupted character imports and reads the journal.
LEMMA RecoverJobsStep ==
    ASSUME IndInv, RecoverJobs
    PROVE  IndInv'
<1>1. /\ mode = "recovering" /\ rec.pc = "jobs" /\ rec.todo = {} /\ jobs' = 0
      /\ rec' = [pc |-> "entries", todo |-> {e \in Entries : journal[e] # None}, entry |-> None]
      /\ UNCHANGED <<file, row, journal, refs, state, lock, proc, mode, faults, crashes>>
  BY DEF RecoverJobs, Recover
<1>2. /\ rec' \in Recs /\ rec'.pc = "entries" /\ rec'.todo = {e \in Entries : journal[e] # None}
  BY <1>1 DEF Recs
<1>3. jobs' \in 0 .. MaxJobs /\ jobs \in Nat
  BY <1>1, PackageCasAssumption DEF IndInv, Typed, TypeOK
<1>4. \A o \in CardObjects : jobs > 0 => row[o] # None \/ (file[o] => o \in Pinned)
  BY <1>1, <1>3 DEF IndInv, RecoveryOK, RecoversJobs
<1>5. NothingLeaked'
  BY <1>1, <1>4 DEF IndInv, DiskOK, RowsOK, NothingLeaked, RowsKnown
<1>6. RegisteredIsStored' /\ ReferenceIsStored' /\ RowsOK'
  BY <1>1 DEF IndInv, DiskOK, RegisteredIsStored, ActiveAsset, Stored, MediaFor, ReferenceIsStored,
              RowsOK, EntriesOwned, RowsDeclared, RowsKnown, CompletedIsReferenced
<1>7. RecoveryOK'
  BY <1>1, <1>2 DEF RecoveryOK, RecoversJobs, RecoversEntries, RecoversAbandoned
<1>8. DiskOK'
  BY <1>5, <1>6 DEF DiskOK
<1> QED BY <1>1, <1>2, <1>3, <1>7, <1>8, RecoveryPart DEF IndInv, Typed, TypeOK

\* The journal with the phase of one entry changed.
Changed(i, o, p) == [journal EXCEPT ![<<i, o>>] = p]

\* The journal after the phase of one entry changed.
LEMMA ChangedFacts ==
    ASSUME Typed, NEW i \in Imports, NEW o \in Objects, NEW p \in Phases \cup {None}
    PROVE  /\ Changed(i, o, p) \in [Entries -> Phases \cup {None}]
           /\ Changed(i, o, p)[<<i, o>>] = p
           /\ \A f \in Entries \ {<<i, o>>} : Changed(i, o, p)[f] = journal[f]
           /\ \A j \in Imports, x \in Objects :
                Changed(i, o, p)[<<j, x>>] = IF j = i /\ x = o THEN p ELSE journal[<<j, x>>]
<1>1. <<i, o>> \in Entries
  BY PairIsEntry
<1>2. /\ Changed(i, o, p) \in [Entries -> Phases \cup {None}]
      /\ Changed(i, o, p)[<<i, o>>] = p
      /\ \A f \in Entries \ {<<i, o>>} : Changed(i, o, p)[f] = journal[f]
  BY <1>1 DEF Typed, TypeOK, Changed
<1>3. ASSUME NEW j \in Imports, NEW x \in Objects
      PROVE  Changed(i, o, p)[<<j, x>>] = IF j = i /\ x = o THEN p ELSE journal[<<j, x>>]
  BY <1>2, PairIsEntry
<1> QED BY <1>2, <1>3

\* What is known when the entries are recovered.
LEMMA WhileRecovering ==
    ASSUME IndInv, mode = "recovering", rec.pc # "jobs"
    PROVE  /\ rec \in Recs
           /\ jobs = 0
           /\ \A e \in Entries : e \in rec.todo => journal[e] # None
           /\ \A e \in Entries : journal[e] # None =>
                \/ e \in rec.todo
                \/ rec.pc \in {"file", "row"} /\ e = rec.entry
                \/ ActiveAsset(e) /\ e[2] \notin refs
BY DEF IndInv, Typed, LocalsTyped, RecoveryOK, RecoversEntries

\* Recovery verifies an object that a product or an active import needs.
LEMMA RecoverKeptStep ==
    ASSUME IndInv, NEW e \in Entries, RecoverKept(e)
    PROVE  IndInv'
<1>1. /\ mode = "recovering" /\ rec.pc = "entries" /\ e \in rec.todo /\ Kept(e)
      /\ UNCHANGED <<file, row, refs, state, jobs, lock, proc, faults, crashes>>
  BY DEF RecoverKept, Recover
<1>2. CASE mode' = "refused" /\ UNCHANGED <<rec, journal>>
  <2>1. DiskOK'
    BY <1>1, <1>2, NotRunningDisk DEF IndInv, disk
  <2>2. RecoveryOK'
    BY <1>2 DEF RecoveryOK, RecoversJobs, RecoversEntries, RecoversAbandoned
  <2> QED BY <1>1, <1>2, <2>1, <2>2, RecoveryPart DEF IndInv, Typed, TypeOK, LocalsTyped
<1>3. CASE /\ rec' = [rec EXCEPT !.todo = @ \ {e}]
           /\ journal' = IF ActiveAsset(e) /\ ~Referenced(e[2]) THEN journal
                         ELSE [journal EXCEPT ![e] = None]
           /\ mode' = mode
  <2>1. /\ rec \in Recs
        /\ jobs = 0
        /\ \A f \in Entries : f \in rec.todo => journal[f] # None
        /\ \A f \in Entries : journal[f] # None =>
             \/ f \in rec.todo
             \/ ActiveAsset(f) /\ f[2] \notin refs
    BY <1>1, WhileRecovering
  <2>2. rec' \in Recs /\ rec'.pc = "entries" /\ rec'.todo = rec.todo \ {e}
    BY <1>1, <1>3, <2>1 DEF Recs
  <2>3. PICK i \in Imports, o \in Objects : e = <<i, o>> /\ e[1] = i /\ e[2] = o
    BY EntryIsPair
  <2>4. CASE ActiveAsset(e) /\ ~Referenced(e[2])
    <3>1. journal' = journal
      BY <1>3, <2>4
    <3>2. DiskOK'
      BY <1>1, <1>3, <3>1, SameDisk DEF IndInv, disk
    <3>3. \A f \in Entries : ActiveAsset(f)' <=> ActiveAsset(f)
      BY <1>1, <3>1 DEF ActiveAsset
    <3>4. RecoversEntries'
      BY <1>1, <2>1, <2>2, <2>4, <3>1, <3>3 DEF RecoversEntries, Referenced
    <3>5. RecoveryOK'
      BY <2>2, <3>4 DEF RecoveryOK, RecoversJobs, RecoversAbandoned
    <3> QED BY <1>1, <1>3, <2>2, <3>1, <3>2, <3>5, RecoveryPart DEF IndInv, Typed, TypeOK
  <2>5. CASE ~(ActiveAsset(e) /\ ~Referenced(e[2]))
    <3>1. journal' = [journal EXCEPT ![e] = None]
      BY <1>3, <2>5
    <3>2. /\ journal' \in [Entries -> Phases \cup {None}]
          /\ journal'[e] = None
          /\ \A f \in Entries \ {e} : journal'[f] = journal[f]
          /\ \A j \in Imports, x \in Objects :
               journal'[<<j, x>>] = IF j = i /\ x = o THEN None ELSE journal[<<j, x>>]
      <4>1. None \in Phases \cup {None} /\ Typed
        BY DEF IndInv
      <4>2. journal' = Changed(i, o, None)
        BY <2>3, <3>1 DEF Changed
      <4> QED BY <2>3, <4>1, <4>2, ChangedFacts
    <3>3. o \in refs \/ \E j \in Imports \ {i} : journal[<<j, o>>] # None
      BY <1>1, <2>3, <2>5 DEF Kept, Referenced, AnotherActive, None
    <3>4. DiskOK'
      <4>1. DiskOK /\ UNCHANGED <<file, row, refs, state, jobs, mode>>
        BY <1>1, <1>3 DEF IndInv
      <4> QED BY <3>2, <3>3, <4>1, EntryGoes
    <3>5. \A f \in Entries \ {e} : ActiveAsset(f)' <=> ActiveAsset(f)
      BY <1>1, <3>2 DEF ActiveAsset
    <3>6. RecoversEntries'
      BY <1>1, <2>1, <2>2, <3>2, <3>5 DEF RecoversEntries
    <3>7. RecoveryOK'
      BY <2>2, <3>6 DEF RecoveryOK, RecoversJobs, RecoversAbandoned
    <3> QED BY <1>1, <1>3, <2>2, <3>2, <3>4, <3>7, RecoveryPart DEF IndInv, Typed, TypeOK
  <2> QED BY <2>4, <2>5
<1> QED BY <1>2, <1>3 DEF RecoverKept

\* Recovery marks an abandoned entry for cleanup and drops its metadata row.
LEMMA RecoverAbandonedStep ==
    ASSUME IndInv, NEW e \in Entries, RecoverAbandoned(e)
    PROVE  IndInv'
<1>1. /\ mode = "recovering" /\ rec.pc = "entries" /\ e \in rec.todo /\ ~Kept(e)
      /\ journal' = [journal EXCEPT ![e] = "cleanup_pending"]
      /\ row' = RowsWithout(e[1], e[2])
      /\ rec' = [pc |-> "file", todo |-> rec.todo \ {e}, entry |-> e]
      /\ UNCHANGED <<file, refs, state, jobs, lock, proc, mode, faults, crashes>>
  BY DEF RecoverAbandoned, Recover
<1>2. /\ rec \in Recs
      /\ jobs = 0
      /\ \A f \in Entries : f \in rec.todo => journal[f] # None
      /\ \A f \in Entries : journal[f] # None =>
           \/ f \in rec.todo
           \/ ActiveAsset(f) /\ f[2] \notin refs
  BY <1>1, WhileRecovering
<1>3. /\ rec' \in Recs /\ rec'.pc = "file" /\ rec'.todo = rec.todo \ {e} /\ rec'.entry = e
  BY <1>1, <1>2 DEF Recs
<1>4. PICK i \in Imports, o \in Objects : e = <<i, o>> /\ e[1] = i /\ e[2] = o
  BY EntryIsPair
<1>5. /\ journal' \in [Entries -> Phases \cup {None}]
      /\ journal'[e] = "cleanup_pending"
      /\ \A f \in Entries \ {e} : journal'[f] = journal[f]
      /\ \A j \in Imports, x \in Objects :
           journal'[<<j, x>>] = IF j = i /\ x = o THEN "cleanup_pending" ELSE journal[<<j, x>>]
  <2>1. "cleanup_pending" \in Phases \cup {None} /\ Typed
    BY DEF IndInv, Phases
  <2>2. journal' = Changed(i, o, "cleanup_pending")
    BY <1>1, <1>4 DEF Changed
  <2> QED BY <1>4, <2>1, <2>2, ChangedFacts
<1>6. o \notin refs /\ \A j \in Imports \ {i} :
         ~(journal[<<j, o>>] = "row_registered" /\ state[j] \in Active)
  BY <1>1, <1>4 DEF Kept, Referenced, AnotherActive
<1>7. \A j \in Imports \ {i} : ~ActiveAsset(<<j, o>>)
  BY <1>6, PairIsEntry DEF ActiveAsset
<1>8. journal[<<i, o>>] # None
  BY <1>1, <1>2, <1>4
<1>9. /\ DiskOK'
      /\ row' \in [Objects -> Media \cup {SourceRow, None}]
      /\ row'[o] = None \/ Contested(o)
  <2>1. DiskOK /\ row \in [Objects -> Media \cup {SourceRow, None}] /\ refs \subseteq Objects
    BY DEF IndInv, Typed, TypeOK
  <2>2. UNCHANGED <<file, refs, state, jobs, mode>> /\ row' = RowsWithout(i, o) /\ mode # "running"
    BY <1>1, <1>4
  <2> QED BY <1>5, <1>6, <1>7, <1>8, <2>1, <2>2, RowGoes
<1>10. \A f \in Entries \ {e} : ActiveAsset(f)' <=> ActiveAsset(f)
  BY <1>1, <1>5 DEF ActiveAsset
<1>11. RecoversEntries'
  BY <1>1, <1>2, <1>3, <1>5, <1>10 DEF RecoversEntries, None
<1>12. \A j \in Imports : ~ActiveAsset(<<j, o>>)'
  <2>1. ~ActiveAsset(<<i, o>>)'
    BY <1>4, <1>5 DEF ActiveAsset
  <2>2. ASSUME NEW j \in Imports, j # i PROVE ~ActiveAsset(<<j, o>>)'
    <3>1. <<j, o>> \in Entries \ {e}
      BY <1>4, <2>2, PairIsEntry
    <3> QED BY <1>7, <1>10, <2>2, <3>1
  <2> QED BY <2>1, <2>2
<1>13. RecoversAbandoned'
  BY <1>1, <1>3, <1>4, <1>5, <1>6, <1>9, <1>12 DEF RecoversAbandoned, Unneeded
<1>14. RecoveryOK'
  BY <1>3, <1>11, <1>13 DEF RecoveryOK, RecoversJobs
<1>15. file' \in [Objects -> BOOLEAN] /\ jobs' \in 0 .. MaxJobs /\ faults' \in 0 .. MaxFaults
       /\ mode' = "recovering"
  BY <1>1 DEF IndInv, Typed, TypeOK
<1> QED BY <1>1, <1>3, <1>5, <1>9, <1>14, <1>15, RecoveryPart

\* What is known between the transaction and the end of a recovered removal.
LEMMA WhileAbandoning ==
    ASSUME IndInv, mode = "recovering", rec.pc \in {"file", "row"}
    PROVE  \E i \in Imports, o \in Objects :
             /\ rec.entry = <<i, o>> /\ rec.entry[1] = i /\ rec.entry[2] = o
             /\ rec.entry \in Entries /\ rec.entry \notin rec.todo
             /\ journal[<<i, o>>] = "cleanup_pending"
             /\ o \notin refs
             /\ row[o] = None \/ Contested(o)
             /\ \A j \in Imports : ~ActiveAsset(<<j, o>>)
             /\ rec.pc = "row" /\ file[o] => o \in Pinned
<1>1. RecoversAbandoned
  BY DEF IndInv, RecoveryOK
<1>2. PICK i \in Imports, o \in Objects : rec.entry = <<i, o>> /\ rec.entry[1] = i /\ rec.entry[2] = o
  BY <1>1, EntryIsPair DEF RecoversAbandoned
<1> QED BY <1>1, <1>2 DEF RecoversAbandoned, Unneeded

\* Recovery removes the file of an abandoned entry.
LEMMA RecoverFileStep ==
    ASSUME IndInv, RecoverFile
    PROVE  IndInv'
<1>1. /\ mode = "recovering" /\ rec.pc = "file"
      /\ file' = FilesWithout(rec.entry[2]) /\ rec' = [rec EXCEPT !.pc = "row"]
      /\ UNCHANGED <<row, journal, refs, state, jobs, lock, proc, mode, faults, crashes>>
  BY DEF RecoverFile, Recover
<1>2. PICK i \in Imports, o \in Objects :
             /\ rec.entry = <<i, o>> /\ rec.entry[1] = i /\ rec.entry[2] = o
             /\ rec.entry \in Entries /\ rec.entry \notin rec.todo
             /\ journal[<<i, o>>] = "cleanup_pending"
             /\ o \notin refs
             /\ row[o] = None \/ Contested(o)
             /\ \A j \in Imports : ~ActiveAsset(<<j, o>>)
  BY <1>1, WhileAbandoning
<1>3. rec \in Recs
  BY DEF IndInv, Typed, LocalsTyped
<1>4. rec' \in Recs /\ rec'.pc = "row" /\ rec'.todo = rec.todo /\ rec'.entry = rec.entry
  BY <1>1, <1>3 DEF Recs
<1>5. DiskOK' /\ file' \in [Objects -> BOOLEAN] /\ (file'[o] => o \in Pinned)
  <2>1. /\ DiskOK /\ file \in [Objects -> BOOLEAN] /\ refs \subseteq Objects
    BY DEF IndInv, Typed, TypeOK
  <2>2. UNCHANGED <<row, journal, refs, state, jobs, mode>> /\ file' = FilesWithout(o) /\ mode # "running"
    BY <1>1, <1>2
  <2> QED BY <1>2, <2>1, <2>2, FileGoes
<1>6. \A f \in Entries : ActiveAsset(f)' <=> ActiveAsset(f)
  BY <1>1 DEF ActiveAsset
<1>7. RecoversEntries'
  BY <1>1, <1>4, <1>6 DEF IndInv, RecoveryOK, RecoversEntries
<1>8. RecoversAbandoned'
  <2>1. \A j \in Imports : ~ActiveAsset(<<j, o>>)'
    BY <1>2, <1>6, PairIsEntry
  <2> QED BY <1>1, <1>2, <1>4, <1>5, <2>1 DEF RecoversAbandoned, Unneeded
<1>9. RecoveryOK'
  BY <1>4, <1>7, <1>8 DEF RecoveryOK, RecoversJobs
<1> QED BY <1>1, <1>4, <1>5, <1>9, RecoveryPart DEF IndInv, Typed, TypeOK

\* Recovery drops the journal row of an abandoned entry.
LEMMA RecoverRowStep ==
    ASSUME IndInv, RecoverRow
    PROVE  IndInv'
<1>1. /\ mode = "recovering" /\ rec.pc = "row"
      /\ journal' = [journal EXCEPT ![rec.entry] = None]
      /\ rec' = [rec EXCEPT !.pc = "entries", !.entry = None]
      /\ UNCHANGED <<file, row, refs, state, jobs, lock, proc, mode, faults, crashes>>
  BY DEF RecoverRow, Recover
<1>2. PICK i \in Imports, o \in Objects :
             /\ rec.entry = <<i, o>> /\ rec.entry[1] = i /\ rec.entry[2] = o
             /\ rec.entry \in Entries /\ rec.entry \notin rec.todo
             /\ row[o] = None \/ Contested(o)
             /\ file[o] => o \in Pinned
  BY <1>1, WhileAbandoning
<1>3. /\ rec \in Recs
      /\ \A f \in Entries : f \in rec.todo => journal[f] # None
      /\ \A f \in Entries : journal[f] # None =>
           f \in rec.todo \/ f = rec.entry \/ (ActiveAsset(f) /\ f[2] \notin refs)
      /\ jobs = 0
  BY <1>1, WhileRecovering
<1>4. rec' \in Recs /\ rec'.pc = "entries" /\ rec'.todo = rec.todo
  BY <1>1, <1>3 DEF Recs
<1>5. PICK e \in Entries : e = rec.entry
  BY <1>2
<1>6. /\ journal' \in [Entries -> Phases \cup {None}]
      /\ journal'[e] = None
      /\ \A f \in Entries \ {e} : journal'[f] = journal[f]
      /\ \A j \in Imports, x \in Objects :
           journal'[<<j, x>>] = IF j = i /\ x = o THEN None ELSE journal[<<j, x>>]
  <2>1. None \in Phases \cup {None} /\ Typed
    BY DEF IndInv
  <2>2. e = <<i, o>>
    BY <1>2, <1>5
  <2>3. journal' = Changed(i, o, None)
    BY <1>1, <1>5, <2>2 DEF Changed
  <2> QED BY <2>1, <2>2, <2>3, ChangedFacts
<1>7. DiskOK'
  <2>1. DiskOK /\ UNCHANGED <<file, row, refs, state, jobs, mode>>
    BY <1>1 DEF IndInv
  <2> QED BY <1>2, <1>6, <2>1, EntryGoes
<1>8. \A f \in Entries \ {e} : ActiveAsset(f)' <=> ActiveAsset(f)
  BY <1>1, <1>6 DEF ActiveAsset
<1>9. RecoversEntries'
  BY <1>1, <1>2, <1>3, <1>4, <1>5, <1>6, <1>8 DEF RecoversEntries
<1>10. RecoveryOK'
  BY <1>4, <1>9 DEF RecoveryOK, RecoversJobs, RecoversAbandoned
<1> QED BY <1>1, <1>4, <1>6, <1>7, <1>10, RecoveryPart DEF IndInv, Typed, TypeOK

\* Recovery has no entry left, and the store opens.
LEMMA OpenedStep ==
    ASSUME IndInv, Opened
    PROVE  IndInv'
<1>1. /\ mode = "recovering" /\ rec.pc = "entries" /\ rec.todo = {}
      /\ mode' = "running" /\ rec' = [rec EXCEPT !.pc = "jobs"]
      /\ UNCHANGED <<disk, lock, proc, faults, crashes>>
  BY DEF Opened, Recover
<1>2. /\ rec \in Recs
      /\ \A e \in Entries : journal[e] # None => ActiveAsset(e)
  BY <1>1, WhileRecovering
<1>3. rec' \in Recs
  BY <1>1, <1>2 DEF Recs
<1>4. RegisteredIsStored'
  <2>1. SUFFICES ASSUME NEW i \in Imports, NEW o \in Objects,
                        journal[<<i, o>>] = "row_registered"
                 PROVE  row[o] = MediaFor(i, o) /\ file[o]
    BY <1>1, RegisteredByPairs DEF RegisteredPairs, MediaFor, disk
  <2>2. ActiveAsset(<<i, o>>)
    BY <1>2, <2>1, PairIsEntry DEF None
  <2> QED BY <2>1, <2>2, PairIsEntry, RegisteredByPairs
          DEF IndInv, DiskOK, RegisteredPairs, ActiveAsset
<1>5. NothingLeaked' /\ ReferenceIsStored' /\ RowsOK'
  BY <1>1 DEF disk, IndInv, DiskOK, NothingLeaked, ReferenceIsStored, RowsOK, EntriesOwned,
              RowsDeclared, RowsKnown, CompletedIsReferenced
<1>6. DiskOK'
  BY <1>4, <1>5 DEF DiskOK
<1>7. RecoveryOK'
  BY <1>1 DEF RecoveryOK, RecoversJobs, RecoversEntries, RecoversAbandoned
<1> QED BY <1>1, <1>3, <1>6, <1>7, RecoveryPart DEF IndInv, Typed, TypeOK, disk

\* A step of recovery fails, and the store stays closed.
LEMMA RecoverFailsStep ==
    ASSUME IndInv, RecoverFails
    PROVE  IndInv'
<1>1. /\ mode = "recovering" /\ Fault /\ mode' = "failed"
      /\ UNCHANGED <<disk, lock, proc, rec, crashes>>
  BY DEF RecoverFails
<1>2. DiskOK'
  BY <1>1, NotRunningDisk DEF IndInv
<1>3. RecoveryOK'
  BY <1>1 DEF RecoveryOK, RecoversJobs, RecoversEntries, RecoversAbandoned
<1>4. faults' \in 0 .. MaxFaults
  BY <1>1, PackageCasAssumption DEF Fault, IndInv, Typed, TypeOK
<1> QED BY <1>1, <1>2, <1>3, <1>4, RecoveryPart DEF IndInv, Typed, TypeOK, LocalsTyped, disk

\* Recovery begins.
LEMMA RecoveringStep ==
    ASSUME IndInv, Recovering, UNCHANGED <<disk, faults>>, crashes' \in 0 .. MaxCrashes,
           lock' = None, proc' \in [Threads -> Procs], \A t \in Threads : proc'[t].pc = "idle"
    PROVE  IndInv'
<1>1. PICK T : T = IF jobs > 0 THEN CardObjects ELSE {}
  OBVIOUS
<1>2. mode' = "recovering" /\ rec' = [pc |-> "jobs", todo |-> T, entry |-> None]
  BY <1>1 DEF Recovering
<1>3. T \subseteq Objects /\ jobs \in Nat
  BY <1>1, PackageCasAssumption DEF IndInv, Typed, TypeOK
<1>4. rec' \in Recs /\ rec'.pc = "jobs" /\ rec'.todo = T
  BY <1>2, <1>3 DEF Recs
<1>5. DiskOK'
  BY <1>2, NotRunningDisk DEF IndInv
<1>6. ThreadsOK' /\ Quiet'
  BY NobodyWorks
<1>7. RecoveryOK'
  BY <1>1, <1>3, <1>4 DEF RecoveryOK, RecoversJobs, RecoversEntries, RecoversAbandoned, disk
<1>8. Typed'
  BY <1>2, <1>4, TypedNext DEF IndInv, Typed, TypeOK, disk
<1> QED BY <1>5, <1>6, <1>7, <1>8 DEF IndInv

\* The process stops at any moment.
LEMMA CrashStep ==
    ASSUME IndInv, Crash
    PROVE  IndInv'
<1>1. /\ crashes < MaxCrashes /\ crashes' = crashes + 1 /\ proc' = [t \in Threads |-> Idle]
      /\ lock' = None /\ Recovering /\ UNCHANGED <<disk, faults>>
  BY DEF Crash
<1>2. crashes' \in 0 .. MaxCrashes
  BY <1>1, PackageCasAssumption DEF IndInv, Typed, TypeOK
<1>3. proc' \in [Threads -> Procs] /\ \A t \in Threads : proc'[t].pc = "idle"
  <2>1. Idle.pc = "idle"
    BY DEF Idle
  <2> QED BY <1>1, <2>1, IdleTyped
<1> QED BY <1>1, <1>2, <1>3, RecoveringStep

\* The store is opened again, and recovery begins.
LEMMA ReopenStep ==
    ASSUME IndInv, Reopen
    PROVE  IndInv'
<1>1. /\ \/ mode = "running" /\ \A t \in Threads : proc[t].pc = "idle"
         \/ mode \in {"failed", "refused"}
      /\ Recovering /\ UNCHANGED <<disk, lock, proc, faults, crashes>>
  BY DEF Reopen
<1>2. \A t \in Threads : proc[t].pc = "idle"
  BY <1>1 DEF IndInv, Quiet
<1>3. lock = None
  <2>1. \A t \in Threads : lock # t
    BY <1>2, WhoHolds DEF Holding, Promoting, Removing
  <2> QED BY <2>1 DEF IndInv, Typed, TypeOK
<1>4. crashes' \in 0 .. MaxCrashes /\ proc' \in [Threads -> Procs]
  BY <1>1 DEF IndInv, Typed, TypeOK, LocalsTyped
<1> QED BY <1>1, <1>2, <1>3, <1>4, RecoveringStep

\* A step of recovery.
LEMMA RecoveryStepKeeps ==
    ASSUME IndInv, RecoveryStep
    PROVE  IndInv'
BY RecoverJobFileStep, RecoverJobsStep, RecoverKeptStep, RecoverAbandonedStep, RecoverFileStep,
   RecoverRowStep, OpenedStep DEF RecoveryStep

-----------------------------------------------------------------------------
(* The theorems.                                                           *)

\* An empty store satisfies the invariant.
LEMMA InitHolds == Init => IndInv
<1> SUFFICES ASSUME Init PROVE IndInv
  OBVIOUS
<1>1. proc \in [Threads -> Procs] /\ \A t \in Threads : proc[t].pc = "idle"
  <2>1. Idle.pc = "idle"
    BY DEF Idle
  <2> QED BY <2>1, IdleTyped DEF Init
<1>2. \A t \in Threads : /\ proc[t].import \in Imports \cup {None}
                         /\ proc[t].staged \subseteq Objects
                         /\ proc[t].todo \subseteq Objects
  BY <1>1 DEF Procs
<1>3. rec \in Recs
  BY DEF Init, Recs
<1>4. Typed
  BY <1>1, <1>2, <1>3, PackageCasAssumption DEF Init, Typed, TypeOK, LocalsTyped, States
<1>5. \A i \in Imports, o \in Objects : journal[<<i, o>>] = None
  BY PairIsEntry DEF Init
<1>6. RegisteredIsStored
  BY <1>5, RegisteredByPairs DEF RegisteredPairs, None
<1>7. NothingLeaked /\ ReferenceIsStored /\ RowsOK
  BY <1>5 DEF Init, NothingLeaked, ReferenceIsStored, RowsOK, EntriesOwned, RowsDeclared,
              RowsKnown, CompletedIsReferenced
<1>8. ThreadsOK
  BY <1>1, PackageCasAssumption
     DEF Init, ThreadsOK, ThreadOK, HasAnImport, Promotes, Removes, StoresCard,
         Holding, Promoting, Removing
<1>9. Quiet /\ RecoveryOK
  BY DEF Init, Quiet, RecoveryOK, RecoversJobs, RecoversEntries, RecoversAbandoned
<1> QED BY <1>4, <1>6, <1>7, <1>8, <1>9 DEF IndInv, DiskOK

\* Every step of the store keeps the invariant.
LEMMA NextKeeps == IndInv /\ [Next]_vars => IndInv'
<1> SUFFICES ASSUME IndInv, [Next]_vars PROVE IndInv'
  OBVIOUS
<1>1. CASE UNCHANGED vars
  <2>1. UNCHANGED <<disk, mode, rec, lock, proc, faults, crashes>>
        /\ UNCHANGED <<file, row, journal, refs, state, jobs>>
    BY <1>1 DEF vars, disk
  <2>2. Typed' /\ Quiet'
    BY <2>1 DEF IndInv, Typed, TypeOK, LocalsTyped, Quiet
  <2>3. DiskOK' /\ ThreadsOK'
    BY <2>1, SameDisk, WithTheMutex DEF IndInv, ThreadsOK
  <2>4. RecoveryOK'
    BY <2>1 DEF IndInv, RecoveryOK, RecoversJobs, RecoversEntries, RecoversAbandoned, ActiveAsset, Unneeded
  <2> QED BY <2>2, <2>3, <2>4 DEF IndInv
<1>2. CASE \E t \in Threads : ThreadStep(t)
  BY <1>2, ThreadStepKeeps
<1>3. CASE \E i \in Imports : Approve(i) \/ DiscardImport(i)
  BY <1>3, UserStep
<1>4. CASE RecoveryStep \/ RecoverFails
  BY <1>4, RecoveryStepKeeps, RecoverFailsStep
<1>5. CASE Crash \/ Reopen
  BY <1>5, CrashStep, ReopenStep
<1> QED BY <1>1, <1>2, <1>3, <1>4, <1>5 DEF Next

(* Every reachable state of the store satisfies the inductive invariant:   *)
(* the mutex is held exactly where promotions and removals need it, and    *)
(* each promotion, removal and recovery is where journal, rows and files   *)
(* say it is.                                                              *)
THEOREM StoreIsConsistent == Spec => []IndInv
BY InitHolds, NextKeeps, PTL DEF Spec

(* Journal, rows and files agree between any two steps of any thread, and  *)
(* nothing is leaked (StoreInv), for every set of imports and digests.     *)
THEOREM StoreInvTheorem == Spec => []StoreInv
<1>1. IndInv => StoreInv
  BY DEF IndInv, Typed, DiskOK, StoreInv
<1> QED BY <1>1, StoreIsConsistent, PTL

(* A product reference never dangles, although the transaction that makes  *)
(* it does not hold cas_mutation (commit_package_import).                  *)
THEOREM ReferenceIsStoredTheorem == Spec => []ReferenceIsStored
<1>1. IndInv => ReferenceIsStored
  BY DEF IndInv, DiskOK
<1> QED BY <1>1, StoreIsConsistent, PTL

(* When Storage::open succeeds, no trace of an interrupted promotion is    *)
(* left but of contested bytes.                                            *)
THEOREM OpensCleanTheorem == Spec => OpensClean
<1> DEFINE Clean(o) ==
             \/ Contested(o)
             \/ file[o] /\ row[o] # None
                /\ (o \in refs \/ \E i \in Imports : MayStillCommit(i, o))
             \/ row[o] = None /\ (file[o] => o \in Pinned)
                /\ \A i \in Imports : journal[<<i, o>>] = None
<1>1. ASSUME IndInv, Next, mode = "recovering", mode' = "running", NEW o \in Objects
      PROVE  Clean(o)
  <2>1. Opened
    BY <1>1 DEF Next, ThreadStep, RecoveryStep, RecoverFails, Crash, Reopen, Recovering, Approve, DiscardImport,
       Inspect, Load, EnsureIntents, StoreFile, StoreFails, Verify, MarkDurable, Register, GiveUp,
       CreateInspected, CommitImport, Discard, PrepareCleanup, CleanupFile, CleanupRow, CleanupEnds, CleanupFails,
       CardBegin, CardStore, CardCommit, CardFails, RecoverJobFile, RecoverJobs, RecoverKept, RecoverAbandoned,
       RecoverFile, RecoverRow, At
  <2>2. rec.pc = "entries" /\ rec.todo = {}
    BY <2>1 DEF Opened, Recover
  <2>3. jobs = 0 /\ \A e \in Entries : journal[e] # None => ActiveAsset(e) /\ e[2] \notin refs
    BY <1>1, <2>2, WhileRecovering
  <2>4. CASE \E i \in Imports : journal[<<i, o>>] # None
    <3>1. PICK i \in Imports : journal[<<i, o>>] # None
      BY <2>4
    <3>2. ActiveAsset(<<i, o>>)
      BY <2>3, <3>1, PairIsEntry
    <3>3. journal[<<i, o>>] = "row_registered" /\ o \in Assets /\ state[i] \in Active
      BY <3>2, PairIsEntry DEF ActiveAsset
    <3>4. row[o] = MediaFor(i, o) /\ file[o]
      BY <1>1, <3>3, RegisteredByPairs DEF IndInv, DiskOK, RegisteredPairs
    <3>5. o \in ObjectsOf(i)
      BY <1>1, <3>1 DEF IndInv, DiskOK, RowsOK, EntriesOwned
    <3>6. row[o] # None
      BY <3>4, <3>5, MediaForFacts
    <3>7. MayStillCommit(i, o)
      BY <3>3 DEF MayStillCommit, Active
    <3> QED BY <3>4, <3>6, <3>7
  <2>5. CASE \A i \in Imports : journal[<<i, o>>] = None
    <3>1. row[o] # None => Contested(o) \/ o \in refs
      BY <1>1, <2>5 DEF IndInv, DiskOK, RowsOK, RowsKnown
    <3>2. o \in refs => file[o] /\ row[o] # None
      BY <1>1 DEF IndInv, DiskOK, ReferenceIsStored
    <3>3. file[o] => Contested(o) \/ o \in refs \/ o \in Pinned
      <4>1. NothingLeaked /\ ~(jobs > 0)
        BY <1>1, <2>3 DEF IndInv, DiskOK
      <4> QED BY <2>5, <4>1 DEF NothingLeaked
    <3> QED BY <2>5, <3>1, <3>2, <3>3
  <2> QED BY <2>4, <2>5
<1>2. IndInv /\ [Next]_vars =>
        [mode = "recovering" /\ mode' = "running" => \A o \in Objects : Clean(o)]_vars
  BY <1>1 DEF vars
<1> QED BY <1>2, StoreIsConsistent, PTL DEF Spec, OpensClean
=============================================================================

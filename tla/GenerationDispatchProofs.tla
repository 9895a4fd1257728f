---------------------- MODULE GenerationDispatchProofs ----------------------
(***************************************************************************)
(* Proofs about the dispatch of generations for every set of operations    *)
(* and callers, every prompt plan and every limit.                         *)
(***************************************************************************)
EXTENDS GenerationDispatch, FiniteSetTheorems, SequenceTheorems, TLAPS

---------------------------------------------------------------------------
(* The inductive invariant *)

Replies  == {Reply(op) : op \in Ops}
Messages == rows \cup Replies

Attempts == [st : Statuses, rev : Nat, prev : Nat, plan : Plans \cup {"none"},
             open : Nat, made : Nat, effect : Nat]

Pcs   == {"idle", "lookup", "prepare", "boundary", "commit", "reload", "ready",
          "register", "seal", "append", "start"}
Calls == [pc : Pcs, op : Ops \cup {"none"}, st : Statuses, rev : Nat,
          prev : Nat, plan : Plans \cup {"none"}]

\* The types of the records the code keeps for an operation and for a call.
ControlTyped ==
  /\ DOMAIN ask = Ops
  /\ att \in [Ops -> Attempts]
  /\ gen \in [Ops -> {"none", "running", "completed"}]
  /\ branches \subseteq Branches /\ active \in branches /\ Main \in branches
  /\ state \in [Branches -> Nat]
  /\ call \in [Callers -> Calls]
  /\ registry \in [Ops -> {"free", "preparing", "running"}]
  /\ task \in [Ops -> {"none", "run", "closing"}]
  /\ launched \in [Ops -> Nat]
  /\ stranded \subseteq Ops

\* A call is made only for what was asked, of a branch that exists.
CallsAreAsked ==
  /\ \A op \in Ops : ask[op] # NoAsk => Src(op) \in branches
  /\ \A op \in Ops : gen[op] # "none" => ask[op] # NoAsk
  /\ \A c \in Callers : call[c].pc # "idle" =>
       call[c].op \in Ops /\ ask[call[c].op] # NoAsk

\* The attempt and the generation agree, and the open proposals agree with
\* the attempt's status.
RowsAgree ==
  \A op \in Ops :
    /\ att[op].st = "running" <=> gen[op] = "running"
    /\ att[op].st = "completed" <=> gen[op] = "completed"
    /\ att[op].st = "awaiting_approval" <=> att[op].open # 0

Owns(c, op) == call[c].op = op /\ call[c].pc \in {"seal", "append", "start"}

\* Who owns a registry entry.
EntriesOwned ==
  \A op \in Ops :
    /\ registry[op] = "free" => task[op] = "none"
    /\ registry[op] = "preparing" =>
         /\ task[op] = "none"
         /\ \E c \in Callers : Owns(c, op) /\ \A d \in Callers : Owns(d, op) => d = c
    /\ registry[op] = "running" => task[op] # "none"
    /\ registry[op] # "preparing" => \A c \in Callers : ~ Owns(c, op)

\* What a call that is about to spawn a task knows, and what a task does.
StartsHold ==
  \A c \in Callers : call[c].pc = "start" =>
    /\ gen[call[c].op] = "running" /\ launched[call[c].op] = 0
    /\ call[c].op \notin stranded

TasksHold ==
  \A op \in Ops :
    /\ task[op] = "run" => gen[op] = "running" /\ op \notin stranded
    /\ task[op] = "closing" => gen[op] # "running" \/ op \in stranded

\* A task is spawned by the call that appended, and by no other; a generation
\* that runs unserved was stranded by a storage failure.
SpawnedByItsAppend ==
  /\ \A op \in Ops : launched[op] <= 1 /\ (gen[op] = "none" => launched[op] = 0)
  /\ StartsHold
  /\ \A op \in Ops : gen[op] = "running" /\ op \notin stranded => Served(op)
  /\ TasksHold
  /\ \A op \in stranded : gen[op] = "running"

Held == {op \in Ops : registry[op] # "free"}

\* The registry stays within its limits.
WithinLimits ==
  /\ IsFiniteSet(Held)
  /\ Cardinality(Held) <= MaxConversation
  /\ \A p \in Range(ProviderOf) :
       Cardinality({op \in Held : ProviderOf[op] = p}) <= MaxProvider

ControlInv == /\ ControlTyped /\ CallsAreAsked /\ RowsAgree /\ EntriesOwned
              /\ SpawnedByItsAppend /\ WithinLimits

\* What is stored: users' messages are four-tuples, and a branch holds stored
\* messages and the replies of generations that began.
LinesTyped ==
  /\ \A m \in rows : IsUser(m)
  /\ line \in [Branches -> Seq(Messages)]
  /\ ask \in [Ops -> [src : Branches \cup {"none"}, head : Messages \cup {Root},
                      target : Messages \cup {Root}]]

TipOf(l)     == IF l = <<>> THEN Root ELSE l[Len(l)]
Before(l, i) == IF i = 1 THEN Root ELSE l[i - 1]

\* What a line of messages is made of, when the generations in B have begun
\* and each has the user message U and the context C: a reply follows its
\* user message, which follows the context; a user message follows the
\* message its id names; no message is there twice.
Distinct(l) == \A i, j \in 1 .. Len(l) : l[i] = l[j] => i = j

Follows(l, B, U, C) ==
  \A i \in 1 .. Len(l) :
    /\ \A op \in Ops : l[i] = Reply(op) =>
         /\ op \in B /\ i > 1
         /\ l[i - 1] = U[op]
         /\ C[op] = Before(l, i - 1)
    /\ IsUser(l[i]) => Parent(l[i]) = Before(l, i)

LineGood(l, B, U, C) == Distinct(l) /\ Follows(l, B, U, C)

\* Wherever the head is on a line, the target is below it.
Below(l, head, target) ==
  \A i \in 1 .. Len(l) : l[i] = head => \E j \in 1 .. i : l[j] = target

Begun     == {op \in Ops : gen[op] # "none"}
Users     == [op \in Ops |-> UserOf(op)]
Contexts  == [op \in Ops |-> Context(op)]
LinesGood == \A b \in Branches : LineGood(line[b], Begun, Users, Contexts)

\* A reply that a client saw is of a generation that began.
HeadsBegan == \A op, o \in Ops : ask[op].head = Reply(o) => o \in Begun

\* The branch of every generation that began exists.
TargetsExist == \A op \in Begun : Target(op) \in branches

\* A fork was asked with a message in sight, and wherever the head is that the
\* client saw, the message to replace is below it.
TargetsBelowHeads ==
  \A op \in Forks : ask[op] # NoAsk =>
    /\ ask[op].head # Root
    /\ IsUser(ask[op].target)
    /\ Below(line[Src(op)], ask[op].head, ask[op].target)

LinesInv == /\ LinesTyped /\ LinesGood /\ HeadsBegan /\ TargetsExist
            /\ TargetsBelowHeads /\ ReplyIsHead

IndInv == ControlInv /\ LinesInv

---------------------------------------------------------------------------
(* Control: attempts, callers, the registry and the tasks *)

\* The records a caller goes through are calls.
LEMMA CallTypes ==
    ASSUME NEW k \in Calls, NEW row \in Attempts
    PROVE  /\ Idle \in Calls
           /\ \A op \in Ops : [Idle EXCEPT !.pc = "lookup", !.op = op] \in Calls
           /\ Holding(k, row) \in Calls
           /\ After(k, row) \in Calls
           /\ After(k, row).pc \in {"idle", "boundary", "ready"}
           /\ After(k, row).pc # "idle" => After(k, row).op = k.op
           /\ NoAttempt \in Attempts
  <1> USE DEF Calls, Attempts, Pcs, Statuses
  <1>1. Idle \in Calls /\ \A op \in Ops : [Idle EXCEPT !.pc = "lookup", !.op = op] \in Calls
    BY DEF Idle
  <1>2. Holding(k, row) \in Calls /\ Holding(k, row).op = k.op
    BY DEF Holding
  <1>3. CASE row.st \in {"running", "completed"}
    BY <1>1, <1>2, <1>3 DEF After, Idle, NoAttempt
  <1>4. CASE row.st = "prepared"
    BY <1>1, <1>2, <1>4 DEF After, NoAttempt
  <1>5. CASE row.st \notin {"running", "completed", "prepared"}
    BY <1>1, <1>2, <1>5 DEF After, NoAttempt
  <1> QED
    BY <1>3, <1>4, <1>5

\* The initial state is controlled.
LEMMA ControlInit == Init => ControlInv
  <1> SUFFICES ASSUME Init PROVE ControlInv
    OBVIOUS
  <1> USE DEF Init
  <1>1. ControlTyped
    BY DispatchConstants
       DEF ControlTyped, Idle, NoAttempt, Attempts, Calls, Pcs, Statuses, Branches
  <1>2. CallsAreAsked
    BY DEF CallsAreAsked, Idle
  <1>3. RowsAgree
    BY DEF RowsAgree, NoAttempt
  <1>4. EntriesOwned
    BY DEF EntriesOwned, Owns, Idle
  <1>5. SpawnedByItsAppend
    BY DEF SpawnedByItsAppend, StartsHold, TasksHold, Served, Idle
  <1>6. WithinLimits
    <2>1. Held = {} /\ \A p : {op \in Held : ProviderOf[op] = p} = {}
      BY DEF Held
    <2> QED
      BY <2>1, FS_EmptySet, DispatchConstants DEF WithinLimits
  <1> QED
    BY <1>1, <1>2, <1>3, <1>4, <1>5, <1>6 DEF ControlInv

\* A step that moves one caller, before and after without a permit, and
\* nothing but attempts, asks and what is on the branches besides.
LEMMA CallMoves ==
    ASSUME ControlInv, NEW c \in Callers, NEW k \in Calls,
           call' = [call EXCEPT ![c] = k],
           call[c].pc \notin {"seal", "append", "start"},
           k.pc \notin {"seal", "append", "start"},
           k.pc # "idle" => k.op \in Ops /\ ask'[k.op] # NoAsk,
           \A op \in Ops : ask[op] # NoAsk => ask'[op] = ask[op],
           UNCHANGED <<registry, task, launched, stranded, gen>>
    PROVE  /\ call' \in [Callers -> Calls]
           /\ \A d \in Callers : call'[d].pc # "idle" =>
                call'[d].op \in Ops /\ ask'[call'[d].op] # NoAsk
           /\ EntriesOwned' /\ SpawnedByItsAppend' /\ WithinLimits'
  <1>1. call' \in [Callers -> Calls]
    BY DEF ControlInv, ControlTyped
  <1>2. \A d \in Callers : call'[d].pc # "idle" =>
          call'[d].op \in Ops /\ ask'[call'[d].op] # NoAsk
    BY DEF ControlInv, ControlTyped, CallsAreAsked
  <1>3. \A op \in Ops, d \in Callers : Owns(d, op)' <=> Owns(d, op)
    BY DEF Owns, ControlInv, ControlTyped
  <1>4. EntriesOwned'
    BY <1>3 DEF ControlInv, EntriesOwned
  <1>5. \A d \in Callers : call'[d].pc = "start" <=> call[d].pc = "start"
    BY DEF ControlInv, ControlTyped
  <1>6. \A d \in Callers : call[d].pc = "start" => call'[d] = call[d]
    BY DEF ControlInv, ControlTyped
  <1>7. SpawnedByItsAppend'
    BY <1>5, <1>6 DEF ControlInv, SpawnedByItsAppend, StartsHold, TasksHold, Served
  <1>8. WithinLimits'
    BY DEF ControlInv, WithinLimits, Held
  <1> QED
    BY <1>1, <1>2, <1>4, <1>7, <1>8

\* The same for a step that changes nothing but a caller.
LEMMA OnlyCallKeeps ==
    ASSUME ControlInv, NEW c \in Callers, NEW k \in Calls, OnlyCall(c, k),
           call[c].pc \notin {"seal", "append", "start"},
           k.pc \notin {"seal", "append", "start"},
           k.pc # "idle" => k.op \in Ops /\ ask[k.op] # NoAsk
    PROVE  ControlInv'
  <1>0. /\ call' = [call EXCEPT ![c] = k]
        /\ UNCHANGED <<ask, att, gen, branches, active, state, registry, task, launched, stranded>>
    BY DEF OnlyCall, disk
  <1>1. /\ call' \in [Callers -> Calls]
        /\ \A d \in Callers : call'[d].pc # "idle" =>
             call'[d].op \in Ops /\ ask'[call'[d].op] # NoAsk
        /\ EntriesOwned' /\ SpawnedByItsAppend' /\ WithinLimits'
    BY <1>0, CallMoves
  <1>2. ControlTyped' /\ CallsAreAsked' /\ RowsAgree'
    BY <1>0, <1>1 DEF ControlInv, ControlTyped, CallsAreAsked, RowsAgree, Src
  <1> QED
    BY <1>1, <1>2 DEF ControlInv

\* A change of one attempt that leaves generations and the open proposals in
\* agreement with it.
LEMMA AttemptMoves ==
    ASSUME ControlInv, NEW op \in Ops, NEW row \in Attempts,
           att' = [att EXCEPT ![op] = row],
           row.st \notin {"running", "completed"},
           att[op].st \notin {"running", "completed"},
           row.st = "awaiting_approval" <=> row.open # 0,
           UNCHANGED gen
    PROVE  att' \in [Ops -> Attempts] /\ RowsAgree'
  BY DEF ControlInv, ControlTyped, RowsAgree

\* An advanced attempt is an attempt with the same proposals.
LEMMA AdvancedTypes ==
    ASSUME NEW row \in Attempts, NEW st \in Statuses
    PROVE  /\ Advanced(row, st) \in Attempts
           /\ Advanced(row, st).st = st
           /\ Advanced(row, st).open = row.open
  <1>1. row.rev + 1 \in Nat
    BY DEF Attempts
  <1> QED
    BY <1>1 DEF Advanced, Attempts

\* A fresh intent is an attempt without proposals.
LEMMA FreshTypes ==
    LET r == [NoAttempt EXCEPT !.st = "prepared", !.rev = 1]
    IN  r \in Attempts /\ r.st = "prepared" /\ r.open = 0
  BY DEF NoAttempt, Attempts, Statuses

\* A caller asks or calls again.
LEMMA ControlAsk ==
    ASSUME ControlInv, NEW c \in Callers, NEW op \in Ops,
           Ask(c, op) \/ CallAgain(c, op)
    PROVE  ControlInv'
  <1> DEFINE k == [Idle EXCEPT !.pc = "lookup", !.op = op]
  <1>0. k \in Calls /\ k.pc = "lookup" /\ k.op = op
    BY DEF Calls, Pcs, Statuses, Idle
  <1> HIDE DEF k
  <1>1. CASE CallAgain(c, op)
    <2>1. OnlyCall(c, k)
      BY <1>1 DEF CallAgain, OnlyCall, Enter, k
    <2> QED
      BY <1>0, <1>1, <2>1, OnlyCallKeeps DEF CallAgain
  <1>2. CASE Ask(c, op)
    <2>1. /\ call[c].pc = "idle" /\ call' = [call EXCEPT ![c] = k]
          /\ UNCHANGED <<att, gen, branches, active, state, registry, task, launched, stranded>>
      BY <1>2 DEF Ask, Enter, disk, k
    <2>2. PICK b \in branches : \E m : ask' = [ask EXCEPT ![op] =
                 [src |-> b, head |-> Tip(b), target |-> m]]
      BY <1>2 DEF Ask
    <2>0. DOMAIN ask = Ops
      BY DEF ControlInv, ControlTyped
    <2>3. ask'[op] # NoAsk /\ ask'[op].src \in branches
      <3>1. b # "none"
        BY DispatchConstants DEF ControlInv, ControlTyped, Branches, Ops, Main
      <3>2. ask'[op].src = b
        BY <2>0, <2>2
      <3> QED
        BY <3>1, <3>2 DEF NoAsk
    <2>4. DOMAIN ask' = Ops /\ \A o \in Ops : o # op => ask'[o] = ask[o]
      BY <2>0, <2>2
    <2>5. ask[op] = NoAsk
      BY <1>2 DEF Ask
    <2>6. /\ call' \in [Callers -> Calls]
          /\ \A d \in Callers : call'[d].pc # "idle" =>
               call'[d].op \in Ops /\ ask'[call'[d].op] # NoAsk
          /\ EntriesOwned' /\ SpawnedByItsAppend' /\ WithinLimits'
      BY <1>0, <2>1, <2>3, <2>4, <2>5, CallMoves
    <2>7. ControlTyped' /\ CallsAreAsked' /\ RowsAgree'
      BY <2>1, <2>3, <2>4, <2>5, <2>6 DEF ControlInv, ControlTyped, CallsAreAsked, RowsAgree, Src
    <2> QED
      BY <2>6, <2>7 DEF ControlInv
  <1> QED
    BY <1>1, <1>2

\* The steps of a caller before it holds a permit.
LEMMA ControlPrepares ==
    ASSUME ControlInv, NEW c \in Callers,
           \/ Lookup(c) \/ Prepare(c) \/ ReadBoundary(c) \/ CommitReview(c)
           \/ Reload(c) \/ Ready(c)
    PROVE  ControlInv'
  <1> DEFINE k == call[c]
             op == call[c].op
  <1>0. /\ k \in Calls /\ op \in Ops /\ ask[op] # NoAsk /\ Src(op) \in branches
        /\ att[op] \in Attempts /\ state[Src(op)] \in Nat /\ c \in DOMAIN call
    BY DEF ControlInv, ControlTyped, CallsAreAsked, Lookup, Prepare, ReadBoundary,
           CommitReview, Reload, Ready
  <1>1. CASE Lookup(c)
    <2> DEFINE n == IF att[op].st = "none" THEN [k EXCEPT !.pc = "prepare"]
                    ELSE After(k, att[op])
    <2>1. n \in Calls /\ n.pc \notin {"seal", "append", "start"} /\ (n.pc # "idle" => n.op = op)
      <3>1. CASE att[op].st = "none"
        BY <1>0, <3>1 DEF Calls, Pcs
      <3>2. CASE att[op].st # "none"
        BY <1>0, <3>2, CallTypes
      <3> QED
        BY <3>1, <3>2
    <2>2. OnlyCall(c, n) /\ k.pc = "lookup"
      BY <1>1 DEF Lookup
    <2> QED
      BY <1>0, <2>1, <2>2, OnlyCallKeeps
  <1>2. CASE ReadBoundary(c)
    <2> DEFINE n == [k EXCEPT !.pc = "commit", !.prev = Boundary(op)]
    <2>1. n \in Calls /\ n.pc = "commit" /\ n.op = op
      BY <1>0 DEF Calls, Pcs, Boundary
    <2>2. OnlyCall(c, n) /\ k.pc = "boundary"
      BY <1>2 DEF ReadBoundary
    <2> QED
      BY <1>0, <2>1, <2>2, OnlyCallKeeps
  <1>3. CASE Reload(c)
    <2> DEFINE n == [Holding(k, att[op]) EXCEPT !.pc = "ready", !.prev = 0]
    <2>1. n \in Calls /\ n.pc = "ready" /\ n.op = op
      BY <1>0 DEF Calls, Pcs, Attempts, Holding
    <2>2. OnlyCall(c, n) /\ k.pc = "reload"
      BY <1>3 DEF Reload
    <2> QED
      BY <1>0, <2>1, <2>2, OnlyCallKeeps
  <1>4. CASE Ready(c)
    <2>1. CASE OnlyCall(c, Idle)
      <3>1. Idle \in Calls /\ Idle.pc = "idle"
        BY DEF Idle, Calls, Pcs, Statuses
      <3> QED
        BY <1>4, <2>1, <3>1, OnlyCallKeeps DEF Ready
    <2>2. CASE \E p \in Plans : OnlyCall(c, [k EXCEPT !.pc = "register", !.plan = p])
      <3>1. PICK p \in Plans : OnlyCall(c, [k EXCEPT !.pc = "register", !.plan = p])
        BY <2>2
      <3> DEFINE n == [k EXCEPT !.pc = "register", !.plan = p]
      <3>2. n \in Calls /\ n.pc = "register" /\ n.op = op
        BY <1>0 DEF Calls, Pcs
      <3> QED
        BY <1>0, <1>4, <3>1, <3>2, OnlyCallKeeps DEF Ready
    <2> QED
      BY <1>4, <2>1, <2>2 DEF Ready
  <1>5. CASE Prepare(c)
    <2> DEFINE fresh == [NoAttempt EXCEPT !.st = "prepared", !.rev = 1]
               n == After(k, att'[op])
    <2>1. /\ call' = [call EXCEPT ![c] = n] /\ k.pc = "prepare"
          /\ UNCHANGED <<ask, gen, branches, active, state, registry, task, launched, stranded>>
          /\ \/ att[op].st = "none" /\ att' = [att EXCEPT ![op] = fresh]
             \/ att' = att
      BY <1>5 DEF Prepare
    <2>2. att' \in [Ops -> Attempts] /\ RowsAgree'
      <3>1. CASE att' = att
        BY <2>1, <3>1 DEF ControlInv, ControlTyped, RowsAgree
      <3>2. CASE att[op].st = "none" /\ att' = [att EXCEPT ![op] = fresh]
        <4>1. fresh \in Attempts /\ fresh.st = "prepared" /\ fresh.open = 0
          BY FreshTypes
        <4> HIDE DEF fresh, n
        <4> QED
          BY <1>0, <2>1, <3>2, <4>1, AttemptMoves
      <3> QED
        BY <2>1, <3>1, <3>2
    <2>3. n \in Calls /\ n.pc \notin {"seal", "append", "start"} /\ (n.pc # "idle" => n.op = op)
      BY <1>0, <2>2, CallTypes
    <2> HIDE DEF n
    <2>4. /\ call' \in [Callers -> Calls]
          /\ \A d \in Callers : call'[d].pc # "idle" =>
               call'[d].op \in Ops /\ ask'[call'[d].op] # NoAsk
          /\ EntriesOwned' /\ SpawnedByItsAppend' /\ WithinLimits'
      BY <1>0, <2>1, <2>3, CallMoves
    <2>5. ControlTyped' /\ CallsAreAsked'
      BY <2>1, <2>2, <2>4 DEF ControlInv, ControlTyped, CallsAreAsked, Src
    <2> QED
      BY <2>2, <2>4, <2>5 DEF ControlInv
  <1>6. CASE CommitReview(c)
    <2> DEFINE n == [k EXCEPT !.pc = "reload"]
    <2>1. /\ call' = [call EXCEPT ![c] = n] /\ k.pc = "commit"
          /\ UNCHANGED <<ask, gen, branches, active, state, registry, task, launched, stranded>>
      BY <1>6 DEF CommitReview
    <2>2. att' \in [Ops -> Attempts] /\ RowsAgree'
      <3>1. CASE UNCHANGED att
        BY <3>1, <2>1 DEF ControlInv, ControlTyped, RowsAgree
      <3>2. CASE att[op].st = "prepared" /\ \E m \in 0 .. MaxProposals, e \in 0 .. 1 :
                   att' = [att EXCEPT ![op] = Reviewed(@, k.prev, m, e)]
        <4>1. PICK m \in 0 .. MaxProposals, e \in 0 .. 1 :
                att' = [att EXCEPT ![op] = Reviewed(@, k.prev, m, e)]
          BY <3>2
        <4>2. m \in Nat /\ e \in Nat /\ k.prev \in Nat
          BY <1>0, DispatchConstants DEF Calls
        <4> DEFINE s == IF m = 0 THEN "before_applied" ELSE "awaiting_approval"
                   r == [Advanced(att[op], s) EXCEPT !.prev = k.prev, !.open = m,
                                                     !.made = m, !.effect = e]
        <4>3. att' = [att EXCEPT ![op] = r]
          BY <4>1 DEF Reviewed
        <4>4. s \in {"before_applied", "awaiting_approval"} /\ (s = "awaiting_approval" <=> m # 0)
          OBVIOUS
        <4> HIDE DEF s
        <4>5. Advanced(att[op], s) \in Attempts /\ Advanced(att[op], s).st = s
          BY <1>0, <4>4, AdvancedTypes DEF Statuses
        <4>6. r \in Attempts /\ r.st = s /\ r.open = m
          BY <1>0, <4>2, <4>4, <4>5 DEF Attempts
        <4> HIDE DEF r
        <4> QED
          BY <1>0, <2>1, <3>2, <4>3, <4>4, <4>5, <4>6, AttemptMoves
      <3> QED
        BY <1>6, <3>1, <3>2 DEF CommitReview, ReplayReview
    <2>3. n \in Calls /\ n.pc = "reload" /\ n.op = op
      BY <1>0 DEF Calls, Pcs
    <2> HIDE DEF n
    <2>4. /\ call' \in [Callers -> Calls]
          /\ \A d \in Callers : call'[d].pc # "idle" =>
               call'[d].op \in Ops /\ ask'[call'[d].op] # NoAsk
          /\ EntriesOwned' /\ SpawnedByItsAppend' /\ WithinLimits'
      BY <1>0, <2>1, <2>3, CallMoves
    <2>5. ControlTyped' /\ CallsAreAsked'
      BY <2>1, <2>2, <2>4 DEF ControlInv, ControlTyped, CallsAreAsked, Src
    <2> QED
      BY <2>2, <2>4, <2>5 DEF ControlInv
  <1> QED
    BY <1>1, <1>2, <1>3, <1>4, <1>5, <1>6

\* A caller that holds the permit of an operation is its only owner.
LEMMA PermitIsOwner ==
    ASSUME ControlInv, NEW c \in Callers, Permit(c)
    PROVE  /\ call[c].op \in Ops /\ Owns(c, call[c].op)
           /\ registry[call[c].op] = "preparing" /\ task[call[c].op] = "none"
           /\ \A d \in Callers : Owns(d, call[c].op) => d = c
           /\ ask[call[c].op] # NoAsk /\ Src(call[c].op) \in branches
  <1>1. call[c].op \in Ops /\ Owns(c, call[c].op) /\ ask[call[c].op] # NoAsk
        /\ Src(call[c].op) \in branches
    BY DEF ControlInv, CallsAreAsked, Permit, Owns
  <1>2. registry[call[c].op] = "preparing"
    BY <1>1 DEF ControlInv, ControlTyped, EntriesOwned
  <1> QED
    BY <1>1, <1>2 DEF ControlInv, EntriesOwned

\* A permit is registered within the limits.
LEMMA ControlRegister ==
    ASSUME ControlInv, NEW c \in Callers, Register(c)
    PROVE  ControlInv'
  <1> DEFINE k == call[c]
             op == call[c].op
             n == [k EXCEPT !.pc = "seal"]
  <1>0. /\ k \in Calls /\ op \in Ops /\ ask[op] # NoAsk /\ k.pc = "register"
        /\ registry[op] = "free"
    BY DEF ControlInv, ControlTyped, CallsAreAsked, Register, Admissible
  <1>1. /\ registry' = [registry EXCEPT ![op] = "preparing"]
        /\ call' = [call EXCEPT ![c] = n]
        /\ UNCHANGED <<ask, att, gen, branches, active, state, task, launched, stranded>>
    BY DEF Register, disk
  <1>2. n \in Calls /\ n.pc = "seal" /\ n.op = op
    BY <1>0 DEF Calls, Pcs
  <1>3. ControlTyped'
    BY <1>0, <1>1, <1>2 DEF ControlInv, ControlTyped
  <1>4. CallsAreAsked' /\ RowsAgree'
    BY <1>0, <1>1, <1>2 DEF ControlInv, ControlTyped, CallsAreAsked, RowsAgree, Src
  <1>5. EntriesOwned'
    <2>1. \A d \in Callers, o \in Ops : d # c => (Owns(d, o)' <=> Owns(d, o))
      BY <1>1 DEF Owns, ControlInv, ControlTyped
    <2>2. \A o \in Ops : Owns(c, o)' <=> o = op
      BY <1>0, <1>1, <1>2 DEF Owns, ControlInv, ControlTyped
    <2>3. \A o \in Ops : ~ Owns(c, o)
      BY <1>0 DEF Owns
    <2>4. task[op] = "none" /\ \A d \in Callers : ~ Owns(d, op)
      BY <1>0 DEF ControlInv, EntriesOwned
    <2>5. registry \in [Ops -> {"free", "preparing", "running"}]
      BY DEF ControlInv, ControlTyped
    <2> HIDE DEF op
    <2> QED
      BY <1>0, <1>1, <2>1, <2>2, <2>3, <2>4, <2>5 DEF ControlInv, EntriesOwned
  <1>6. SpawnedByItsAppend'
    <2>1. \A d \in Callers : /\ call'[d].pc = "start" <=> call[d].pc = "start"
                             /\ call'[d].op = call[d].op
      BY <1>0, <1>1, <1>2 DEF ControlInv, ControlTyped
    <2> QED
      BY <1>1, <2>1 DEF ControlInv, SpawnedByItsAppend, StartsHold, TasksHold, Served
  <1>7. WithinLimits'
    <2>1. Held' = Held \cup {op} /\ op \notin Held
      BY <1>0, <1>1 DEF Held, ControlInv, ControlTyped
    <2>2. IsFiniteSet(Held) /\ Cardinality(Held) < MaxConversation
      BY DEF ControlInv, WithinLimits, Register, Admissible, Held
    <2>3. IsFiniteSet(Held') /\ Cardinality(Held') = Cardinality(Held) + 1
      BY <2>1, <2>2, FS_AddElement
    <2>4. ASSUME NEW p \in Range(ProviderOf)
          PROVE  Cardinality({o \in Held' : ProviderOf[o] = p}) <= MaxProvider
      <3> DEFINE S == {o \in Held : ProviderOf[o] = p}
      <3>1. IsFiniteSet(S) /\ Cardinality(S) \in Nat
        BY <2>2, FS_Subset, FS_CardinalityType
      <3>2. CASE p = ProviderOf[op]
        <4>1. {o \in Held' : ProviderOf[o] = p} = S \cup {op} /\ op \notin S
          BY <2>1, <3>2
        <4>2. Cardinality(S) < MaxProvider
          BY <3>2 DEF Register, Admissible, Held
        <4>3. Cardinality(S \cup {op}) = Cardinality(S) + 1
          BY <3>1, <4>1, FS_AddElement
        <4> QED
          BY <3>1, <4>1, <4>2, <4>3, DispatchConstants
      <3>3. CASE p # ProviderOf[op]
        <4>1. {o \in Held' : ProviderOf[o] = p} = S
          BY <2>1, <3>3
        <4> QED
          BY <4>1 DEF ControlInv, WithinLimits
      <3> QED
        BY <3>2, <3>3
    <2>5. Cardinality(Held) \in Nat
      BY <2>2, FS_CardinalityType
    <2> QED
      BY <2>2, <2>3, <2>4, <2>5, DispatchConstants DEF WithinLimits
  <1> QED
    BY <1>3, <1>4, <1>5, <1>6, <1>7 DEF ControlInv

\* Freeing an entry keeps the limits.
LEMMA FreeingKeepsLimits ==
    ASSUME ControlInv, NEW R, registry' = R,
           {op \in Ops : R[op] # "free"} \subseteq Held
    PROVE  WithinLimits'
  <1>1. Held' \subseteq Held /\ IsFiniteSet(Held)
    BY DEF Held, ControlInv, WithinLimits
  <1>2. /\ IsFiniteSet(Held') /\ Cardinality(Held') <= Cardinality(Held)
        /\ Cardinality(Held') \in Nat /\ Cardinality(Held) \in Nat
    BY <1>1, FS_Subset, FS_CardinalityType
  <1>3. ASSUME NEW p \in Range(ProviderOf)
        PROVE  Cardinality({o \in Held' : ProviderOf[o] = p}) <= MaxProvider
    <2> DEFINE S == {o \in Held : ProviderOf[o] = p}
               T == {o \in Held' : ProviderOf[o] = p}
    <2>1. IsFiniteSet(S) /\ T \in SUBSET S
      BY <1>1, FS_Subset
    <2>2. Cardinality(T) <= Cardinality(S) /\ Cardinality(S) \in Nat /\ Cardinality(T) \in Nat
      BY <2>1, FS_Subset, FS_CardinalityType
    <2>3. Cardinality(S) <= MaxProvider
      BY DEF ControlInv, WithinLimits
    <2> HIDE DEF S, T
    <2>4. Cardinality(T) <= MaxProvider
      BY <2>2, <2>3, DispatchConstants
    <2> QED
      BY <2>4 DEF T
  <1>4. Cardinality(Held) <= MaxConversation
    BY DEF ControlInv, WithinLimits
  <1> QED
    BY <1>2, <1>3, <1>4, DispatchConstants DEF WithinLimits

\* The user decides a proposal.
LEMMA ControlDecide ==
    ASSUME ControlInv, NEW op \in Ops, Decide(op)
    PROVE  ControlInv'
  <1> DEFINE row == att[op]
  <1>0. /\ row \in Attempts /\ row.st = "awaiting_approval"
        /\ row.open \in Nat /\ row.open # 0 /\ row.made \in Nat /\ row.rev \in Nat
    BY DEF ControlInv, ControlTyped, RowsAgree, Decide, Attempts
  <1>1. PICK m \in 0 .. MaxProposals - row.made : att' = [att EXCEPT ![op] = Decided(@, m)]
    BY DEF Decide
  <1> DEFINE left == row.open - 1 + m
             made == row.made + m
             staged == [row EXCEPT !.open = left, !.made = made]
             r == IF left = 0 THEN Advanced(staged, "before_applied") ELSE staged
  <1>2. left \in Nat /\ made \in Nat
    <2>1. MaxProposals - row.made \in Int
      BY <1>0, DispatchConstants
    <2>2. m \in Nat
      BY <2>1
    <2> QED
      BY <1>0, <2>2
  <1>3. staged \in Attempts /\ staged.open = left /\ staged.st = "awaiting_approval"
    <2> HIDE DEF left, made
    <2> QED
      BY <1>0, <1>2 DEF Attempts
  <1>4. att' = [att EXCEPT ![op] = r]
    BY <1>0, <1>1 DEF Decided, Attempts
  <1> HIDE DEF left, made, staged
  <1>5. /\ r \in Attempts /\ r.st \in {"before_applied", "awaiting_approval"}
        /\ r.st = "awaiting_approval" <=> r.open # 0
    <2>1. CASE left = 0
      BY <1>3, <2>1, AdvancedTypes DEF Statuses
    <2>2. CASE left # 0
      BY <1>3, <2>2
    <2> QED
      BY <2>1, <2>2
  <1>6. UNCHANGED <<ask, gen, branches, active, state, call, registry, task, launched, stranded>>
    BY DEF Decide, process
  <1> HIDE DEF r
  <1>7. att' \in [Ops -> Attempts] /\ RowsAgree'
    BY <1>0, <1>4, <1>5, <1>6, AttemptMoves
  <1>8. ControlTyped' /\ CallsAreAsked'
    BY <1>6, <1>7 DEF ControlInv, ControlTyped, CallsAreAsked, Src
  <1>9. EntriesOwned' /\ SpawnedByItsAppend' /\ WithinLimits'
    BY <1>6 DEF ControlInv, EntriesOwned, Owns, SpawnedByItsAppend, StartsHold, TasksHold, Served, WithinLimits, Held
  <1> QED
    BY <1>7, <1>8, <1>9 DEF ControlInv

\* A caller with a permit goes on: its owner is the same.
LEMMA OwnerMoves ==
    ASSUME ControlInv, NEW c \in Callers, Permit(c), NEW pc \in {"append", "start"},
           call' = [call EXCEPT ![c].pc = pc],
           UNCHANGED <<registry, task>>
    PROVE  /\ call' \in [Callers -> Calls]
           /\ \A d \in Callers : call'[d].op = call[d].op /\ (d # c => call'[d] = call[d])
           /\ call'[c].pc = pc
           /\ EntriesOwned' /\ WithinLimits'
  <1> DEFINE n == [call[c] EXCEPT !.pc = pc]
  <1>0. call \in [Callers -> Calls]
    BY DEF ControlInv, ControlTyped
  <1>1. n \in Calls /\ n.pc = pc /\ n.op = call[c].op
    BY <1>0 DEF Calls, Pcs
  <1>2. call' = [call EXCEPT ![c] = n]
    OBVIOUS
  <1>3. call' \in [Callers -> Calls] /\ call'[c] = n /\ \A d \in Callers : d # c => call'[d] = call[d]
    BY <1>0, <1>1, <1>2
  <1>4. \A d \in Callers : call'[d].op = call[d].op
    BY <1>1, <1>3
  <1>5. \A d \in Callers, op \in Ops : Owns(d, op)' <=> Owns(d, op)
    BY <1>1, <1>3 DEF Owns, Permit
  <1>6. EntriesOwned'
    BY <1>5 DEF ControlInv, EntriesOwned
  <1>7. WithinLimits'
    BY DEF ControlInv, WithinLimits, Held
  <1> QED
    BY <1>1, <1>3, <1>4, <1>6, <1>7

\* A caller seals the attempt it read.
LEMMA ControlSeal ==
    ASSUME ControlInv, NEW c \in Callers, Seal(c)
    PROVE  ControlInv'
  <1> DEFINE k == call[c]
             op == call[c].op
             r == [Advanced(att[op], "dispatch_ready") EXCEPT !.plan = k.plan]
  <1>0. /\ k \in Calls /\ k.pc = "seal" /\ Permit(c) /\ k.plan \in Plans \cup {"none"}
        /\ att \in [Ops -> Attempts]
    BY DEF ControlInv, ControlTyped, Seal, Permit, Calls
  <1>1. op \in Ops /\ ask[op] # NoAsk /\ att[op] \in Attempts
    BY <1>0, PermitIsOwner
  <1>2. /\ call' = [call EXCEPT ![c].pc = "append"]
        /\ UNCHANGED <<ask, gen, branches, active, state, registry, task, launched, stranded>>
        /\ \/ att' = att
           \/ att[op].st = "before_applied" /\ att' = [att EXCEPT ![op] = r]
    BY DEF Seal
  <1>3. /\ call' \in [Callers -> Calls]
        /\ \A d \in Callers : call'[d].op = call[d].op /\ (d # c => call'[d] = call[d])
        /\ call'[c].pc = "append"
        /\ EntriesOwned' /\ WithinLimits'
    BY <1>0, <1>2, OwnerMoves
  <1>4. att' \in [Ops -> Attempts] /\ RowsAgree'
    <2>1. CASE att' = att
      BY <1>0, <1>2, <2>1 DEF ControlInv, RowsAgree
    <2>2. CASE att[op].st = "before_applied" /\ att' = [att EXCEPT ![op] = r]
      <3>1. r \in Attempts /\ r.st = "dispatch_ready" /\ r.open = att[op].open
        BY <1>0, <1>1, AdvancedTypes DEF Attempts, Statuses
      <3>2. att[op].open = 0
        BY <1>1, <2>2 DEF ControlInv, RowsAgree
      <3> HIDE DEF r
      <3> QED
        BY <1>1, <1>2, <2>2, <3>1, <3>2, AttemptMoves
    <2> QED
      BY <1>2, <2>1, <2>2
  <1>5. ControlTyped' /\ CallsAreAsked'
    BY <1>0, <1>1, <1>2, <1>3, <1>4 DEF ControlInv, ControlTyped, CallsAreAsked, Src
  <1>6. SpawnedByItsAppend'
    BY <1>0, <1>2, <1>3 DEF ControlInv, SpawnedByItsAppend, StartsHold, TasksHold, Served
  <1> QED
    BY <1>3, <1>4, <1>5, <1>6 DEF ControlInv

\* A caller that gives its permit back leaves, and nobody owns the entry.
LEMMA PermitDropped ==
    ASSUME ControlInv, NEW c \in Callers, Permit(c),
           call' = [call EXCEPT ![c] = Idle],
           registry' = [registry EXCEPT ![call[c].op] = "free"],
           UNCHANGED task
    PROVE  /\ call' \in [Callers -> Calls]
           /\ registry' \in [Ops -> {"free", "preparing", "running"}]
           /\ call'[c].pc = "idle" /\ \A d \in Callers : d # c => call'[d] = call[d]
           /\ EntriesOwned' /\ WithinLimits'
  <1> DEFINE op == call[c].op
  <1>0. /\ call \in [Callers -> Calls] /\ registry \in [Ops -> {"free", "preparing", "running"}]
    BY DEF ControlInv, ControlTyped
  <1>1. Idle \in Calls /\ Idle.pc = "idle"
    BY DEF Idle, Calls, Pcs, Statuses
  <1>2. \A d \in Callers : d # c => call'[d] = call[d]
    BY <1>0
  <1>3. call'[c].pc = "idle" /\ call' \in [Callers -> Calls]
    BY <1>0, <1>1
  <1>4. \A o \in Ops, d \in Callers : Owns(d, o)' <=> d # c /\ Owns(d, o)
    BY <1>2, <1>3 DEF Owns
  <1>5. op \in Ops /\ task[op] = "none" /\ \A d \in Callers : Owns(d, op) => d = c
    BY PermitIsOwner
  <1>6. \A o \in Ops : ~ (o # op /\ Owns(c, o))
    BY DEF Owns
  <1>7. registry' = [registry EXCEPT ![op] = "free"]
    OBVIOUS
  <1>8. EntriesOwned'
    <2> HIDE DEF op
    <2> QED
      BY <1>0, <1>4, <1>5, <1>6, <1>7 DEF ControlInv, EntriesOwned
  <1>9. {o \in Ops : registry'[o] # "free"} \subseteq Held
    BY <1>0, <1>7 DEF Held
  <1>10. WithinLimits'
    BY <1>7, <1>9, FreeingKeepsLimits
  <1> QED
    BY <1>0, <1>2, <1>3, <1>8, <1>10

\* The append transaction of a sealed attempt, on a branch or on a new one.
LEMMA ControlAppend ==
    ASSUME ControlInv, NEW c \in Callers, AppendSend(c) \/ AppendFork(c)
    PROVE  ControlInv'
  <1> DEFINE k == call[c]
             op == call[c].op
             r == Advanced(att[op], "running")
  <1>0. /\ k.pc = "append" /\ Permit(c) /\ att \in [Ops -> Attempts]
        /\ gen \in [Ops -> {"none", "running", "completed"}]
    BY DEF ControlInv, ControlTyped, AppendSend, AppendFork, Permit
  <1>1. /\ op \in Ops /\ ask[op] # NoAsk /\ att[op] \in Attempts
        /\ task[op] = "none" /\ Owns(c, op) /\ Src(op) \in branches
        /\ \A d \in Callers : Owns(d, op) => d = c
    BY <1>0, PermitIsOwner
  <1>2. /\ Answered(c)
        /\ UNCHANGED <<ask, task, launched>>
        /\ att' = [att EXCEPT ![op] = r] /\ gen' = [gen EXCEPT ![op] = "running"]
        /\ att[op].st = "dispatch_ready"
    <2>1. Began(op) /\ Sealed(op, k.plan)
      BY DEF AppendSend, AppendFork
    <2>2. Answered(c) /\ UNCHANGED <<ask, task, launched>>
      BY DEF AppendSend, AppendFork
    <2> QED
      BY <2>1, <2>2 DEF Began, Sealed
  <1>3. att[op].open = 0 /\ gen[op] = "none" /\ op \notin stranded
    BY <1>0, <1>1, <1>2 DEF ControlInv, RowsAgree, SpawnedByItsAppend
  <1>4. r \in Attempts /\ r.st = "running" /\ r.open = 0
    BY <1>1, <1>3, AdvancedTypes DEF Statuses
  <1> HIDE DEF r
  <1>5. RowsAgree'
    BY <1>0, <1>1, <1>2, <1>4 DEF ControlInv, RowsAgree
  <1>6. /\ branches' \subseteq Branches /\ branches \subseteq branches'
        /\ active' \in branches' /\ state' \in [Branches -> Nat]
    <2>0. /\ branches \subseteq Branches /\ active \in branches /\ state \in [Branches -> Nat]
      BY DEF ControlInv, ControlTyped
    <2>1. CASE AppendSend(c)
      <3>1. /\ UNCHANGED <<branches, active>>
            /\ state' = [state EXCEPT ![Src(op)] = @ + att[op].effect]
        BY <2>1 DEF AppendSend
      <3>2. state[Src(op)] + att[op].effect \in Nat
        BY <1>1, <2>0 DEF Attempts
      <3> QED
        BY <2>0, <3>1, <3>2
    <2>2. CASE AppendFork(c)
      <3>1. /\ branches' = branches \cup {op} /\ active' = op /\ state' = state /\ op \in Forks
        BY <2>2 DEF AppendFork
      <3> QED
        BY <2>0, <3>1 DEF Branches
    <2> QED
      BY <2>1, <2>2
  <1>7. /\ \A d \in Callers : call[d].pc = "start" => call[d].op \in Ops /\ call[d].op # op /\ d # c
        /\ \A o \in Ops : o # op => gen'[o] = gen[o]
        /\ gen'[op] = "running" /\ launched[op] = 0
    BY <1>0, <1>1, <1>2, <1>3 DEF Owns, ControlInv, CallsAreAsked, SpawnedByItsAppend
  <1>8. /\ call' \in [Callers -> Calls]
        /\ registry' \in [Ops -> {"free", "preparing", "running"}]
        /\ \A d \in Callers : d # c => call'[d] = call[d]
        /\ EntriesOwned' /\ WithinLimits'
        /\ \/ call'[c].pc = "start" /\ call'[c].op = op /\ stranded' = stranded
           \/ call'[c].pc = "idle" /\ stranded' = stranded \cup {op}
    <2>1. CASE call' = [call EXCEPT ![c].pc = "start"] /\ UNCHANGED <<registry, stranded>>
      <3>1. /\ call' \in [Callers -> Calls]
            /\ \A d \in Callers : call'[d].op = call[d].op /\ (d # c => call'[d] = call[d])
            /\ call'[c].pc = "start"
            /\ EntriesOwned' /\ WithinLimits'
        BY <1>0, <1>2, <2>1, OwnerMoves
      <3> QED
        BY <2>1, <3>1 DEF ControlInv, ControlTyped
    <2>2. CASE /\ call' = [call EXCEPT ![c] = Idle]
               /\ registry' = [registry EXCEPT ![call[c].op] = "free"]
               /\ stranded' = stranded \cup {call[c].op}
      <3>1. /\ call' \in [Callers -> Calls]
            /\ registry' \in [Ops -> {"free", "preparing", "running"}]
            /\ call'[c].pc = "idle" /\ \A d \in Callers : d # c => call'[d] = call[d]
            /\ EntriesOwned' /\ WithinLimits'
        BY <1>0, <1>2, <2>2, PermitDropped
      <3> QED
        BY <2>2, <3>1
    <2> QED
      BY <1>2, <2>1, <2>2 DEF Answered
  <1> HIDE DEF op
  <1>9. ControlTyped'
    BY <1>0, <1>1, <1>2, <1>4, <1>6, <1>8 DEF ControlInv, ControlTyped
  <1>10. CallsAreAsked'
    BY <1>0, <1>1, <1>2, <1>6, <1>8 DEF ControlInv, CallsAreAsked, Src
  <1>11. StartsHold'
    <2> SUFFICES ASSUME NEW d \in Callers, call'[d].pc = "start"
                 PROVE  /\ gen'[call'[d].op] = "running" /\ launched'[call'[d].op] = 0
                        /\ call'[d].op \notin stranded'
      BY DEF StartsHold
    <2>1. CASE d = c
      BY <1>2, <1>3, <1>7, <1>8, <2>1
    <2>2. CASE d # c
      <3>1. call'[d] = call[d] /\ call[d].op \in Ops /\ call[d].op # op
        BY <1>7, <1>8, <2>2
      <3>2. /\ gen[call[d].op] = "running" /\ launched[call[d].op] = 0
            /\ call[d].op \notin stranded
        BY <3>1 DEF ControlInv, SpawnedByItsAppend, StartsHold
      <3> QED
        BY <1>2, <1>7, <1>8, <3>1, <3>2
    <2> QED
      BY <2>1, <2>2
  <1>12. ASSUME NEW o \in Ops, gen'[o] = "running", o \notin stranded'
         PROVE  Served(o)'
    <2>1. CASE o = op
      <3>1. call'[c].op = o /\ call'[c].pc = "start"
        BY <1>8, <1>12, <2>1
      <3> QED
        BY <3>1 DEF Served
    <2>2. CASE o # op
      <3>1. Served(o)
        BY <1>7, <1>8, <1>12, <2>2 DEF ControlInv, SpawnedByItsAppend
      <3>2. \A d \in Callers : call[d].pc = "start" => call'[d] = call[d]
        BY <1>7, <1>8
      <3> QED
        BY <1>2, <3>1, <3>2 DEF Served
    <2> QED
      BY <2>1, <2>2
  <1>13. TasksHold'
    <2>1. ASSUME NEW o \in Ops
          PROVE  /\ task'[o] = "run" => gen'[o] = "running" /\ o \notin stranded'
                 /\ task'[o] = "closing" => gen'[o] # "running" \/ o \in stranded'
      <3>1. CASE o = op
        BY <1>1, <1>2, <3>1
      <3>2. CASE o # op
        BY <1>2, <1>7, <1>8, <3>2 DEF ControlInv, SpawnedByItsAppend, TasksHold
      <3> QED
        BY <3>1, <3>2
    <2> QED
      BY <2>1 DEF TasksHold
  <1>14. /\ \A o \in Ops : launched'[o] <= 1 /\ (gen'[o] = "none" => launched'[o] = 0)
         /\ \A o \in stranded' : gen'[o] = "running"
    <2>1. stranded \subseteq Ops
      BY DEF ControlInv, ControlTyped
    <2> QED
      BY <1>2, <1>7, <1>8, <2>1 DEF ControlInv, SpawnedByItsAppend
  <1>15. SpawnedByItsAppend'
    BY <1>11, <1>12, <1>13, <1>14 DEF SpawnedByItsAppend
  <1> QED
    BY <1>5, <1>8, <1>9, <1>10, <1>15 DEF ControlInv

\* A caller without a task ahead of it leaves, and drops its permit if it has one.
LEMMA ControlGiveUp ==
    ASSUME ControlInv, NEW c \in Callers, GiveUp(c)
    PROVE  ControlInv'
  <1> DEFINE op == call[c].op
  <1>0. /\ call \in [Callers -> Calls] /\ registry \in [Ops -> {"free", "preparing", "running"}]
        /\ call[c].pc \notin {"idle", "start"}
        /\ call' = [call EXCEPT ![c] = Idle]
        /\ UNCHANGED <<ask, att, gen, branches, active, state, task, launched, stranded>>
    BY DEF ControlInv, ControlTyped, GiveUp, disk
  <1>1. Idle \in Calls /\ Idle.pc = "idle"
    BY DEF Idle, Calls, Pcs, Statuses
  <1>2. \A d \in Callers : d # c => call'[d] = call[d]
    BY <1>0
  <1>3. call'[c].pc = "idle" /\ call' \in [Callers -> Calls]
    BY <1>0, <1>1
  <1>4. \A d \in Callers : call'[d].pc # "idle" => call'[d] = call[d]
    BY <1>2, <1>3
  <1>5. \A o \in Ops, d \in Callers : Owns(d, o)' <=> d # c /\ Owns(d, o)
    BY <1>2, <1>3 DEF Owns
  <1>6. SpawnedByItsAppend'
    <2>1. \A d \in Callers : call[d].pc = "start" => call'[d] = call[d]
      BY <1>0, <1>2
    <2> QED
      BY <1>0, <1>4, <2>1 DEF ControlInv, SpawnedByItsAppend, StartsHold, TasksHold, Served
  <1>7. CallsAreAsked' /\ RowsAgree'
    BY <1>0, <1>4 DEF ControlInv, CallsAreAsked, RowsAgree, Src
  <1>8. CASE ~ Permit(c)
    <2>1. registry' = registry
      BY <1>8 DEF GiveUp
    <2>2. \A o \in Ops : ~ Owns(c, o)
      BY <1>8 DEF Permit, Owns
    <2>3. ControlTyped'
      BY <1>0, <1>3, <2>1 DEF ControlInv, ControlTyped
    <2>4. EntriesOwned'
      BY <1>0, <1>5, <2>1, <2>2 DEF ControlInv, EntriesOwned
    <2>5. WithinLimits'
      BY <2>1 DEF ControlInv, WithinLimits, Held
    <2> QED
      BY <1>6, <1>7, <2>3, <2>4, <2>5 DEF ControlInv
  <1>9. CASE Permit(c)
    <2>1. registry' = [registry EXCEPT ![op] = "free"]
      BY <1>9 DEF GiveUp
    <2>2. EntriesOwned' /\ WithinLimits' /\ registry' \in [Ops -> {"free", "preparing", "running"}]
      BY <1>0, <1>9, <2>1, PermitDropped
    <2>3. ControlTyped'
      BY <1>0, <1>3, <2>2 DEF ControlInv, ControlTyped
    <2> QED
      BY <1>6, <1>7, <2>2, <2>3 DEF ControlInv
  <1> QED
    BY <1>8, <1>9

\* The call that appended spawns the task and hands it the registry entry.
LEMMA ControlStart ==
    ASSUME ControlInv, NEW c \in Callers, Start(c)
    PROVE  ControlInv'
  <1> DEFINE op == call[c].op
  <1>0. /\ call \in [Callers -> Calls] /\ registry \in [Ops -> {"free", "preparing", "running"}]
        /\ task \in [Ops -> {"none", "run", "closing"}] /\ launched \in [Ops -> Nat]
        /\ call[c].pc = "start" /\ Permit(c)
    BY DEF ControlInv, ControlTyped, Start, Permit
  <1>1. /\ registry' = [registry EXCEPT ![op] = "running"]
        /\ task' = [task EXCEPT ![op] = "run"]
        /\ launched' = [launched EXCEPT ![op] = @ + 1]
        /\ call' = [call EXCEPT ![c] = Idle]
        /\ UNCHANGED <<ask, att, gen, branches, active, state, stranded>>
    BY DEF Start, disk
  <1>2. /\ op \in Ops /\ task[op] = "none" /\ registry[op] = "preparing"
        /\ \A d \in Callers : Owns(d, op) => d = c
    BY <1>0, PermitIsOwner
  <1>3. Idle \in Calls /\ Idle.pc = "idle"
    BY DEF Idle, Calls, Pcs, Statuses
  <1>4. /\ \A d \in Callers : d # c => call'[d] = call[d]
        /\ call'[c].pc = "idle" /\ call' \in [Callers -> Calls]
    BY <1>0, <1>1, <1>3
  <1>5. \A o \in Ops, d \in Callers : Owns(d, o)' <=> d # c /\ Owns(d, o)
    BY <1>4 DEF Owns
  <1>6. ControlTyped'
    <2>1. launched[op] + 1 \in Nat
      BY <1>0, <1>2
    <2>2. launched' \in [Ops -> Nat]
      BY <1>0, <1>1, <2>1
    <2> QED
      BY <1>0, <1>1, <1>4, <2>2 DEF ControlInv, ControlTyped
  <1>7. CallsAreAsked' /\ RowsAgree'
    BY <1>1, <1>4 DEF ControlInv, CallsAreAsked, RowsAgree, Src
  <1>8. EntriesOwned'
    <2>1. \A o \in Ops : ~ (o # op /\ Owns(c, o))
      BY DEF Owns
    <2> HIDE DEF op
    <2> QED
      BY <1>0, <1>1, <1>2, <1>5, <2>1 DEF ControlInv, EntriesOwned
  <1>9. SpawnedByItsAppend'
    <2>1. gen[op] = "running" /\ launched[op] = 0 /\ op \notin stranded
      BY <1>0 DEF ControlInv, SpawnedByItsAppend, StartsHold
    <2>2. \A d \in Callers : call'[d].pc = "start" =>
            /\ call[d] = call'[d] /\ call[d].pc = "start" /\ call[d].op # op /\ call[d].op \in Ops
      BY <1>2, <1>4 DEF Owns, ControlInv, CallsAreAsked
    <2>3. StartsHold'
      BY <1>0, <1>1, <2>2 DEF ControlInv, SpawnedByItsAppend, StartsHold
    <2>4. ASSUME NEW o \in Ops, gen'[o] = "running", o \notin stranded'
          PROVE  Served(o)'
      <3>1. CASE o = op
        BY <1>0, <1>1, <3>1 DEF Served
      <3>2. CASE o # op
        <4>1. \A d \in Callers : call[d].op = o => call'[d] = call[d]
          BY <1>4, <3>2
        <4>2. Served(o)
          BY <1>1, <2>4 DEF ControlInv, SpawnedByItsAppend
        <4>3. task'[o] = task[o]
          BY <1>0, <1>1, <3>2
        <4> QED
          BY <4>1, <4>2, <4>3 DEF Served
      <3> QED
        BY <3>1, <3>2
    <2>5. /\ \A o \in Ops : launched'[o] <= 1 /\ (gen'[o] = "none" => launched'[o] = 0)
          /\ TasksHold'
      <3>1. launched'[op] = 1 /\ task'[op] = "run"
        BY <1>0, <1>1, <1>2, <2>1
      <3>2. \A o \in Ops : o # op => launched'[o] = launched[o] /\ task'[o] = task[o]
        BY <1>0, <1>1
      <3> HIDE DEF op
      <3> QED
        BY <1>1, <2>1, <3>1, <3>2 DEF ControlInv, SpawnedByItsAppend, TasksHold
    <2>6. \A o \in stranded' : gen'[o] = "running"
      BY <1>1 DEF ControlInv, SpawnedByItsAppend
    <2> QED
      BY <2>3, <2>4, <2>5, <2>6 DEF SpawnedByItsAppend
  <1>10. WithinLimits'
    <2>1. {o \in Ops : registry'[o] # "free"} \subseteq Held
      BY <1>0, <1>1, <1>2 DEF Held
    <2> QED
      BY <1>1, <2>1, FreeingKeepsLimits
  <1> QED
    BY <1>6, <1>7, <1>8, <1>9, <1>10 DEF ControlInv

\* A task ends, and frees its entry.
LEMMA ControlEnds ==
    ASSUME ControlInv, NEW op \in Ops, Finish(op) \/ FinishFails(op) \/ Free(op)
    PROVE  ControlInv'
  <1>0. /\ registry \in [Ops -> {"free", "preparing", "running"}]
        /\ task \in [Ops -> {"none", "run", "closing"}] /\ att \in [Ops -> Attempts]
        /\ gen \in [Ops -> {"none", "running", "completed"}]
    BY DEF ControlInv, ControlTyped
  <1>1. registry[op] = "running"
    BY <1>0 DEF ControlInv, EntriesOwned, Finish, FinishFails, Free
  <1>2. \A c \in Callers : ~ Owns(c, op)
    BY <1>1 DEF ControlInv, EntriesOwned
  <1>3. CASE Finish(op)
    <2> DEFINE r == Advanced(att[op], "completed")
    <2>1. /\ gen' = [gen EXCEPT ![op] = "completed"]
          /\ att' = [att EXCEPT ![op] = r] /\ task' = [task EXCEPT ![op] = "closing"]
          /\ UNCHANGED <<ask, branches, active, state, call, registry, launched, stranded>>
          /\ task[op] = "run"
      BY <1>3 DEF Finish
    <2>2. r \in Attempts /\ r.st = "completed" /\ r.open = att[op].open
      BY <1>0, AdvancedTypes DEF Statuses
    <2> HIDE DEF r
    <2>3. gen[op] = "running" /\ op \notin stranded
      BY <2>1 DEF ControlInv, SpawnedByItsAppend, TasksHold
    <2>4. RowsAgree'
      BY <1>0, <2>1, <2>2, <2>3 DEF ControlInv, RowsAgree
    <2>5. ControlTyped' /\ CallsAreAsked'
      BY <1>0, <2>1, <2>2, <2>3 DEF ControlInv, ControlTyped, CallsAreAsked, Src
    <2>6. EntriesOwned'
      BY <1>0, <1>1, <2>1 DEF ControlInv, EntriesOwned, Owns
    <2>7. \A c \in Callers : call[c].pc = "start" => call[c].op # op /\ call[c].op \in Ops
      BY <1>2 DEF Owns, ControlInv, CallsAreAsked
    <2>8. SpawnedByItsAppend'
      BY <1>0, <2>1, <2>3, <2>7 DEF ControlInv, SpawnedByItsAppend, StartsHold, TasksHold, Served
    <2>9. WithinLimits'
      BY <2>1 DEF ControlInv, WithinLimits, Held
    <2> QED
      BY <2>4, <2>5, <2>6, <2>8, <2>9 DEF ControlInv
  <1>4. CASE Free(op)
    <2>1. /\ task' = [task EXCEPT ![op] = "none"] /\ registry' = [registry EXCEPT ![op] = "free"]
          /\ UNCHANGED <<ask, att, gen, branches, active, state, call, launched, stranded>>
          /\ task[op] = "closing"
      BY <1>4 DEF Free, disk
    <2>2. ControlTyped' /\ CallsAreAsked' /\ RowsAgree'
      BY <1>0, <2>1 DEF ControlInv, ControlTyped, CallsAreAsked, RowsAgree, Src
    <2>3. EntriesOwned'
      BY <1>0, <1>1, <1>2, <2>1 DEF ControlInv, EntriesOwned, Owns
    <2>4. SpawnedByItsAppend'
      BY <1>0, <2>1 DEF ControlInv, SpawnedByItsAppend, StartsHold, TasksHold, Served
    <2>5. {o \in Ops : registry'[o] # "free"} \subseteq Held
      BY <1>0, <2>1 DEF Held
    <2>6. WithinLimits'
      BY <2>1, <2>5, FreeingKeepsLimits
    <2> QED
      BY <2>2, <2>3, <2>4, <2>6 DEF ControlInv
  <1>5. CASE FinishFails(op)
    <2>1. /\ task' = [task EXCEPT ![op] = "closing"] /\ stranded' = stranded \cup {op}
          /\ UNCHANGED <<ask, att, gen, branches, active, state, call, registry, launched>>
          /\ task[op] = "run"
      BY <1>5 DEF FinishFails, disk
    <2>2. ControlTyped' /\ CallsAreAsked' /\ RowsAgree'
      BY <1>0, <2>1 DEF ControlInv, ControlTyped, CallsAreAsked, RowsAgree, Src
    <2>3. EntriesOwned'
      BY <1>0, <1>1, <2>1 DEF ControlInv, EntriesOwned, Owns
    <2>4. \A c \in Callers : call[c].pc = "start" => call[c].op # op
      BY <1>2 DEF Owns
    <2>5. SpawnedByItsAppend'
      BY <1>0, <2>1, <2>4 DEF ControlInv, SpawnedByItsAppend, StartsHold, TasksHold, Served
    <2>6. WithinLimits'
      BY <2>1 DEF ControlInv, WithinLimits, Held
    <2> QED
      BY <2>2, <2>3, <2>5, <2>6 DEF ControlInv
  <1> QED
    BY <1>3, <1>4, <1>5

\* The user's changes of a branch leave the control alone.
LEMMA ControlBranches ==
    ASSUME ControlInv, NEW b \in Branches,
           RemoveMessage(b) \/ SelectBranch(b) \/ ChangeState(b)
    PROVE  ControlInv'
  <1>1. UNCHANGED <<ask, att, gen, branches, call, registry, task, launched, stranded>>
    BY DEF RemoveMessage, SelectBranch, ChangeState, process
  <1>2. active' \in branches /\ state' \in [Branches -> Nat]
    <2>0. active \in branches /\ state \in [Branches -> Nat]
      BY DEF ControlInv, ControlTyped
    <2>1. CASE RemoveMessage(b)
      BY <2>0, <2>1 DEF RemoveMessage
    <2>2. CASE SelectBranch(b)
      BY <2>0, <2>2 DEF SelectBranch
    <2>3. CASE ChangeState(b)
      <3>1. state[b] + 1 \in Nat
        BY <2>0
      <3> QED
        BY <2>0, <2>3, <3>1 DEF ChangeState
    <2> QED
      BY <2>1, <2>2, <2>3
  <1>3. ControlTyped'
    BY <1>1, <1>2 DEF ControlInv, ControlTyped
  <1>4. CallsAreAsked' /\ RowsAgree' /\ EntriesOwned' /\ SpawnedByItsAppend' /\ WithinLimits'
    BY <1>1 DEF ControlInv, CallsAreAsked, RowsAgree, EntriesOwned, Owns, SpawnedByItsAppend, StartsHold, TasksHold, Served,
                WithinLimits, Held, Src
  <1> QED
    BY <1>3, <1>4 DEF ControlInv

\* A restart closes what was running and forgets callers, permits and tasks.
LEMMA ControlRestart == ControlInv /\ Restart => ControlInv'
  <1> SUFFICES ASSUME ControlInv, Restart PROVE ControlInv'
    OBVIOUS
  <1> DEFINE cut == {op \in Ops : gen[op] = "running"}
  <1>0. att \in [Ops -> Attempts] /\ gen \in [Ops -> {"none", "running", "completed"}]
    BY DEF ControlInv, ControlTyped
  <1>1. /\ call' = [c \in Callers |-> Idle] /\ registry' = [op \in Ops |-> "free"]
        /\ task' = [op \in Ops |-> "none"]
        /\ UNCHANGED <<ask, branches, active, state, launched>> /\ stranded' = {}
    BY DEF Restart
  <1>2. /\ gen' = [op \in Ops |-> IF op \in cut THEN "completed" ELSE gen[op]]
        /\ att' = [op \in Ops |-> IF op \in cut THEN Advanced(att[op], "completed") ELSE att[op]]
    BY DEF Restart, Recovered
  <1>3. Idle \in Calls /\ Idle.pc = "idle"
    BY DEF Idle, Calls, Pcs, Statuses
  <1>4. \A op \in Ops : /\ Advanced(att[op], "completed") \in Attempts
                        /\ Advanced(att[op], "completed").st = "completed"
                        /\ Advanced(att[op], "completed").open = att[op].open
    BY <1>0, AdvancedTypes DEF Statuses
  <1>5. att' \in [Ops -> Attempts] /\ gen' \in [Ops -> {"none", "running", "completed"}]
    BY <1>0, <1>2, <1>4
  <1>6. ControlTyped'
    BY <1>1, <1>3, <1>5 DEF ControlInv, ControlTyped
  <1>7. CallsAreAsked'
    BY <1>0, <1>1, <1>2, <1>3 DEF ControlInv, CallsAreAsked, Src
  <1>8. RowsAgree'
    <2> SUFFICES ASSUME NEW op \in Ops
                 PROVE  /\ att'[op].st = "running" <=> gen'[op] = "running"
                        /\ att'[op].st = "completed" <=> gen'[op] = "completed"
                        /\ att'[op].st = "awaiting_approval" <=> att'[op].open # 0
      BY DEF RowsAgree
    <2>1. CASE op \in cut
      <3>1. att[op].st = "running" /\ att[op].open = 0
        BY <2>1 DEF ControlInv, RowsAgree
      <3>2. att'[op] = Advanced(att[op], "completed") /\ gen'[op] = "completed"
        BY <1>2, <2>1
      <3> QED
        BY <1>4, <3>1, <3>2
    <2>2. CASE op \notin cut
      BY <1>2, <2>2 DEF ControlInv, RowsAgree
    <2> QED
      BY <2>1, <2>2
  <1>9. EntriesOwned'
    BY <1>1, <1>3 DEF EntriesOwned, Owns
  <1>10. SpawnedByItsAppend'
    BY <1>0, <1>1, <1>2, <1>3 DEF ControlInv, SpawnedByItsAppend, StartsHold, TasksHold, Served
  <1>11. WithinLimits'
    <2>1. {op \in Ops : registry'[op] # "free"} \subseteq Held
      BY <1>1
    <2> QED
      BY <2>1, FreeingKeepsLimits
  <1> QED
    BY <1>6, <1>7, <1>8, <1>9, <1>10, <1>11 DEF ControlInv

\* Every step keeps the control invariant.
LEMMA ControlStep == ControlInv /\ [Next]_vars => ControlInv'
  <1> SUFFICES ASSUME ControlInv, [Next]_vars PROVE ControlInv'
    OBVIOUS
  <1>1. ASSUME NEW c \in Callers, Step(c) PROVE ControlInv'
    BY <1>1, ControlPrepares, ControlRegister, ControlSeal, ControlAppend, ControlStart DEF Step
  <1>2. ASSUME NEW c \in Callers, GiveUp(c) PROVE ControlInv'
    BY <1>2, ControlGiveUp
  <1>3. ASSUME NEW c \in Callers, NEW op \in Ops, Ask(c, op) \/ CallAgain(c, op) PROVE ControlInv'
    BY <1>3, ControlAsk
  <1>4. ASSUME NEW op \in Ops, Decide(op) \/ Finish(op) \/ FinishFails(op) \/ Free(op)
        PROVE ControlInv'
    BY <1>4, ControlDecide, ControlEnds
  <1>5. ASSUME NEW b \in Branches, RemoveMessage(b) \/ SelectBranch(b) \/ ChangeState(b)
        PROVE ControlInv'
    BY <1>5, ControlBranches
  <1>6. CASE Restart
    BY <1>6, ControlRestart
  <1>7. CASE UNCHANGED vars
    BY <1>7 DEF vars, disk, process, ControlInv, ControlTyped, CallsAreAsked, RowsAgree,
                EntriesOwned, Owns, SpawnedByItsAppend, StartsHold, TasksHold, Served, WithinLimits, Held, Src
  <1> QED
    BY <1>1, <1>2, <1>3, <1>4, <1>5, <1>6, <1>7 DEF Next

\* Throughout every behaviour, attempts, callers, registry and tasks agree.
LEMMA ControlHolds == Spec => []ControlInv
  BY ControlInit, ControlStep, PTL DEF Spec

\* However often an operation is called, by however many callers at once and
\* after a crash, its provider request is launched at most once.
THEOREM LaunchedOnceTheorem == Spec => []LaunchedOnce
  <1>1. ControlInv => LaunchedOnce
    BY DEF ControlInv, SpawnedByItsAppend, LaunchedOnce
  <1> QED
    BY <1>1, ControlHolds, PTL

\* A registry entry has exactly one owner, a launch permit or a task, so the
\* permit of a call that fails never frees another call's entry.
THEOREM EntryHasOneOwnerTheorem == Spec => []EntryHasOneOwner
  <1>1. ControlInv => EntryHasOneOwner
    <2> SUFFICES ASSUME ControlInv, NEW op \in Ops
                 PROVE  LET owners == {c \in Callers : call[c].op = op
                                         /\ call[c].pc \in {"seal", "append", "start"}}
                        IN  Cardinality(owners) + (IF task[op] = "none" THEN 0 ELSE 1)
                              = IF registry[op] = "free" THEN 0 ELSE 1
      BY DEF EntryHasOneOwner
    <2> DEFINE owners == {c \in Callers : call[c].op = op
                            /\ call[c].pc \in {"seal", "append", "start"}}
    <2>1. owners = {c \in Callers : Owns(c, op)}
      BY DEF Owns
    <2>2. registry[op] \in {"free", "preparing", "running"}
      BY DEF ControlInv, ControlTyped
    <2>3. CASE registry[op] # "preparing"
      <3>1. Cardinality(owners) = 0
        BY <2>1, <2>3, FS_EmptySet DEF ControlInv, EntriesOwned
      <3> QED
        BY <2>2, <2>3, <3>1 DEF ControlInv, EntriesOwned
    <2>4. CASE registry[op] = "preparing"
      <3>1. PICK c \in Callers : Owns(c, op) /\ \A d \in Callers : Owns(d, op) => d = c
        BY <2>4 DEF ControlInv, EntriesOwned
      <3>2. owners = {c}
        BY <2>1, <3>1
      <3>3. Cardinality(owners) = 1
        BY <3>2, FS_Singleton
      <3> QED
        BY <2>4, <3>3 DEF ControlInv, EntriesOwned
    <2> QED
      BY <2>3, <2>4
  <1> QED
    BY <1>1, ControlHolds, PTL

\* A generation that runs on disk is served by a task or by the call about to
\* spawn it, or it was stranded by an append or a terminal transaction whose
\* outcome the code could not learn or store, and then nobody serves it; attempt
\* and generation agree, through failures and crashes as well.
THEOREM RunningIsServedTheorem == Spec => []RunningIsServed
  <1>1. ControlInv => RunningIsServed
    BY DEF ControlInv, SpawnedByItsAppend, StartsHold, TasksHold, Served, RowsAgree, RunningIsServed
  <1> QED
    BY <1>1, ControlHolds, PTL

\* Nothing is dispatched for an attempt with an undecided proposal.
THEOREM ApprovedBeforeDispatchTheorem == Spec => []ApprovedBeforeDispatch
  <1>1. ControlInv => ApprovedBeforeDispatch
    BY DEF ControlInv, RowsAgree, ApprovedBeforeDispatch
  <1> QED
    BY <1>1, ControlHolds, PTL

---------------------------------------------------------------------------
(* Lines: what is on the branches *)

\* Replies, user messages and the empty head are told apart.
LEMMA MessageShapes ==
    /\ \A op \in Ops : Len(Reply(op)) = 2 /\ Reply(op) # Root /\ ~ IsUser(Reply(op))
    /\ \A op, o \in Ops : Reply(op) = Reply(o) => op = o
    /\ ~ IsUser(Root)
    /\ \A b, h, t : IsUser(User(b, h, t)) /\ Parent(User(b, h, t)) = h
  BY DEF Reply, Root, IsUser, User, Parent

\* A prefix of a good line is good, and keeps targets below heads.
LEMMA PrefixGood ==
    ASSUME NEW M, NEW l \in Seq(M), NEW n \in 0 .. Len(l),
           NEW B, NEW U, NEW C, NEW h, NEW t
    PROVE  LET p == SubSeq(l, 1, n) IN
           /\ p \in Seq(M) /\ Len(p) = n /\ \A i \in 1 .. n : p[i] = l[i]
           /\ LineGood(l, B, U, C) => LineGood(p, B, U, C)
           /\ Below(l, h, t) => Below(p, h, t)
  <1> DEFINE p == SubSeq(l, 1, n)
  <1>0. Len(l) \in Nat /\ n \in Nat /\ n <= Len(l)
    OBVIOUS
  <1>1. p \in Seq(M) /\ Len(p) = n /\ \A i \in 1 .. n : p[i] = l[i]
    BY <1>0, SubSeqProperties, LenProperties
  <1> HIDE DEF p
  <1>2. ASSUME LineGood(l, B, U, C) PROVE LineGood(p, B, U, C)
    <2>1. Distinct(p)
      BY <1>0, <1>1, <1>2 DEF LineGood, Distinct
    <2>2. Follows(p, B, U, C)
      BY <1>0, <1>1, <1>2 DEF LineGood, Follows, Before
    <2> QED
      BY <2>1, <2>2 DEF LineGood
  <1>3. ASSUME Below(l, h, t) PROVE Below(p, h, t)
    BY <1>0, <1>1, <1>3 DEF Below
  <1> QED
    BY <1>1, <1>2, <1>3 DEF p

\* A good line stays good when more generations have begun.
LEMMA MoreBegun ==
    ASSUME NEW l, NEW B, NEW U, NEW C, NEW B1, NEW U1, NEW C1,
           B \subseteq B1, \A op \in B : U1[op] = U[op] /\ C1[op] = C[op],
           LineGood(l, B, U, C)
    PROVE  LineGood(l, B1, U1, C1)
  BY DEF LineGood, Follows

\* When the two messages of a generation can be appended to a line: the line
\* ends with the context it was asked in and has neither message.
CanExtend(M, l, op, B, U, C, b, txt) ==
  /\ l \in Seq(M) /\ U[op] \in M /\ Reply(op) \in M
  /\ U[op] = User(b, C[op], txt) /\ C[op] = TipOf(l)
  /\ op \in B /\ LineGood(l, B, U, C)
  /\ \A i \in 1 .. Len(l) : l[i] # U[op] /\ l[i] # Reply(op)

\* What they make of it: a good line with the reply as its tip, on which the
\* heads seen before still have their targets below them.
Extended(x, M, l, op, B, U, C) ==
  /\ x \in Seq(M) /\ x # <<>> /\ TipOf(x) = Reply(op)
  /\ LineGood(x, B, U, C)
  /\ \A h, t : h # U[op] /\ h # Reply(op) /\ Below(l, h, t) => Below(x, h, t)

\* Appending the two messages of a generation keeps a line good.
LEMMA ExtendGood ==
    ASSUME NEW M, NEW l, NEW op \in Ops, NEW B, NEW U, NEW C, NEW b, NEW txt,
           CanExtend(M, l, op, B, U, C, b, txt)
    PROVE  Extended(l \o <<U[op], Reply(op)>>, M, l, op, B, U, C)
  <1> USE DEF CanExtend
  <1> DEFINE x == l \o <<U[op], Reply(op)>>
             n == Len(l)
  <1>0. n \in Nat
    OBVIOUS
  <1>1. /\ x \in Seq(M) /\ Len(x) = n + 2
        /\ \A i \in 1 .. n : x[i] = l[i]
        /\ x[n + 1] = U[op] /\ x[n + 2] = Reply(op)
    OBVIOUS
  <1>2. x # <<>> /\ TipOf(x) = Reply(op)
    BY <1>0, <1>1 DEF TipOf
  <1>3. TipOf(l) = Before(x, n + 1)
    BY <1>0, <1>1 DEF TipOf, Before
  <1> HIDE DEF x
  <1>4. Follows(x, B, U, C)
    <2> SUFFICES ASSUME NEW i \in 1 .. Len(x)
                 PROVE  /\ \A o \in Ops : x[i] = Reply(o) =>
                             /\ o \in B /\ i > 1
                             /\ x[i - 1] = U[o]
                             /\ C[o] = Before(x, i - 1)
                        /\ IsUser(x[i]) => Parent(x[i]) = Before(x, i)
      BY DEF Follows
    <2>1. CASE i \in 1 .. n
      <3>1. x[i] = l[i] /\ (i > 1 => x[i - 1] = l[i - 1])
        BY <1>0, <1>1, <2>1
      <3>2. Before(x, i) = Before(l, i) /\ (i > 1 => Before(x, i - 1) = Before(l, i - 1))
        BY <1>0, <1>1, <2>1 DEF Before
      <3> QED
        BY <2>1, <3>1, <3>2 DEF LineGood, Follows
    <2>2. CASE i = n + 1
      <3>1. x[i] = User(b, C[op], txt)
        BY <1>1, <2>2
      <3> QED
        BY <1>3, <2>2, <3>1, MessageShapes
    <2>3. CASE i = n + 2
      <3>1. x[i] = Reply(op) /\ x[i - 1] = U[op] /\ i > 1 /\ i - 1 = n + 1
        BY <1>0, <1>1, <2>3
      <3> QED
        BY <1>3, <3>1, MessageShapes
    <2> QED
      BY <1>0, <1>1, <2>1, <2>2, <2>3
  <1>6. Distinct(x)
    <2>1. U[op] # Reply(op)
      BY MessageShapes
    <2> SUFFICES ASSUME NEW i \in 1 .. Len(x), NEW j \in 1 .. Len(x), x[i] = x[j], i < j
                 PROVE  FALSE
      BY <1>0, <1>1 DEF Distinct
    <2>2. i \in 1 .. n \/ i = n + 1
      BY <1>0, <1>1
    <2>3. j \in 1 .. n \/ j = n + 1 \/ j = n + 2
      BY <1>0, <1>1
    <2> QED
      BY <1>0, <1>1, <2>1, <2>2, <2>3 DEF LineGood, Distinct
  <1>5. ASSUME NEW h, NEW t, h # U[op], h # Reply(op), Below(l, h, t)
        PROVE  Below(x, h, t)
    <2> SUFFICES ASSUME NEW i \in 1 .. Len(x), x[i] = h
                 PROVE  \E j \in 1 .. i : x[j] = t
      BY DEF Below
    <2>1. i \in 1 .. n /\ l[i] = h
      BY <1>0, <1>1, <1>5
    <2>2. PICK j \in 1 .. i : l[j] = t
      BY <1>5, <2>1 DEF Below
    <2> QED
      BY <1>0, <1>1, <2>1, <2>2
  <1> QED
    BY <1>1, <1>2, <1>4, <1>5, <1>6 DEF x, LineGood, Extended

\* Nothing is on the branches at first.
LEMMA LinesInit == Init => LinesInv
  <1> SUFFICES ASSUME Init PROVE LinesInv
    OBVIOUS
  <1>1. LinesTyped
    BY DEF Init, LinesTyped, NoAsk
  <1>2. \A b \in Branches : line[b] = <<>>
    BY DEF Init
  <1>3. LinesGood
    BY <1>2 DEF LinesGood, LineGood, Distinct, Follows
  <1>4. HeadsBegan
    BY MessageShapes DEF Init, HeadsBegan, NoAsk
  <1>5. TargetsExist /\ TargetsBelowHeads /\ ReplyIsHead
    BY DEF Init, TargetsExist, Begun, TargetsBelowHeads, ReplyIsHead, Ops
  <1> QED
    BY <1>1, <1>3, <1>4, <1>5 DEF LinesInv

\* Users and contexts are fixed by what was asked.
LEMMA AskFixes ==
    ASSUME UNCHANGED ask
    PROVE  /\ Users' = Users /\ Contexts' = Contexts
           /\ \A op : Target(op)' = Target(op) /\ Src(op)' = Src(op)
  BY DEF Users, Contexts, UserOf, Context, Target, Src

\* A step that leaves asks, messages, branches and generations alone.
LEMMA LinesSame ==
    ASSUME LinesInv, UNCHANGED <<ask, gen, branches, line, rows>>
    PROVE  LinesInv'
  <1>1. Begun' = Begun /\ Messages' = Messages /\ \A b : Tip(b)' = Tip(b)
    BY DEF Begun, Messages, Replies, Tip
  <1> QED
    BY <1>1, AskFixes DEF LinesInv, LinesTyped, LinesGood, HeadsBegan, TargetsExist,
         TargetsBelowHeads, ReplyIsHead

\* A step that only cuts branches back, and begins no generation.
LEMMA LinesShrink ==
    ASSUME IndInv, UNCHANGED <<ask, branches, rows>>, Begun' = Begun,
           DOMAIN line' = Branches,
           line' = [b \in Branches |-> line'[b]],
           \A b \in Branches : \E n \in 0 .. Len(line[b]) : line'[b] = SubSeq(line[b], 1, n),
           \A op \in Ops : gen'[op] = "running" =>
             gen[op] = "running" /\ line'[Target(op)] = line[Target(op)]
    PROVE  LinesInv'
  <1>0. /\ Messages' = Messages /\ Users' = Users /\ Contexts' = Contexts
        /\ \A op : Target(op)' = Target(op) /\ Src(op)' = Src(op)
    BY AskFixes DEF Messages, Replies
  <1>1. line \in [Branches -> Seq(Messages)]
    BY DEF IndInv, LinesInv, LinesTyped
  <1>2. ASSUME NEW b \in Branches
        PROVE  /\ line'[b] \in Seq(Messages)
               /\ LineGood(line'[b], Begun, Users, Contexts)
               /\ \A h, t : Below(line[b], h, t) => Below(line'[b], h, t)
    <2>1. PICK n \in 0 .. Len(line[b]) : line'[b] = SubSeq(line[b], 1, n)
      OBVIOUS
    <2>2. line[b] \in Seq(Messages) /\ LineGood(line[b], Begun, Users, Contexts)
      BY <1>1 DEF IndInv, LinesInv, LinesGood
    <2>3. ASSUME NEW h, NEW t
          PROVE  /\ SubSeq(line[b], 1, n) \in Seq(Messages)
                 /\ LineGood(SubSeq(line[b], 1, n), Begun, Users, Contexts)
                 /\ Below(line[b], h, t) => Below(SubSeq(line[b], 1, n), h, t)
      BY <2>2, PrefixGood
    <2> QED
      BY <2>1, <2>3
  <1>3. LinesTyped'
    BY <1>0, <1>2 DEF IndInv, LinesInv, LinesTyped
  <1>4. LinesGood'
    BY <1>0, <1>2 DEF LinesGood
  <1>5. HeadsBegan' /\ TargetsExist'
    BY <1>0 DEF IndInv, LinesInv, HeadsBegan, TargetsExist
  <1>6. TargetsBelowHeads'
    <2>1. \A op \in Ops : ask[op] # NoAsk => Src(op) \in Branches
      BY DEF IndInv, ControlInv, ControlTyped, CallsAreAsked
    <2> QED
      BY <1>0, <1>2, <2>1 DEF IndInv, LinesInv, TargetsBelowHeads, Ops
  <1>7. ReplyIsHead'
    BY <1>0 DEF IndInv, LinesInv, ReplyIsHead, Tip
  <1> QED
    BY <1>3, <1>4, <1>5, <1>6, <1>7 DEF LinesInv

\* A client asks for what it sees on a branch.
LEMMA LinesAsk ==
    ASSUME IndInv, NEW c \in Callers, NEW op \in Ops, Ask(c, op)
    PROVE  LinesInv'
  <1>0. /\ ask[op] = NoAsk /\ DOMAIN ask = Ops /\ branches \subseteq Branches
        /\ UNCHANGED <<gen, branches, line, rows>>
    BY DEF IndInv, ControlInv, ControlTyped, Ask, disk
  <1>1. PICK b \in branches : \E m \in IF op \in Sends THEN {Root} ELSE Range(line[b]) :
          /\ op \in Forks => IsUser(m)
          /\ ask' = [ask EXCEPT ![op] = [src |-> b, head |-> Tip(b), target |-> m]]
    BY DEF Ask
  <1>2. PICK m \in IF op \in Sends THEN {Root} ELSE Range(line[b]) :
          /\ op \in Forks => IsUser(m)
          /\ ask' = [ask EXCEPT ![op] = [src |-> b, head |-> Tip(b), target |-> m]]
    BY <1>1
  <1>3. /\ \A o \in Ops : o # op => ask'[o] = ask[o]
        /\ ask'[op] = [src |-> b, head |-> Tip(b), target |-> m]
    BY <1>0, <1>2
  <1>4. op \notin Begun
    BY <1>0 DEF Begun, IndInv, ControlInv, CallsAreAsked
  <1>5. \A o \in Ops : o # op =>
          /\ Src(o)' = Src(o) /\ Target(o)' = Target(o) /\ Context(o)' = Context(o)
          /\ UserOf(o)' = UserOf(o)
    BY <1>3 DEF Src, Target, Context, UserOf
  <1>6. Begun' = Begun /\ Messages' = Messages /\ \A x : Tip(x)' = Tip(x)
    BY <1>0 DEF Begun, Messages, Replies, Tip
  <1>7. line[b] \in Seq(Messages) /\ b \in Branches
    BY <1>0 DEF IndInv, LinesInv, LinesTyped
  <1>8. \A o \in Begun : Users'[o] = Users[o] /\ Contexts'[o] = Contexts[o]
    <2>1. \A o \in Begun : o \in Ops /\ o # op
      BY <1>4 DEF Begun
    <2> QED
      BY <1>5, <2>1 DEF Users, Contexts
  <1>9. LinesGood'
    <2>1. \A x \in Branches : LineGood(line[x], Begun, Users', Contexts')
      BY <1>8, MoreBegun DEF IndInv, LinesInv, LinesGood
    <2> QED
      BY <1>0, <1>6, <2>1 DEF LinesGood
  <1>10. Tip(b) \in Messages \cup {Root} /\ \A o \in Ops : Tip(b) = Reply(o) => o \in Begun
    <2>1. CASE line[b] = <<>>
      BY <2>1, MessageShapes DEF Tip
    <2>2. CASE line[b] # <<>>
      <3>1. Len(line[b]) \in 1 .. Len(line[b])
        BY <1>7, <2>2
      <3>2. Tip(b) = line[b][Len(line[b])]
        BY <2>2 DEF Tip, Last
      <3>3. line[b][Len(line[b])] \in Messages
        BY <1>7, <3>1
      <3>4. LineGood(line[b], Begun, Users, Contexts)
        BY <1>7 DEF IndInv, LinesInv, LinesGood
      <3> QED
        BY <3>1, <3>2, <3>3, <3>4 DEF LineGood, Follows
    <2> QED
      BY <2>1, <2>2
  <1>11. m \in Messages \cup {Root}
    <2>1. CASE op \in Sends
      BY <1>2, <2>1
    <2>2. CASE op \notin Sends
      <3>1. Range(line[b]) \in SUBSET Messages
        BY <1>7, RangeOfSeq
      <3> QED
        BY <1>2, <2>2, <3>1
    <2> QED
      BY <2>1, <2>2
  <1>12. LinesTyped'
    <2>1. ask' \in [Ops -> [src : Branches \cup {"none"}, head : Messages \cup {Root},
                            target : Messages \cup {Root}]]
      BY <1>2, <1>7, <1>10, <1>11 DEF IndInv, LinesInv, LinesTyped
    <2> QED
      BY <1>0, <1>6, <2>1 DEF IndInv, LinesInv, LinesTyped
  <1>13. HeadsBegan'
    <2>1. \A o, p \in Ops : ask'[o].head = Reply(p) => p \in Begun
      BY <1>3, <1>10 DEF IndInv, LinesInv, HeadsBegan
    <2> QED
      BY <1>6, <2>1 DEF HeadsBegan
  <1>14. TargetsExist'
    BY <1>0, <1>4, <1>5, <1>6 DEF IndInv, LinesInv, TargetsExist, Begun
  <1>15. ReplyIsHead'
    <2>1. \A o \in Ops : gen'[o] = "running" => o # op /\ gen[o] = "running"
      BY <1>0, <1>4 DEF Begun
    <2> QED
      BY <1>5, <1>6, <2>1 DEF IndInv, LinesInv, ReplyIsHead
  <1>16. TargetsBelowHeads'
    <2> SUFFICES ASSUME NEW o \in Forks, ask'[o] # NoAsk
                 PROVE  /\ ask'[o].head # Root
                        /\ IsUser(ask'[o].target)
                        /\ Below(line[Src(o)'], ask'[o].head, ask'[o].target)
      BY <1>0 DEF TargetsBelowHeads
    <2>1. CASE o # op
      BY <1>3, <1>5, <2>1 DEF IndInv, LinesInv, TargetsBelowHeads, Ops
    <2>2. CASE o = op
      <3>1. op \notin Sends
        BY <2>2, DispatchConstants
      <3>2. m \in Range(line[b]) /\ IsUser(m)
        BY <1>2, <2>2, <3>1
      <3>3. PICK j \in 1 .. Len(line[b]) : line[b][j] = m
        BY <1>7, <3>2 DEF Range
      <3>4. line[b] # <<>>
        BY <1>7, <3>3
      <3>5. Tip(b) = line[b][Len(line[b])] /\ Len(line[b]) \in 1 .. Len(line[b])
        BY <1>7, <3>4 DEF Tip, Last
      <3>6. Tip(b) # Root
        <4>1. Tip(b) \in Messages
          BY <1>7, <3>5
        <4>2. Root \notin rows /\ Root \notin Replies
          BY MessageShapes DEF Replies, IndInv, LinesInv, LinesTyped
        <4> QED
          BY <4>1, <4>2 DEF Messages
      <3>7. Below(line[b], Tip(b), m)
        <4> SUFFICES ASSUME NEW i \in 1 .. Len(line[b]), line[b][i] = Tip(b)
                     PROVE  \E x \in 1 .. i : line[b][x] = m
          BY DEF Below
        <4>1. Distinct(line[b])
          BY <1>7 DEF IndInv, LinesInv, LinesGood, LineGood
        <4>2. i = Len(line[b])
          BY <3>5, <4>1 DEF Distinct
        <4> QED
          BY <3>3, <4>2
      <3> QED
        BY <1>3, <2>2, <3>2, <3>6, <3>7 DEF Src
    <2> QED
      BY <2>1, <2>2
  <1> QED
    BY <1>9, <1>12, <1>13, <1>14, <1>15, <1>16 DEF LinesInv

\* The end of a generation, a removal and a restart cut branches back.
LEMMA LinesCut ==
    ASSUME IndInv,
           \/ \E op \in Ops : Finish(op)
           \/ \E b \in Branches : RemoveMessage(b)
           \/ Restart
    PROVE  LinesInv'
  <1>0. /\ line \in [Branches -> Seq(Messages)] /\ ReplyIsHead
        /\ gen \in [Ops -> {"none", "running", "completed"}]
        /\ \A op \in Ops : gen[op] = "running" => Target(op) \in Branches
    BY DEF IndInv, ControlInv, ControlTyped, LinesInv, LinesTyped, TargetsExist, Begun
  <1>1. \A b \in Branches : /\ Len(line[b]) \in Nat
                            /\ SubSeq(line[b], 1, Len(line[b])) = line[b]
                            /\ Tip(b) # Root => Len(line[b]) - 1 \in 0 .. Len(line[b])
    <2> SUFFICES ASSUME NEW b \in Branches
                 PROVE  /\ Len(line[b]) \in Nat
                        /\ SubSeq(line[b], 1, Len(line[b])) = line[b]
                        /\ Tip(b) # Root => Len(line[b]) - 1 \in 0 .. Len(line[b])
      OBVIOUS
    <2>1. line[b] \in Seq(Messages)
      BY <1>0
    <2> QED
      BY <2>1, SubSeqFull, EmptySeq DEF Tip
  <1>2. ASSUME NEW op \in Ops, Finish(op) PROVE LinesInv'
    <2>1. PICK kept \in BOOLEAN : line' = Closed(op, kept)
      BY <1>2 DEF Finish
    <2>2. /\ gen' = [gen EXCEPT ![op] = "completed"] /\ UNCHANGED <<ask, branches, rows>>
          /\ gen[op] = "running"
      BY <1>2 DEF Finish, IndInv, ControlInv, SpawnedByItsAppend, TasksHold
    <2>3. Begun' = Begun
      BY <1>0, <2>2 DEF Begun
    <2>4. line' = [b \in Branches |-> IF ~ kept /\ Tip(b) = Reply(op)
                                      THEN SubSeq(line[b], 1, Len(line[b]) - 1) ELSE line[b]]
      BY <2>1 DEF Closed, Front
    <2>5. \A b \in Branches : \E n \in 0 .. Len(line[b]) : line'[b] = SubSeq(line[b], 1, n)
      <3> SUFFICES ASSUME NEW b \in Branches
                   PROVE  \E n \in 0 .. Len(line[b]) : line'[b] = SubSeq(line[b], 1, n)
        OBVIOUS
      <3>1. CASE ~ kept /\ Tip(b) = Reply(op)
        BY <1>1, <2>4, <3>1, MessageShapes
      <3>2. CASE ~ (~ kept /\ Tip(b) = Reply(op))
        BY <1>1, <2>4, <3>2
      <3> QED
        BY <3>1, <3>2
    <2>6. \A o \in Ops : gen'[o] = "running" =>
            gen[o] = "running" /\ line'[Target(o)] = line[Target(o)]
      <3> SUFFICES ASSUME NEW o \in Ops, gen'[o] = "running"
                   PROVE  gen[o] = "running" /\ line'[Target(o)] = line[Target(o)]
        OBVIOUS
      <3>1. o # op /\ gen[o] = "running"
        BY <1>0, <2>2
      <3>2. Tip(Target(o)) = Reply(o) /\ Reply(o) # Reply(op)
        BY <1>0, <3>1, MessageShapes DEF ReplyIsHead
      <3> QED
        BY <1>0, <2>4, <3>1, <3>2
    <2> QED
      BY <2>2, <2>3, <2>4, <2>5, <2>6, LinesShrink
  <1>3. ASSUME NEW b \in Branches, RemoveMessage(b) PROVE LinesInv'
    <2>1. PICK i \in DOMAIN line[b] : line' = [line EXCEPT ![b] = SubSeq(@, 1, i - 1)]
      BY <1>3 DEF RemoveMessage
    <2>2. UNCHANGED <<ask, gen, branches, rows>> /\ ~ Pending(Tip(b))
      BY <1>3 DEF RemoveMessage, Removable
    <2>3. Begun' = Begun
      BY <2>2 DEF Begun
    <2>4. i \in 1 .. Len(line[b]) /\ i - 1 \in 0 .. Len(line[b])
      BY <1>0, <1>1
    <2>5. \A x \in Branches : \E n \in 0 .. Len(line[x]) : line'[x] = SubSeq(line[x], 1, n)
      <3> SUFFICES ASSUME NEW x \in Branches
                   PROVE  \E n \in 0 .. Len(line[x]) : line'[x] = SubSeq(line[x], 1, n)
        OBVIOUS
      <3>1. CASE x = b
        BY <1>0, <2>1, <2>4, <3>1
      <3>2. CASE x # b
        BY <1>0, <1>1, <2>1, <3>2
      <3> QED
        BY <3>1, <3>2
    <2>6. \A o \in Ops : gen'[o] = "running" =>
            gen[o] = "running" /\ line'[Target(o)] = line[Target(o)]
      <3>1. \A o \in Ops : gen[o] = "running" => Target(o) # b
        BY <1>0, <2>2 DEF ReplyIsHead, Pending
      <3> QED
        BY <1>0, <2>1, <2>2, <3>1
    <2>7. line' = [x \in Branches |-> line'[x]]
      BY <1>0, <2>1
    <2> QED
      BY <2>2, <2>3, <2>5, <2>6, <2>7, LinesShrink
  <1>4. CASE Restart
    <2>1. PICK kept \in SUBSET Ops : Recovered(kept)
      BY <1>4 DEF Restart
    <2>2. UNCHANGED <<ask, branches, rows>>
      BY <1>4 DEF Restart
    <2>3. gen' = [op \in Ops |-> IF gen[op] = "running" THEN "completed" ELSE gen[op]]
      BY <2>1 DEF Recovered
    <2>4. Begun' = Begun /\ \A op \in Ops : gen'[op] # "running"
      BY <1>0, <2>3 DEF Begun
    <2> DEFINE Dropped(b) ==
                 \E op \in {o \in Ops : gen[o] = "running"} \ kept : Tip(b) = Reply(op)
    <2>5. line' = [b \in Branches |-> IF Dropped(b)
                                      THEN SubSeq(line[b], 1, Len(line[b]) - 1) ELSE line[b]]
      BY <2>1 DEF Recovered, Front
    <2>6. \A b \in Branches : \E n \in 0 .. Len(line[b]) : line'[b] = SubSeq(line[b], 1, n)
      <3> SUFFICES ASSUME NEW b \in Branches
                   PROVE  \E n \in 0 .. Len(line[b]) : line'[b] = SubSeq(line[b], 1, n)
        OBVIOUS
      <3>1. CASE Dropped(b)
        <4>1. Tip(b) # Root
          BY <3>1, MessageShapes
        <4> QED
          BY <1>1, <2>5, <3>1, <4>1
      <3>2. CASE ~ Dropped(b)
        BY <1>1, <2>5, <3>2
      <3> QED
        BY <3>1, <3>2
    <2> QED
      BY <2>2, <2>4, <2>5, <2>6, LinesShrink
  <1> QED
    BY <1>2, <1>3, <1>4

\* Two messages are appended to a line for a generation that had not begun.
LEMMA LinesExtend ==
    ASSUME IndInv, NEW op \in Ops, NEW b \in Branches, NEW l \in Seq(Messages),
           LineGood(l, Begun, Users, Contexts), TipOf(l) = Context(op), Target(op) = b,
           gen[op] = "none", UserOf(op) \notin rows,
           rows' = rows \cup {UserOf(op)}, gen' = [gen EXCEPT ![op] = "running"],
           UNCHANGED ask, branches' = branches \cup {b},
           line' = [line EXCEPT ![b] = l \o <<UserOf(op), Reply(op)>>],
           \A f \in Forks : ask[f] # NoAsk /\ Src(f) = b =>
             Below(l, ask[f].head, ask[f].target),
           \A o \in Ops : gen[o] = "running" => Target(o) # b
    PROVE  LinesInv'
  <1> DEFINE M1 == Messages \cup {UserOf(op)}
             x == l \o <<UserOf(op), Reply(op)>>
  <1>0. /\ Messages' = M1 /\ Users' = Users /\ Contexts' = Contexts
        /\ \A o : Target(o)' = Target(o) /\ Src(o)' = Src(o)
    BY AskFixes DEF Messages, Replies
  <1>1. /\ line \in [Branches -> Seq(Messages)] /\ gen \in [Ops -> {"none", "running", "completed"}]
        /\ \A m \in rows : IsUser(m)
    BY DEF IndInv, ControlInv, ControlTyped, LinesInv, LinesTyped
  <1>2. Begun' = Begun \cup {op} /\ op \notin Begun
    BY <1>1 DEF Begun
  <1>3. IsUser(UserOf(op)) /\ UserOf(op) \notin Messages
    <2>1. IsUser(UserOf(op))
      BY MessageShapes DEF UserOf
    <2> QED
      BY <2>1, MessageShapes DEF Messages, Replies
  <1>4. \A i \in 1 .. Len(l) : l[i] # UserOf(op) /\ l[i] # Reply(op)
    <2>1. \A i \in 1 .. Len(l) : l[i] \in Messages
      BY ElementOfSeq
    <2> QED
      BY <1>2, <1>3, <2>1 DEF LineGood, Follows
  <1>5. LineGood(l, Begun', Users, Contexts) /\ l \in Seq(M1)
    BY <1>2, MoreBegun, SeqMonotonic
  <1>6. /\ x \in Seq(M1) /\ x # <<>> /\ TipOf(x) = Reply(op)
        /\ LineGood(x, Begun', Users, Contexts)
        /\ \A h, t : h # UserOf(op) /\ h # Reply(op) /\ Below(l, h, t) => Below(x, h, t)
    <2>1. /\ Users[op] = UserOf(op) /\ Contexts[op] = Context(op)
          /\ UserOf(op) = User(Target(op), Context(op), TextOf[op])
      BY DEF Users, Contexts, UserOf
    <2>2. UserOf(op) \in M1 /\ Reply(op) \in M1 /\ op \in Begun'
      BY <1>2 DEF Messages, Replies
    <2>3. Users[op] = User(Target(op), Contexts[op], TextOf[op]) /\ Contexts[op] = TipOf(l)
      BY <2>1
    <2>4. \A i \in 1 .. Len(l) : l[i] # Users[op] /\ l[i] # Reply(op)
      BY <1>4, <2>1
    <2>5. CanExtend(M1, l, op, Begun', Users, Contexts, Target(op), TextOf[op])
      BY <1>5, <2>2, <2>1, <2>3, <2>4 DEF CanExtend
    <2>6. Extended(l \o <<Users[op], Reply(op)>>, M1, l, op, Begun', Users, Contexts)
      BY <2>5, ExtendGood
    <2> QED
      BY <2>1, <2>6 DEF Extended
  <1>7. \A o \in Branches : o # b => line'[o] = line[o] /\ line[o] \in Seq(M1)
    BY <1>1, SeqMonotonic
  <1>8. line'[b] = x
    BY <1>1
  <1> HIDE DEF x
  <1>9. LinesTyped'
    <2>1. line' \in [Branches -> Seq(M1)]
      <3>1. \A o \in Branches : line'[o] \in Seq(M1)
        BY <1>6, <1>7, <1>8
      <3>2. DOMAIN line' = Branches /\ line' = [o \in Branches |-> line'[o]]
        BY <1>1
      <3> QED
        BY <3>1, <3>2
    <2>2. ask' \in [Ops -> [src : Branches \cup {"none"}, head : M1 \cup {Root},
                            target : M1 \cup {Root}]]
      BY DEF IndInv, LinesInv, LinesTyped
    <2>3. \A m \in rows' : IsUser(m)
      BY <1>1, <1>3
    <2> QED
      BY <1>0, <2>1, <2>2, <2>3 DEF LinesTyped
  <1>10. LinesGood'
    <2>1. \A o \in Branches : o # b => LineGood(line[o], Begun', Users, Contexts)
      BY <1>2, MoreBegun DEF IndInv, LinesInv, LinesGood
    <2>2. \A o \in Branches : LineGood(line'[o], Begun', Users, Contexts)
      BY <1>6, <1>7, <1>8, <2>1
    <2> QED
      BY <1>0, <2>2 DEF LinesGood
  <1>11. HeadsBegan'
    BY <1>2 DEF IndInv, LinesInv, HeadsBegan
  <1>12. TargetsExist'
    BY <1>0, <1>2 DEF IndInv, LinesInv, TargetsExist
  <1>13. TargetsBelowHeads'
    <2> SUFFICES ASSUME NEW f \in Forks, ask[f] # NoAsk
                 PROVE  /\ ask[f].head # Root
                        /\ IsUser(ask[f].target)
                        /\ Below(line'[Src(f)], ask[f].head, ask[f].target)
      BY <1>0 DEF TargetsBelowHeads
    <2>1. /\ ask[f].head # Root /\ IsUser(ask[f].target)
          /\ Below(line[Src(f)], ask[f].head, ask[f].target)
      BY DEF IndInv, LinesInv, TargetsBelowHeads
    <2>2. f \in Ops /\ Src(f) \in Branches
      BY DEF Ops, IndInv, ControlInv, ControlTyped, CallsAreAsked
    <2>3. ask[f].head # UserOf(op)
      BY <1>3, <2>1, <2>2 DEF IndInv, LinesInv, LinesTyped
    <2>4. ask[f].head # Reply(op)
      BY <1>2, <2>2 DEF IndInv, LinesInv, HeadsBegan
    <2>5. CASE Src(f) = b
      BY <1>6, <1>8, <2>1, <2>3, <2>4, <2>5
    <2>6. CASE Src(f) # b
      BY <1>7, <2>1, <2>2, <2>6
    <2> QED
      BY <2>1, <2>5, <2>6
  <1>14. ReplyIsHead'
    <2> SUFFICES ASSUME NEW o \in Ops, gen'[o] = "running"
                 PROVE  (Tip(Target(o)))' = Reply(o)
      BY DEF ReplyIsHead
    <2>1. (Tip(Target(o)))' = IF line'[Target(o)] = <<>> THEN Root
                              ELSE line'[Target(o)][Len(line'[Target(o)])]
      BY <1>0 DEF Tip, Last
    <2>2. CASE o = op
      BY <1>6, <1>8, <2>1, <2>2 DEF TipOf
    <2>3. CASE o # op
      <3>1. gen[o] = "running"
        BY <1>1, <2>3
      <3>2. Target(o) \in Branches /\ Target(o) # b /\ Tip(Target(o)) = Reply(o)
        BY <3>1 DEF IndInv, LinesInv, ReplyIsHead, TargetsExist, Begun, ControlInv, ControlTyped
      <3>3. line'[Target(o)] = line[Target(o)]
        BY <1>7, <3>2
      <3> QED
        BY <2>1, <3>2, <3>3 DEF Tip, Last
    <2> QED
      BY <2>2, <2>3
  <1> QED
    BY <1>9, <1>10, <1>11, <1>12, <1>13, <1>14 DEF LinesInv

\* A send appends to the branch it was asked on, a fork to what precedes the
\* message it replaces.
LEMMA LinesAppend ==
    ASSUME IndInv, NEW c \in Callers, AppendSend(c) \/ AppendFork(c)
    PROVE  LinesInv'
  <1> DEFINE op == call[c].op
  <1>0. /\ op \in Ops /\ ask[op] # NoAsk /\ Src(op) \in branches /\ branches \subseteq Branches
    <2>1. ControlInv /\ Permit(c)
      BY DEF IndInv, AppendSend, AppendFork, Permit
    <2> QED
      BY <2>1, PermitIsOwner DEF ControlInv, ControlTyped
  <1>1. /\ gen' = [gen EXCEPT ![op] = "running"] /\ rows' = rows \cup {UserOf(op)}
        /\ UNCHANGED ask /\ UserOf(op) \notin rows /\ att[op].st = "dispatch_ready"
    BY DEF AppendSend, AppendFork, Began, Sealed, NewRow
  <1>2. gen[op] = "none"
    BY <1>0, <1>1 DEF IndInv, ControlInv, ControlTyped, RowsAgree
  <1>3. /\ line \in [Branches -> Seq(Messages)] /\ ReplyIsHead
        /\ \A o \in Ops : gen[o] = "running" => Target(o) \in branches
    BY DEF IndInv, LinesInv, LinesTyped, TargetsExist, Begun
  <1>4. \A b \in Branches : TipOf(line[b]) = Tip(b)
    BY DEF TipOf, Tip, Last
  <1>5. CASE AppendSend(c)
    <2>1. /\ op \in Sends /\ Tip(Src(op)) = ask[op].head /\ ~ Pending(Tip(Src(op)))
          /\ line' = [line EXCEPT ![Src(op)] = @ \o <<UserOf(op), Reply(op)>>]
          /\ UNCHANGED branches
      BY <1>5 DEF AppendSend, SendLands
    <2>2. Target(op) = Src(op) /\ Context(op) = ask[op].head
      BY <2>1, DispatchConstants DEF Target, Context
    <2> DEFINE b == Src(op)
    <2>3. b \in Branches /\ line[b] \in Seq(Messages) /\ branches' = branches \cup {b}
          /\ line' = [line EXCEPT ![b] = line[b] \o <<UserOf(op), Reply(op)>>]
      BY <1>0, <1>3, <2>1
    <2>4. LineGood(line[b], Begun, Users, Contexts) /\ TipOf(line[b]) = Context(op)
      BY <1>4, <2>1, <2>2, <2>3 DEF IndInv, LinesInv, LinesGood
    <2>5. \A f \in Forks : ask[f] # NoAsk /\ Src(f) = b =>
            Below(line[b], ask[f].head, ask[f].target)
      BY DEF IndInv, LinesInv, TargetsBelowHeads
    <2>6. \A o \in Ops : gen[o] = "running" => Target(o) # b
      BY <1>3, <2>1 DEF ReplyIsHead, Pending
    <2> HIDE DEF b, op
    <2> QED
      BY <1>0, <1>1, <1>2, <2>2, <2>3, <2>4, <2>5, <2>6, LinesExtend DEF b
  <1>6. CASE AppendFork(c)
    <2> DEFINE l == line[Src(op)]
               k == CHOOSE i \in DOMAIN l : l[i] = ask[op].target
               p == SubSeq(l, 1, k - 1)
    <2>1. /\ op \in Forks /\ Tip(Src(op)) = ask[op].head /\ op \notin branches
          /\ branches' = branches \cup {op}
          /\ line' = [line EXCEPT ![op] = Inherited(op) \o <<UserOf(op), Reply(op)>>]
      BY <1>6 DEF AppendFork, ForkSnapshot
    <2>2. /\ Target(op) = op /\ Context(op) = Parent(ask[op].target) /\ op \in Branches
          /\ Inherited(op) = p
      BY <2>1 DEF Target, Context, Branches, Inherited
    <2>3. /\ l \in Seq(Messages) /\ LineGood(l, Begun, Users, Contexts)
          /\ ask[op].head # Root /\ IsUser(ask[op].target) /\ Below(l, ask[op].head, ask[op].target)
      BY <1>0, <1>3, <2>1 DEF IndInv, LinesInv, LinesGood, TargetsBelowHeads
    <2>4. l # <<>> /\ Len(l) \in 1 .. Len(l) /\ l[Len(l)] = ask[op].head /\ DOMAIN l = 1 .. Len(l)
      BY <2>1, <2>3 DEF Tip, Last
    <2>5. \E j \in DOMAIN l : l[j] = ask[op].target
      BY <2>3, <2>4 DEF Below
    <2>6. k \in 1 .. Len(l) /\ l[k] = ask[op].target
      BY <2>4, <2>5
    <2> HIDE DEF k
    <2>7. Context(op) = Before(l, k)
      BY <2>2, <2>3, <2>6 DEF LineGood, Follows
    <2>8. k - 1 \in 0 .. Len(l)
      BY <2>6
    <2>9. /\ p \in Seq(Messages) /\ Len(p) = k - 1 /\ \A i \in 1 .. k - 1 : p[i] = l[i]
          /\ LineGood(p, Begun, Users, Contexts)
      BY <2>3, <2>8, PrefixGood
    <2> HIDE DEF p
    <2>10. TipOf(p) = Before(l, k)
      <3>1. CASE k = 1
        <4>1. p = <<>>
          BY <2>9, <3>1, EmptySeq
        <4> QED
          BY <3>1, <4>1 DEF TipOf, Before
      <3>2. CASE k # 1
        <4>1. p # <<>> /\ p[Len(p)] = l[k - 1]
          BY <2>6, <2>9, <3>2
        <4> QED
          BY <3>2, <4>1 DEF TipOf, Before
      <3> QED
        BY <3>1, <3>2
    <2>11. \A f \in Forks : ask[f] # NoAsk => Src(f) # op
      BY <2>1 DEF Ops, IndInv, ControlInv, CallsAreAsked
    <2>12. \A o \in Ops : gen[o] = "running" => Target(o) # op
      BY <1>3, <2>1
    <2>13. line' = [line EXCEPT ![op] = p \o <<UserOf(op), Reply(op)>>]
      BY <2>1, <2>2
    <2>14. TipOf(p) = Context(op)
      BY <2>7, <2>10
    <2> HIDE DEF op
    <2> QED
      BY <1>0, <1>1, <1>2, <2>1, <2>2, <2>9, <2>11, <2>12, <2>13, <2>14, LinesExtend
  <1> QED
    BY <1>5, <1>6

\* Every step keeps what is on the branches in order.
LEMMA LinesStep == IndInv /\ [Next]_vars => LinesInv'
  <1> SUFFICES ASSUME IndInv, [Next]_vars PROVE LinesInv'
    OBVIOUS
  <1>0. LinesInv
    BY DEF IndInv
  <1>1. ASSUME NEW c \in Callers, Step(c) PROVE LinesInv'
    <2>1. CASE AppendSend(c) \/ AppendFork(c)
      BY <2>1, LinesAppend
    <2>2. CASE ~ (AppendSend(c) \/ AppendFork(c))
      <3>1. UNCHANGED <<ask, gen, branches, line, rows>>
        BY <1>1, <2>2 DEF Step, Lookup, Prepare, ReadBoundary, CommitReview, Reload, Ready,
             Register, Seal, Start, OnlyCall, disk
      <3> QED
        BY <1>0, <3>1, LinesSame
    <2> QED
      BY <2>1, <2>2
  <1>2. ASSUME NEW c \in Callers, NEW op \in Ops, Ask(c, op) PROVE LinesInv'
    BY <1>2, LinesAsk
  <1>3. ASSUME NEW op \in Ops, Finish(op) PROVE LinesInv'
    BY <1>3, LinesCut
  <1>4. ASSUME NEW b \in Branches, RemoveMessage(b) PROVE LinesInv'
    BY <1>4, LinesCut
  <1>5. CASE Restart
    BY <1>5, LinesCut
  <1>6. ASSUME NEW c \in Callers, NEW op \in Ops, CallAgain(c, op) PROVE LinesInv'
    <2>1. UNCHANGED <<ask, gen, branches, line, rows>>
      BY <1>6 DEF CallAgain, disk
    <2> QED
      BY <1>0, <2>1, LinesSame
  <1>7. ASSUME NEW c \in Callers, GiveUp(c) PROVE LinesInv'
    <2>1. UNCHANGED <<ask, gen, branches, line, rows>>
      BY <1>7 DEF GiveUp, disk
    <2> QED
      BY <1>0, <2>1, LinesSame
  <1>8. ASSUME NEW op \in Ops, Decide(op) \/ FinishFails(op) \/ Free(op) PROVE LinesInv'
    <2>1. UNCHANGED <<ask, gen, branches, line, rows>>
      BY <1>8 DEF Decide, FinishFails, Free, disk
    <2> QED
      BY <1>0, <2>1, LinesSame
  <1>9. ASSUME NEW b \in Branches, SelectBranch(b) \/ ChangeState(b) PROVE LinesInv'
    <2>1. UNCHANGED <<ask, gen, branches, line, rows>>
      BY <1>9 DEF SelectBranch, ChangeState
    <2> QED
      BY <1>0, <2>1, LinesSame
  <1>10. CASE UNCHANGED vars
    BY <1>0, <1>10, LinesSame DEF vars, disk
  <1> QED
    BY <1>1, <1>2, <1>3, <1>4, <1>5, <1>6, <1>7, <1>8, <1>9, <1>10 DEF Next

\* Throughout every behaviour, control and branches are in order.
LEMMA DispatchHolds == Spec => []IndInv
  <1>1. Init => IndInv
    BY ControlInit, LinesInit DEF IndInv
  <1>2. IndInv /\ [Next]_vars => IndInv'
    BY ControlStep, LinesStep DEF IndInv
  <1> QED
    BY <1>1, <1>2, PTL DEF Spec

\* A branch generates one reply at a time and its head is that reply: no send,
\* fork or removal moves a branch under a running generation.
THEOREM ReplyIsHeadTheorem == Spec => []ReplyIsHead
  <1>1. IndInv => ReplyIsHead
    BY DEF IndInv, LinesInv
  <1> QED
    BY <1>1, DispatchHolds, PTL

\* The invariant implies that each reply answers what was asked.
LEMMA GoodLinesAnswer == IndInv => AnswersWhatWasAsked
  <1> SUFFICES ASSUME IndInv, NEW b \in branches, NEW i \in DOMAIN line[b], NEW op \in Ops,
                      line[b][i] = Reply(op)
               PROVE  /\ i > 1 /\ line[b][i - 1] = UserOf(op)
                      /\ Context(op) = IF i = 2 THEN Root ELSE line[b][i - 2]
    BY DEF AnswersWhatWasAsked
  <1>1. b \in Branches
    BY DEF IndInv, ControlInv, ControlTyped
  <1>2. line[b] \in Seq(Messages) /\ LineGood(line[b], Begun, Users, Contexts)
    BY <1>1 DEF IndInv, LinesInv, LinesTyped, LinesGood
  <1>3. i \in 1 .. Len(line[b])
    BY <1>2
  <1>4. /\ i > 1 /\ line[b][i - 1] = Users[op]
        /\ Contexts[op] = Before(line[b], i - 1)
    BY <1>2, <1>3 DEF LineGood, Follows
  <1>5. Before(line[b], i - 1) = IF i = 2 THEN Root ELSE line[b][i - 2]
    BY <1>3, <1>4 DEF Before
  <1> QED
    BY <1>4, <1>5 DEF Users, Contexts

\* Every reply on a branch follows the user message of its own operation, and
\* that message follows the one the client had in front of it when it asked.
THEOREM AnswersWhatWasAskedTheorem == Spec => []AnswersWhatWasAsked
  BY GoodLinesAnswer, DispatchHolds, PTL

\* Whatever is on a branch was asked for there, a running reply is the head of its
\* branch, and whatever was dispatched was approved and admitted within the
\* limits, with every type in place.
THEOREM DispatchInvTheorem == Spec => []DispatchInv
  <1>1. IndInv => TypeOK
    BY DEF IndInv, ControlInv, ControlTyped, WithinLimits, Held, Attempts, TypeOK
  <1>2. IndInv => ApprovedBeforeDispatch
    BY DEF IndInv, ControlInv, RowsAgree, ApprovedBeforeDispatch
  <1>3. IndInv => ReplyIsHead
    BY DEF IndInv, LinesInv
  <1>4. IndInv => DispatchInv
    BY <1>1, <1>2, <1>3, GoodLinesAnswer DEF DispatchInv
  <1> QED
    BY <1>4, DispatchHolds, PTL
=============================================================================

------------------------- MODULE GenerationDispatch -------------------------
(***************************************************************************)
(* How a request becomes a running generation.  A client asks once for an  *)
(* operation (a send, or an edit or regeneration that forks the branch)    *)
(* and then calls it as often as it likes, from several callers at once    *)
(* and again after a restart.  A call goes through an intent row, the      *)
(* BeforeGeneration review with its approvals, the prompt plan, a launch   *)
(* permit, the dispatch seal and one append transaction, and then spawns   *)
(* the task whose life GenerationStream follows.                           *)
(*                                                                         *)
(*   core/src/app/generation/attempt.rs, send_dispatch.rs       sends      *)
(*   core/src/app/generation/message_actions.rs,                           *)
(*     message_action_dispatch.rs                               forks      *)
(*   core/src/app/generation/admission.rs, ../generation_events.rs permits *)
(*   storage/src/generation_attempt.rs                  the intent row     *)
(*   storage/src/database/generation_append.rs, action.rs  the appends     *)
(*                                                                         *)
(* One conversation.  A branch is the sequence of its messages, which the  *)
(* code reads by following parent links from the head; links never change. *)
(* An interaction state is a version number.  A storage or planning error, *)
(* a refused guard and a dropped request are one action, GiveUp.  A commit *)
(* that is durable although its caller is told it failed is the step and   *)
(* then GiveUp, except for the append, after which nothing can give up:    *)
(* there it is an outcome of its own, Answered.                            *)
(***************************************************************************)
EXTENDS Integers, Sequences, FiniteSets, SequencesExt

CONSTANTS
  Sends, Forks,     \* operations, by what they do
  Callers,          \* requests being served
  TextOf,           \* the text each operation sends
  ProviderOf,       \* the provider each operation uses
  Plans,            \* prompt plans two calls of one operation may compute
  MaxProcess,       \* MAX_ACTIVE_GENERATIONS_PER_PROCESS
  MaxConversation,  \* MAX_ACTIVE_GENERATIONS_PER_CONVERSATION
  MaxProvider,      \* MAX_ACTIVE_GENERATIONS_PER_PROVIDER
  MaxProposals,     \* bound: approvals one attempt asks for
  MaxChanges,       \* bound: other changes of an interaction state
  MaxRemovals,      \* bound: removals of messages
  MaxRestarts       \* bound: process deaths

Ops      == Sends \cup Forks
Main     == "main"
Branches == {Main} \cup Forks    \* a fork's branch id derives from its operation

ASSUME DispatchConstants ==
  /\ Sends \cap Forks = {}
  /\ {Main, "none"} \cap Ops = {}
  /\ DOMAIN TextOf = Ops /\ DOMAIN ProviderOf = Ops
  /\ {MaxProposals, MaxChanges, MaxRemovals, MaxRestarts} \subseteq Nat
  /\ {MaxProcess, MaxConversation, MaxProvider} \subseteq Nat \ {0}

VARIABLES
  ask,       \* what the client asked for; fixed once asked
  att,       \* generation_attempt_intents
  gen,       \* generations.status
  branches,  \* conversation_branches that exist
  line,      \* the messages of each branch, oldest first
  active,    \* conversation_state.active_branch_id
  rows,      \* ids of the user messages ever stored
  state,     \* the version of each branch's interaction state
  call,      \* the callers
  registry,  \* GenerationRegistry: the phase of each entry
  task,      \* the spawned tasks
  launched,  \* how often each operation's task was spawned
  stranded,  \* operations a storage failure left running with no task
  changes, removals, restarts

disk    == <<att, gen, branches, line, active, rows, state>>
process == <<call, registry, task>>
vars    == <<ask, disk, process, launched, stranded, changes, removals, restarts>>

(***************************************************************************)
(* Messages and branches.                                                  *)
(***************************************************************************)
Root      == <<"root">>          \* no head
Reply(op) == <<"reply", op>>
\* deterministic_prompt_user_message_id
User(b, h, t) == <<"user", b, h, t>>
IsUser(m) == Len(m) = 4
Parent(u) == u[3]

Tip(b)     == IF line[b] = <<>> THEN Root ELSE Last(line[b])
Pending(m) == \E op \in Ops : gen[op] = "running" /\ m = Reply(op)

NoAsk      == [src |-> "none", head |-> Root, target |-> Root]
NoAttempt  == [st |-> "none", rev |-> 0, prev |-> 0, plan |-> "none",
               open |-> 0, made |-> 0, effect |-> 0]
Idle       == [pc |-> "idle", op |-> "none", st |-> "none", rev |-> 0,
               prev |-> 0, plan |-> "none"]

\* A change of an attempt's status is a revision of its row.
Advanced(row, st) == [row EXCEPT !.st = st, !.rev = @ + 1]

Src(op)     == ask[op].src
Target(op)  == IF op \in Forks THEN op ELSE Src(op)
Context(op) == IF op \in Forks THEN Parent(ask[op].target) ELSE ask[op].head
UserOf(op)  == User(Target(op), Context(op), TextOf[op])

Init ==
  /\ ask = [op \in Ops |-> NoAsk]
  /\ att = [op \in Ops |-> NoAttempt]
  /\ gen = [op \in Ops |-> "none"]
  /\ branches = {Main}
  /\ line = [b \in Branches |-> <<>>]
  /\ active = Main
  /\ rows = {}
  /\ state = [b \in Branches |-> 0]
  /\ call = [c \in Callers |-> Idle]
  /\ registry = [op \in Ops |-> "free"]
  /\ task = [op \in Ops |-> "none"]
  /\ launched = [op \in Ops |-> 0]
  /\ stranded = {}
  /\ changes = 0 /\ removals = 0 /\ restarts = 0

(***************************************************************************)
(* The client asks: a send names a branch and the head it saw, a fork also *)
(* the user message to replace (the target, or the one the target reply    *)
(* answers).  The answer of a call may be lost, so it may call again.      *)
(***************************************************************************)
Enter(c, op) == call' = [call EXCEPT ![c] = [Idle EXCEPT !.pc = "lookup",
                                                         !.op = op]]

Ask(c, op) ==
  /\ call[c].pc = "idle"
  /\ ask[op] = NoAsk
  /\ \E b \in branches :
       \E m \in IF op \in Sends THEN {Root} ELSE Range(line[b]) :
         /\ op \in Forks => IsUser(m)
         /\ ask' = [ask EXCEPT ![op] = [src |-> b, head |-> Tip(b),
                                        target |-> m]]
  /\ Enter(c, op)
  /\ UNCHANGED <<disk, registry, task, launched, stranded, changes, removals,
                 restarts>>

CallAgain(c, op) ==
  /\ call[c].pc = "idle"
  /\ ask[op] # NoAsk
  /\ Enter(c, op)
  /\ UNCHANGED <<ask, disk, registry, task, launched, stranded, changes,
                 removals, restarts>>

(***************************************************************************)
(* Finding or creating the intent.                                         *)
(***************************************************************************)
OnlyCall(c, next) ==
  /\ call' = [call EXCEPT ![c] = next]
  /\ UNCHANGED <<ask, disk, registry, task, launched, stranded, changes,
                 removals, restarts>>

\* The attempt a caller has just read, and where it goes from there: an
\* append that has already happened is returned as it is.
Holding(k, row) == [k EXCEPT !.st = row.st, !.rev = row.rev]
After(k, row) ==
  CASE row.st \in {"running", "completed"} -> Idle
    [] row.st = "prepared"                 -> [Holding(k, row) EXCEPT !.pc = "boundary"]
    [] OTHER                               -> [Holding(k, row) EXCEPT !.pc = "ready"]

\* prepare_message_generation_action: the live snapshot a fork starts from.
ForkSnapshot(op) == /\ active = Src(op)
                    /\ Tip(Src(op)) = ask[op].head
                    /\ ~ Pending(Tip(Src(op)))

Lookup(c) ==
  LET k == call[c]  op == k.op IN
  /\ k.pc = "lookup"
  /\ \/ att[op].st \in {"running", "completed"}
     \/ op \in Forks => ForkSnapshot(op)
  /\ OnlyCall(c, IF att[op].st = "none" THEN [k EXCEPT !.pc = "prepare"]
                 ELSE After(k, att[op]))

Prepare(c) ==
  LET k == call[c]  op == k.op
      fresh == [NoAttempt EXCEPT !.st = "prepared", !.rev = 1] IN
  /\ k.pc = "prepare"
  /\ \/ /\ att[op].st = "none"
        /\ Src(op) \in branches
        /\ Tip(Src(op)) = ask[op].head
        /\ op \in Forks => op \notin branches
        /\ att' = [att EXCEPT ![op] = fresh]
     \/ /\ att[op].st # "none"
        /\ UNCHANGED att
  /\ call' = [call EXCEPT ![c] = After(k, att'[op])]
  /\ UNCHANGED <<ask, gen, branches, line, active, rows, state, registry,
                 task, launched, stranded, changes, removals, restarts>>

(***************************************************************************)
(* The BeforeGeneration review.  A same-branch attempt is reviewed on the  *)
(* branch's current state and only while its head is the expected one; a   *)
(* fork on the immutable checkpoint of the message it forks from, and what *)
(* its review changes is the first state of a branch of its own.           *)
(***************************************************************************)
BoundaryHolds(op) == op \in Sends => Tip(Src(op)) = ask[op].head
Boundary(op)      == IF op \in Sends THEN state[Src(op)] ELSE 0

\* A proposal pending on the branch refuses a prepared attempt before this
\* (attempt.rs:496); like every refusal it is a GiveUp.
ReadBoundary(c) ==
  LET k == call[c] IN
  /\ k.pc = "boundary"
  /\ BoundaryHolds(k.op)
  /\ OnlyCall(c, [k EXCEPT !.pc = "commit", !.prev = Boundary(k.op)])

Reviewed(row, prev, n, effect) ==
  [Advanced(row, IF n = 0 THEN "before_applied" ELSE "awaiting_approval")
     EXCEPT !.prev = prev, !.open = n, !.made = n, !.effect = effect]

\* Mutant of ReplayReview: the replay stages its proposals a second time.
ReplayStages(op, prev) ==
  /\ att[op].st # "prepared" /\ att[op].prev = prev
  /\ \E n \in 0 .. MaxProposals : att' = [att EXCEPT ![op].open = n]

\* The review was committed already, by this caller's own earlier call or by
\* another one: an exact replay changes nothing.
ReplayReview(op, prev) ==
  /\ att[op].st # "prepared" /\ att[op].prev = prev
  /\ UNCHANGED att

CommitReview(c) ==
  LET k == call[c]  op == k.op IN
  /\ k.pc = "commit"
  /\ \/ /\ att[op].st = "prepared" /\ att[op].rev = k.rev
        /\ BoundaryHolds(op) /\ Boundary(op) = k.prev
        /\ \E n \in 0 .. MaxProposals,
              effect \in IF op \in Sends THEN 0 .. 1 ELSE {0} :
             att' = [att EXCEPT ![op] = Reviewed(@, k.prev, n, effect)]
     \/ ReplayReview(op, k.prev)
  /\ call' = [call EXCEPT ![c].pc = "reload"]
  /\ UNCHANGED <<ask, gen, branches, line, active, rows, state, registry,
                 task, launched, stranded, changes, removals, restarts>>

Reload(c) ==
  /\ call[c].pc = "reload"
  /\ OnlyCall(c, [Holding(call[c], att[call[c].op]) EXCEPT !.pc = "ready",
                                                            !.prev = 0])

\* The attempt as the caller read it decides; then the prompt is planned, from
\* what the review sealed and from whatever else the plan depends on.
Ready(c) ==
  LET k == call[c] IN
  /\ k.pc = "ready"
  /\ \/ /\ k.st \in {"running", "completed", "awaiting_approval"}
        /\ OnlyCall(c, Idle)
     \/ /\ k.st \in {"before_applied", "dispatch_ready"}
        /\ BoundaryHolds(k.op)
        /\ att[k.op].open = 0
        /\ \E p \in Plans :
             OnlyCall(c, [k EXCEPT !.pc = "register", !.plan = p])

\* A decision closes one proposal; an approved one may stage further ones.
Decided(row, n) ==
  LET staged == [row EXCEPT !.open = @ - 1 + n, !.made = @ + n]
  IN  IF staged.open = 0 THEN Advanced(staged, "before_applied") ELSE staged

Decide(op) ==
  /\ att[op].st = "awaiting_approval"
  /\ \E n \in 0 .. MaxProposals - att[op].made :
       att' = [att EXCEPT ![op] = Decided(@, n)]
  /\ UNCHANGED <<ask, gen, branches, line, active, rows, state, process,
                 launched, stranded, changes, removals, restarts>>

(***************************************************************************)
(* The launch permit and the seal.                                         *)
(***************************************************************************)
Admissible(op) ==
  LET held == {o \in Ops : registry[o] # "free"} IN
  /\ registry[op] = "free"
  /\ Cardinality(held) < MaxProcess
  /\ Cardinality(held) < MaxConversation
  /\ Cardinality({o \in held : ProviderOf[o] = ProviderOf[op]}) < MaxProvider

Register(c) ==
  LET k == call[c] IN
  /\ k.pc = "register"
  /\ Admissible(k.op)
  /\ registry' = [registry EXCEPT ![k.op] = "preparing"]
  /\ call' = [call EXCEPT ![c].pc = "seal"]
  /\ UNCHANGED <<ask, disk, task, launched, stranded, changes, removals,
                 restarts>>

Seal(c) ==
  LET k == call[c]  op == k.op IN
  /\ k.pc = "seal"
  /\ \/ k.st = "dispatch_ready" /\ UNCHANGED att
     \/ /\ k.st = "before_applied"
        /\ att[op].st = "before_applied" /\ att[op].rev = k.rev
        /\ att' = [att EXCEPT ![op] = [Advanced(@, "dispatch_ready")
                                         EXCEPT !.plan = k.plan]]
  /\ call' = [call EXCEPT ![c].pc = "append"]
  /\ UNCHANGED <<ask, gen, branches, line, active, rows, state, registry,
                 task, launched, stranded, changes, removals, restarts>>

(***************************************************************************)
(* The append transaction, and the task.                                   *)
(***************************************************************************)
Sealed(op, plan) == att[op].st = "dispatch_ready" /\ att[op].plan = plan

\* Mutant of SendLands: the pending head is not looked at.
SendLandsOnPending(op) == Tip(Src(op)) = ask[op].head

\* Mutant of SendLands: the reply is appended to whatever the head is now.
SendLandsAnywhere(op) == ~ Pending(Tip(Src(op)))

\* require_generation_append_branch
SendLands(op) == /\ Tip(Src(op)) = ask[op].head
                 /\ ~ Pending(Tip(Src(op)))

\* A message id is a primary key.
NewRow(op) == UserOf(op) \notin rows

Began(op) ==
  /\ att' = [att EXCEPT ![op] = Advanced(@, "running")]
  /\ gen' = [gen EXCEPT ![op] = "running"]
  /\ rows' = rows \cup {UserOf(op)}

\* The append is durable.  Its caller goes on to start the task, or is told
\* that the commit failed and drops its permit.
Answered(c) ==
  \/ /\ call' = [call EXCEPT ![c].pc = "start"]
     /\ UNCHANGED <<registry, stranded>>
  \/ /\ call' = [call EXCEPT ![c] = Idle]
     /\ registry' = [registry EXCEPT ![call[c].op] = "free"]
     /\ stranded' = stranded \cup {call[c].op}

\* Mutant of AppendSend: a generation that exists is taken for an exact
\* replay, as the intent and the review are.
AppendReplays(c) ==
  LET k == call[c]  op == k.op IN
  \/ /\ k.pc = "append" /\ op \in Sends
     /\ gen[op] # "none"
     /\ OnlyCall(c, [k EXCEPT !.pc = "start"])
  \/ /\ k.pc = "append" /\ op \in Sends
     /\ SendLands(op)
     /\ Sealed(op, k.plan)
     /\ state[Src(op)] = att[op].prev
     /\ NewRow(op)
     /\ Began(op)
     /\ line' = [line EXCEPT ![Src(op)] = @ \o <<UserOf(op), Reply(op)>>]
     /\ state' = [state EXCEPT ![Src(op)] = @ + att[op].effect]
     /\ Answered(c)
     /\ UNCHANGED <<ask, branches, active, task, launched, changes, removals,
                    restarts>>

AppendSend(c) ==
  LET k == call[c]  op == k.op IN
  /\ k.pc = "append" /\ op \in Sends
  /\ SendLands(op)
  /\ Sealed(op, k.plan)
  /\ state[Src(op)] = att[op].prev
  /\ NewRow(op)
  /\ Began(op)
  /\ line' = [line EXCEPT ![Src(op)] = @ \o <<UserOf(op), Reply(op)>>]
  /\ state' = [state EXCEPT ![Src(op)] = @ + att[op].effect]
  /\ Answered(c)
  /\ UNCHANGED <<ask, branches, active, task, launched, changes, removals,
                 restarts>>

\* The messages before the one a fork replaces.
Inherited(op) ==
  LET l == line[Src(op)]
      k == CHOOSE i \in DOMAIN l : l[i] = ask[op].target
  IN  SubSeq(l, 1, k - 1)

AppendFork(c) ==
  LET k == call[c]  op == k.op IN
  /\ k.pc = "append" /\ op \in Forks
  /\ ForkSnapshot(op)
  /\ Sealed(op, k.plan)
  /\ op \notin branches
  /\ NewRow(op)
  /\ Began(op)
  /\ branches' = branches \cup {op}
  /\ line' = [line EXCEPT ![op] = Inherited(op) \o <<UserOf(op), Reply(op)>>]
  /\ active' = op
  /\ Answered(c)
  /\ UNCHANGED <<ask, state, task, launched, changes, removals, restarts>>

Start(c) ==
  LET op == call[c].op IN
  /\ call[c].pc = "start"
  /\ registry[op] = "preparing"
  /\ registry' = [registry EXCEPT ![op] = "running"]
  /\ task' = [task EXCEPT ![op] = "run"]
  /\ launched' = [launched EXCEPT ![op] = @ + 1]
  /\ call' = [call EXCEPT ![c] = Idle]
  /\ UNCHANGED <<ask, disk, stranded, changes, removals, restarts>>

\* Mutant of Permit: a refused registration drops a permit too.
PermitEarly(c) == call[c].pc \in {"register", "seal", "append", "start"}

\* Dropping the permit frees the slot it reserved, and no other.
Permit(c) == call[c].pc \in {"seal", "append", "start"}

\* Mutant of GiveUp: the request can also be dropped between the append and the
\* start of the task.
GiveUpLate(c) ==
  /\ call[c].pc # "idle"
  /\ registry' = IF Permit(c) THEN [registry EXCEPT ![call[c].op] = "free"]
                 ELSE registry
  /\ call' = [call EXCEPT ![c] = Idle]
  /\ UNCHANGED <<ask, disk, task, launched, stranded, changes, removals,
                 restarts>>

\* The call ends with an error, or its future is dropped; between the append
\* and the start of the task there is neither an error nor an await.
GiveUp(c) ==
  /\ call[c].pc \notin {"idle", "start"}
  /\ registry' = IF Permit(c) THEN [registry EXCEPT ![call[c].op] = "free"]
                 ELSE registry
  /\ call' = [call EXCEPT ![c] = Idle]
  /\ UNCHANGED <<ask, disk, task, launched, stranded, changes, removals,
                 restarts>>

\* The terminal transaction: the reply stays, or is deleted and the branch
\* goes back to the message it answered.
Closed(op, kept) ==
  [b \in Branches |-> IF ~ kept /\ Tip(b) = Reply(op) THEN Front(line[b])
                      ELSE line[b]]

Finish(op) ==
  /\ task[op] = "run"
  /\ gen' = [gen EXCEPT ![op] = "completed"]
  /\ att' = [att EXCEPT ![op] = Advanced(@, "completed")]
  /\ \E kept \in BOOLEAN : line' = Closed(op, kept)
  /\ task' = [task EXCEPT ![op] = "closing"]
  /\ UNCHANGED <<ask, branches, active, rows, state, call, registry, launched,
                 stranded, changes, removals, restarts>>

\* The terminal transaction and its compensation both fail: the task ends all
\* the same, and the generation stays running.
FinishFails(op) ==
  /\ task[op] = "run"
  /\ stranded' = stranded \cup {op}
  /\ task' = [task EXCEPT ![op] = "closing"]
  /\ UNCHANGED <<ask, disk, call, registry, launched, changes, removals,
                 restarts>>

Free(op) ==
  /\ task[op] = "closing"
  /\ task' = [task EXCEPT ![op] = "none"]
  /\ registry' = [registry EXCEPT ![op] = "free"]
  /\ UNCHANGED <<ask, disk, call, launched, stranded, changes, removals,
                 restarts>>

(***************************************************************************)
(* What else moves: the user removes messages and changes branch, events   *)
(* change an interaction state, the process dies and recovery closes what  *)
(* was running.                                                            *)
(***************************************************************************)
Removable(b) == b = active /\ line[b] # <<>> /\ ~ Pending(Tip(b))

RemoveMessage(b) ==
  /\ removals < MaxRemovals
  /\ Removable(b)
  /\ \E i \in DOMAIN line[b] :
       line' = [line EXCEPT ![b] = SubSeq(@, 1, i - 1)]
  /\ removals' = removals + 1
  /\ UNCHANGED <<ask, att, gen, branches, active, rows, state, process,
                 launched, stranded, changes, restarts>>

SelectBranch(b) ==
  /\ b \in branches \ {active}
  /\ active' = b
  /\ UNCHANGED <<ask, att, gen, branches, line, rows, state, process,
                 launched, stranded, changes, removals, restarts>>

ChangeState(b) ==
  /\ changes < MaxChanges
  /\ b \in branches
  /\ state' = [state EXCEPT ![b] = @ + 1]
  /\ changes' = changes + 1
  /\ UNCHANGED <<ask, att, gen, branches, line, active, rows, process,
                 launched, stranded, removals, restarts>>

\* close_interrupted_generations_in_transaction, for all of them at once.  A
\* reply stays if it has a durable partial checkpoint; kept holds those.
Recovered(kept) ==
  LET cut == {op \in Ops : gen[op] = "running"} IN
  /\ gen' = [op \in Ops |-> IF op \in cut THEN "completed" ELSE gen[op]]
  /\ att' = [op \in Ops |-> IF op \in cut
                            THEN Advanced(att[op], "completed")
                            ELSE att[op]]
  /\ line' = [b \in Branches |-> IF \E op \in cut \ kept : Tip(b) = Reply(op)
                                 THEN Front(line[b]) ELSE line[b]]

Restart ==
  /\ restarts < MaxRestarts
  /\ restarts' = restarts + 1
  /\ call' = [c \in Callers |-> Idle]
  /\ registry' = [op \in Ops |-> "free"]
  /\ task' = [op \in Ops |-> "none"]
  /\ stranded' = {}
  /\ \E kept \in SUBSET Ops : Recovered(kept)
  /\ UNCHANGED <<ask, branches, active, rows, state, launched, changes,
                 removals>>

(***************************************************************************)
(* The specification.                                                      *)
(***************************************************************************)
Step(c) == \/ Lookup(c) \/ Prepare(c) \/ ReadBoundary(c) \/ CommitReview(c)
           \/ Reload(c) \/ Ready(c) \/ Register(c) \/ Seal(c)
           \/ AppendSend(c) \/ AppendFork(c) \/ Start(c)

Next ==
  \/ \E c \in Callers : \/ Step(c) \/ GiveUp(c)
                        \/ \E op \in Ops : Ask(c, op) \/ CallAgain(c, op)
  \/ \E op \in Ops : Decide(op) \/ Finish(op) \/ FinishFails(op) \/ Free(op)
  \/ \E b \in Branches : RemoveMessage(b) \/ SelectBranch(b) \/ ChangeState(b)
  \/ Restart

Spec == Init /\ [][Next]_vars

----------------------------------------------------------------------------
Statuses == {"none", "prepared", "awaiting_approval", "before_applied",
             "dispatch_ready", "running", "completed"}

\* Types, and the admission limits of admission.rs:20.
TypeOK ==
  /\ \A op \in Ops : att[op].st \in Statuses
  /\ gen \in [Ops -> {"none", "running", "completed"}]
  /\ branches \subseteq Branches /\ active \in branches
  /\ registry \in [Ops -> {"free", "preparing", "running"}]
  /\ task \in [Ops -> {"none", "run", "closing"}]
  /\ stranded \subseteq Ops
  /\ LET held == {op \in Ops : registry[op] # "free"} IN
     /\ Cardinality(held) <= MaxConversation
     /\ \A p \in Range(ProviderOf) :
          Cardinality({op \in held : ProviderOf[op] = p}) <= MaxProvider

\* However often an operation is called, by however many callers at once and
\* after a crash, its provider request is launched at most once, and a second
\* attempt at the same message never reaches a provider.
LaunchedOnce == \A op \in Ops : launched[op] <= 1

\* A branch generates one reply at a time and its head is that reply: no send,
\* fork or removal moves a branch under a running generation.
ReplyIsHead ==
  \A op \in Ops : gen[op] = "running" => Tip(Target(op)) = Reply(op)

\* Every reply on a branch follows the user message of its own operation, and
\* that message follows the one the client had in front of it when it asked.
AnswersWhatWasAsked ==
  \A b \in branches : \A i \in DOMAIN line[b] : \A op \in Ops :
    line[b][i] = Reply(op) =>
      /\ i > 1 /\ line[b][i - 1] = UserOf(op)
      /\ Context(op) = IF i = 2 THEN Root ELSE line[b][i - 2]

\* A registry entry has exactly one owner, a launch permit or a task: the
\* permit of a call that fails never frees another call's running generation,
\* and no slot outlives its owner (admission.rs Drop, ActiveGenerationGuard).
EntryHasOneOwner ==
  \A op \in Ops :
    LET owners == {c \in Callers : call[c].op = op
                                   /\ call[c].pc \in {"seal", "append", "start"}}
    IN  Cardinality(owners) + (IF task[op] = "none" THEN 0 ELSE 1)
          = IF registry[op] = "free" THEN 0 ELSE 1

\* A task streams the reply, or a call is about to spawn it.
Served(op) == \/ task[op] = "run"
              \/ \E c \in Callers : call[c].op = op /\ call[c].pc = "start"

\* A generation that is running on disk is being served, unless a storage
\* failure has stranded it: an append that reported an error after it was
\* durable, or a terminal transaction that failed together with its
\* compensation.  Nothing serves a stranded one, and it runs until recovery
\* closes it.  Nothing else leaves a generation running, and nobody serves one
\* that is over; the attempt and the generation agree on whether it runs and
\* whether it is over, through failures and crashes as well.
RunningIsServed ==
  \A op \in Ops :
    /\ (gen[op] = "running" /\ op \notin stranded) <=> Served(op)
    /\ op \in stranded => gen[op] = "running"
    /\ \A st \in {"running", "completed"} : att[op].st = st <=> gen[op] = st

\* Nothing is dispatched for an attempt with an undecided proposal, however
\* the decisions interleave with retries of the call.
ApprovedBeforeDispatch ==
  \A op \in Ops :
    att[op].st \in {"dispatch_ready", "running", "completed"} => att[op].open = 0

\* Whatever is on a branch was asked for there, a running reply is the head of
\* its branch, and whatever was dispatched was approved and admitted, in every
\* interleaving of callers, decisions, failures and restarts.
DispatchInv == /\ TypeOK /\ AnswersWhatWasAsked /\ ReplyIsHead
               /\ ApprovedBeforeDispatch
=============================================================================

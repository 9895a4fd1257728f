# LorePia: a TLA+ model of its durable work

LorePia is a local-first role-play chat application: a Tauri shell over Rust
crates, with one SQLite database as its only durable store. Everything that
must survive the process (a conversation's branches, the work to be done in the
background, the events to be delivered to rules) is a row, and every row that
moves through states is written by short immediate transactions that are
guarded by a revision or an attempt number. The hard part of the program is not
in any one transaction. It is in what happens between them: a user command on
another thread, a process that ends, a provider that answers too late, a clock
that goes back, a second worker with the claim of a first one.

This directory models that part. It is written from the Rust and SQL sources;
`PROJECT.json` gives, for each definition, the lines it stands for.

## 1. The system's components

| Component | Durable state | Operations | Interacts with |
|---|---|---|---|
| Memory job queue (`crates/storage/src/memory_queue.rs`, migration 0015) | `memory_jobs`: state, revision, availability, attempt starts | enqueue, claim, recover, interrupt, finish, complete summary, complete embedding, retry, cancel in range | called by the supervisor, by user commands and by branch edits |
| Memory supervisor and workers (`core/src/orchestration_runtime`, `core/src/app/generation/auxiliary.rs`, `src-tauri/src/state.rs`) | none of its own; the claim it holds in memory | poll, claim, prepare, select a target, dispatch, settle; dies on a storage error | queue, providers, shutdown signal |
| Memory records and branch visibility (`memory_visibility.rs`, `memory_queue.rs`) | records with revisions and tombstones, embeddings | create, patch, exclude, delete, invalidate | queue, branch edits, prompt building |
| Branches (`database/branch*.rs`, `generation_append.rs`) | messages, branch heads | append, remove a message (rewind), fork | records, jobs, outbox |
| Core lifecycle outbox (`lifecycle_outbox.rs`, migration 0019) | `core_lifecycle_outbox`: status, attempts, lease | insert with the change it reports, claim, acknowledge, retry later, recover leases | conversation start, generation finalisation, rules, summary requests |
| Derived-event outbox (`core/src/interaction_derived_drain.rs`, `storage/src/interaction_repository/derived_outbox/`, migration 0036) | derived events with chain, depth, status, lease and quarantine; the interaction state of a branch | enqueue with the event that caused it, claim, review, commit with acknowledgement, retry later, quarantine, recover leases | interaction rules, lifecycle delivery, user choices and decisions |
| Credential operation journal (`src-tauri/src/credential_operations/`, `storage/src/provider_credential_repository.rs`, migration 0037) | one operation row with its attestations, the ownership projection, the slot garbage queue, beside the operating system's vault | capture, replace, delete, archive, explicit cleanup, recovery at startup | vault, provider requests |
| Package CAS promotion (`storage/src/database/package_cas/`, `package_repository/`, `database/character_import.rs`) | promotion journal, metadata rows and product references beside files | inspect, promote, register, commit, discard, clean up, recover | package import, character import |
| Generation attempts (`core/src/app/generation/`, `storage/src/generation_attempt.rs`, `interaction_repository/generation_review.rs`, `database/generation_append.rs`) | intent row, review, proposals, seal; messages and branch heads | prepare, review, decide, plan, register, seal, append, spawn, finish | branches, interaction state, registry of running generations |
| Generation stream (`crates/chat/src/generation.rs`, `core/src/app/generation_workflow.rs`, `generation_events.rs`, `shell-api/src/stream.rs`, `database/finalize.rs`) | message and generation rows, partial checkpoints; bus, live prefix and registry in memory | stream, forward, checkpoint, finalise, compensate, cancel, subscribe, reattach, recover | provider, viewers, lifecycle outbox |
| Memory query embeddings (`memory_query_embedding.rs`) | one row per prompt query | begin, dispatch, complete, interrupt, retry | prompt building |
| Verified asset cache, ticket stores, discovery leases, model discovery | mostly in memory | put, look up, evict, expire | shell |
| Prompt compiler, provider wire formats, user interface | none | pure transformation or I/O | everything |

What is hard, and the properties that make the modelled parts correct:

* *Two claims of one job.* A worker that was given up (recovery, retry, new
  claim) still holds a revision and may report. Only the latest claim may
  change the row.
* *A rewind under a summary in flight.* Memory of removed messages must not
  become usable, whatever the order of completion and removal.
* *An edit under an embedding in flight.* An embedding must belong to the
  active revision of a record that may be used.
* *A crash between claim, dispatch and settlement.* The row must be neither
  lost nor run again without a user's decision, and a provider must not be paid
  twice for one decision.
* *Limits.* Attempts, concurrency and the rate window are counted from rows
  that crashes, retries and cancellations change, by a clock that may go back.
* *Progress.* A queued job is taken up while the supervisor lives; a claimed job
  is settled.
* *Two deliveries of one occurrence.* Several threads drain the lifecycle outbox
  and nothing renews a lease. An occurrence's event must be applied once, and
  only the latest delivery may settle it.
* *The order of events on a branch.* Rules see a conversation's events in the
  order they happened, although their times come from a wall clock, deliveries
  fail and are retried, and the two occurrences of one generation share a time.
* *A crash or failure between two consequences.* An acknowledgement stands for all
  of them: the event of the generation, the event of the message, the request
  for its summary.
* *Waiting.* An occurrence waits for its predecessors and, for a kept message, for
  the end of its generation; the waiting must not become mutual.
* *Events that derive events.* Rules feed each other: an event may derive itself
  again through others, several threads apply the derived events, and a root event
  of the user may come between them.
* *Two stores that no transaction spans.* The vault and the journal, the files and
  the metadata: each effect outside SQLite is bracketed by rows, and the process
  may die between effect and row.
* *Two imports of the same bytes.* The failure of one must not take the bytes of the
  other, nor leave bytes that nobody will ever remove.
* *A message that is seen, announced, checkpointed and stored by four parties.* 
  viewer that attaches late or falls behind must see neither gap nor repetition; a
  failing terminal transaction must not be announced as a success.
* *A request that is sent again.* The client repeats a call whose answer was lost,
  from another window or after a crash, and the provider must be asked once, for
  the branch as the user saw it.

The same list, at the lines where each hazard bites, is `hazards` in
`PROJECT.json`.

## 2. Modules

| Module | Models |
|---|---|
| `MemoryJobTable` | a job row and what each queue transaction does to the table, as operators on a table value |
| `MemoryJobLifecycle` | what the schema's triggers promise of a job: the abstract specification |
| `MemoryQueue` | the queue as a component: any number of callers, stale claims, an arbitrary clock |
| `MemoryQueueProofs` | theorems about `MemoryQueue` |
| `MemoryRuntime` | queue, records, branch, supervisor, user and process composed |
| `MemoryRuntimeProofs` | theorems about `MemoryRuntime` |
| `MCMemoryQueue`, `MCMemoryRuntime` | instances for TLC |
| `LifecycleOutbox` | a row of the lifecycle outbox, the claim query and what each statement does to the table |
| `OutboxLifecycle` | what the outbox's transition trigger promises: the abstract specification |
| `LifecycleDelivery` | outbox, interaction state of the branches, supervisor and command threads composed |
| `LifecycleDeliveryProofs` | theorems about `LifecycleDelivery` |
| `MCDelivery`, `MCDeliveryLiveness` | instances for TLC |
| `DerivedChain` | the rows of the derived outbox, the guards of a chain and the claim query, as operators |
| `DerivedOutbox` | drainers, writers of root events, clock and process over those rows |
| `DerivedOutboxProofs` | theorems about `DerivedOutbox` |
| `CredentialJournal` | the journal row and each repository transaction on it, the decoder and the triggers, as operators |
| `CredentialOperations` | the commands of one connection, the vault, death and recovery |
| `CredentialOperationsProofs` | theorems about `CredentialOperations` |
| `PackageCas` | import threads, card import, mutex, journal, rows, files and recovery |
| `PackageCasProofs` | theorems about `PackageCas` |
| `GenerationStream` | one generation from its spawned task to its end, its viewers and its recovery |
| `GenerationStreamProofs` | theorems about `GenerationStream` |
| `GenerationDispatch` | from a client's request to the spawned task: attempts, branches, registry |
| `GenerationDispatchProofs` | theorems about `GenerationDispatch` |
| `MCDerived`, `MCCredential`, `MCPackageCas`, `MCGenerationStream`, `MCGenerationDispatch` | instances for TLC |

### The job table and the queue

`jobs` maps an idempotency key to a row. The job id is a digest of the key, so
key and id are one. `InputOf` stands for the columns of the partial unique index
`memory_jobs_one_live_input`. `starts` is the payload's `attempt_started_at`
list; the `attempts` column is its length because no statement writes one
without the other. `started_at` is the last element.

`Claimable` is the claim query: state, attempt bound, availability,
concurrency of the exact task-profile revision, and starts in the trailing rate
window over rows in *any* state. `OldestClaimable` is its `ORDER BY`; ties, which
the code breaks by creation time and digest, are left open. `ReportAccepted` is
the common guard of interrupt, finish and both completions: revision, state
`running`, and a clock not behind the durable start.

`MemoryQueue` gives callers any transaction in any order. A claim is remembered
in `workers` until its holder reports, which may happen after the row was
recovered, retried and claimed again. Each call reads a clock of its own, which
need not be monotone, since the code reads the wall clock.

### The runtime

`MemoryRuntime` composes the table with the records and embeddings the jobs
produce, the branch they summarise and the one supervisor task. The supervisor's
phases are the points between its transactions: `idle` (top of the loop),
`polling` (claim), `claimed` (before the preparing transaction), `selecting`
(before each provider target), `dispatched` (request begun), `settling` (before
the transaction that ends the job), `failed` (loop ended by an error), `stopped`
(shutdown seen), `off` (no process). `Bootstrap` is the whole of startup as far
as jobs go: recovery of running rows happens before the supervisor exists.
`Exit` ends the process at any point; the durable state stays.

User commands run on other threads between any two supervisor steps: a message
is appended, a message is removed with everything behind it (records
invalidated, jobs cancelled and the head moved in one transaction), a summary is
requested, an interrupted job is retried, a record is patched, excluded or
deleted (which cancels the embedding jobs of the superseded revision).

A provider's answer is one of four outcomes, which are the classes the code
tells apart: a result; a rejection (job fails); an unknown outcome after
dispatch (job interrupted); and a result the worker accepts but storage refuses
(the settling transaction fails and the supervisor with it).

### The delivery of lifecycle occurrences

`outbox` maps an occurrence to its row. `Earlier`, `Unblocked`, `Due` and
`NextClaimable` are the parts of the one claim query. `attempts` is the
`delivery_attempts` column, which is also the token of a delivery: to acknowledge
or to defer, a drainer must name the attempt it was given (`TokenIsCurrent`).

A drainer is the supervisor or a thread of a command that needs up-to-date
interaction state. Its phases are the points between its transactions: `lookup`
(has the event been committed by an earlier delivery), `review` (read the
interaction state and evaluate the rules), `commit`, `derive` (drain the events
that the event derived), `summary` (request the memory summary of a kept
message), then `acknowledge`, or `defer` after a failure anywhere. A
message_committed occurrence passes twice through look-up to derive: first with
the event of its generation. `starting` is the supervisor before it has released
expired leases.

`applied` holds the revision at which the event of an occurrence left the
interaction state of its branch. `CommitEvent` checks, in one transaction, that the
idempotency key is free and that the state is at the revision it was reviewed at.
If the key is taken the commit is a replay when its payload is the same, which
needs the same reviewed revision, and a conflict otherwise; a policy that changed
in between also makes it a conflict, so at the same revision both outcomes are
possible. `ChangeInteractionState` stands for all other events of the branch.

`known` is a history variable: what was in the outbox when an occurrence was first
claimed. It is what the order can be promised of, since an occurrence with an
earlier time may be inserted after a later one was delivered.

### The derived events

`rows` is the table in insertion order; `log[b]` is the sequence of events applied
to branch `b`, whose length is the revision of its interaction state.
`Enqueued` and `Accepted` are the three guards of `write_derived_event_outbox`
in the code's order (an event on its own path, the depth, the length of the
chain); what an event derives is any sequence of at most `MaxFanout` events. A
drainer claims, reviews, commits or defers, each in a transaction. A claim first
quarantines unsealed rows of an older schema, at most `ClaimLimit` of them, and then
takes the first unblocked row; if that one is unsealed the whole transaction is
rolled back (`ClaimAborts`). A writer commits a root event: an ordinary event and a
generation's append wait for the closure of earlier events
(`NoPendingPredecessor`), a choice and a decision about a proposal do not.

### The credential journal

`op` is the connection's latest journal row, `ownership` the ownership projection,
`vault` what each slot shows and what would survive a power loss. The operators of
`CredentialJournal` return the row as it was where the code returns an error, so an
action of `CredentialOperations` is a step of a command between two awaits, with the
transactions it makes. The vault is the platform plugin's (`desktop/macos.rs` for the
keychain, with a counterpart on each system); `Native` allows more outcomes than any one
of them has: `ok` promises durability, `error` that the slot is as before or durably
changed, `CredentialRecoveryRequired` nothing; and the process may die before it
answers. `Decodes` and `LegalTransition` restate the row decoder and the
triggers of migration 0037, which the repository's code must never meet.
`unrecorded` is a history variable: the slots whose cleanup was answered by the
vault when the process died, before the answer was written down.

### The package store

`journal` has a phase for each import and object, `row` the media type of each
registered object, `file` the objects in the store, `refs` those a product refers
to. A thread's `pc` names its next transaction or file operation; `lock` is
`cas_mutation`, which is free between a promotion and the transaction that claims
it. The character import takes the same mutex and the same files, without the
journal. `mode` is the process: running, in recovery, or closed by a failed
(`failed`) or refused (`refused`) opening.

### A running generation

Text is counted in deltas. `task` is `run_generation` and then the finishing part,
`channel` and `fwd` the forwarder, `bus` the broadcast channel (a viewer's receiver
is its position), `live` the process-local delivery state with its reattachment
snapshot, `disk` the generation, its message, its attempt and its two lifecycle
occurrences. The provider's future is polled only by the select loop, so it stands
still once the loop is left. A failing storage call is a step of its own for the
checkpoint, the terminal transaction, its compensation and the reads that follow; a
transaction may also commit and report an error. The four modes are the two settings
that matter: partial generations preserved or not, output withheld for transforms or
not.

### The dispatch of a generation

`att` is the intent row of an operation with its review, `call` the position of each
caller, `line` the messages of each branch, `registry` the process's slots. A call
reads and writes in several transactions; between any two of them another caller of
the same operation, a decision about a proposal, a removal of messages, a change of
the interaction state or the end of the process may come. A guard that refuses (a
proposal pending on the branch, `attempt.rs:496`, is one) and a storage error are one
action, `GiveUp`, since both end the call and drop its permit. After the append there
is neither an error nor an await before the task is spawned, so no `GiveUp`; but the
append itself may be durable and report an error, and then the permit is dropped while
the generation runs (`Answered`). A task ends with `Finish`, or with `FinishFails`, when
the terminal transaction and its compensation both fail. `stranded` holds the
operations these two failures left running. Recovery decides for each interrupted
reply by itself whether it has a checkpoint and stays. `launched` counts spawned
provider requests.

### Abstractions

* Data is reduced to what the properties tell apart: messages are numbers in
  commit order, a record is named by the job that creates it, texts and vectors
  are absent.
* A legacy row without a task profile behaves as a profile with concurrency 1
  and no rate limit, so it needs no case of its own. `save_memory_job`, which
  only tests call, is left out.
* The claim query computes the rate window with floating-point Julian days;
  the model uses integers. An error of less than a millisecond at the window's
  edge is not represented.
* State versions of records only refuse a command based on an outdated view; a
  refused command changes nothing and is not a step.
* `remove_message_from_branch` also invalidates portable runtime state of the
  branch, which no memory job reads; it is left out. There is one branch.
* The limits of a drain (64 occurrences a pass, 8 passes) and its idle polls change
  nothing durable and are left out: a drainer may claim again at any time.
* No code inserts a `before_generation` occurrence any more, so that route and its
  approval poll are left out. In `LifecycleDelivery` the derived events of an event
  are drained in one step that succeeds or fails; `DerivedOutbox` is about them.
* In the derived outbox, the credential journal, the package store and the streams
  a digest is the thing it names; hashes that bind a row to its parent are left out.
* The derived outbox has no numeric clock: a row is ripe or not, and becomes ripe at
  any moment. The lease and retry intervals only say when.
* One provider connection, one generation and one conversation are modelled; the
  code keeps nothing across them but the admission limits, which
  `GenerationDispatch` has.
* Publishing and removing a file are each one step; partial and staging files, which
  every start removes, are left out.
* The outbox's times are compared as RFC 3339 strings of one zone, whose order is
  the order of time; the model uses integers.
* Which turns a summary covers is a constant (`FirstOf`, `LastOf`), so a request
  may come for any range of a committed message's lineage, also when that
  message has left the branch meanwhile.

## 3. Runs

A run checks one instance. Its invariants are named parts: `QueueInv`, `RuntimeInv`,
`DeliveryIsSafe`, `DerivedInv`, `CredentialInv`, `StoreInv`, `StreamInv` and
`DispatchInv` are conjunctions of the module's types and of invariants that are
defined and explained one by one beside them.

| Run | Instance | Checks |
|---|---|---|
| `MemoryQueue` | 3 jobs of one profile, 2 of them with the same input, 2 attempts, stale claims kept, 1 running at a time, 2 starts in 2 ticks, a clock of 3 values that moves freely | `QueueInv` (types, attempts, concurrency, one live job per input), `RateWindowBounded`, `OnlyLatestClaimReports`, `LifecycleSpec` |
| `MemoryRuntime` | a summary over messages 1 and 2 and its embedding, a third message, 2 targets, 2 record revisions, 3 attempts, any number of restarts | `RuntimeInv` (types, work in flight, open embedding jobs, atomic completion, running jobs), `UsableMemoryIsOnBranch`, `OneRequestPerDecision`, `JobsRunTheirLifecycle` |
| `Delivery` | one branch with a generation's two occurrences and an opening, 2 drainers, a free clock of 2 values and a lease of 1, 2 deliveries of each, a failure and a lost settlement, other events up to revision 1, one end of the process | `DeliveryIsSafe` (types, acknowledged is applied, applied in order), `SomebodyIsUnblocked`, `AppliedOnce`, `OnlyLatestDeliverySettles` |
| `DeliveryLiveness` | a generation in one room, an opening in another, 2 drainers, a clock that goes on, 9 deliveries, one failing delivery of each, one end of the process | `OutboxSpec`, `OccurrencesAreDelivered` |
| `DerivedRaces` | 2 branches, one with two unsealed rows, 2 events, depth and chain of 2, 2 drainers (alike: symmetry), a writer of events and choices, one fault, one restart | `AppliedInOrder`, `AcknowledgedIffApplied`, `RootsFollowClosure` |
| `DerivedLiveness` | 1 branch with an unsealed row, 3 events, every kind of root event, 2 drainers, one fault, one restart | `DerivedInv` (types, finite chains), `OccurrencesSettleForGood` |
| `Credential` | one connection, 3 authorities, 2 vault or storage faults, 2 deaths | `CredentialInv` (types, rows decode, granted access, archived connection), `SettledJournalIsDurable`, `NoOrphanCredential`, `ReplacementKeepsACopy`, `TriggersAgree`, `UncertainSettles` |
| `PackageCas` | 2 packages with one source and 2 assets, one asset declared under two media types, the other shared with a card; 2 threads, one fault, 2 deaths | `StoreInv` (types, registered is stored, nothing leaked), `ReferenceIsStored`, `OpensClean`, `RecoveryCompletes` |
| `PackageCasRefused` | 2 packages that declare one asset under two media types, one death; a violation is expected | `AlwaysOpens` |
| `GenerationStream` | one generation in all four modes, 3 provider events, an output limit of 2, a bus of 2, a checkpoint every 2 deltas, a viewer, 3 faults, one crash | `StreamInv` (types, only lag reconciles, terminal or live, raw text hidden, rows close together), `ViewIsExact`, `AnnouncedIsDurable`, `LossIsBounded`, `StreamEnds` |
| `DispatchRetries` | a send and a fork of its message, 2 callers, 2 plans, 2 proposals, one restart, one slot in the conversation | `DispatchInv` (types and admission limits, answers what was asked, a running reply is the head, approved before dispatch), `LaunchedOnce`, `EntryHasOneOwner`, `RunningIsServed` |
| `DispatchSends` | 2 sends of the same text on one branch, 2 callers, 2 slots, one removal, one change of state, one restart | `ReplyIsHead`, `AnswersWhatWasAsked` |

`PackageCasRefused` records a finding. `promote_package_assets` makes its intents
durable before it compares the media type of bytes that are in the store already. A
death in between leaves an intent whose type is not the stored one. Recovery keeps
the object, because another import needs it, verifies it against the intent, and
fails; the intent stays, and so every later `Storage::open` fails. ADR 0002 asks of
recovery that it complete or isolate such work idempotently.

### Where the properties except something

The following behaviours of the code were met while modelling. No run is about them;
where a property would meet one, it says so in an exception of its own.

* *Contested bytes* (`journal.rs:343`, `:428`): when the two imports of bytes declared
  under different media types fail one after the other, the first leaves the row to
  the second and the second deletes only a row of its own type, so the row stays.
  `NothingLeaked` and `OpensClean` except contested bytes.
* *An unrecorded cleanup* (`cleanup.rs:182`): the explicit cleanup writes its
  obligation after the vault answered. If the process dies in between and the delete
  was not durable, recovery reads the slot as missing and settles, and a power loss
  may bring the credential back. `SettledJournalIsDurable`, `NoOrphanCredential` and
  `ArchivedHoldsNothing` except the slots in `unrecorded`.
* *A stranded generation* (`generation_workflow.rs:226`, `generation_append.rs:174`,
  `action.rs:183`): if the terminal transaction and its compensation both fail, the task
  ends, and if an append is durable but reports an error, its call ends without a task;
  either way the generation is running on disk with nobody behind it until the next
  start. `TerminalOrLive` and `GenerationCloses` except it (`Stranded`), and so does
  `RunningIsServed` (`stranded`), which shows that nothing else has this effect.
* *Unsealed derived events* (`claim.rs:102`): a claim quarantines as many unsealed rows
  as it may claim, which is one, and then aborts if the next row it finds is unsealed
  too, so that with two such rows at the head every claim aborts and rolls its
  quarantine back. `ClaimAborts` models it, and `OccurrencesSettle` excepts a database
  that keeps more unsealed rows than one claim quarantines. The repository's tests of
  such databases (`interaction_derived_event_storage.rs:1241`,
  `migration_cutpoint_matrix.rs:299`) expect the rows to be quarantined, but they claim
  with a limit of 8, the drain with a limit of 1 (`interaction_derived_drain.rs:33`).
  The liveness run has one such row, which the exception does not cover: that row, and
  what waits behind it, must settle. `DerivedRaces` has two.
* *A drain that returns early* (`recovery.rs:316`): the synchronous boundaries drain the
  lifecycle outbox "before reading the checkpoint or effect projection it owns" (the
  comment at `:312`), but a drain ends with success when a claim finds nothing, and it
  finds nothing while the supervisor holds the lease of an occurrence it has not yet
  applied.
* *Attempts that cannot go on*: a reviewed attempt stays listed as retryable after the
  interaction state has moved (`generation_attempt.rs:622`), although its append can no
  longer succeed; and a text that was sent, removed and sent again after the same
  message gets the stored id of the removed one (`prompt_plan.rs:504`), so its append
  fails on the primary key. In the model both end in `GiveUp`.

### Why the bounds are enough

The safety properties hold for every size by proof (section 4); the bounds matter for the
liveness properties, and for the mutants, which show that the instances reach the cases
the properties are about.

*Memory.* Two attempts are the fewest with which a stale claim and a fresh one of the
same row exist together and with which the attempt bound is reached; three jobs of
which two share an input are the fewest with which a retry competes with a second key
while a third keeps the profile busy. Six starts are possible, the limit is two and
the clock spans more than the window, so windows fill, slide and are revisited when
the clock goes back. In the runtime a removal may cut below, inside or above the
source range, the third message lets the branch grow again after it, and three
attempts let a job be interrupted, retried and interrupted again.

*Delivery.* Two deliveries are the fewest with which a drainer that lost its lease and
its successor work on the same occurrence. A clock of two values with a lease of one
makes every lease expire or not expire under a drainer at work, and going back makes
occurrences arrive out of order. Three occurrences are the fewest with which both
waiting conditions and a bystander between them in the order exist. A retry time is
cut at `Horizon`; in the liveness run that is the clock's last value, so that every
retry comes due.

*Derived events.* With two events an event can derive itself through the other, depth
and length of a chain are reached, and two chains interleave on one branch. One fault
is enough for an overrun lease with a successor at work, or a commit whose answer is
lost; `MaxRows` and `MaxRoots` cut the rows and root events.

*Credential.* Three authorities allow an installation, its replacement and the
replacement of that. Two faults and two deaths are the fewest that put a failing
cleanup, or a death in it, behind a failed operation, and a second death in recovery.

*Package store.* Two imports, a card and two deaths are the fewest with which one
import is interrupted, another takes the same bytes and recovery itself is interrupted.
One object is contested and one is shared without contest, so every exception has its
counterpart in the same run.

*Generation.* With a bus of two events a viewer lags after three; with a checkpoint
every two deltas a crash finds saved and unsaved text; three faults are a failing
finalisation, a failing compensation and one more. Two callers are the fewest that
race inside one operation, and one slot makes the send and the fork compete. Two
proposals are the fewest with which an approval stages a further one while a call
retries. `DispatchRetries` has no change of the interaction state, `DispatchSends` has
one. A generation is stranded at most once, so those failures need no bound.

Deadlock is checked in every run. None of the instances can stop: the clock moves, a
process that ended can be started again, a client may call again, or, where all bounds
can be used up, an explicit step says that everything has been settled.

### Fairness

`FairSpec` of the memory runtime assumes weak fairness of the supervisor's steps and
nothing else. The loop of `start_memory_supervisor` never waits for anyone: an empty
queue is answered by a sleep, a provider request ends with its timeout, and a
transaction returns or fails. No fairness is assumed of the user, of the process (it
need not be restarted) or of shutdown. Both liveness parts therefore except a
supervisor that was stopped or has died: an error in the settling transaction ends the
loop until the next start of the application, and that is what the code does.

`FairSpec` of the delivery assumes weak fairness of each drainer's steps, since every
one is a transaction that returns or fails and the supervisor's loop comes back after
each, also after an error; and that the clock does not go back and does go on, which
the retry times need. No fairness is assumed of the events that insert occurrences or
of the end of the process. That failures, conflicts and ends of the process are
finitely many (`MaxFailures`, `MaxRevision`, `MaxRestarts`) is an assumption of the
property: an occurrence that fails for ever is retried for ever. `MaxLost` is 0 in this
run. After a settling statement that fails, the claim comes back when its lease
expires, and on a clock with a last value a lease taken at that value never does.

`FairSpec` of the derived outbox is the same: weak fairness of each drainer's claim,
review, commit and retry, and of the clock (`Ripen`). Faults are finitely many.

`FairSpec` of the credential operations assumes that a command under way goes on
(`Command`; it holds the only lock), and that the user deletes what is uncertain
(`BeginCleanup`) and opens the application again (`Reopen`), which is what the error
messages ask for; without the user the code promises nothing here.

`FairSpec` of the package store assumes that recovery goes on and that a user whose
application did not open starts it again. `FairSpec` of the stream assumes that the
runtime polls the provider's future, the task and the forwarder, that a provider call
ends (it has a timeout), that a client polls its stream, and that the application is
started again after a crash. `GenerationDispatch` has no fairness and no liveness
property: a call may always give up.

Each property has a mutant in `PROJECT.json`: an operator, defined beside the one
it stands in for, with a plausible bug (a missing comparison, an off-by-one, a
dropped write) under which TLC finds the property violated.

## 4. Proofs

What TLC checks on a small instance is proved here for every value of the constants
that satisfies the named assumptions. Each proof module has one inductive invariant (or
a few, in the two oldest modules), one lemma per action that says the action keeps it, and
theorems that read the properties of section 3 off it. The invariants were checked with
TLC on the instances of section 3 before they were proved. The assumptions are evaluated
by TLC in every run whose module extends the one that states them.

| module | theorems | the runs' properties they state |
|---|---|---|
| `MemoryQueueProofs` | 8 | all of `MemoryQueue` |
| `LifecycleDeliveryProofs` | 9 | all safety of `LifecycleDelivery` |
| `MemoryRuntimeProofs` | 4 | all safety of `MemoryRuntime`, and its refinement |
| `GenerationDispatchProofs` | 7 | all of `GenerationDispatch` |
| `DerivedOutboxProofs` | 6 | all safety of `DerivedOutbox` |
| `PackageCasProofs` | 4 | all safety of `PackageCas` |
| `CredentialOperationsProofs` | 6 | all safety of `CredentialOperations` |
| `GenerationStreamProofs` | 5 | all safety of `GenerationStream` |

### The memory queue

`MemoryQueueProofs` proves its theorems for every finite set
of keys, every assignment of inputs and profiles, all positive limits and every
set of clock values (`KeysAssumption`, `LimitsAssumption`, `TimeAssumption`; the
limits are positive because the domain types reject zero).

* `TypeCorrect`: by induction, one step per action.
* `AttemptsStayBounded`: inductive with `TypeOK`. Only a claim appends to the
  attempt list and only a retry queues a row that has one; both compare with the
  bound.
* `OneLiveJobStays`: inductive with `TypeOK`. Enqueue looks for a live row with the
  same input; a retry is caught by the unique index.
* `QueueImplementsLifecycle`: refinement of `MemoryJobLifecycle`. The mapping needs
  `AbsentRowsAreNew`: a row that does not exist has revision 0 and no
  starts. Lemma `RowStep` shows once, for all actions, that each row moves legally
  or rests; the other theorems cite it.
* `LatestClaimReports`: from `ClaimsArePast`, the invariant that an outstanding
  claim's revision is at most the row's. A report is accepted only at the row's
  own revision, so no other outstanding claim of the row can be younger.
* `ConcurrencyStaysBounded`: by `RowStep` only a claim adds a running row, adds
  one, and has counted the others.
* `RateWindowStaysBounded`: the interesting case is a claim at `now` and a window
  that ends at some other `t`. If the window contains `now` then `t >= now`, so all
  its other starts are later than `now` minus the window length, and the claim's
  query, which has no upper bound on the start times it counts, has counted
  them. This is why a clock that goes back cannot exceed the limit: starts in the
  future still count. `AttemptsBounded` is needed to know that the indices the
  query ranges over cover every start.
* `QueueIsConsistent`: `QueueInv`, the conjunction a run checks, from its parts.

### The lifecycle outbox

`LifecycleDeliveryProofs` proves the theorems of `LifecycleDelivery` for every
finite set of occurrences, all sets of branches and drainers, every clock and every
positive lease (`OccurrencesAssumption`, `ClockAssumption`, `DeliveryAssumption`;
the first says that a generation's two occurrences are on one branch and that
their ids are ordered as the code's prefixes `after-generation:` and
`message-committed:` are).

* `DeliveryTypeCorrect`: by induction, one step per action.
* `EventsAppliedOnce` and `OutboxImplemented` (refinement of `OutboxLifecycle`)
  follow from two lemmas that say once, for all actions, what a step may do to a
  row (`RowStep`) and to an event (`EventStep`).
* `DeliveryInvariant`: the inductive invariant behind the next two. Its parts:
  `NewRows` (a row is claimed before its event is applied), `DurableTogether` (the
  two occurrences of a kept message come together), `KnownSettled` (once an
  occurrence was claimed, its known predecessors are acknowledged),
  `WorkIsJustified` (what has been done by the time a drainer is in a phase),
  `SettledIsApplied`, `AppliedBound` (no event is ahead of its branch's state) and
  `GenerationFirst`. The parts need each other: that a drainer of a kept message
  never reviews the generation's event again follows from `DurableTogether` and
  the claim's waiting condition, through `SettledIsApplied`; that an acknowledgement
  means an applied event follows from `WorkIsJustified`.
* `AcknowledgedMeansApplied` and `EventsAppliedInOrder`: a commit writes the revision
  after the current one, everything the occurrence waited for is acknowledged and
  so applied, and nothing applied is beyond the current revision. With the types
  they are `DeliveryStaysSafe`, the theorem of the invariant `DeliveryIsSafe` that
  the run `Delivery` checks.
* `LatestDeliverySettles`: from `TokensArePast`, the invariant that no drainer holds
  a token above the row's attempts. Settling compares the two for equality.
* `SomebodyStaysUnblocked`: a branch with open occurrences has one that waits for none.
  `EarlierIsAnOrder` shows that what an occurrence waits for is earlier in the order of
  creation time and id, and `SomebodyIsFirst` finds a first one among the open
  occurrences of a branch. The order compares pairs, so the finite set is counted: the
  occurrence with the fewest earlier ones has none (`LeastNatural`, below).

### Induction without the induction rule

The library's induction rules take the property as an operator parameter, which the
provers cannot instantiate. Where a proof needs induction over a number, it argues from
the least counterexample instead: `LeastNatural`, that a non-empty set of naturals has a
least element, follows from `WFMin` of the library. The derived outbox uses it for the
rows an enqueue loop accepts (`Taken` of `DerivedChain`, a recursive function over the
events), for the ordinals of the legacy rows and for the paths from a row to its root.

### The memory runtime

`MemoryRuntimeProofs` holds for every set of jobs, all source ranges, any number of
messages, provider targets and record revisions, and every clock (`RuntimeAssumption`:
each embedding job belongs to one summary, and a source range is not backwards).

* `RuntimeIsConsistent` is `RuntimeInv`, `UsableMemoryStaysOnBranch` is
  `UsableMemoryIsOnBranch`, `RequestsAreDecidedOn` is `OneRequestPerDecision`, and
  `RuntimeImplementsLifecycle` is the refinement of `MemoryJobLifecycle`.
* The invariant strengthens what the run checks in four places. `KeptMemoryIsOnBranch`
  speaks of every record that is neither deleted nor invalidated, not only of the usable
  ones: a user's patch may put an excluded record back. `HeldRowRunsOrIsCancelled` says what
  can have happened to the row of the job at work, since a rewind or an edit cancels it
  under the supervisor. `WorkInFlightIsOnBranch` says that as long as the row runs, its
  source is on the branch: so what a late completion stores is. `BranchIsALine` gives the
  ancestors that a rewind keeps, and `RequestsInHand` counts one undecided request
  for each queued or newly claimed job.

### The dispatch of generations

`GenerationDispatchProofs` holds for all sets of operations and callers, every prompt plan
and all positive limits (`DispatchConstants`; an operation is a send or a fork and neither
the main branch nor the mark `"none"`).

* `EntryHasOneOwnerTheorem` and `LaunchedOnceTheorem`: `EntriesOwned` says which of the
  callers or the task owns a registry entry at which step, `SpawnedByItsAppend` that the
  call which appended the generation is the only one that spawns it, and `RowsAgree`
  ties the attempt's status to the generation's and to the open proposals.
* `RunningIsServedTheorem`: while the process lives, a generation is running on disk and not
  stranded exactly if it has a task or a call that is about to spawn one. `StartsHold`
  and `TasksHold` carry it: a call that is about to spawn, and a task, belong to a
  generation that runs and that no failure has stranded.
* `ApprovedBeforeDispatchTheorem` is an invariant: an attempt that is sealed, running or
  completed has no undecided proposal.
* `ReplyIsHeadTheorem` and `AnswersWhatWasAskedTheorem` need the shape of the branches:
  `LinesGood` (each reply stands directly behind the message it answers, and no message
  occurs twice on a line), `HeadsBegan`, `TargetsExist`, and `TargetsBelowHeads`, that on
  every line with the head the client saw, the message its fork replaces is below that
  head. Without the last one an edit could replace a message that the client never saw.
* `DispatchInvTheorem` also bounds the registry: `WithinLimits` counts its entries, which are
  finitely many although operations need not be.

### The derived outbox

`DerivedOutboxProofs` holds for every set of events, all finite sets of branches, drainers
and writers, every depth, length and fan-out of a chain and every claim limit. Beside the
types, `OutboxAssumption` restricts the rows an upgraded database may hold: a branch has
at most `MaxChainEvents` of them, because migration 0033 checks
`chain_ordinal BETWEEN 1 AND 256` and makes it unique in a chain, and there are two
events if there is such a row, since a row's event is never the one it derives from.

* `AppliedInOrderTheorem`, `AcknowledgedIffAppliedTheorem`, `RootsFollowClosureTheorem` and
  `DerivedInvTheorem` follow from `OutboxIsConsistent`. Its invariant has a part about what
  is fixed at the insertion (`Static`: ordinals fill a chain without gaps and in the order
  of the table, a lineage never repeats an event, a row's revision lies in the past of
  its branch) and one about progress (`Progress`). Its centre is
  `StartedAfterSettled`: an occurrence that is or was at work has only settled ones
  before it on its branch. This is what the claim query's order gives, and from it follow
  both the order of application and that a root event finds its closure settled.
* That a row is not applied twice rests on the claim token: a commit compares the token
  with the row's attempts, and `EntriesAreRows` and `AppliedIsLogged` say that the log and
  the acknowledged rows are the same set.
* `SettledStaysSettledTheorem` is an action property: no step changes a settled row. It
  is the safety part of `OccurrencesSettleForGood`.

### The package store

`PackageCasProofs` holds for every set of threads, imports, sources, assets and media
types, every assignment of assets to imports, and any number of failures and deaths
(`PackageCasAssumption`; sources and assets are distinct digests because their paths are).

* `StoreInvTheorem`, `ReferenceIsStoredTheorem` and the action property `OpensCleanTheorem`
  follow from `StoreIsConsistent`.
* The transaction that creates a product reference does not hold `cas_mutation`. What
  protects the reference is shown by `ThreadOK`: the mutex is held exactly at the steps
  between a journal write and the file operation it announces (`Holding`), and an object
  in removal is neither referenced nor shared with another import (`Removes`), which the
  claim in the committing transaction would have prevented.
* `RowsKnown` is stronger than `NothingLeaked`: a character import's job accounts for a
  file but not for a row, because the end of a job removes only files.
  `CompletedIsReferenced` is needed because the replay of a completed import may drop its
  journal rows; the references are then all that accounts for its objects.
* `RecoversJobs`, `RecoversEntries` and `RecoversAbandoned` say what the part of recovery
  that is already done has left behind, so that a death inside recovery is no new case:
  the invariant makes no use of how far the previous attempt came.

### The credential operations

`CredentialOperationsProofs` holds for any number of authorities, vault failures and
deaths (`CredentialAssumption`: at least one authority).

* `CredentialsAreConsistent` is the invariant; `SettledJournalIsDurableTheorem`,
  `NoOrphanCredentialTheorem`, `ReplacementKeepsACopyTheorem` and `CredentialInvTheorem` are
  its consequences. `TriggersAgreeTheorem`, an action property, is proved with it: each
  lemma shows that the action keeps the invariant and writes only a legal transition,
  because that a write is legal depends on the row's history (`RowOK`).
* One lemma per repository transaction says what it does to the row, field by field
  (`...Row`); those about commands use only these.
* `RowOK` says what every stored row satisfies beyond what the decoder demands: a
  durability obligation exists only in `cleanup_required` and only with an intent, and
  evidence on the predecessor only after the new slot was written.
* `DoubtIsRecorded` is the centre: a slot whose visible and durable contents may differ is
  named by the unresolved row, and the row holds an obligation for it or the command is
  between the native call and the write of its answer. A process that dies there leaves
  `started`, which recovery turns into an obligation. The explicit cleanup, which writes
  its obligation later, is the exception `unrecorded` (section 3).
* `Untouched` and `PredecessorOK` give the copy a replacement keeps: the old credential is
  untouched until the intent to remove it is stored, and then the new one is durable.

### The stream of one generation

`GenerationStreamProofs` holds for any number of viewers, deltas, storage failures and
deaths, all sizes of the provider's queue, the channel and the bus, and every checkpoint
interval (`StreamConstants`: the sizes are positive and the output limit is at most the
limit of a live prefix, as `MAX_GENERATED_OUTPUT_*` and `MAX_LIVE_DISPLAY_PREFIX_*` are).

* `StreamInvTheorem`, `ViewIsExactTheorem`, `AnnouncedIsDurableTheorem` and
  `LossIsBoundedTheorem` follow from `StreamIsConsistent`.
* `ConsistsOf(text, bus, kind, n)` says without recursion that a text is what the bus
  carried: its length is the number of the kind's events among the first `n`, and each
  event's piece stands at the place its number gives. `NextPiece` extends it by one event
  and `EarlierPieces` ignores later ones; `BusOK` states it for the prefixes of the delivery
  state and `Follows` for a viewer, so an attachment takes it over and a reception extends
  it. That sequences rise on the bus is why no viewer meets a false order.
* `DeltasOK` accounts for every delta the task has counted: it is in the prefix, in the
  channel with the next numbers in order (`Deltas`), or lost with its receiver. Two things
  rest on it: the limit on the output keeps every prefix within its own limit, so
  none is ever given up; and a channel that was closed and read empty means that
  everything was shown, which is why the text of a complete generation is the shown one.
* `ForwarderOK` is the accounting of the checkpoints: the stored text is the saved
  count while the forwarder lives, and dirty means that more was shown.
* `TaskOK` says what the rows can be at each step of the end: between a failed finalization
  and the re-read they are running, `Finalized` or `Compensated`, and running after the
  re-read only if two storage calls failed. `AnnouncementsOK` says that what is about to
  be announced is stored already, and that nothing announced changes afterwards.
* `Dead` is what a death leaves: after one, only viewers act, and the first start has
  closed the generation.

### Model-checked only

Liveness (`JobsRunTheirLifecycle`, `OccurrencesAreDelivered`, the liveness part of
`OccurrencesSettleForGood` with its exception, `UncertainSettles`, `RecoveryCompletes`, `StreamEnds`):
fairness and ENABLED are outside what the prover does. `AlwaysOpens` is violated.

## 5. What is not modelled, and the plan

Left out for good: the prompt compiler, template language and provider wire formats
(large pure transformations of text, which no small instance covers), and the user
interface. They are most of the repository's lines. The cosine search over vectors is
arithmetic on floats.

Left out so far: memory query embeddings (the job queue's discipline of recovery and
explicit retry over one row), model discovery and its installs, the verified asset
cache and the ticket stores of the shell, the closure a generation evaluates in memory
before its append, tool calls inside a generation, and the review, selection and
approval contents of a package import. `components` in `PROJECT.json` says for each
component which of its operations are missing.

Planned: memory query embeddings beside the job queue, then the install of a discovered
model, if a component is added. Every safety property that a run checks and that holds
is stated by a theorem.

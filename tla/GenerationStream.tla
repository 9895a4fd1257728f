-------------------------- MODULE GenerationStream --------------------------
(***************************************************************************)
(* One running generation from the moment its task is spawned: the         *)
(* provider stream, the bounded channel to the forwarder, the forwarder's  *)
(* publications and partial checkpoints, the terminal transaction with its *)
(* compensation, the broadcast bus with its process-local reattachment     *)
(* snapshot, the viewers that attach, lag and reattach, and what the next  *)
(* start makes of a generation that a crash interrupted.                   *)
(*                                                                         *)
(*   crates/chat/src/generation.rs             the provider side           *)
(*   crates/core/src/app/generation_workflow.rs  task, forwarder, finish   *)
(*   crates/core/src/app/generation_events.rs  delivery state and registry *)
(*   crates/core/src/app/generation/delivery.rs  cancel and subscribe      *)
(*   crates/shell-api/src/stream.rs            the viewer's stream         *)
(*   crates/storage/src/database/finalize.rs   the terminal transactions   *)
(*   .../interrupted_generation_recovery.rs    recovery at open            *)
(*                                                                         *)
(* Text is counted in deltas.  A piece of text is a pair: <<"raw", k>> is  *)
(* the provider's k-th text delta, <<"canonical", n>> and <<"display", n>> *)
(* are the transforms' renderings of the first n deltas.                   *)
(***************************************************************************)
EXTENDS Integers, Sequences, FiniteSets, SequencesExt

CONSTANTS
  Viewers,          \* shell streams
  Modes,            \* the settings a run starts from: [preserve, defer]
  MaxProvider,      \* bound: provider events in one run
  MaxOutput,        \* MAX_GENERATED_OUTPUT_*, in deltas
  MaxPrefix,        \* MAX_LIVE_DISPLAY_PREFIX_*, in deltas
  ProviderQueue,    \* capacity of the provider's channel (64)
  ChannelSize,      \* capacity of the event channel (128)
  BusSize,          \* capacity of the broadcast bus (256)
  CheckpointEvery,  \* PARTIAL_CHECKPOINT_BYTES, in deltas
  MaxFaults,        \* bound: storage calls that fail
  MaxCrashes        \* bound: process deaths

ASSUME StreamConstants ==
  /\ Modes \subseteq [preserve : BOOLEAN, defer : BOOLEAN]
  /\ {MaxProvider, MaxFaults, MaxCrashes} \subseteq Nat
  /\ {MaxOutput, MaxPrefix, ProviderQueue, ChannelSize, BusSize,
      CheckpointEvery} \subseteq Nat \ {0}
  /\ MaxOutput <= MaxPrefix

VARIABLES
  mode,      \* preserve_partial, and whether output transforms defer the text
  disk,      \* the generation, its assistant message, projection and attempt
  up,        \* the process runs
  cancel,    \* the watch channel's value
  provider,  \* the provider future and the events it has queued
  task,      \* run_generation and then finish_generation_task
  channel,   \* events between the task and the forwarder
  fwd,       \* the forwarder
  live,      \* GenerationDeliveryState
  registered,\* the registry holds the generation
  bus,       \* every event the broadcast bus has carried
  view,      \* the viewers' streams
  faults, crashes

vars == <<mode, disk, up, cancel, provider, task, channel, fwd, live,
          registered, bus, view, faults, crashes>>

Statuses == {"complete", "cancelled", "failed"}
Terminal == {"finished", "cancelled", "failed"}
NoText   == <<"raw", 0>>
Event(seq, kind, piece) == [seq |-> seq, kind |-> kind, piece |-> piece]

(***************************************************************************)
(* Initial state: append_generation has committed, the launch permit has   *)
(* become a task and the delivery phase is Running.  A viewer may have     *)
(* subscribed to the bus before it asked for the generation.               *)
(***************************************************************************)
NoView == [st |-> "none", text |-> <<>>, reasoning |-> <<>>, last |-> 0,
           next |-> 1, why |-> "none"]

Init ==
  /\ mode \in Modes
  /\ disk = [gen |-> "running", msg |-> "pending", content |-> NoText,
             projection |-> FALSE, attempt |-> "running", occurred |-> {}]
  /\ up = TRUE
  /\ cancel = FALSE
  /\ provider = [st |-> "idle", queue |-> <<>>, sent |-> 0]
  /\ task = [pc |-> "start", seq |-> 1, text |-> 0, reasoning |-> 0,
             result |-> "none", keep |-> FALSE, shows |-> "none"]
  /\ channel = [events |-> <<>>, sender |-> TRUE, receiver |-> TRUE]
  /\ fwd = [pc |-> "recv", text |-> 0, saved |-> 0, dirty |-> FALSE,
            result |-> "none"]
  /\ live = [phase |-> "running", watermark |-> 0, text |-> <<>>,
             reasoning |-> <<>>, lost |-> FALSE]
  /\ registered = TRUE
  /\ bus = <<>>
  /\ view \in [Viewers -> {NoView, [NoView EXCEPT !.st = "attached"]}]
  /\ faults = 0
  /\ crashes = 0

(***************************************************************************)
(* GenerationRegistry::publish, under the delivery mutex.                  *)
(***************************************************************************)
\* The event is refused outside the running phase and when its sequence does
\* not increase.
Publishable(e) == /\ registered
                  /\ live.phase = "running"
                  /\ e.seq > live.watermark

\* GenerationLivePrefix::append.  A prefix past its bound is given up.
PrefixAfter(e) ==
  IF e.kind = "text" /\ Len(live.text) < MaxPrefix
    THEN [live EXCEPT !.text = Append(@, e.piece)]
  ELSE IF e.kind = "reasoning" /\ Len(live.reasoning) < MaxPrefix
    THEN [live EXCEPT !.reasoning = Append(@, e.piece)]
  ELSE IF e.kind \in {"text", "reasoning"} THEN [live EXCEPT !.lost = TRUE]
  ELSE live

\* Mutant of PublishUpdate: the prefix is extended only while the bus has a
\* receiver, as if `send` had to succeed first.
PublishOnlyToReceivers(e) ==
  /\ bus' = Append(bus, e)
  /\ live' = [(IF \E v \in Viewers : view[v].st = "attached"
               THEN PrefixAfter(e) ELSE live)
              EXCEPT !.watermark = e.seq,
                     !.phase = IF e.kind \in Terminal THEN "terminal" ELSE @]

PublishUpdate(e) ==
  /\ bus' = Append(bus, e)
  /\ live' = [PrefixAfter(e)
              EXCEPT !.watermark = e.seq,
                     !.phase = IF e.kind \in Terminal THEN "terminal" ELSE @]

\* A refused event leaves everything as it was.
Publish(e) == IF Publishable(e) THEN PublishUpdate(e)
                                ELSE UNCHANGED <<bus, live>>

(***************************************************************************)
(* The provider.  Its future is polled only by the select loop, so it      *)
(* stands still once the loop is left.  External: what it sends and how it *)
(* ends is any choice.                                                     *)
(***************************************************************************)
ProviderEmit(kind) ==
  /\ up /\ task.pc = "collect" /\ provider.st = "idle"
  /\ provider.sent < MaxProvider
  /\ Len(provider.queue) < ProviderQueue
  /\ provider' = [provider EXCEPT !.queue = Append(@, kind), !.sent = @ + 1]
  /\ UNCHANGED <<mode, disk, up, cancel, task, channel, fwd, live, registered,
                 bus, view, faults, crashes>>

ProviderEnd(outcome) ==
  /\ up /\ task.pc = "collect" /\ provider.st = "idle"
  /\ provider' = [provider EXCEPT !.st = outcome]
  /\ UNCHANGED <<mode, disk, up, cancel, task, channel, fwd, live, registered,
                 bus, view, faults, crashes>>

(***************************************************************************)
(* run_generation.  A send waits for room; once the forwarder has dropped  *)
(* its receiver a send fails.                                              *)
(***************************************************************************)
Room == channel.receiver /\ Len(channel.events) < ChannelSize

\* run_generation returns: its sender is dropped with it.
Returns(t, result, events) ==
  /\ task' = [t EXCEPT !.pc = "returned", !.result = result]
  /\ channel' = [channel EXCEPT !.sender = FALSE, !.events = events]

\* Sends an event, or returns a failure because nobody receives any more.
SendOrFail(t, e) ==
  \/ /\ Room
     /\ task' = t
     /\ channel' = [channel EXCEPT !.events = Append(@, e)]
  \/ /\ ~channel.receiver
     /\ Returns(t, "failed", channel.events)

TaskUnchanged == UNCHANGED <<mode, disk, up, cancel, fwd, live, registered, bus,
                             view, faults, crashes>>

\* A credential or a request that validation rejects: nothing is sent.
RunRejected ==
  /\ up /\ task.pc = "start"
  /\ Returns(task, "failed", channel.events)
  /\ UNCHANGED provider
  /\ TaskUnchanged

RunStart ==
  /\ up /\ task.pc = "start"
  /\ SendOrFail([task EXCEPT !.pc = IF cancel THEN "drain" ELSE "collect",
                             !.result = IF cancel THEN "cancelled" ELSE "none"],
                Event(1, "started", NoText))
  /\ UNCHANGED provider
  /\ TaskUnchanged

\* track_output_delta: text and reasoning share one limit.
OutputFits == task.text + task.reasoning < MaxOutput

\* GenerationAccumulator::forward, in the select loop and while draining.
RunForward ==
  /\ up /\ task.pc \in {"collect", "drain"} /\ provider.queue # <<>>
  /\ LET kind == Head(provider.queue)
         t == [task EXCEPT !.seq = @ + 1,
                           !.text = IF kind = "text" THEN @ + 1 ELSE @,
                           !.reasoning = IF kind = "text" THEN @ ELSE @ + 1]
         k == IF kind = "text" THEN t.text ELSE t.reasoning
     IN IF OutputFits THEN SendOrFail(t, Event(t.seq, kind, <<"raw", k>>))
                      ELSE Returns(task, "failed", channel.events)
  /\ provider' = [provider EXCEPT !.queue = Tail(@)]
  /\ TaskUnchanged

\* The loop sees the cancellation, whatever else is ready.
RunCancelled ==
  /\ up /\ task.pc = "collect" /\ cancel
  /\ task' = [task EXCEPT !.pc = "drain", !.result = "cancelled"]
  /\ UNCHANGED <<provider, channel>>
  /\ TaskUnchanged

\* The provider's future completes.
RunResult ==
  /\ up /\ task.pc = "collect" /\ provider.st # "idle"
  /\ task' = [task EXCEPT !.pc = "drain", !.result = provider.st]
  /\ UNCHANGED <<provider, channel>>
  /\ TaskUnchanged

\* The queue is drained: a success sends the usage and returns, a failure
\* returns at once.
RunDrained ==
  /\ up /\ task.pc = "drain" /\ provider.queue = <<>>
  /\ IF task.result = "complete"
     THEN \/ /\ Room
             /\ Returns([task EXCEPT !.seq = @ + 1], "complete",
                        Append(channel.events,
                               Event(task.seq + 1, "usage", NoText)))
          \/ /\ ~channel.receiver
             /\ Returns([task EXCEPT !.seq = @ + 1], "failed", channel.events)
     ELSE Returns(task, task.result, channel.events)
  /\ UNCHANGED provider
  /\ TaskUnchanged

(***************************************************************************)
(* forward_generation_events.                                              *)
(***************************************************************************)
\* Mutant of CheckpointDue: strictly more than the interval.
CheckpointDueLate(f) == f.text - f.saved > CheckpointEvery

\* partial_checkpoint_due
CheckpointDue(f) == f.text - f.saved >= CheckpointEvery

\* With output transforms the raw text is withheld until the end.
Forwarded(e) == ~(mode.defer /\ e.kind = "text")

FwdEvent ==
  /\ up /\ fwd.pc = "recv" /\ channel.events # <<>>
  /\ LET e == Head(channel.events)
         f == IF mode.preserve /\ ~mode.defer /\ e.kind = "text"
              THEN [fwd EXCEPT !.text = @ + 1, !.dirty = TRUE] ELSE fwd
     IN /\ IF Forwarded(e) THEN Publish(e) ELSE UNCHANGED <<bus, live>>
        /\ fwd' = [f EXCEPT !.pc = IF mode.preserve /\ f.dirty /\ CheckpointDue(f)
                                   THEN "checkpoint" ELSE "recv"]
  /\ channel' = [channel EXCEPT !.events = Tail(@)]
  /\ UNCHANGED <<mode, disk, up, cancel, provider, task, registered, view,
                 faults, crashes>>

\* The interval ticks while something is unsaved.
FwdTick ==
  /\ up /\ fwd.pc = "recv" /\ mode.preserve /\ fwd.dirty
  /\ fwd' = [fwd EXCEPT !.pc = "checkpoint"]
  /\ UNCHANGED <<mode, disk, up, cancel, provider, task, channel, live,
                 registered, bus, view, faults, crashes>>

\* The task's sender is gone and the channel is empty.
FwdClosed ==
  /\ up /\ fwd.pc = "recv" /\ channel.events = <<>> /\ ~channel.sender
  /\ fwd' = IF mode.preserve /\ fwd.dirty
            THEN [fwd EXCEPT !.pc = "last_checkpoint"]
            ELSE [fwd EXCEPT !.pc = "done", !.result = "ok"]
  /\ UNCHANGED <<mode, disk, up, cancel, provider, task, channel, live,
                 registered, bus, view, faults, crashes>>

\* checkpoint_pending_assistant
FwdCheckpoint ==
  /\ up /\ fwd.pc \in {"checkpoint", "last_checkpoint"}
  /\ disk.msg = "pending"
  /\ disk' = [disk EXCEPT !.content = <<"raw", fwd.text>>]
  /\ fwd' = IF fwd.pc = "checkpoint"
            THEN [fwd EXCEPT !.pc = "recv", !.saved = fwd.text, !.dirty = FALSE]
            ELSE [fwd EXCEPT !.pc = "done", !.result = "ok"]
  /\ UNCHANGED <<mode, up, cancel, provider, task, channel, live, registered,
                 bus, view, faults, crashes>>

\* Mutant of FwdCheckpointFails: the receiver outlives the forwarder.
FwdCheckpointFailsOpen ==
  /\ up /\ fwd.pc \in {"checkpoint", "last_checkpoint"}
  /\ faults < MaxFaults
  /\ faults' = faults + 1
  /\ fwd' = [fwd EXCEPT !.pc = "done", !.result = "error"]
  /\ UNCHANGED <<mode, disk, up, cancel, provider, task, channel, live,
                 registered, bus, view, crashes>>

\* A checkpoint that fails ends the forwarder and drops its receiver.
FwdCheckpointFails ==
  /\ up /\ fwd.pc \in {"checkpoint", "last_checkpoint"}
  /\ faults < MaxFaults
  /\ faults' = faults + 1
  /\ fwd' = [fwd EXCEPT !.pc = "done", !.result = "error"]
  /\ channel' = [channel EXCEPT !.receiver = FALSE, !.events = <<>>]
  /\ UNCHANGED <<mode, disk, up, cancel, provider, task, live, registered, bus,
                 view, crashes>>

(***************************************************************************)
(* finish_generation_task.                                                 *)
(***************************************************************************)
\* The text after the canonical transforms.
Canonical(n) == IF mode.defer THEN <<"canonical", n>> ELSE <<"raw", n>>

FinishUnchanged == UNCHANGED <<mode, up, cancel, provider, channel, fwd, view,
                               crashes>>

\* merge_generation_and_forwarding_results
Merged == IF fwd.result = "ok" THEN task.result ELSE "failed"

\* apply_generation_output_transforms and apply_generation_result: the status
\* and whether the message is kept.
Finish ==
  /\ up /\ task.pc = "returned" /\ fwd.pc = "done"
  /\ task' = [task EXCEPT
                !.pc = "finalize", !.result = Merged,
                !.keep = Merged = "complete" \/ (mode.preserve /\ task.text > 0)]
  /\ UNCHANGED <<disk, live, registered, bus, faults>>
  /\ FinishUnchanged

Occurrences(keep) == {"after_generation"} \cup
                     (IF keep THEN {"message_committed"} ELSE {})

\* persist_terminal_assistant: the message takes its status, or it is deleted
\* and the branch goes back to the user message.
TerminalMessage(keep, status) == IF keep THEN status ELSE "deleted"

\* finalize_generation_with_protocol_state_and_display, one transaction.
Finalized == [gen |-> task.result,
              msg |-> TerminalMessage(task.keep, task.result),
              content |-> IF task.keep THEN Canonical(task.text) ELSE NoText,
              projection |-> task.keep /\ mode.defer,
              attempt |-> "completed", occurred |-> Occurrences(task.keep)]

\* fail_generation_after_finalize_error: no usage, no projection.
Compensated == [gen |-> "failed",
                msg |-> TerminalMessage(task.keep, "failed"),
                content |-> IF task.keep THEN Canonical(task.text) ELSE NoText,
                projection |-> FALSE,
                attempt |-> "completed", occurred |-> Occurrences(task.keep)]

\* Announces a status: if the message was committed, the deferred display text
\* and the message, then the terminal event.
Announcing(committed, status, shows) ==
  task' = [task EXCEPT !.pc = IF committed /\ mode.defer THEN "display"
                              ELSE IF committed THEN "committed" ELSE "terminal",
                       !.result = status, !.shows = shows]

FinalizeOk ==
  /\ up /\ task.pc = "finalize" /\ disk.gen = "running"
  /\ disk' = Finalized
  /\ Announcing(task.keep, task.result, "display")
  /\ UNCHANGED <<live, registered, bus, faults>>
  /\ FinishUnchanged

\* The call reports an error; the transaction is in (a commit whose answer was
\* lost) or out.
FinalizeFails(in) ==
  /\ up /\ task.pc = "finalize" /\ disk.gen = "running"
  /\ faults < MaxFaults
  /\ faults' = faults + 1
  /\ disk' = IF in THEN Finalized ELSE disk
  /\ task' = [task EXCEPT !.pc = "compensate"]
  /\ UNCHANGED <<live, registered, bus>>
  /\ FinishUnchanged

\* Mutant of CompensateOk: the terminal event keeps the provider's outcome.
CompensateKeepsOutcome ==
  /\ up /\ task.pc = "compensate" /\ disk.gen = "running"
  /\ disk' = Compensated
  /\ Announcing(task.keep, task.result, "content")
  /\ UNCHANGED <<live, registered, bus, faults>>
  /\ FinishUnchanged

\* The generation is still running: it is failed instead.
CompensateOk ==
  /\ up /\ task.pc = "compensate" /\ disk.gen = "running"
  /\ disk' = Compensated
  /\ Announcing(task.keep, "failed", "content")
  /\ UNCHANGED <<live, registered, bus, faults>>
  /\ FinishUnchanged

\* No running generation is left to compensate.
CompensateRefused ==
  /\ up /\ task.pc = "compensate" /\ disk.gen # "running"
  /\ task' = [task EXCEPT !.pc = "reread"]
  /\ UNCHANGED <<disk, live, registered, bus, faults>>
  /\ FinishUnchanged

CompensateFails(in) ==
  /\ up /\ task.pc = "compensate" /\ disk.gen = "running"
  /\ faults < MaxFaults
  /\ faults' = faults + 1
  /\ disk' = IF in THEN Compensated ELSE disk
  /\ task' = [task EXCEPT !.pc = "reread"]
  /\ UNCHANGED <<live, registered, bus>>
  /\ FinishUnchanged

\* get_generation decides what really happened, and the projection is looked
\* up.
Reread ==
  /\ up /\ task.pc = "reread"
  /\ IF disk.gen = task.result
     THEN Announcing(task.keep, task.result,
                     IF disk.projection THEN "display" ELSE "content")
     ELSE Announcing(FALSE, "failed", "content")
  /\ UNCHANGED <<disk, live, registered, bus, faults>>
  /\ FinishUnchanged

RereadFails ==
  /\ up /\ task.pc = "reread"
  /\ faults < MaxFaults
  /\ faults' = faults + 1
  /\ Announcing(FALSE, "failed", "content")
  /\ UNCHANGED <<disk, live, registered, bus>>
  /\ FinishUnchanged

\* The generation is read, its projection is not.
RereadProjectionFails ==
  /\ up /\ task.pc = "reread" /\ disk.gen = task.result
  /\ task.keep /\ mode.defer
  /\ faults < MaxFaults
  /\ faults' = faults + 1
  /\ Announcing(TRUE, task.result, "content")
  /\ UNCHANGED <<disk, live, registered, bus>>
  /\ FinishUnchanged

\* outcome.last_sequence + 1, and on from there
NextSequence == task.seq + 1

TerminalKind(status) == IF status = "complete" THEN "finished" ELSE status

\* Each announcement is a publication of its own.
Announce ==
  /\ up /\ task.pc \in {"display", "committed", "terminal"}
  /\ LET e == CASE task.pc = "display" ->
                     Event(NextSequence, "text",
                           IF task.shows = "display" THEN <<"display", task.text>>
                                                     ELSE Canonical(task.text))
                [] task.pc = "committed" ->
                     Event(NextSequence, "committed", <<task.result, task.text>>)
                [] OTHER -> Event(NextSequence, TerminalKind(task.result), NoText)
         empty == task.pc = "display" /\ task.text = 0
     IN /\ IF empty THEN UNCHANGED <<bus, live>> ELSE Publish(e)
        /\ task' = [task EXCEPT !.seq = IF empty THEN @ ELSE @ + 1,
                                !.pc = CASE task.pc = "display" -> "committed"
                                         [] task.pc = "committed" -> "terminal"
                                         [] OTHER -> "dropping"]
  /\ UNCHANGED <<disk, registered, faults>>
  /\ FinishUnchanged

\* ActiveGenerationGuard::drop
TaskGone ==
  /\ up /\ task.pc = "dropping"
  /\ task' = [task EXCEPT !.pc = "gone"]
  /\ registered' = FALSE
  /\ UNCHANGED <<disk, live, bus, faults>>
  /\ FinishUnchanged

(***************************************************************************)
(* The clients.                                                            *)
(***************************************************************************)
\* cancel_generation, and cancel_all_and_wait at shutdown.
Cancel ==
  /\ up /\ registered /\ ~cancel
  /\ cancel' = TRUE
  /\ UNCHANGED <<mode, disk, up, provider, task, channel, fwd, live, registered,
                 bus, view, faults, crashes>>

\* subscribe_generation_events finds a live generation.
Subscribable == /\ registered
                /\ live.phase # "terminal"
                /\ disk.gen = "running"
                /\ ~live.lost

ViewUnchanged == UNCHANGED <<mode, disk, up, cancel, provider, task, channel,
                             fwd, live, registered, bus, faults, crashes>>

\* Mutant of Attached: the receiver is made before the delivery lock is taken,
\* so it also carries the event the snapshot already includes.
AttachedEarly == [st |-> "attached", text |-> live.text,
                  reasoning |-> live.reasoning, last |-> live.watermark,
                  next |-> IF bus = <<>> THEN 1 ELSE Len(bus), why |-> "none"]

\* GenerationEventSubscription and ChatEventStream::reattached: receiver,
\* watermark and prefixes of one moment.
Attached == [st |-> "attached", text |-> live.text,
             reasoning |-> live.reasoning, last |-> live.watermark,
             next |-> Len(bus) + 1, why |-> "none"]

Attach(v) ==
  /\ up /\ view[v].st \in {"none", "reconcile"} /\ Subscribable
  /\ view' = [view EXCEPT ![v] = Attached]
  /\ ViewUnchanged

\* A viewer that cannot subscribe reads the durable message instead.
Stored == IF disk.msg = "deleted" THEN <<>>
          ELSE IF disk.projection THEN << <<"display", disk.content[2]>> >>
          ELSE << disk.content >>

ReadDurable(v) ==
  /\ up /\ view[v].st \in {"none", "reconcile"} /\ disk.gen # "running"
  /\ view' = [view EXCEPT ![v] = [NoView EXCEPT !.st = "durable", !.text = Stored]]
  /\ ViewUnchanged

Reconcile(s, reason) == [s EXCEPT !.st = "reconcile", !.why = reason]

\* The stream hands the event on, and ends with a terminal one.
Received(s, e) ==
  [s EXCEPT !.st = IF e.kind \in Terminal THEN "done" ELSE @,
            !.last = e.seq, !.next = @ + 1,
            !.text = IF e.kind = "text" THEN Append(@, e.piece) ELSE @,
            !.reasoning = IF e.kind = "reasoning" THEN Append(@, e.piece) ELSE @]

\* ChatEventStream::recv: lag, then an order that cannot be, then the event.
Recv(v) ==
  /\ up /\ view[v].st = "attached" /\ view[v].next <= Len(bus)
  /\ LET s == view[v]
         e == bus[s.next]
     IN view' = [view EXCEPT ![v] =
          IF Len(bus) - s.next + 1 > BusSize THEN Reconcile(s, "lagged")
          ELSE IF e.seq <= s.last THEN Reconcile(s, "sequence")
          ELSE Received(s, e)]
  /\ ViewUnchanged

(***************************************************************************)
(* The process dies, and the next start closes what it finds running.      *)
(***************************************************************************)
Crash ==
  /\ up /\ crashes < MaxCrashes
  /\ crashes' = crashes + 1
  /\ up' = FALSE
  /\ registered' = FALSE
  /\ cancel' = FALSE
  /\ task' = [task EXCEPT !.pc = "gone"]
  /\ fwd' = [fwd EXCEPT !.pc = "done"]
  /\ channel' = [events |-> <<>>, sender |-> FALSE, receiver |-> FALSE]
  /\ provider' = [provider EXCEPT !.st = "dropped", !.queue = <<>>]
  /\ bus' = <<>>
  /\ live' = [live EXCEPT !.phase = "terminal", !.text = <<>>, !.reasoning = <<>>]
  /\ view' = [v \in Viewers |-> NoView]
  /\ UNCHANGED <<mode, disk, faults>>

\* has_durable_partial_checkpoint
Checkpointed == disk.content[2] > 0

\* close_interrupted_generations_in_transaction for a generation that has an
\* attempt: cancelled, and its message kept only if a checkpoint wrote text.
Recovered ==
  IF disk.gen # "running" THEN disk
  ELSE [disk EXCEPT !.gen = "cancelled",
                    !.msg = TerminalMessage(Checkpointed, "cancelled"),
                    !.attempt = "completed",
                    !.occurred = Occurrences(Checkpointed)]

Reopen ==
  /\ ~up
  /\ up' = TRUE
  /\ disk' = Recovered
  /\ UNCHANGED <<mode, cancel, provider, task, channel, fwd, live, registered,
                 bus, view, faults, crashes>>

(***************************************************************************)
(* The specification.                                                      *)
(***************************************************************************)
ProviderStep == \/ \E kind \in {"text", "reasoning"} : ProviderEmit(kind)
                \/ \E outcome \in {"complete", "failed"} : ProviderEnd(outcome)

RunStep == RunRejected \/ RunStart \/ RunForward \/ RunCancelled \/ RunResult
           \/ RunDrained

ForwarderStep == FwdEvent \/ FwdTick \/ FwdClosed \/ FwdCheckpoint
                 \/ FwdCheckpointFails

FinishStep ==
  \/ Finish \/ FinalizeOk \/ CompensateOk \/ CompensateRefused
  \/ \E in \in BOOLEAN : FinalizeFails(in) \/ CompensateFails(in)
  \/ Reread \/ RereadFails \/ RereadProjectionFails \/ Announce \/ TaskGone

\* The task is over and every viewer is settled, or waits for a generation
\* that only the next start will close.
Idle == /\ up /\ task.pc = "gone"
        /\ \A v \in Viewers :
             \/ view[v].st \in {"done", "durable"}
             \/ view[v].st # "attached" /\ disk.gen = "running"
        /\ UNCHANGED vars

Next == \/ ProviderStep \/ RunStep \/ ForwarderStep \/ FinishStep
        \/ Cancel \/ Crash \/ Reopen \/ Idle
        \/ \E v \in Viewers : Attach(v) \/ ReadDurable(v) \/ Recv(v)

Spec == Init /\ [][Next]_vars

\* The runtime polls the task and the forwarder, a client keeps polling its
\* stream, a provider call ends (it has a timeout), and the user starts the
\* application again.
FairSpec ==
  /\ Spec
  /\ WF_vars(ProviderStep) /\ WF_vars(RunStep) /\ WF_vars(ForwarderStep)
  /\ WF_vars(FinishStep) /\ WF_vars(Reopen)
  /\ \A v \in Viewers : WF_vars(Recv(v)) /\ WF_vars(ReadDurable(v))

(***************************************************************************)
(* Properties.                                                             *)
(***************************************************************************)
Pieces == {"raw", "canonical", "display"} \X (0 .. MaxOutput)

TypeOK ==
  /\ mode \in Modes
  /\ disk.gen \in Statuses \cup {"running"}
  /\ disk.msg \in Statuses \cup {"pending", "deleted"}
  /\ disk.content \in Pieces
  /\ disk.occurred \subseteq {"after_generation", "message_committed"}
  /\ up \in BOOLEAN /\ cancel \in BOOLEAN /\ registered \in BOOLEAN
  /\ Len(provider.queue) <= ProviderQueue
  /\ Len(channel.events) <= ChannelSize
  /\ task.text + task.reasoning <= MaxOutput
  /\ live.phase \in {"running", "terminal"}
  /\ \A i \in 1 .. Len(bus) : bus[i].kind = "text" => bus[i].piece \in Pieces
  /\ \A v \in Viewers :
       view[v].st \in {"none", "attached", "reconcile", "done", "durable"}

\* The events of a kind among the first n on a bus, and a text that consists of
\* their pieces in the order of the bus.
Carried(b, kind, n) == {i \in 1 .. n : b[i].kind = kind}

ConsistsOf(text, b, kind, n) ==
  /\ Len(text) = Cardinality(Carried(b, kind, n))
  /\ \A i \in Carried(b, kind, n) :
       text[Cardinality(Carried(b, kind, i))] = b[i].piece

\* The text a viewer shows is exactly what the bus carried up to the sequence
\* the viewer has reached, whenever it attached, lagged or reattached: no
\* delta twice, none missing, text and reasoning alike.
ViewIsExact ==
  \A v \in Viewers : view[v].st \in {"attached", "done"} =>
    \E n \in 0 .. Len(bus) :
      /\ \A i \in 1 .. Len(bus) : i <= n <=> bus[i].seq <= view[v].last
      /\ ConsistsOf(view[v].text, bus, "text", n)
      /\ ConsistsOf(view[v].reasoning, bus, "reasoning", n)

\* A viewer is sent to reload only because it fell behind: the order of the
\* events never gives it a reason to.
OnlyLagReconciles == \A v \in Viewers : view[v].why \in {"none", "lagged"}

\* The finalization and then its compensation fail, and neither is in.
Stranded == /\ faults > 1 /\ disk.gen = "running"
            /\ task.pc \in {"reread", "terminal", "dropping", "gone"}

\* "Callers therefore either observe a durable terminal status or can rebuild
\* the exact live presentation" (GenerationEventSubscription): a generation
\* that is running on disk can be subscribed to, until a failed finalization
\* whose compensation failed too has announced the end that it could not
\* store.
TerminalOrLive == up /\ disk.gen = "running" => Subscribable \/ Stranded

\* What the bus announced is what the database holds: a finished or cancelled
\* generation has that status, a committed message has the announced status
\* and text, and the text shown for a finished one is the text a reload shows
\* (the untransformed display only if the projection could not be read back).
AnnouncedIsDurable ==
  up => \A i \in 1 .. Len(bus) :
    LET e == bus[i] IN
    /\ e.kind = "finished" => /\ disk.gen = "complete"
                              /\ \/ task.text = 0
                                 \/ Last(live.text) = Stored[1]
                                 \/ faults > 1 /\ Last(live.text) = disk.content
    /\ e.kind = "cancelled" => disk.gen = "cancelled"
    /\ e.kind = "committed" => /\ disk.msg = e.piece[1]
                               /\ disk.content = Canonical(e.piece[2])
    /\ e.kind \in Terminal => i = Len(bus)

\* What a crash may cost: with partial generations preserved, everything shown
\* but the last CheckpointEvery - 1 deltas is on disk whenever the forwarder
\* waits, and nothing is on disk that was not shown.
LossIsBounded ==
  (up /\ disk.msg = "pending" /\ ~mode.defer) =>
    /\ disk.content[2] <= Len(live.text)
    /\ (mode.preserve /\ fwd.pc = "recv")
         => Len(live.text) - disk.content[2] < CheckpointEvery

\* When transforms are to run on the output, the provider's raw text is
\* neither shown nor stored, not even by a checkpoint or after a crash.
RawStaysHidden ==
  mode.defer => /\ \A i \in 1 .. Len(bus) :
                     bus[i].kind = "text" => bus[i].piece[1] # "raw"
                /\ disk.content = NoText \/ disk.content[1] # "raw"

\* The generation row, its message, its attempt and the two lifecycle
\* occurrences close together, by the normal end, by the compensation and by
\* the recovery at open.
ClosedTogether ==
  /\ (disk.gen = "running") = (disk.msg = "pending")
  /\ (disk.gen = "running") = (disk.attempt = "running")
  /\ disk.occurred = IF disk.gen = "running" THEN {}
                     ELSE Occurrences(disk.msg # "deleted")

\* A viewer that is attached does not wait for ever: it sees the terminal
\* event, is told to reload, or its process ends.
EveryViewerSettles ==
  \A v \in Viewers : (view[v].st = "attached") ~> (view[v].st # "attached")

\* Every generation is closed in the end, through a failing storage call, a
\* failing forwarder, a cancellation or a crash; the one that is stranded
\* waits for the next start.
GenerationCloses == (disk.gen = "running") ~> (disk.gen # "running" \/ Stranded)

\* Task, bus, viewers and database agree in every state: a generation is live
\* or closed, its rows close together, no viewer meets a false order and the
\* raw text stays hidden where transforms are to run.
StreamInv ==
  /\ TypeOK
  /\ OnlyLagReconciles
  /\ TerminalOrLive
  /\ RawStaysHidden
  /\ ClosedTogether

\* Every viewer and every generation comes to its end.
StreamEnds == EveryViewerSettles /\ GenerationCloses
=============================================================================

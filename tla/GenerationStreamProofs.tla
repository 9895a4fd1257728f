----------------------- MODULE GenerationStreamProofs -----------------------
(***************************************************************************)
(* Proofs about one running generation: for every number of viewers and    *)
(* deltas, every size of the channels and of the bus, every interval of    *)
(* checkpoints and any number of storage failures, what a viewer shows is  *)
(* what the bus carried, what the bus announced is durable, and a crash    *)
(* costs less than one interval.                                           *)
(***************************************************************************)
EXTENDS GenerationStream, FiniteSetTheorems, TLAPS

-----------------------------------------------------------------------------
(* The inductive invariant *)

TextPieces == {"raw", "canonical", "display"} \X Nat
AnyPieces  == ({"raw", "canonical", "display"} \cup Statuses) \X Nat

Sent   == {"started", "text", "reasoning", "usage"}
Events == [seq : Nat, kind : Sent \cup {"committed"} \cup Terminal, piece : AnyPieces]

Running   == {"start", "collect", "drain", "returned"}
Finishing == {"finalize", "compensate", "reread", "display", "committed", "terminal"}

Disks == [gen : Statuses \cup {"running"}, msg : Statuses \cup {"pending", "deleted"},
          content : Pieces, projection : BOOLEAN, attempt : {"running", "completed"},
          occurred : SUBSET {"after_generation", "message_committed"}]
Providers == [st : {"idle", "complete", "failed", "dropped"},
              queue : Seq({"text", "reasoning"}), sent : Nat]
Tasks == [pc : Running \cup Finishing \cup {"dropping", "gone"}, seq : Nat, text : Nat,
          reasoning : Nat, result : Statuses \cup {"none"}, keep : BOOLEAN,
          shows : {"none", "display", "content"}]
Channels == [events : Seq(Events), sender : BOOLEAN, receiver : BOOLEAN]
Forwarders == [pc : {"recv", "checkpoint", "last_checkpoint", "done"}, text : Nat,
               saved : Nat, dirty : BOOLEAN, result : {"none", "ok", "error"}]
Lives == [phase : {"running", "terminal"}, watermark : Nat, text : Seq(AnyPieces),
          reasoning : Seq(AnyPieces), lost : BOOLEAN]
Views == [st : {"none", "attached", "reconcile", "done", "durable"},
          text : Seq(AnyPieces), reasoning : Seq(AnyPieces), last : Nat, next : Nat,
          why : {"none", "lagged", "sequence"}]

Typed ==
  /\ mode \in Modes
  /\ disk \in Disks
  /\ up \in BOOLEAN /\ cancel \in BOOLEAN /\ registered \in BOOLEAN
  /\ provider \in Providers /\ Len(provider.queue) <= ProviderQueue
  /\ task \in Tasks /\ task.text + task.reasoning <= MaxOutput
  /\ channel \in Channels /\ Len(channel.events) <= ChannelSize
  /\ fwd \in Forwarders
  /\ live \in Lives
  /\ bus \in Seq(Events)
  /\ view \in [Viewers -> Views]
  /\ faults \in Nat /\ crashes \in Nat

\* The rows close together, and hold no raw text where transforms are to run.
DiskOK ==
  /\ ClosedTogether
  /\ mode.defer => disk.content = NoText \/ disk.content[1] # "raw"

\* The bus carries rising sequences up to the watermark, the prefixes of the
\* delivery state are what it carried, and nothing was given up.
BusOK ==
  /\ \A i, j \in DOMAIN bus : i < j => bus[i].seq < bus[j].seq
  /\ \A i \in DOMAIN bus : 1 <= bus[i].seq /\ bus[i].seq <= live.watermark
  /\ \A i \in DOMAIN bus : bus[i].kind = "text" =>
       bus[i].piece \in Pieces /\ (mode.defer => bus[i].piece[1] # "raw")
  /\ ConsistsOf(live.text, bus, "text", Len(bus))
  /\ ConsistsOf(live.reasoning, bus, "reasoning", Len(bus))
  /\ ~live.lost
  /\ live.watermark <= task.seq

\* A viewer has read the bus up to its next event.
Follows(s) ==
  /\ s.next \in 1 .. Len(bus) + 1
  /\ s.last <= live.watermark
  /\ \A i \in DOMAIN bus : i < s.next <=> bus[i].seq <= s.last
  /\ ConsistsOf(s.text, bus, "text", s.next - 1)
  /\ ConsistsOf(s.reasoning, bus, "reasoning", s.next - 1)

ViewsOK == \A v \in Viewers :
  /\ view[v].why # "sequence"
  /\ view[v].st \in {"attached", "done"} => Follows(view[v])

\* After a death only viewers act, and the next start has closed the
\* generation.
Dead ==
  /\ task.pc = "gone" /\ fwd.pc = "done" /\ ~registered
  /\ bus = <<>> /\ live.phase = "terminal" /\ live.text = <<>> /\ live.reasoning = <<>>
  /\ channel.events = <<>>
  /\ up => disk.gen # "running"

\* What waits in the channel: rising sequences the bus has not seen.
ChannelOK ==
  /\ \A i \in DOMAIN channel.events :
       /\ channel.events[i].kind \in Sent
       /\ live.watermark < channel.events[i].seq /\ channel.events[i].seq <= task.seq
  /\ \A i, j \in DOMAIN channel.events :
       i < j => channel.events[i].seq < channel.events[j].seq
  /\ ~channel.receiver => channel.events = <<>>

\* The events E hold the deltas base + 1 .. total of a kind, in order.
Deltas(E, kind, base, total) ==
  /\ \A i \in DOMAIN E : E[i].kind = kind =>
       \E k \in base + 1 .. total : E[i].piece = <<"raw", k>>
  /\ \A i, j \in DOMAIN E : i < j /\ E[i].kind = kind /\ E[j].kind = kind
       => E[i].piece[2] < E[j].piece[2]
  /\ \A k \in base + 1 .. total :
       \E i \in DOMAIN E : E[i].kind = kind /\ E[i].piece = <<"raw", k>>

\* Every delta is published, in the channel, or lost with its receiver.
DeltasOK ==
  /\ Len(live.reasoning) <= task.reasoning
  /\ channel.receiver =>
       Deltas(channel.events, "reasoning", Len(live.reasoning), task.reasoning)
  /\ ~mode.defer =>
       /\ Len(live.text) <= task.text
       /\ \A k \in DOMAIN live.text : live.text[k] = <<"raw", k>>
       /\ channel.receiver => Deltas(channel.events, "text", Len(live.text), task.text)
  /\ mode.defer /\ task.pc \in Running \cup {"finalize", "compensate", "reread", "display"}
       => live.text = <<>>

\* Checkpoints are made of text that is shown as it arrives.
Saves == mode.preserve /\ ~mode.defer

ForwarderOK ==
  /\ fwd.pc # "done" => task.pc \in Running /\ channel.receiver
  /\ fwd.pc = "last_checkpoint" => channel.events = <<>> /\ ~channel.sender
  /\ fwd.result = "ok" => /\ fwd.pc = "done" /\ channel.events = <<>>
                          /\ ~channel.sender /\ channel.receiver
  /\ fwd.pc = "done" => fwd.result = "ok" \/ ~channel.receiver
  /\ ~Saves => /\ ~fwd.dirty /\ fwd.pc \in {"recv", "done"}
               /\ disk.gen = "running" => disk.content = NoText
  /\ Saves =>
       /\ fwd.text = Len(live.text)
       /\ fwd.saved <= fwd.text
       /\ fwd.pc # "done" => /\ fwd.dirty <=> fwd.saved < fwd.text
                             /\ disk.content = <<"raw", fwd.saved>>
       /\ fwd.pc = "recv" => fwd.text - fwd.saved < CheckpointEvery
       /\ disk.gen = "running" =>
            disk.content[1] = "raw" /\ disk.content[2] <= fwd.text

\* How far the task is, and what that means for the rows.
TaskOK ==
  /\ registered <=> task.pc # "gone"
  /\ live.phase = "running" <=> task.pc \notin {"dropping", "gone"}
  /\ channel.sender <=> task.pc \in {"start", "collect", "drain"}
  /\ task.pc = "start" => live.watermark = 0 /\ task.seq = 1 /\ channel.events = <<>>
                          /\ task.text = 0 /\ task.reasoning = 0
  /\ provider.st # "dropped"
  /\ task.pc \in Running \cup {"finalize"} => disk.gen = "running"
  /\ task.pc \in {"drain", "returned"} \cup Finishing => task.result \in Statuses
  /\ task.pc \in {"finalize", "compensate", "reread"} /\ task.result = "complete" => task.keep
  /\ task.pc \in Finishing /\ task.result = "complete" /\ ~mode.defer =>
       task.text = Len(live.text)
  /\ task.pc \in Finishing \cup {"dropping", "gone"} => fwd.pc = "done"
  /\ task.pc = "compensate" =>
       faults > 0 /\ (disk.gen = "running" \/ disk = Finalized)
  /\ task.pc = "reread" =>
       faults > 0 /\ (disk.gen = "running" \/ disk = Finalized \/ disk = Compensated)
  /\ task.pc \in {"reread", "terminal", "dropping", "gone"} /\ disk.gen = "running"
       => faults > 1

\* The text on show is the one a reload shows, or its untransformed form.
Shown ==
  \/ task.text = 0
  \/ Last(live.text) = Stored[1]
  \/ faults > 1 /\ Last(live.text) = disk.content

\* What is about to be announced is durable, and so is what was.
AnnouncementsOK ==
  /\ task.pc \in {"display", "committed"} =>
       /\ disk.gen = task.result /\ disk.msg = task.result
       /\ disk.content = Canonical(task.text)
  /\ task.pc = "display" =>
       mode.defer /\ (task.result = "complete" =>
                        disk.projection /\ (task.shows = "display" \/ faults > 1))
  /\ task.pc \in {"committed", "terminal"} /\ task.result = "complete" => Shown
  /\ task.pc = "terminal" /\ task.result # "failed" => disk.gen = task.result
  /\ \A i \in DOMAIN bus :
       /\ bus[i].kind = "committed" =>
            /\ task.pc \in {"terminal", "dropping", "gone"}
            /\ disk.gen # "running" /\ disk.msg = bus[i].piece[1]
            /\ disk.content = Canonical(bus[i].piece[2])
       /\ bus[i].kind \in Terminal => task.pc \in {"dropping", "gone"} /\ i = Len(bus)
       /\ bus[i].kind = "finished" => disk.gen = "complete" /\ Shown
       /\ bus[i].kind = "cancelled" => disk.gen = "cancelled"

Alive ==
  /\ up
  /\ ChannelOK /\ DeltasOK /\ ForwarderOK /\ TaskOK /\ AnnouncementsOK

IndInv ==
  /\ Typed /\ DiskOK /\ BusOK /\ ViewsOK
  /\ crashes > 0 => Dead
  /\ crashes = 0 => Alive

-----------------------------------------------------------------------------
(* Texts and the bus *)

\* The events of a kind can be counted, and the next event is one more or none.
LEMMA CarriedCounts ==
    ASSUME NEW b, NEW kind, NEW n \in Nat
    PROVE  /\ IsFiniteSet(Carried(b, kind, n))
           /\ Cardinality(Carried(b, kind, n)) \in Nat
           /\ b[n + 1].kind = kind =>
                /\ Carried(b, kind, n + 1) = Carried(b, kind, n) \cup {n + 1}
                /\ Cardinality(Carried(b, kind, n + 1)) = Cardinality(Carried(b, kind, n)) + 1
           /\ b[n + 1].kind # kind => Carried(b, kind, n + 1) = Carried(b, kind, n)
  <1>1. IsFiniteSet(Carried(b, kind, n))
    <2>1. IsFiniteSet(1 .. n)
      BY FS_Interval
    <2>2. Carried(b, kind, n) \in SUBSET (1 .. n)
      BY DEF Carried
    <2> QED
      BY <2>1, <2>2, FS_Subset
  <1>2. Cardinality(Carried(b, kind, n)) \in Nat
    BY <1>1, FS_CardinalityType
  <1>3. n + 1 \notin Carried(b, kind, n)
    BY DEF Carried
  <1>4. ASSUME b[n + 1].kind = kind
        PROVE  Carried(b, kind, n + 1) = Carried(b, kind, n) \cup {n + 1}
    BY <1>4 DEF Carried
  <1>5. ASSUME b[n + 1].kind # kind
        PROVE  Carried(b, kind, n + 1) = Carried(b, kind, n)
    BY <1>5 DEF Carried
  <1>6. Cardinality(Carried(b, kind, n) \cup {n + 1}) = Cardinality(Carried(b, kind, n)) + 1
    BY <1>1, <1>3, FS_AddElement
  <1> QED
    BY <1>1, <1>2, <1>4, <1>5, <1>6

\* Nothing was carried yet.
LEMMA NothingCarried ==
    ASSUME NEW b, NEW kind
    PROVE  ConsistsOf(<<>>, b, kind, 0)
  <1>1. Carried(b, kind, 0) = {}
    BY DEF Carried
  <1> QED
    BY <1>1, FS_EmptySet DEF ConsistsOf

\* Fewer events are not more.
LEMMA CarriedGrows ==
    ASSUME NEW b, NEW kind, NEW n \in Nat, NEW i \in Carried(b, kind, n)
    PROVE  /\ Cardinality(Carried(b, kind, i)) \in Nat
           /\ 1 <= Cardinality(Carried(b, kind, i))
           /\ Cardinality(Carried(b, kind, i)) <= Cardinality(Carried(b, kind, n))
  <1>1. i \in Nat /\ 1 <= i /\ i <= n /\ b[i].kind = kind
    BY DEF Carried
  <1>2. IsFiniteSet(Carried(b, kind, i)) /\ IsFiniteSet(Carried(b, kind, n))
    BY <1>1, CarriedCounts
  <1>3. i \in Carried(b, kind, i)
    BY <1>1 DEF Carried
  <1>4. Cardinality(Carried(b, kind, i)) \in Nat /\ Cardinality(Carried(b, kind, i)) # 0
    BY <1>2, <1>3, FS_EmptySet, FS_CardinalityType
  <1>5. Carried(b, kind, i) \in SUBSET Carried(b, kind, n)
    BY <1>1 DEF Carried
  <1> QED
    BY <1>2, <1>4, <1>5, FS_Subset

\* A text that takes the next event consists of one event more.
LEMMA NextPiece ==
    ASSUME NEW P, NEW text \in Seq(P), NEW b, NEW kind, NEW n \in Nat, b[n + 1].piece \in P,
           ConsistsOf(text, b, kind, n)
    PROVE  /\ b[n + 1].kind = kind =>
                ConsistsOf(Append(text, b[n + 1].piece), b, kind, n + 1)
           /\ b[n + 1].kind # kind => ConsistsOf(text, b, kind, n + 1)
  <1> DEFINE t == Append(text, b[n + 1].piece)
  <1>1. /\ Len(text) = Cardinality(Carried(b, kind, n))
        /\ \A i \in Carried(b, kind, n) : text[Cardinality(Carried(b, kind, i))] = b[i].piece
    BY DEF ConsistsOf
  <1>2. Len(text) \in Nat /\ Len(t) = Len(text) + 1 /\ t[Len(text) + 1] = b[n + 1].piece
        /\ \A k \in 1 .. Len(text) : t[k] = text[k]
    OBVIOUS
  <1> HIDE DEF t
  <1>3. ASSUME b[n + 1].kind = kind
        PROVE  ConsistsOf(t, b, kind, n + 1)
    <2>1. /\ Carried(b, kind, n + 1) = Carried(b, kind, n) \cup {n + 1}
          /\ Cardinality(Carried(b, kind, n + 1)) = Len(text) + 1
      BY <1>1, <1>3, CarriedCounts
    <2>2. ASSUME NEW i \in Carried(b, kind, n)
          PROVE  t[Cardinality(Carried(b, kind, i))] = b[i].piece
      <3>1. Cardinality(Carried(b, kind, i)) \in 1 .. Len(text)
        BY <1>1, <1>2, CarriedGrows
      <3> QED
        BY <1>1, <1>2, <3>1
    <2>3. t[Cardinality(Carried(b, kind, n + 1))] = b[n + 1].piece
      BY <1>2, <2>1
    <2> QED
      BY <1>2, <2>1, <2>2, <2>3 DEF ConsistsOf
  <1>4. ASSUME b[n + 1].kind # kind
        PROVE  ConsistsOf(text, b, kind, n + 1)
    <2>1. Carried(b, kind, n + 1) = Carried(b, kind, n)
      BY <1>4, CarriedCounts
    <2> QED
      BY <1>1, <2>1 DEF ConsistsOf
  <1> QED
    BY <1>3, <1>4 DEF t

\* What the bus carries later does not matter.
LEMMA EarlierPieces ==
    ASSUME NEW text, NEW b, NEW c, NEW kind, NEW n \in Nat,
           \A i \in 1 .. n : b[i] = c[i],
           ConsistsOf(text, b, kind, n)
    PROVE  ConsistsOf(text, c, kind, n)
  <1>1. ASSUME NEW i \in Nat, i <= n
        PROVE  Carried(b, kind, i) = Carried(c, kind, i)
    BY <1>1 DEF Carried
  <1>2. Carried(b, kind, n) = Carried(c, kind, n)
    BY <1>1
  <1>3. ASSUME NEW i \in Carried(c, kind, n)
        PROVE  text[Cardinality(Carried(c, kind, i))] = c[i].piece
    <2>1. i \in 1 .. n /\ i \in Nat /\ i <= n
      BY DEF Carried
    <2>2. Carried(b, kind, i) = Carried(c, kind, i) /\ b[i] = c[i]
      BY <1>1, <2>1
    <2> QED
      BY <1>2, <2>2 DEF ConsistsOf
  <1> QED
    BY <1>2, <1>3 DEF ConsistsOf

-----------------------------------------------------------------------------
(* The deltas in the channel *)

\* A delta is sent behind the others.
LEMMA DeltasAppend ==
    ASSUME NEW E \in Seq(Events), NEW e \in Events, NEW kind, NEW base \in Nat,
           NEW total \in Nat, base <= total, Deltas(E, kind, base, total)
    PROVE  /\ (e.kind = kind /\ e.piece = <<"raw", total + 1>>)
                => Deltas(Append(E, e), kind, base, total + 1)
           /\ e.kind # kind => Deltas(Append(E, e), kind, base, total)
  <1> DEFINE F == Append(E, e)
  <1>1. /\ Len(E) \in Nat /\ Len(F) = Len(E) + 1 /\ DOMAIN E = 1 .. Len(E)
        /\ DOMAIN F = 1 .. Len(E) + 1
        /\ \A i \in DOMAIN E : F[i] = E[i]
        /\ F[Len(E) + 1] = e
    OBVIOUS
  <1> HIDE DEF F
  <1>2. \A i \in DOMAIN F : i \in DOMAIN E \/ i = Len(E) + 1
    BY <1>1
  <1>3. \A i \in DOMAIN E : E[i].kind = kind =>
          \E k \in base + 1 .. total : E[i].piece = <<"raw", k>> /\ E[i].piece[2] = k
    BY DEF Deltas
  <1>4. ASSUME e.kind = kind, e.piece = <<"raw", total + 1>>
        PROVE  Deltas(F, kind, base, total + 1)
    <2>1. \A i \in DOMAIN F : F[i].kind = kind =>
            \E k \in base + 1 .. total + 1 : F[i].piece = <<"raw", k>>
      <3>1. SUFFICES ASSUME NEW i \in DOMAIN F, F[i].kind = kind
                     PROVE  \E k \in base + 1 .. total + 1 : F[i].piece = <<"raw", k>>
        OBVIOUS
      <3>2. CASE i \in DOMAIN E
        <4>1. PICK k \in base + 1 .. total : E[i].piece = <<"raw", k>>
          BY <1>1, <1>3, <3>1, <3>2
        <4>2. k \in base + 1 .. total + 1
          BY <4>1
        <4> QED
          BY <1>1, <3>2, <4>1, <4>2
      <3>3. CASE i = Len(E) + 1
        <4>1. total + 1 \in base + 1 .. total + 1
          OBVIOUS
        <4> QED
          BY <1>1, <1>4, <3>3, <4>1
      <3> QED
        BY <1>2, <3>2, <3>3
    <2>2. \A i, j \in DOMAIN F : i < j /\ F[i].kind = kind /\ F[j].kind = kind
            => F[i].piece[2] < F[j].piece[2]
      <3>1. SUFFICES ASSUME NEW i \in DOMAIN F, NEW j \in DOMAIN F, i < j,
                            F[i].kind = kind, F[j].kind = kind
                     PROVE  F[i].piece[2] < F[j].piece[2]
        OBVIOUS
      <3>2. i \in DOMAIN E /\ F[i] = E[i]
        BY <1>1, <3>1
      <3>3. CASE j \in DOMAIN E
        BY <1>1, <3>1, <3>2, <3>3 DEF Deltas
      <3>4. CASE j = Len(E) + 1
        <4>1. PICK k \in base + 1 .. total : E[i].piece[2] = k
          BY <1>3, <3>1, <3>2
        <4>2. e.piece[2] = total + 1
          BY <1>4
        <4> QED
          BY <1>1, <3>2, <3>4, <4>1, <4>2
      <3> QED
        BY <1>2, <3>3, <3>4
    <2>3. ASSUME NEW k \in base + 1 .. total + 1
          PROVE  \E i \in DOMAIN F : F[i].kind = kind /\ F[i].piece = <<"raw", k>>
      <3>1. CASE k = total + 1
        BY <1>1, <1>4, <3>1
      <3>2. CASE k # total + 1
        <4>1. k \in base + 1 .. total
          BY <3>2
        <4>2. PICK i \in DOMAIN E : E[i].kind = kind /\ E[i].piece = <<"raw", k>>
          BY <4>1 DEF Deltas
        <4> QED
          BY <1>1, <4>2
      <3> QED
        BY <3>1, <3>2
    <2> QED
      BY <2>1, <2>2, <2>3 DEF Deltas
  <1>5. ASSUME e.kind # kind
        PROVE  Deltas(F, kind, base, total)
    <2>1. \A i \in DOMAIN F : F[i].kind = kind => i \in DOMAIN E /\ F[i] = E[i]
      BY <1>1, <1>2, <1>5
    <2>2. \A i \in DOMAIN E : i \in DOMAIN F /\ F[i] = E[i]
      BY <1>1
    <2> QED
      BY <2>1, <2>2 DEF Deltas
  <1> QED
    BY <1>4, <1>5 DEF F

\* The first event of a kind is the next delta.
LEMMA DeltasTail ==
    ASSUME NEW E \in Seq(Events), E # <<>>, NEW kind, NEW base \in Nat,
           NEW total \in Nat, base <= total, Deltas(E, kind, base, total)
    PROVE  /\ Head(E).kind = kind =>
                /\ base + 1 <= total /\ Head(E).piece = <<"raw", base + 1>>
                /\ Deltas(Tail(E), kind, base + 1, total)
           /\ Head(E).kind # kind => Deltas(Tail(E), kind, base, total)
  <1> DEFINE F == Tail(E)
  <1>1. /\ Len(E) \in Nat /\ Len(E) > 0 /\ Len(F) = Len(E) - 1 /\ DOMAIN E = 1 .. Len(E)
        /\ DOMAIN F = 1 .. Len(E) - 1
        /\ \A i \in DOMAIN F : F[i] = E[i + 1] /\ i + 1 \in DOMAIN E
        /\ Head(E) = E[1] /\ 1 \in DOMAIN E
    OBVIOUS
  <1> HIDE DEF F
  <1>2. \A i \in DOMAIN E : i = 1 \/ (i - 1 \in DOMAIN F /\ F[i - 1] = E[i])
    BY <1>1
  <1>3. \A i \in DOMAIN E : E[i].kind = kind =>
          \E k \in base + 1 .. total : E[i].piece = <<"raw", k>> /\ E[i].piece[2] = k
    BY DEF Deltas
  <1>r. \A i, j \in DOMAIN F : i < j /\ F[i].kind = kind /\ F[j].kind = kind
            => F[i].piece[2] < F[j].piece[2]
    <2>1. SUFFICES ASSUME NEW i \in DOMAIN F, NEW j \in DOMAIN F, i < j,
                          F[i].kind = kind, F[j].kind = kind
                   PROVE  F[i].piece[2] < F[j].piece[2]
      OBVIOUS
    <2>2. i + 1 < j + 1 /\ i + 1 \in DOMAIN E /\ j + 1 \in DOMAIN E /\ F[i] = E[i + 1] /\ F[j] = E[j + 1]
      BY <1>1, <2>1
    <2> QED
      BY <2>1, <2>2 DEF Deltas
  <1>4. ASSUME Head(E).kind = kind
        PROVE  /\ base + 1 <= total /\ Head(E).piece = <<"raw", base + 1>>
               /\ Deltas(F, kind, base + 1, total)
    <2>1. PICK h \in base + 1 .. total : E[1].piece = <<"raw", h>> /\ E[1].piece[2] = h
      BY <1>1, <1>3, <1>4
    <2>2. base + 1 \in base + 1 .. total /\ base + 1 <= total
      BY <2>1
    <2>3. PICK i \in DOMAIN E : E[i].kind = kind /\ E[i].piece = <<"raw", base + 1>>
      BY <2>2 DEF Deltas
    <2>4. E[i].piece[2] = base + 1
      BY <2>3
    <2>5. i = 1
      <3>1. SUFFICES ASSUME i # 1 PROVE FALSE
        OBVIOUS
      <3>2. 1 < i
        BY <1>1, <3>1
      <3>3. E[1].piece[2] < E[i].piece[2]
        BY <1>1, <1>4, <2>3, <3>2 DEF Deltas
      <3> QED
        BY <2>1, <2>4, <3>3
    <2>6. \A j \in DOMAIN F : F[j].kind = kind =>
            \E k \in base + 2 .. total : F[j].piece = <<"raw", k>>
      <3>1. SUFFICES ASSUME NEW j \in DOMAIN F, F[j].kind = kind
                     PROVE  \E k \in base + 2 .. total : F[j].piece = <<"raw", k>>
        OBVIOUS
      <3>2. F[j] = E[j + 1] /\ j + 1 \in DOMAIN E /\ 1 < j + 1
        BY <1>1
      <3>3. PICK k \in base + 1 .. total : E[j + 1].piece = <<"raw", k>> /\ E[j + 1].piece[2] = k
        BY <1>3, <3>1, <3>2
      <3>4. E[1].piece[2] < E[j + 1].piece[2]
        BY <1>1, <1>4, <3>1, <3>2 DEF Deltas
      <3>5. k \in base + 2 .. total
        BY <2>4, <2>5, <3>3, <3>4
      <3> QED
        BY <3>2, <3>3, <3>5
    <2>7. ASSUME NEW k \in base + 2 .. total
          PROVE  \E j \in DOMAIN F : F[j].kind = kind /\ F[j].piece = <<"raw", k>>
      <3>1. k \in base + 1 .. total /\ k # base + 1
        OBVIOUS
      <3>2. PICK j \in DOMAIN E : E[j].kind = kind /\ E[j].piece = <<"raw", k>>
        BY <3>1 DEF Deltas
      <3>3. j # 1
        BY <2>3, <2>5, <3>1, <3>2
      <3> QED
        BY <1>2, <3>2, <3>3
    <2>8. base + 1 + 1 = base + 2
      OBVIOUS
    <2> QED
      BY <1>1, <1>r, <2>2, <2>3, <2>5, <2>6, <2>7, <2>8 DEF Deltas
  <1>5. ASSUME Head(E).kind # kind
        PROVE  Deltas(F, kind, base, total)
    <2>1. \A j \in DOMAIN F : F[j].kind = kind =>
            \E k \in base + 1 .. total : F[j].piece = <<"raw", k>>
      BY <1>1, <1>3
    <2>2. ASSUME NEW k \in base + 1 .. total
          PROVE  \E j \in DOMAIN F : F[j].kind = kind /\ F[j].piece = <<"raw", k>>
      <3>1. PICK j \in DOMAIN E : E[j].kind = kind /\ E[j].piece = <<"raw", k>>
        BY DEF Deltas
      <3> QED
        BY <1>1, <1>2, <1>5, <3>1
    <2> QED
      BY <1>r, <2>1, <2>2 DEF Deltas
  <1> QED
    BY <1>4, <1>5 DEF F

\* Nothing is in flight in an empty channel.
LEMMA NoDeltas ==
    ASSUME NEW kind, NEW base \in Nat, NEW total \in Nat, base <= total,
           Deltas(<<>>, kind, base, total)
    PROVE  base = total
  <1>1. SUFFICES ASSUME base # total PROVE FALSE
    OBVIOUS
  <1>2. base + 1 \in base + 1 .. total
    BY <1>1
  <1>3. \E i \in DOMAIN <<>> : TRUE
    BY <1>2 DEF Deltas
  <1> QED
    BY <1>3

-----------------------------------------------------------------------------
(* Publishing *)

\* The prefixes after an event for which they have room.
LEMMA PrefixFacts ==
    ASSUME live \in Lives, NEW e \in Events,
           e.kind = "text" => Len(live.text) < MaxPrefix,
           e.kind = "reasoning" => Len(live.reasoning) < MaxPrefix
    PROVE  /\ PrefixAfter(e) \in Lives
           /\ PrefixAfter(e).text = IF e.kind = "text" THEN Append(live.text, e.piece) ELSE live.text
           /\ PrefixAfter(e).reasoning = IF e.kind = "reasoning" THEN Append(live.reasoning, e.piece)
                                                                 ELSE live.reasoning
           /\ PrefixAfter(e).lost = live.lost
           /\ PrefixAfter(e).phase = live.phase
  <1>1. e.piece \in AnyPieces /\ live.text \in Seq(AnyPieces) /\ live.reasoning \in Seq(AnyPieces)
    BY DEF Events, Lives
  <1>2. CASE e.kind = "text"
    <2>1. PrefixAfter(e) = [live EXCEPT !.text = Append(live.text, e.piece)]
      BY <1>2 DEF PrefixAfter
    <2>2. Append(live.text, e.piece) \in Seq(AnyPieces)
      BY <1>1
    <2> QED
      BY <1>2, <2>1, <2>2 DEF Lives
  <1>3. CASE e.kind = "reasoning"
    <2>1. PrefixAfter(e) = [live EXCEPT !.reasoning = Append(live.reasoning, e.piece)]
      BY <1>3 DEF PrefixAfter
    <2>2. Append(live.reasoning, e.piece) \in Seq(AnyPieces)
      BY <1>1
    <2> QED
      BY <1>3, <2>1, <2>2 DEF Lives
  <1>4. CASE e.kind \notin {"text", "reasoning"}
    <2>1. PrefixAfter(e) = live
      BY <1>4 DEF PrefixAfter
    <2> QED
      BY <1>4, <2>1 DEF Lives
  <1> QED
    BY <1>2, <1>3, <1>4

\* A publication extends the bus, and every viewer still follows it.
LEMMA PublishKeeps ==
    ASSUME Typed, BusOK, ViewsOK, NEW e \in Events, e.seq > live.watermark,
           e.kind = "text" => /\ Len(live.text) < MaxPrefix /\ e.piece \in Pieces
                              /\ mode.defer => e.piece[1] # "raw",
           e.kind = "reasoning" => Len(live.reasoning) < MaxPrefix,
           PublishUpdate(e), task'.seq \in Nat, e.seq <= task'.seq,
           UNCHANGED <<mode, view>>
    PROVE  /\ BusOK' /\ ViewsOK' /\ live' \in Lives /\ bus' \in Seq(Events)
           /\ live'.watermark = e.seq
           /\ live'.phase = IF e.kind \in Terminal THEN "terminal" ELSE live.phase
           /\ live'.text = IF e.kind = "text" THEN Append(live.text, e.piece) ELSE live.text
           /\ live'.reasoning = IF e.kind = "reasoning" THEN Append(live.reasoning, e.piece)
                                                        ELSE live.reasoning
           /\ bus' = Append(bus, e)
  <1> DEFINE p == PrefixAfter(e)
  <1>1. /\ p \in Lives
        /\ p.text = IF e.kind = "text" THEN Append(live.text, e.piece) ELSE live.text
        /\ p.reasoning = IF e.kind = "reasoning" THEN Append(live.reasoning, e.piece)
                                                 ELSE live.reasoning
        /\ p.lost = live.lost /\ p.phase = live.phase
    BY PrefixFacts DEF Typed
  <1>2. live' = [p EXCEPT !.watermark = e.seq,
                          !.phase = IF e.kind \in Terminal THEN "terminal" ELSE p.phase]
        /\ bus' = Append(bus, e)
    BY DEF PublishUpdate
  <1> HIDE DEF p
  <1>3. e.seq \in Nat /\ e.piece \in AnyPieces /\ live.watermark \in Nat /\ live \in Lives
        /\ bus \in Seq(Events)
    BY DEF Typed, Events, Lives
  <1>4. /\ live'.watermark = e.seq
        /\ live'.phase = IF e.kind \in Terminal THEN "terminal" ELSE live.phase
        /\ live'.text = p.text /\ live'.reasoning = p.reasoning /\ live'.lost = live.lost
    BY <1>1, <1>2 DEF Lives
  <1>5. live' \in Lives
    BY <1>1, <1>2, <1>3 DEF Lives
  <1>6. /\ Len(bus) \in Nat /\ Len(bus') = Len(bus) + 1
        /\ DOMAIN bus = 1 .. Len(bus) /\ DOMAIN bus' = 1 .. Len(bus) + 1
        /\ \A i \in 1 .. Len(bus) : bus'[i] = bus[i]
        /\ bus'[Len(bus) + 1] = e
        /\ bus' \in Seq(Events)
    BY <1>2, <1>3
  <1>7. \A i \in DOMAIN bus' : i \in DOMAIN bus \/ i = Len(bus) + 1
    BY <1>6
  <1>8. \A i \in DOMAIN bus : bus[i].seq \in Nat /\ 1 <= bus[i].seq /\ bus[i].seq <= live.watermark
    <2>1. \A i \in DOMAIN bus : bus[i] \in Events
      BY <1>3
    <2> QED
      BY <2>1 DEF BusOK, Events
  <1>9. BusOK'
    <2>1. \A i, j \in DOMAIN bus' : i < j => bus'[i].seq < bus'[j].seq
      <3>1. SUFFICES ASSUME NEW i \in DOMAIN bus', NEW j \in DOMAIN bus', i < j
                     PROVE  bus'[i].seq < bus'[j].seq
        OBVIOUS
      <3>2. i \in DOMAIN bus /\ bus'[i] = bus[i]
        BY <1>6, <3>1
      <3>3. CASE j \in DOMAIN bus
        BY <1>6, <3>1, <3>2, <3>3 DEF BusOK
      <3>4. CASE j = Len(bus) + 1
        BY <1>3, <1>6, <1>8, <3>2, <3>4
      <3> QED
        BY <1>7, <3>3, <3>4
    <2>2. \A i \in DOMAIN bus' : 1 <= bus'[i].seq /\ bus'[i].seq <= live'.watermark
      <3>1. SUFFICES ASSUME NEW i \in DOMAIN bus'
                     PROVE  1 <= bus'[i].seq /\ bus'[i].seq <= live'.watermark
        OBVIOUS
      <3>2. CASE i \in DOMAIN bus
        BY <1>3, <1>4, <1>6, <1>8, <3>2
      <3>3. CASE i = Len(bus) + 1
        BY <1>3, <1>4, <1>6, <3>3
      <3> QED
        BY <1>7, <3>2, <3>3
    <2>3. \A i \in DOMAIN bus' : bus'[i].kind = "text" =>
            bus'[i].piece \in Pieces /\ (mode'.defer => bus'[i].piece[1] # "raw")
      <3>1. SUFFICES ASSUME NEW i \in DOMAIN bus', bus'[i].kind = "text"
                     PROVE  bus'[i].piece \in Pieces /\ (mode.defer => bus'[i].piece[1] # "raw")
        OBVIOUS
      <3>2. CASE i \in DOMAIN bus
        BY <1>6, <3>1, <3>2 DEF BusOK
      <3>3. CASE i = Len(bus) + 1
        BY <1>6, <3>1, <3>3
      <3> QED
        BY <1>7, <3>2, <3>3
    <2>4. \A i \in 1 .. Len(bus) : bus[i] = bus'[i]
      BY <1>6
    <2>5. bus'[Len(bus) + 1].piece = e.piece /\ bus'[Len(bus) + 1].kind = e.kind
      BY <1>6
    <2>6. ConsistsOf(live'.text, bus', "text", Len(bus) + 1)
      <3>1. ConsistsOf(live.text, bus', "text", Len(bus))
        BY <1>6, <2>4, EarlierPieces DEF BusOK
      <3>2. live.text \in Seq(AnyPieces)
        BY <1>3 DEF Lives
      <3>3. /\ e.kind = "text" => ConsistsOf(Append(live.text, e.piece), bus', "text", Len(bus) + 1)
            /\ e.kind # "text" => ConsistsOf(live.text, bus', "text", Len(bus) + 1)
        BY <1>3, <1>6, <2>5, <3>1, <3>2, NextPiece
      <3> QED
        BY <1>1, <1>4, <3>3
    <2>7. ConsistsOf(live'.reasoning, bus', "reasoning", Len(bus) + 1)
      <3>1. ConsistsOf(live.reasoning, bus', "reasoning", Len(bus))
        BY <1>6, <2>4, EarlierPieces DEF BusOK
      <3>2. live.reasoning \in Seq(AnyPieces)
        BY <1>3 DEF Lives
      <3>3. /\ e.kind = "reasoning" =>
                 ConsistsOf(Append(live.reasoning, e.piece), bus', "reasoning", Len(bus) + 1)
            /\ e.kind # "reasoning" => ConsistsOf(live.reasoning, bus', "reasoning", Len(bus) + 1)
        BY <1>3, <1>6, <2>5, <3>1, <3>2, NextPiece
      <3> QED
        BY <1>1, <1>4, <3>3
    <2>8. ~live'.lost /\ live'.watermark <= task'.seq
      BY <1>4 DEF BusOK
    <2> QED
      BY <1>6, <2>1, <2>2, <2>3, <2>6, <2>7, <2>8 DEF BusOK
  <1>10. ViewsOK'
    <2>1. SUFFICES ASSUME NEW v \in Viewers
                   PROVE  /\ view[v].why # "sequence"
                          /\ view[v].st \in {"attached", "done"} => Follows(view[v])'
      BY DEF ViewsOK
    <2>2. view[v].why # "sequence"
      BY DEF ViewsOK
    <2>3. SUFFICES ASSUME view[v].st \in {"attached", "done"} PROVE Follows(view[v])'
      BY <2>2
    <2> DEFINE s == view[v]
    <2>4. Follows(s) /\ s \in Views
      BY <2>3 DEF ViewsOK, Typed
    <2>5. view'[v] = s
      OBVIOUS
    <2> HIDE DEF s
    <2>6. s.next \in Nat /\ 1 <= s.next /\ s.next <= Len(bus) + 1 /\ s.last \in Nat
          /\ s.last <= live.watermark /\ s.next - 1 \in Nat
      BY <1>6, <2>4 DEF Follows, Views
    <2>7. \A i \in 1 .. s.next - 1 : bus[i] = bus'[i]
      BY <1>6, <2>6
    <2>8. ConsistsOf(s.text, bus', "text", s.next - 1)
          /\ ConsistsOf(s.reasoning, bus', "reasoning", s.next - 1)
      BY <2>4, <2>6, <2>7, EarlierPieces DEF Follows
    <2>9. \A i \in DOMAIN bus' : i < s.next <=> bus'[i].seq <= s.last
      <3>1. SUFFICES ASSUME NEW i \in DOMAIN bus' PROVE i < s.next <=> bus'[i].seq <= s.last
        OBVIOUS
      <3>2. CASE i \in DOMAIN bus
        BY <1>6, <2>4, <3>2 DEF Follows
      <3>3. CASE i = Len(bus) + 1
        BY <1>3, <1>6, <2>6, <3>3
      <3> QED
        BY <1>7, <3>2, <3>3
    <2>10. s.next \in 1 .. Len(bus') + 1 /\ s.last <= live'.watermark
      BY <1>3, <1>4, <1>6, <2>6
    <2> QED
      BY <2>5, <2>8, <2>9, <2>10 DEF Follows, s
  <1> QED
    BY <1>1, <1>2, <1>4, <1>5, <1>6, <1>9, <1>10

\* Steps that leave the bus alone.
LEMMA BusStays ==
    ASSUME BusOK, UNCHANGED <<bus, live, mode>>, live.watermark <= task'.seq
    PROVE  BusOK'
BY DEF BusOK

\* Steps that leave the bus and the viewers alone.
LEMMA ViewsStay ==
    ASSUME ViewsOK, UNCHANGED <<bus, live, view>>
    PROVE  ViewsOK'
BY DEF ViewsOK, Follows

-----------------------------------------------------------------------------
(* The provider and the task's loop *)

\* Before a death, and what the parts of the invariant are called on.
LEMMA BeforeADeath ==
    ASSUME IndInv, task.pc # "gone" \/ fwd.pc # "done" \/ registered
    PROVE  crashes = 0 /\ Alive /\ up
BY DEF IndInv, Typed, Dead, Alive

\* The fields of the records.
LEMMA Fields ==
    ASSUME Typed
    PROVE  /\ task.seq \in Nat /\ task.text \in Nat /\ task.reasoning \in Nat
           /\ task.pc \in Running \cup Finishing \cup {"dropping", "gone"}
           /\ task.result \in Statuses \cup {"none"} /\ task.keep \in BOOLEAN
           /\ fwd.text \in Nat /\ fwd.saved \in Nat /\ fwd.dirty \in BOOLEAN
           /\ fwd.pc \in {"recv", "checkpoint", "last_checkpoint", "done"}
           /\ channel.events \in Seq(Events) /\ channel.sender \in BOOLEAN
           /\ channel.receiver \in BOOLEAN
           /\ provider.queue \in Seq({"text", "reasoning"}) /\ provider.sent \in Nat
           /\ provider.st \in {"idle", "complete", "failed", "dropped"}
           /\ live.watermark \in Nat /\ live.text \in Seq(AnyPieces)
           /\ live.reasoning \in Seq(AnyPieces) /\ Len(live.text) \in Nat
           /\ Len(live.reasoning) \in Nat /\ live.phase \in {"running", "terminal"}
           /\ disk.content \in Pieces /\ disk.gen \in Statuses \cup {"running"}
           /\ mode.preserve \in BOOLEAN /\ mode.defer \in BOOLEAN
  <1>1. mode \in [preserve : BOOLEAN, defer : BOOLEAN]
    BY StreamConstants DEF Typed
  <1>2. task \in Tasks /\ fwd \in Forwarders /\ channel \in Channels /\ provider \in Providers
        /\ live \in Lives /\ disk \in Disks
    BY DEF Typed
  <1>3. live.text \in Seq(AnyPieces) /\ live.reasoning \in Seq(AnyPieces)
    BY <1>2 DEF Lives
  <1>4. Len(live.text) \in Nat /\ Len(live.reasoning) \in Nat
    BY <1>3
  <1> QED
    BY <1>1, <1>2, <1>3, <1>4 DEF Tasks, Forwarders, Channels, Providers, Lives, Disks

\* The bounds are numbers.
LEMMA Bounds ==
    /\ MaxProvider \in Nat /\ MaxFaults \in Nat /\ MaxCrashes \in Nat
    /\ MaxOutput \in Nat /\ MaxPrefix \in Nat /\ ProviderQueue \in Nat /\ ProviderQueue > 0
    /\ ChannelSize \in Nat /\ ChannelSize > 0 /\ BusSize \in Nat /\ MaxPrefix > 0
    /\ CheckpointEvery \in Nat /\ CheckpointEvery > 0 /\ MaxOutput <= MaxPrefix
BY StreamConstants

\* Nothing was announced while the task is in its loop.
LEMMA NothingAnnounced ==
    ASSUME Alive, task.pc \notin {"terminal", "dropping", "gone"}
    PROVE  \A i \in DOMAIN bus : bus[i].kind # "committed" /\ bus[i].kind \notin Terminal
BY DEF Alive, AnnouncementsOK

\* A step of the task's loop.
LEMMA RunKeeps ==
    ASSUME IndInv, task.pc \in {"start", "collect", "drain"}, TaskUnchanged,
           task' \in Tasks, task'.text + task'.reasoning <= MaxOutput,
           task'.pc \in {"collect", "drain", "returned"},
           task'.pc # "collect" => task'.result \in Statuses,
           task.seq <= task'.seq, task.text <= task'.text, task.reasoning <= task'.reasoning,
           provider' \in Providers, Len(provider'.queue) <= ProviderQueue,
           provider'.st # "dropped",
           channel' \in Channels, Len(channel'.events) <= ChannelSize,
           channel'.receiver = channel.receiver,
           channel'.sender <=> task'.pc # "returned",
           ChannelOK',
           channel.receiver =>
             /\ Deltas(channel'.events, "reasoning", Len(live.reasoning), task'.reasoning)
             /\ ~mode.defer => Deltas(channel'.events, "text", Len(live.text), task'.text)
    PROVE  IndInv'
  <1>0. Typed /\ DiskOK /\ BusOK /\ ViewsOK
    BY DEF IndInv
  <1>1. crashes = 0 /\ Alive /\ up
    BY BeforeADeath
  <1>2. /\ task.seq \in Nat /\ task'.seq \in Nat /\ live.watermark \in Nat
        /\ task.text \in Nat /\ task'.text \in Nat /\ task.reasoning \in Nat /\ task'.reasoning \in Nat
        /\ Len(live.text) \in Nat /\ Len(live.reasoning) \in Nat
    BY <1>0, Fields DEF Tasks
  <1>3. mode' = mode /\ disk' = disk /\ up' = up /\ cancel' = cancel /\ fwd' = fwd /\ live' = live
        /\ registered' = registered /\ bus' = bus /\ view' = view /\ faults' = faults
        /\ crashes' = crashes
    BY DEF TaskUnchanged
  <1>4. Typed'
    BY <1>0, <1>3 DEF Typed
  <1>5. DiskOK'
    BY <1>0, <1>3 DEF DiskOK, ClosedTogether
  <1>6. live.watermark <= task'.seq
    BY <1>0, <1>2 DEF BusOK
  <1>7. BusOK' /\ ViewsOK'
    BY <1>0, <1>3, <1>6, BusStays, ViewsStay
  <1>8. DeltasOK'
    <2>1. DeltasOK
      BY <1>1 DEF Alive
    <2>2. Len(live.reasoning) <= task'.reasoning /\ (~mode.defer => Len(live.text) <= task'.text)
      BY <1>2, <2>1 DEF DeltasOK
    <2>3. task.pc \in Running
      BY DEF Running
    <2> QED
      BY <1>3, <2>1, <2>2, <2>3 DEF DeltasOK
  <1>9. ForwarderOK'
    <2>1. channel.sender /\ ForwarderOK
      BY <1>1 DEF Alive, TaskOK
    <2>2. fwd.pc # "last_checkpoint" /\ fwd.result # "ok"
      BY <2>1 DEF ForwarderOK
    <2>3. task'.pc \in Running
      BY DEF Running
    <2> QED
      BY <1>3, <2>1, <2>2, <2>3 DEF ForwarderOK, Saves
  <1>10. TaskOK'
    <2>1. TaskOK
      BY <1>1 DEF Alive
    <2>2. registered /\ live.phase = "running" /\ disk.gen = "running"
      BY <2>1 DEF TaskOK, Running
    <2>3. /\ task'.pc \notin Finishing /\ task'.pc \notin {"dropping", "gone", "start"}
          /\ task'.pc \notin {"finalize", "compensate", "reread", "terminal"}
      BY DEF Finishing
    <2> QED
      BY <1>3, <2>2, <2>3 DEF TaskOK
  <1>11. AnnouncementsOK'
    <2>1. \A i \in DOMAIN bus : bus[i].kind # "committed" /\ bus[i].kind \notin Terminal
      BY <1>1, NothingAnnounced
    <2>2. \A i \in DOMAIN bus : bus[i].kind # "finished" /\ bus[i].kind # "cancelled"
      BY <2>1 DEF Terminal
    <2> QED
      BY <1>3, <2>1, <2>2 DEF AnnouncementsOK
  <1> QED
    BY <1>1, <1>3, <1>4, <1>5, <1>7, <1>8, <1>9, <1>10, <1>11 DEF IndInv, Alive

\* run_generation returns, and its sender is dropped.
LEMMA ReturnFacts ==
    ASSUME NEW t \in Tasks, NEW result \in Statuses, NEW events \in Seq(Events),
           channel \in Channels, Returns(t, result, events)
    PROVE  /\ task' \in Tasks /\ task'.pc = "returned" /\ task'.result = result
           /\ task'.seq = t.seq /\ task'.text = t.text /\ task'.reasoning = t.reasoning
           /\ channel' \in Channels /\ channel'.events = events /\ ~channel'.sender
           /\ channel'.receiver = channel.receiver
  <1>1. task' = [t EXCEPT !.pc = "returned", !.result = result]
        /\ channel' = [channel EXCEPT !.sender = FALSE, !.events = events]
    BY DEF Returns
  <1> QED
    BY <1>1 DEF Tasks, Channels, Running

\* The task returns without having sent anything more; what it counted last
\* may be lost with the receiver.
LEMMA ReturnKeeps ==
    ASSUME IndInv, task.pc \in {"start", "collect", "drain"}, TaskUnchanged,
           NEW t \in Tasks, NEW result \in Statuses, Returns(t, result, channel.events),
           t.text + t.reasoning <= MaxOutput,
           task.seq <= t.seq, task.text <= t.text, task.reasoning <= t.reasoning,
           channel.receiver => t.text = task.text /\ t.reasoning = task.reasoning,
           provider' \in Providers, Len(provider'.queue) <= ProviderQueue,
           provider'.st # "dropped"
    PROVE  IndInv'
  <1>0. Typed /\ Alive
    BY BeforeADeath DEF IndInv
  <1>1. channel \in Channels /\ channel.events \in Seq(Events) /\ Len(channel.events) <= ChannelSize
    BY <1>0, Fields DEF Typed
  <1>2. /\ task' \in Tasks /\ task'.pc = "returned" /\ task'.result = result
        /\ task'.seq = t.seq /\ task'.text = t.text /\ task'.reasoning = t.reasoning
        /\ channel' \in Channels /\ channel'.events = channel.events /\ ~channel'.sender
        /\ channel'.receiver = channel.receiver
    BY <1>1, ReturnFacts
  <1>3. \A i \in DOMAIN channel.events : channel.events[i].seq \in Nat
    <2>1. \A i \in DOMAIN channel.events : channel.events[i] \in Events
      BY <1>1
    <2> QED
      BY <2>1 DEF Events
  <1>4. ChannelOK'
    <2>1. ChannelOK /\ live' = live
      BY <1>0 DEF Alive, TaskUnchanged
    <2>2. task.seq \in Nat /\ t.seq \in Nat
      BY <1>0, Fields DEF Tasks
    <2> QED
      BY <1>2, <1>3, <2>1, <2>2 DEF ChannelOK
  <1>5. channel.receiver =>
          /\ Deltas(channel'.events, "reasoning", Len(live.reasoning), task'.reasoning)
          /\ ~mode.defer => Deltas(channel'.events, "text", Len(live.text), task'.text)
    BY <1>0, <1>2 DEF Alive, DeltasOK
  <1> QED
    BY <1>1, <1>2, <1>4, <1>5, RunKeeps

\* Channel and deltas after an event was sent.
LEMMA SentKeeps ==
    ASSUME IndInv, task.pc \in {"start", "collect", "drain"}, TaskUnchanged,
           NEW e \in Events, e.kind \in Sent, Room,
           channel' \in Channels, channel'.events = Append(channel.events, e),
           channel'.receiver = channel.receiver,
           channel'.sender <=> task'.pc # "returned",
           task' \in Tasks, task'.text + task'.reasoning <= MaxOutput,
           task'.pc \in {"collect", "drain", "returned"},
           task'.pc # "collect" => task'.result \in Statuses,
           task'.seq = e.seq, task.seq < e.seq \/ (task.pc = "start" /\ e.seq = 1),
           task'.text = IF e.kind = "text" THEN task.text + 1 ELSE task.text,
           task'.reasoning = IF e.kind = "reasoning" THEN task.reasoning + 1 ELSE task.reasoning,
           e.kind = "text" => e.piece = <<"raw", task.text + 1>>,
           e.kind = "reasoning" => e.piece = <<"raw", task.reasoning + 1>>,
           provider' \in Providers, Len(provider'.queue) <= ProviderQueue,
           provider'.st # "dropped"
    PROVE  IndInv'
  <1>0. Typed /\ Alive /\ BusOK /\ live' = live
    BY BeforeADeath DEF IndInv, TaskUnchanged
  <1>1. /\ channel.events \in Seq(Events) /\ task.seq \in Nat /\ task.text \in Nat
        /\ task.reasoning \in Nat /\ live.watermark \in Nat /\ e.seq \in Nat
        /\ Len(live.text) \in Nat /\ Len(live.reasoning) \in Nat
    BY <1>0, Fields DEF Events
  <1>2. channel.receiver /\ Len(channel.events) < ChannelSize
    BY DEF Room
  <1> DEFINE E == channel.events
             F == Append(E, e)
  <1>3. /\ Len(E) \in Nat /\ DOMAIN E = 1 .. Len(E) /\ DOMAIN F = 1 .. Len(E) + 1
        /\ Len(F) = Len(E) + 1
        /\ \A i \in DOMAIN E : F[i] = E[i] /\ E[i] \in Events
        /\ F[Len(E) + 1] = e
    BY <1>1
  <1>4. Len(channel'.events) <= ChannelSize
    BY <1>2, <1>3, Bounds
  <1>e. channel'.events = F
    OBVIOUS
  <1> HIDE DEF F
  <1>5. \A i \in DOMAIN E : E[i].seq \in Nat /\ E[i].seq <= task.seq /\ live.watermark < E[i].seq
                            /\ E[i].kind \in Sent
    BY <1>0, <1>3 DEF Alive, ChannelOK, Events
  <1>6. live.watermark < e.seq /\ \A i \in DOMAIN E : E[i].seq < e.seq
    <2>1. CASE task.seq < e.seq
      <3>1. live.watermark <= task.seq
        BY <1>0 DEF BusOK
      <3> QED
        BY <1>1, <1>5, <2>1, <3>1
    <2>2. CASE task.pc = "start" /\ e.seq = 1
      <3>1. live.watermark = 0 /\ E = <<>>
        BY <1>0, <2>2 DEF Alive, TaskOK
      <3> QED
        BY <2>2, <3>1
    <2> QED
      BY <2>1, <2>2
  <1>7. task.seq <= task'.seq
    <2>1. task.pc = "start" => task.seq = 1
      BY <1>0 DEF Alive, TaskOK
    <2> QED
      BY <1>1, <2>1
  <1>8. ChannelOK'
    <2>1. \A i \in DOMAIN F : i \in DOMAIN E \/ i = Len(E) + 1
      BY <1>3
    <2>2. \A i \in DOMAIN F : F[i].kind \in Sent /\ live.watermark < F[i].seq /\ F[i].seq <= e.seq
      <3>1. SUFFICES ASSUME NEW i \in DOMAIN F
                     PROVE  F[i].kind \in Sent /\ live.watermark < F[i].seq /\ F[i].seq <= e.seq
        OBVIOUS
      <3>2. CASE i \in DOMAIN E
        <4>1. F[i] = E[i]
          BY <1>3, <3>2
        <4>2. E[i].kind \in Sent /\ live.watermark < E[i].seq /\ E[i].seq \in Nat
          BY <1>5, <3>2
        <4>3. E[i].seq < e.seq
          BY <1>6, <3>2
        <4>4. E[i].seq <= e.seq
          BY <1>1, <4>2, <4>3
        <4> QED
          BY <4>1, <4>2, <4>4
      <3>3. CASE i = Len(E) + 1
        BY <1>1, <1>3, <1>6, <3>3
      <3> QED
        BY <2>1, <3>2, <3>3
    <2>3. \A i, j \in DOMAIN F : i < j => F[i].seq < F[j].seq
      <3>1. SUFFICES ASSUME NEW i \in DOMAIN F, NEW j \in DOMAIN F, i < j
                     PROVE  F[i].seq < F[j].seq
        OBVIOUS
      <3>2. i \in DOMAIN E /\ F[i] = E[i]
        BY <1>3, <3>1
      <3>3. CASE j \in DOMAIN E
        BY <1>0, <1>3, <3>1, <3>2, <3>3 DEF Alive, ChannelOK
      <3>4. CASE j = Len(E) + 1
        BY <1>3, <1>6, <3>2, <3>4
      <3> QED
        BY <2>1, <3>3, <3>4
    <2> QED
      BY <1>0, <1>2, <1>e, <2>2, <2>3 DEF ChannelOK
  <1>9. Deltas(F, "reasoning", Len(live.reasoning), task'.reasoning)
    <2>1. Len(live.reasoning) <= task.reasoning
          /\ Deltas(E, "reasoning", Len(live.reasoning), task.reasoning)
      BY <1>0, <1>2 DEF Alive, DeltasOK
    <2> QED
      BY <1>1, <2>1, DeltasAppend DEF F
  <1>10. ASSUME ~mode.defer
         PROVE  Deltas(F, "text", Len(live.text), task'.text)
    <2>1. Len(live.text) <= task.text /\ Deltas(E, "text", Len(live.text), task.text)
      BY <1>0, <1>2, <1>10 DEF Alive, DeltasOK
    <2> QED
      BY <1>1, <2>1, DeltasAppend DEF F
  <1>11. task.text <= task'.text /\ task.reasoning <= task'.reasoning
    BY <1>1
  <1> QED
    BY <1>4, <1>7, <1>8, <1>9, <1>10, <1>11, <1>e, RunKeeps

\* Sending the event e as task t, or failing because nobody receives.
LEMMA SendKeeps ==
    ASSUME IndInv, task.pc \in {"start", "collect", "drain"}, TaskUnchanged,
           NEW t \in Tasks, NEW e \in Events, SendOrFail(t, e),
           e.kind \in Sent, t.pc \in {"collect", "drain"},
           t.pc # "collect" => t.result \in Statuses,
           t.text + t.reasoning <= MaxOutput,
           t.seq = e.seq, task.seq < e.seq \/ (task.pc = "start" /\ e.seq = 1),
           t.text = IF e.kind = "text" THEN task.text + 1 ELSE task.text,
           t.reasoning = IF e.kind = "reasoning" THEN task.reasoning + 1 ELSE task.reasoning,
           e.kind = "text" => e.piece = <<"raw", task.text + 1>>,
           e.kind = "reasoning" => e.piece = <<"raw", task.reasoning + 1>>,
           provider' \in Providers, Len(provider'.queue) <= ProviderQueue,
           provider'.st # "dropped"
    PROVE  IndInv'
  <1>0. Typed /\ Alive /\ task.text \in Nat /\ task.reasoning \in Nat /\ task.seq \in Nat
        /\ e.seq \in Nat /\ channel \in Channels /\ channel.events \in Seq(Events)
    BY BeforeADeath, Fields DEF IndInv, Events, Typed
  <1>1. ASSUME Room, task' = t, channel' = [channel EXCEPT !.events = Append(@, e)]
        PROVE  IndInv'
    <2>1. channel' = [channel EXCEPT !.events = Append(channel.events, e)]
          /\ Append(channel.events, e) \in Seq(Events)
      BY <1>0, <1>1
    <2>2. channel' \in Channels /\ channel'.events = Append(channel.events, e)
          /\ channel'.receiver = channel.receiver /\ channel'.sender = channel.sender
      BY <1>0, <2>1 DEF Channels
    <2>3. channel.sender
      BY <1>0 DEF Alive, TaskOK
    <2> QED
      BY <1>1, <2>2, <2>3, SentKeeps
  <1>2. ASSUME ~channel.receiver, Returns(t, "failed", channel.events)
        PROVE  IndInv'
    <2>1. task.seq <= t.seq
      <3>1. task.pc = "start" => task.seq = 1
        BY <1>0 DEF Alive, TaskOK
      <3> QED
        BY <1>0, <3>1
    <2>2. task.text <= t.text /\ task.reasoning <= t.reasoning /\ "failed" \in Statuses
      BY <1>0 DEF Statuses
    <2> QED
      BY <1>2, <2>1, <2>2, ReturnKeeps
  <1> QED
    BY <1>1, <1>2 DEF SendOrFail

\* The provider sends or ends; the task has not looked yet.
LEMMA ProviderKeeps ==
    ASSUME IndInv, ProviderStep
    PROVE  IndInv'
  <1>1. task.pc = "collect" /\ provider.st = "idle" /\ task' = task /\ channel' = channel /\ TaskUnchanged
    BY DEF ProviderStep, ProviderEmit, ProviderEnd, TaskUnchanged
  <1>2. Typed /\ Alive
    BY <1>1, BeforeADeath DEF IndInv
  <1>3. provider \in Providers /\ provider.queue \in Seq({"text", "reasoning"}) /\ provider.sent \in Nat
        /\ Len(provider.queue) <= ProviderQueue /\ Len(provider.queue) \in Nat
    BY <1>2, Fields DEF Typed
  <1>4. provider' \in Providers /\ Len(provider'.queue) <= ProviderQueue /\ provider'.st # "dropped"
    <2>1. ASSUME NEW kind \in {"text", "reasoning"}, ProviderEmit(kind)
          PROVE  provider' \in Providers /\ Len(provider'.queue) <= ProviderQueue /\ provider'.st # "dropped"
      <3>1. /\ provider' = [provider EXCEPT !.queue = Append(provider.queue, kind),
                                            !.sent = provider.sent + 1]
            /\ Len(provider.queue) < ProviderQueue
        BY <2>1 DEF ProviderEmit
      <3>2. Append(provider.queue, kind) \in Seq({"text", "reasoning"})
            /\ Len(Append(provider.queue, kind)) = Len(provider.queue) + 1
        BY <1>3
      <3>3. Len(Append(provider.queue, kind)) <= ProviderQueue
        BY <1>3, <3>1, <3>2, Bounds
      <3>4. provider.sent + 1 \in Nat
        BY <1>3
      <3>5. PICK q \in Seq({"text", "reasoning"}), m \in Nat :
              q = Append(provider.queue, kind) /\ m = provider.sent + 1
        BY <3>2, <3>4
      <3>6. provider' = [provider EXCEPT !.queue = q, !.sent = m]
        BY <3>1, <3>5
      <3>7. provider' \in Providers /\ provider'.queue = q /\ provider'.st = provider.st
        BY <1>3, <3>6 DEF Providers
      <3> QED
        BY <1>1, <3>3, <3>5, <3>7
    <2>2. ASSUME NEW outcome \in {"complete", "failed"}, ProviderEnd(outcome)
          PROVE  provider' \in Providers /\ Len(provider'.queue) <= ProviderQueue /\ provider'.st # "dropped"
      <3>1. provider' = [provider EXCEPT !.st = outcome]
        BY <2>2 DEF ProviderEnd
      <3> QED
        BY <1>3, <3>1 DEF Providers
    <2> QED
      BY <2>1, <2>2 DEF ProviderStep
  <1>5. channel.sender /\ channel \in Channels /\ Len(channel.events) <= ChannelSize /\ task \in Tasks
        /\ task.text + task.reasoning <= MaxOutput
        /\ task.seq \in Nat /\ task.text \in Nat /\ task.reasoning \in Nat
    BY <1>1, <1>2, Fields DEF Alive, TaskOK, Typed
  <1>6. ChannelOK'
    BY <1>1, <1>2 DEF Alive, ChannelOK, TaskUnchanged
  <1>7. channel.receiver =>
          /\ Deltas(channel'.events, "reasoning", Len(live.reasoning), task'.reasoning)
          /\ ~mode.defer => Deltas(channel'.events, "text", Len(live.text), task'.text)
    BY <1>1, <1>2 DEF Alive, DeltasOK
  <1> QED
    BY <1>1, <1>4, <1>5, <1>6, <1>7, RunKeeps

\* A request that is rejected before anything is sent.
LEMMA RunRejectedKeeps ==
    ASSUME IndInv, RunRejected
    PROVE  IndInv'
  <1>1. task.pc = "start" /\ Returns(task, "failed", channel.events) /\ provider' = provider /\ TaskUnchanged
    BY DEF RunRejected
  <1>2. Typed /\ Alive
    BY <1>1, BeforeADeath DEF IndInv
  <1>3. task \in Tasks /\ task.text + task.reasoning <= MaxOutput /\ provider \in Providers
        /\ Len(provider.queue) <= ProviderQueue /\ provider.st # "dropped" /\ "failed" \in Statuses
        /\ task.seq \in Nat /\ task.text \in Nat /\ task.reasoning \in Nat
    BY <1>2, Fields DEF Typed, Alive, TaskOK, Statuses
  <1> QED
    BY <1>1, <1>3, ReturnKeeps

\* The first event is sent.
LEMMA RunStartKeeps ==
    ASSUME IndInv, RunStart
    PROVE  IndInv'
  <1> DEFINE t == [task EXCEPT !.pc = IF cancel THEN "drain" ELSE "collect",
                               !.result = IF cancel THEN "cancelled" ELSE "none"]
             e == Event(1, "started", NoText)
  <1>1. task.pc = "start" /\ SendOrFail(t, e) /\ provider' = provider /\ TaskUnchanged
    BY DEF RunStart
  <1>2. Typed /\ Alive
    BY <1>1, BeforeADeath DEF IndInv
  <1>3. task \in Tasks /\ task.text + task.reasoning <= MaxOutput /\ provider \in Providers
        /\ Len(provider.queue) <= ProviderQueue /\ provider.st # "dropped"
    BY <1>2 DEF Typed, Alive, TaskOK
  <1>4. t \in Tasks /\ t.pc \in {"collect", "drain"} /\ (t.pc # "collect" => t.result \in Statuses)
        /\ t.text = task.text /\ t.reasoning = task.reasoning /\ t.seq = task.seq
    BY <1>3 DEF Tasks, Running, Statuses
  <1>5. e \in Events /\ e.seq = 1 /\ e.kind = "started" /\ e.kind \in Sent
    BY DEF Event, Events, Sent, NoText, AnyPieces
  <1>6. task.seq = 1
    BY <1>1, <1>2 DEF Alive, TaskOK
  <1> HIDE DEF t, e
  <1> QED
    BY <1>1, <1>3, <1>4, <1>5, <1>6, SendKeeps

\* A delta of the provider is counted and sent.
LEMMA RunForwardKeeps ==
    ASSUME IndInv, RunForward
    PROVE  IndInv'
  <1>0. task.pc \in {"collect", "drain"} /\ provider.queue # <<>> /\ TaskUnchanged
        /\ provider' = [provider EXCEPT !.queue = Tail(provider.queue)]
    BY DEF RunForward
  <1>1. Typed /\ Alive
    BY <1>0, BeforeADeath DEF IndInv
  <1>2. task \in Tasks /\ task.text + task.reasoning <= MaxOutput /\ provider \in Providers
        /\ Len(provider.queue) <= ProviderQueue /\ provider.st # "dropped"
        /\ task.seq \in Nat /\ task.text \in Nat /\ task.reasoning \in Nat
        /\ provider.queue \in Seq({"text", "reasoning"})
    BY <1>1, Fields DEF Typed, Alive, TaskOK
  <1>3. provider' \in Providers /\ Len(provider'.queue) <= ProviderQueue /\ provider'.st # "dropped"
    <2>1. Tail(provider.queue) \in Seq({"text", "reasoning"})
          /\ Len(Tail(provider.queue)) <= ProviderQueue
      BY <1>0, <1>2, Bounds
    <2> QED
      BY <1>0, <1>2, <2>1 DEF Providers
  <1>4. PICK kind \in {"text", "reasoning"} : kind = Head(provider.queue)
    BY <1>0, <1>2
  <1> DEFINE t == [task EXCEPT !.seq = task.seq + 1,
                               !.text = IF kind = "text" THEN task.text + 1 ELSE task.text,
                               !.reasoning = IF kind = "text" THEN task.reasoning
                                                              ELSE task.reasoning + 1]
             k == IF kind = "text" THEN t.text ELSE t.reasoning
             e == Event(t.seq, kind, <<"raw", k>>)
  <1>5. IF OutputFits THEN SendOrFail(t, e) ELSE Returns(task, "failed", channel.events)
    BY <1>4 DEF RunForward
  <1>6. t \in Tasks /\ t.pc = task.pc /\ t.result = task.result /\ t.seq = task.seq + 1
        /\ t.text = (IF kind = "text" THEN task.text + 1 ELSE task.text)
        /\ t.reasoning = (IF kind = "reasoning" THEN task.reasoning + 1 ELSE task.reasoning)
    <2>1. PICK q \in Nat, x \in Nat, y \in Nat :
            /\ q = task.seq + 1
            /\ x = IF kind = "text" THEN task.text + 1 ELSE task.text
            /\ y = IF kind = "text" THEN task.reasoning ELSE task.reasoning + 1
      <3>1. task.seq + 1 \in Nat /\ task.text + 1 \in Nat /\ task.reasoning + 1 \in Nat
        BY <1>2
      <3> QED
        BY <1>2, <3>1
    <2>2. t = [task EXCEPT !.seq = q, !.text = x, !.reasoning = y]
      BY <2>1
    <2>3. t \in Tasks /\ t.pc = task.pc /\ t.result = task.result /\ t.seq = q
          /\ t.text = x /\ t.reasoning = y
      BY <1>2, <2>2 DEF Tasks
    <2> QED
      BY <1>4, <2>1, <2>3
  <1>7. e \in Events /\ e.seq = task.seq + 1 /\ e.kind = kind /\ e.kind \in Sent
        /\ (kind = "text" => e.piece = <<"raw", task.text + 1>>)
        /\ (kind = "reasoning" => e.piece = <<"raw", task.reasoning + 1>>)
    BY <1>2, <1>6 DEF Event, Events, Sent, AnyPieces
  <1> HIDE DEF t, e, k
  <1>8. task.pc = "drain" => task.result \in Statuses
    BY <1>1 DEF Alive, TaskOK
  <1>9. CASE OutputFits
    <2>1. t.text + t.reasoning <= MaxOutput
      BY <1>2, <1>4, <1>6, <1>9, Bounds DEF OutputFits
    <2>2. SendOrFail(t, e)
      BY <1>5, <1>9
    <2>3. t.text = (IF e.kind = "text" THEN task.text + 1 ELSE task.text)
          /\ t.reasoning = (IF e.kind = "reasoning" THEN task.reasoning + 1 ELSE task.reasoning)
          /\ t.seq = e.seq /\ task.seq < e.seq /\ t.pc \in {"collect", "drain"}
          /\ (t.pc # "collect" => t.result \in Statuses)
      BY <1>0, <1>2, <1>6, <1>7, <1>8
    <2> QED
      BY <1>0, <1>3, <1>6, <1>7, <2>1, <2>2, <2>3, SendKeeps
  <1>10. CASE ~OutputFits
    <2>1. Returns(task, "failed", channel.events) /\ "failed" \in Statuses
      BY <1>5, <1>10 DEF Statuses
    <2>2. task.seq <= task.seq /\ task.text <= task.text /\ task.reasoning <= task.reasoning
          /\ task.pc \in {"start", "collect", "drain"}
      BY <1>0, <1>2
    <2> QED
      BY <1>0, <1>2, <1>3, <2>1, <2>2, ReturnKeeps
  <1> QED
    BY <1>9, <1>10

\* The loop ends, by a cancellation or with the provider's result.
LEMMA RunStopsKeeps ==
    ASSUME IndInv, RunCancelled \/ RunResult
    PROVE  IndInv'
  <1>0. task.pc = "collect" /\ TaskUnchanged /\ provider' = provider /\ channel' = channel
    BY DEF RunCancelled, RunResult
  <1>1. Typed /\ Alive
    BY <1>0, BeforeADeath DEF IndInv
  <1>2. task \in Tasks /\ task.text + task.reasoning <= MaxOutput /\ provider \in Providers
        /\ Len(provider.queue) <= ProviderQueue /\ provider.st # "dropped"
        /\ provider.st \in {"idle", "complete", "failed", "dropped"}
        /\ task.seq \in Nat /\ task.text \in Nat /\ task.reasoning \in Nat
        /\ channel \in Channels /\ channel.sender /\ Len(channel.events) <= ChannelSize
    BY <1>0, <1>1, Fields DEF Typed, Alive, TaskOK
  <1>3. PICK r \in Statuses : task' = [task EXCEPT !.pc = "drain", !.result = r]
    <2>1. ASSUME RunCancelled PROVE \E r \in Statuses : task' = [task EXCEPT !.pc = "drain", !.result = r]
      <3>1. "cancelled" \in Statuses
        BY DEF Statuses
      <3> QED
        BY <2>1, <3>1 DEF RunCancelled
    <2>2. ASSUME RunResult PROVE \E r \in Statuses : task' = [task EXCEPT !.pc = "drain", !.result = r]
      <3>1. provider.st \in Statuses
        BY <1>2, <2>2 DEF RunResult, Statuses
      <3> QED
        BY <2>2, <3>1 DEF RunResult
    <2> QED
      BY <2>1, <2>2
  <1>4. task' \in Tasks /\ task'.pc = "drain" /\ task'.result = r /\ task'.text = task.text
        /\ task'.reasoning = task.reasoning /\ task'.seq = task.seq
    BY <1>2, <1>3 DEF Tasks, Running
  <1>5. ChannelOK'
    BY <1>0, <1>1, <1>4 DEF Alive, ChannelOK, TaskUnchanged
  <1>6. channel.receiver =>
          /\ Deltas(channel'.events, "reasoning", Len(live.reasoning), task'.reasoning)
          /\ ~mode.defer => Deltas(channel'.events, "text", Len(live.text), task'.text)
    BY <1>0, <1>1, <1>4 DEF Alive, DeltasOK
  <1> QED
    BY <1>0, <1>2, <1>4, <1>5, <1>6, RunKeeps

\* The queue is drained and the task returns.
LEMMA RunDrainedKeeps ==
    ASSUME IndInv, RunDrained
    PROVE  IndInv'
  <1>0. task.pc = "drain" /\ TaskUnchanged /\ provider' = provider
    BY DEF RunDrained
  <1>1. Typed /\ Alive
    BY <1>0, BeforeADeath DEF IndInv
  <1>2. task \in Tasks /\ task.text + task.reasoning <= MaxOutput /\ provider \in Providers
        /\ Len(provider.queue) <= ProviderQueue /\ provider.st # "dropped"
        /\ task.seq \in Nat /\ task.text \in Nat /\ task.reasoning \in Nat
        /\ channel \in Channels /\ channel.events \in Seq(Events) /\ task.result \in Statuses
    BY <1>0, <1>1, Fields DEF Typed, Alive, TaskOK
  <1> DEFINE t == [task EXCEPT !.seq = task.seq + 1]
             e == Event(task.seq + 1, "usage", NoText)
             F == Append(channel.events, e)
  <1>3. t \in Tasks /\ t.seq = task.seq + 1 /\ t.text = task.text /\ t.reasoning = task.reasoning
    BY <1>2 DEF Tasks
  <1>4. e \in Events /\ e.seq = task.seq + 1 /\ e.kind = "usage" /\ e.kind \in Sent
    BY <1>2 DEF Event, Events, Sent, NoText, AnyPieces
  <1>5. F \in Seq(Events)
    BY <1>2, <1>4
  <1>6. \/ Room /\ Returns(t, "complete", F)
        \/ ~channel.receiver /\ Returns(t, "failed", channel.events)
        \/ Returns(task, task.result, channel.events)
    BY DEF RunDrained
  <1> HIDE DEF t, e
  <1>7. "complete" \in Statuses /\ "failed" \in Statuses
    BY DEF Statuses
  <1>8. ASSUME Room, Returns(t, "complete", F) PROVE IndInv'
    <2>1. /\ task' \in Tasks /\ task'.pc = "returned" /\ task'.result = "complete"
          /\ task'.seq = t.seq /\ task'.text = t.text /\ task'.reasoning = t.reasoning
          /\ channel' \in Channels /\ channel'.events = F /\ ~channel'.sender
          /\ channel'.receiver = channel.receiver
      BY <1>2, <1>3, <1>5, <1>7, <1>8, ReturnFacts
    <2>2. task.seq < e.seq /\ task'.seq = e.seq /\ task'.text + task'.reasoning <= MaxOutput
      BY <1>2, <1>3, <1>4, <2>1
    <2> QED
      BY <1>0, <1>2, <1>3, <1>4, <1>7, <1>8, <2>1, <2>2, SentKeeps
  <1>9. ASSUME ~channel.receiver, Returns(t, "failed", channel.events) PROVE IndInv'
    <2>1. task.seq <= t.seq /\ task.text <= t.text /\ task.reasoning <= t.reasoning
          /\ t.text + t.reasoning <= MaxOutput
      BY <1>2, <1>3
    <2> QED
      BY <1>0, <1>2, <1>3, <1>7, <1>9, <2>1, ReturnKeeps
  <1>10. ASSUME Returns(task, task.result, channel.events) PROVE IndInv'
    BY <1>0, <1>2, <1>10, ReturnKeeps
  <1> QED
    BY <1>6, <1>8, <1>9, <1>10

-----------------------------------------------------------------------------
(* The forwarder *)

\* A step of the forwarder, which runs only while nothing was announced.
LEMMA ForwardKeeps ==
    ASSUME IndInv, fwd.pc # "done",
           UNCHANGED <<mode, up, cancel, provider, task, registered, view, crashes>>,
           Typed', DiskOK', BusOK', ViewsOK', ChannelOK', DeltasOK', ForwarderOK',
           live'.phase = live.phase, channel'.sender = channel.sender, disk'.gen = disk.gen,
           task.pc = "start" => live'.watermark = live.watermark /\ channel'.events = <<>>,
           \A i \in DOMAIN bus' : bus'[i].kind # "committed" /\ bus'[i].kind \notin Terminal
    PROVE  IndInv'
  <1>1. crashes = 0 /\ Alive /\ up
    BY BeforeADeath
  <1>2. TaskOK /\ task.pc \in Running
    BY <1>1 DEF Alive, ForwarderOK
  <1>3. /\ task.pc \notin Finishing /\ task.pc \notin {"dropping", "gone"}
        /\ task.pc \notin {"finalize", "compensate", "reread", "display", "committed", "terminal"}
    BY <1>2 DEF Running, Finishing
  <1>4. TaskOK'
    BY <1>2, <1>3 DEF TaskOK
  <1>5. \A i \in DOMAIN bus' : bus'[i].kind # "finished" /\ bus'[i].kind # "cancelled"
    BY DEF Terminal
  <1>6. AnnouncementsOK'
    BY <1>3, <1>5 DEF AnnouncementsOK
  <1> QED
    BY <1>1, <1>4, <1>6 DEF IndInv, Alive

\* What the forwarder makes of an event.
LEMMA FwdEventFacts ==
    ASSUME Typed, NEW e \in Events, e = Head(channel.events), FwdEvent
    PROVE  /\ fwd' \in Forwarders
           /\ fwd'.text = IF Saves /\ e.kind = "text" THEN fwd.text + 1 ELSE fwd.text
           /\ fwd'.dirty = IF Saves /\ e.kind = "text" THEN TRUE ELSE fwd.dirty
           /\ fwd'.saved = fwd.saved /\ fwd'.result = fwd.result
           /\ fwd'.pc = IF mode.preserve /\ fwd'.dirty /\ fwd'.text - fwd'.saved >= CheckpointEvery
                        THEN "checkpoint" ELSE "recv"
  <1> DEFINE f == IF mode.preserve /\ ~mode.defer /\ e.kind = "text"
                  THEN [fwd EXCEPT !.text = fwd.text + 1, !.dirty = TRUE] ELSE fwd
             pc == IF mode.preserve /\ f.dirty /\ CheckpointDue(f) THEN "checkpoint" ELSE "recv"
  <1>1. fwd \in Forwarders /\ fwd.text \in Nat /\ fwd.text + 1 \in Nat
    BY Fields DEF Typed
  <1>2. fwd' = [f EXCEPT !.pc = pc]
    BY DEF FwdEvent
  <1>3. /\ f \in Forwarders /\ f.saved = fwd.saved /\ f.result = fwd.result
        /\ f.text = IF Saves /\ e.kind = "text" THEN fwd.text + 1 ELSE fwd.text
        /\ f.dirty = IF Saves /\ e.kind = "text" THEN TRUE ELSE fwd.dirty
    <2>1. CASE Saves /\ e.kind = "text"
      <3>1. PICK n \in Nat : n = fwd.text + 1
        BY <1>1
      <3>2. f = [fwd EXCEPT !.text = n, !.dirty = TRUE]
        BY <2>1, <3>1 DEF Saves
      <3> QED
        BY <1>1, <2>1, <3>1, <3>2 DEF Forwarders
    <2>2. CASE ~(Saves /\ e.kind = "text")
      <3>1. f = fwd
        BY <2>2 DEF Saves
      <3> QED
        BY <1>1, <2>2, <3>1
    <2> QED
      BY <2>1, <2>2
  <1>4. pc \in {"checkpoint", "recv"}
    OBVIOUS
  <1>5. pc = IF mode.preserve /\ f.dirty /\ f.text - f.saved >= CheckpointEvery
             THEN "checkpoint" ELSE "recv"
    BY DEF CheckpointDue
  <1> HIDE DEF f, pc
  <1>6. /\ fwd' \in Forwarders /\ fwd'.text = f.text /\ fwd'.dirty = f.dirty
        /\ fwd'.saved = f.saved /\ fwd'.result = f.result /\ fwd'.pc = pc
    BY <1>2, <1>3, <1>4 DEF Forwarders
  <1> QED
    BY <1>3, <1>5, <1>6

\* The bus, the delivery state and the channel after the forwarder took an
\* event.
LEMMA FwdEventPublishes ==
    ASSUME IndInv, FwdEvent, NEW e \in Events, e = Head(channel.events)
    PROVE  /\ BusOK' /\ ViewsOK' /\ live' \in Lives /\ bus' \in Seq(Events)
           /\ live'.phase = live.phase
           /\ live'.watermark = IF Forwarded(e) THEN e.seq ELSE live.watermark
           /\ live'.text = IF e.kind = "text" /\ ~mode.defer THEN Append(live.text, e.piece)
                                                             ELSE live.text
           /\ live'.reasoning = IF e.kind = "reasoning" THEN Append(live.reasoning, e.piece)
                                                        ELSE live.reasoning
           /\ \A i \in DOMAIN bus' : bus'[i].kind # "committed" /\ bus'[i].kind \notin Terminal
  <1>0. fwd.pc = "recv" /\ channel.events # <<>> /\ UNCHANGED <<mode, task, view>>
        /\ IF Forwarded(e) THEN Publish(e) ELSE UNCHANGED <<bus, live>>
    BY DEF FwdEvent
  <1>1. Typed /\ BusOK /\ ViewsOK /\ Alive
    BY <1>0, BeforeADeath DEF IndInv
  <1>2. task.pc \in Running /\ channel.receiver /\ registered /\ live.phase = "running"
    <2>1. task.pc \in Running /\ channel.receiver
      BY <1>0, <1>1 DEF Alive, ForwarderOK
    <2> QED
      BY <1>1, <2>1 DEF Alive, TaskOK, Running
  <1>3. /\ channel.events \in Seq(Events) /\ live.watermark \in Nat /\ task.seq \in Nat
        /\ task.text \in Nat /\ task.reasoning \in Nat /\ task.text + task.reasoning <= MaxOutput
        /\ Len(live.text) \in Nat /\ Len(live.reasoning) \in Nat /\ e.seq \in Nat
        /\ live \in Lives /\ bus \in Seq(Events)
    BY <1>1, Fields DEF Typed, Events
  <1>4. 1 \in DOMAIN channel.events /\ e = channel.events[1]
    BY <1>0, <1>3
  <1>5. e.kind \in Sent /\ live.watermark < e.seq /\ e.seq <= task.seq
    BY <1>1, <1>4 DEF Alive, ChannelOK
  <1>6. e.kind \notin Terminal /\ e.kind # "committed"
    BY <1>5 DEF Sent, Terminal
  <1>7. \A i \in DOMAIN bus : bus[i].kind # "committed" /\ bus[i].kind \notin Terminal
    BY <1>1, <1>2, NothingAnnounced DEF Running
  <1>8. CASE Forwarded(e)
    <2>1. PublishUpdate(e)
      BY <1>0, <1>2, <1>3, <1>5, <1>8 DEF Publish, Publishable
    <2>2. ASSUME e.kind = "text"
          PROVE  ~mode.defer /\ Len(live.text) < MaxPrefix /\ e.piece \in Pieces
      <3>1. ~mode.defer
        BY <1>8, <2>2 DEF Forwarded
      <3>2. Len(live.text) <= task.text /\ Deltas(channel.events, "text", Len(live.text), task.text)
        BY <1>1, <1>2, <3>1 DEF Alive, DeltasOK
      <3>3. Len(live.text) + 1 <= task.text /\ e.piece = <<"raw", Len(live.text) + 1>>
        BY <1>0, <1>3, <2>2, <3>2, DeltasTail
      <3>4. Len(live.text) + 1 \in 0 .. MaxOutput /\ Len(live.text) < MaxPrefix
        <4>1. PICK n \in Nat, x \in Nat, y \in Nat :
                n = Len(live.text) /\ x = task.text /\ y = task.reasoning
          BY <1>3
        <4>2. n + 1 <= x /\ x + y <= MaxOutput
          BY <1>3, <3>3, <4>1
        <4>3. n + 1 \in 0 .. MaxOutput /\ n < MaxPrefix
          BY <4>2, Bounds
        <4> QED
          BY <4>1, <4>3
      <3>5. PICK k \in 0 .. MaxOutput : k = Len(live.text) + 1
        BY <3>4
      <3>6. <<"raw", k>> \in Pieces
        BY DEF Pieces
      <3> QED
        BY <3>1, <3>3, <3>4, <3>5, <3>6
    <2>3. ASSUME e.kind = "reasoning"
          PROVE  Len(live.reasoning) < MaxPrefix
      <3>1. Len(live.reasoning) <= task.reasoning
            /\ Deltas(channel.events, "reasoning", Len(live.reasoning), task.reasoning)
        BY <1>1, <1>2 DEF Alive, DeltasOK
      <3>2. Len(live.reasoning) + 1 <= task.reasoning
        BY <1>0, <1>3, <2>3, <3>1, DeltasTail
      <3> QED
        BY <1>3, <3>2, Bounds
    <2>4. e.seq > live.watermark /\ task'.seq \in Nat /\ e.seq <= task'.seq
      BY <1>0, <1>3, <1>5
    <2>5. /\ BusOK' /\ ViewsOK' /\ live' \in Lives /\ bus' \in Seq(Events)
          /\ live'.watermark = e.seq
          /\ live'.phase = IF e.kind \in Terminal THEN "terminal" ELSE live.phase
          /\ live'.text = IF e.kind = "text" THEN Append(live.text, e.piece) ELSE live.text
          /\ live'.reasoning = IF e.kind = "reasoning" THEN Append(live.reasoning, e.piece)
                                                       ELSE live.reasoning
          /\ bus' = Append(bus, e)
      BY <1>0, <1>1, <2>1, <2>2, <2>3, <2>4, PublishKeeps
    <2>6. \A i \in DOMAIN bus' : bus'[i] = e \/ (i \in DOMAIN bus /\ bus'[i] = bus[i])
      BY <1>3, <2>5
    <2>7. \A i \in DOMAIN bus' : bus'[i].kind # "committed" /\ bus'[i].kind \notin Terminal
      BY <1>6, <1>7, <2>6
    <2> QED
      BY <1>6, <1>8, <2>2, <2>5, <2>7
  <1>9. CASE ~Forwarded(e)
    <2>1. bus' = bus /\ live' = live /\ mode.defer /\ e.kind = "text"
      BY <1>0, <1>9 DEF Forwarded
    <2>2. live.watermark <= task'.seq
      BY <1>0, <1>1 DEF BusOK
    <2>3. BusOK' /\ ViewsOK'
      BY <1>0, <1>1, <2>1, <2>2, BusStays, ViewsStay
    <2> QED
      BY <1>3, <1>7, <1>9, <2>1, <2>3
  <1> QED
    BY <1>8, <1>9

\* The forwarder takes an event: it is shown or withheld, and a checkpoint
\* may be due.
LEMMA FwdEventKeeps ==
    ASSUME IndInv, FwdEvent
    PROVE  IndInv'
  <1>0. fwd.pc = "recv" /\ channel.events # <<>>
        /\ channel' = [channel EXCEPT !.events = Tail(channel.events)]
        /\ UNCHANGED <<mode, disk, up, cancel, provider, task, registered, view, faults, crashes>>
    BY DEF FwdEvent
  <1>1. Typed /\ DiskOK /\ BusOK /\ Alive
    BY <1>0, BeforeADeath DEF IndInv
  <1>2. task.pc \in Running /\ channel.receiver
    BY <1>0, <1>1 DEF Alive, ForwarderOK
  <1>3. /\ channel \in Channels /\ channel.events \in Seq(Events)
        /\ task.text \in Nat /\ task.reasoning \in Nat
        /\ Len(live.text) \in Nat /\ Len(live.reasoning) \in Nat
        /\ live.text \in Seq(AnyPieces) /\ live.reasoning \in Seq(AnyPieces)
        /\ fwd.text \in Nat /\ fwd.saved \in Nat /\ Len(channel.events) <= ChannelSize
    BY <1>1, Fields DEF Typed
  <1>4. PICK e \in Events : e = Head(channel.events)
    BY <1>0, <1>3
  <1>5. /\ BusOK' /\ ViewsOK' /\ live' \in Lives /\ bus' \in Seq(Events)
        /\ live'.phase = live.phase
        /\ live'.watermark = IF Forwarded(e) THEN e.seq ELSE live.watermark
        /\ live'.text = IF e.kind = "text" /\ ~mode.defer THEN Append(live.text, e.piece)
                                                          ELSE live.text
        /\ live'.reasoning = IF e.kind = "reasoning" THEN Append(live.reasoning, e.piece)
                                                     ELSE live.reasoning
        /\ \A i \in DOMAIN bus' : bus'[i].kind # "committed" /\ bus'[i].kind \notin Terminal
    BY <1>4, FwdEventPublishes
  <1>6. /\ fwd' \in Forwarders
        /\ fwd'.text = IF Saves /\ e.kind = "text" THEN fwd.text + 1 ELSE fwd.text
        /\ fwd'.dirty = IF Saves /\ e.kind = "text" THEN TRUE ELSE fwd.dirty
        /\ fwd'.saved = fwd.saved /\ fwd'.result = fwd.result
        /\ fwd'.pc = IF mode.preserve /\ fwd'.dirty /\ fwd'.text - fwd'.saved >= CheckpointEvery
                     THEN "checkpoint" ELSE "recv"
    BY <1>1, <1>4, FwdEventFacts
  <1> DEFINE E == channel.events
             F == Tail(E)
  <1>7. /\ F \in Seq(Events) /\ Len(E) \in Nat /\ Len(F) = Len(E) - 1
        /\ DOMAIN E = 1 .. Len(E) /\ DOMAIN F = 1 .. Len(E) - 1 /\ Len(F) <= ChannelSize
        /\ \A i \in DOMAIN F : F[i] = E[i + 1] /\ i + 1 \in DOMAIN E
        /\ e = E[1] /\ 1 \in DOMAIN E
    <2>1. E \in Seq(Events) /\ E # <<>>
      BY <1>0, <1>3
    <2>2. Len(E) \in Nat /\ DOMAIN E = 1 .. Len(E) /\ 1 \in DOMAIN E /\ Head(E) = E[1]
      BY <2>1
    <2>3. F \in Seq(Events) /\ Len(F) = Len(E) - 1 /\ DOMAIN F = 1 .. Len(E) - 1
          /\ \A i \in DOMAIN F : F[i] = E[i + 1] /\ i + 1 \in DOMAIN E
      BY <2>1
    <2>4. Len(F) <= ChannelSize
      BY <1>3, <2>2, <2>3, Bounds
    <2> QED
      BY <1>4, <2>2, <2>3, <2>4
  <1>8. channel' \in Channels /\ channel'.events = F /\ channel'.receiver = channel.receiver
        /\ channel'.sender = channel.sender
    <2>1. PICK G \in Seq(Events) : G = F
      BY <1>7
    <2>2. channel' = [channel EXCEPT !.events = G]
      BY <1>0, <2>1
    <2> QED
      BY <1>3, <2>1, <2>2 DEF Channels
  <1>9. \A i \in DOMAIN E : /\ E[i].kind \in Sent /\ E[i].seq \in Nat
                            /\ live.watermark < E[i].seq /\ E[i].seq <= task.seq
    <2>1. \A i \in DOMAIN E : E[i] \in Events
      BY <1>3
    <2> QED
      BY <1>1, <2>1 DEF Alive, ChannelOK, Events
  <1>10. \A i, j \in DOMAIN E : i < j => E[i].seq < E[j].seq
    BY <1>1 DEF Alive, ChannelOK
  <1> HIDE DEF F
  <1>11. ChannelOK'
    <2>1. ASSUME NEW i \in DOMAIN F
          PROVE  F[i].kind \in Sent /\ live'.watermark < F[i].seq /\ F[i].seq <= task.seq
      <3>1. F[i] = E[i + 1] /\ i + 1 \in DOMAIN E /\ 1 < i + 1
        BY <1>7
      <3>2. e.seq < E[i + 1].seq
        BY <1>7, <1>10, <3>1
      <3> QED
        BY <1>5, <1>9, <3>1, <3>2
    <2>2. ASSUME NEW i \in DOMAIN F, NEW j \in DOMAIN F, i < j
          PROVE  F[i].seq < F[j].seq
      <3>1. F[i] = E[i + 1] /\ i + 1 \in DOMAIN E /\ F[j] = E[j + 1] /\ j + 1 \in DOMAIN E /\ i + 1 < j + 1
        BY <1>7, <2>2
      <3> QED
        BY <1>10, <3>1
    <2> QED
      BY <1>0, <1>2, <1>8, <2>1, <2>2 DEF ChannelOK
  <1>12. DeltasOK'
    <2>0. DeltasOK
      BY <1>1 DEF Alive
    <2>1. Len(live'.reasoning) <= task.reasoning
          /\ Deltas(F, "reasoning", Len(live'.reasoning), task.reasoning)
      <3>1. Len(live.reasoning) <= task.reasoning
            /\ Deltas(E, "reasoning", Len(live.reasoning), task.reasoning)
        BY <1>2, <2>0 DEF DeltasOK
      <3>2. /\ e.kind = "reasoning" => /\ Len(live.reasoning) + 1 <= task.reasoning
                                       /\ Deltas(F, "reasoning", Len(live.reasoning) + 1, task.reasoning)
            /\ e.kind # "reasoning" => Deltas(F, "reasoning", Len(live.reasoning), task.reasoning)
        BY <1>0, <1>3, <1>4, <3>1, DeltasTail DEF F
      <3>3. Len(Append(live.reasoning, e.piece)) = Len(live.reasoning) + 1
        BY <1>3
      <3> QED
        BY <1>5, <3>1, <3>2, <3>3
    <2>2. ASSUME ~mode.defer
          PROVE  /\ Len(live'.text) <= task.text
                 /\ \A k \in DOMAIN live'.text : live'.text[k] = <<"raw", k>>
                 /\ Deltas(F, "text", Len(live'.text), task.text)
      <3>1. /\ Len(live.text) <= task.text
            /\ \A k \in DOMAIN live.text : live.text[k] = <<"raw", k>>
            /\ Deltas(E, "text", Len(live.text), task.text)
        BY <1>2, <2>0, <2>2 DEF DeltasOK
      <3>2. /\ e.kind = "text" => /\ Len(live.text) + 1 <= task.text
                                  /\ e.piece = <<"raw", Len(live.text) + 1>>
                                  /\ Deltas(F, "text", Len(live.text) + 1, task.text)
            /\ e.kind # "text" => Deltas(F, "text", Len(live.text), task.text)
        BY <1>0, <1>3, <1>4, <3>1, DeltasTail DEF F
      <3>3. CASE e.kind = "text"
        <4>1. live'.text = Append(live.text, e.piece)
          BY <1>5, <2>2, <3>3
        <4>2. Len(live'.text) = Len(live.text) + 1 /\ DOMAIN live'.text = 1 .. Len(live.text) + 1
              /\ DOMAIN live.text = 1 .. Len(live.text)
              /\ live'.text[Len(live.text) + 1] = e.piece
              /\ \A k \in 1 .. Len(live.text) : live'.text[k] = live.text[k]
          BY <1>3, <4>1
        <4>3. \A k \in DOMAIN live'.text : k \in 1 .. Len(live.text) \/ k = Len(live.text) + 1
          BY <1>3, <4>2
        <4> QED
          BY <3>1, <3>2, <3>3, <4>2, <4>3
      <3>4. CASE e.kind # "text"
        BY <1>5, <3>1, <3>2, <3>4
      <3> QED
        BY <3>3, <3>4
    <2>3. mode.defer => live'.text = <<>>
      BY <1>2, <1>5, <2>0 DEF DeltasOK
    <2> QED
      BY <1>0, <1>8, <2>1, <2>2, <2>3 DEF DeltasOK
  <1>13. ForwarderOK'
    <2>0. ForwarderOK
      BY <1>1 DEF Alive
    <2>1. fwd.result # "ok" /\ fwd'.pc \in {"recv", "checkpoint"}
      BY <1>0, <1>6, <2>0 DEF ForwarderOK
    <2>2. ASSUME ~Saves PROVE /\ ~fwd'.dirty /\ fwd'.pc \in {"recv", "done"}
                              /\ disk.gen = "running" => disk.content = NoText
      <3>1. ~fwd.dirty /\ (disk.gen = "running" => disk.content = NoText)
        BY <2>0, <2>2 DEF ForwarderOK
      <3>2. ~fwd'.dirty
        BY <1>6, <2>2, <3>1
      <3> QED
        BY <1>6, <3>1, <3>2
    <2>3. ASSUME Saves
          PROVE /\ fwd'.text = Len(live'.text)
                /\ fwd'.saved <= fwd'.text
                /\ fwd'.dirty <=> fwd'.saved < fwd'.text
                /\ disk.content = <<"raw", fwd'.saved>>
                /\ fwd'.pc = "recv" => fwd'.text - fwd'.saved < CheckpointEvery
                /\ disk.gen = "running" => disk.content[1] = "raw" /\ disk.content[2] <= fwd'.text
      <3>1. /\ fwd.text = Len(live.text) /\ fwd.saved <= fwd.text
            /\ fwd.dirty <=> fwd.saved < fwd.text
            /\ disk.content = <<"raw", fwd.saved>>
        BY <1>0, <2>0, <2>3 DEF ForwarderOK
      <3>2. mode.preserve /\ ~mode.defer
        BY <2>3 DEF Saves
      <3>3. Len(Append(live.text, e.piece)) = Len(live.text) + 1
        BY <1>3
      <3>4. fwd'.text = Len(live'.text) /\ fwd'.saved <= fwd'.text /\ fwd'.text \in Nat
            /\ fwd'.saved \in Nat
        BY <1>3, <1>5, <1>6, <2>3, <3>1, <3>2, <3>3
      <3>5. fwd'.dirty <=> fwd'.saved < fwd'.text
        <4>1. CASE e.kind = "text"
          BY <1>3, <1>6, <2>3, <3>1, <4>1
        <4>2. CASE e.kind # "text"
          BY <1>6, <3>1, <4>2
        <4> QED
          BY <4>1, <4>2
      <3>6. fwd'.pc = "recv" => fwd'.text - fwd'.saved < CheckpointEvery
        <4>1. SUFFICES ASSUME fwd'.pc = "recv" PROVE fwd'.text - fwd'.saved < CheckpointEvery
          OBVIOUS
        <4>2. CASE fwd'.dirty
          <5>1. ~(fwd'.text - fwd'.saved >= CheckpointEvery)
            BY <1>6, <3>2, <4>1, <4>2
          <5> QED
            BY <3>4, <5>1, Bounds
        <4>3. CASE ~fwd'.dirty
          BY <3>4, <3>5, <4>3, Bounds
        <4> QED
          BY <4>2, <4>3
      <3>7. disk.content = <<"raw", fwd'.saved>>
        BY <1>6, <3>1
      <3>8. disk.content[1] = "raw" /\ disk.content[2] <= fwd'.text
        BY <3>4, <3>7
      <3> QED
        BY <3>4, <3>5, <3>6, <3>7, <3>8
    <2>4. fwd'.pc # "done" /\ fwd'.pc # "last_checkpoint" /\ fwd'.result # "ok"
      BY <1>6, <2>1
    <2>5. (Saves <=> Saves') /\ disk' = disk /\ task' = task /\ channel'.receiver
      BY <1>0, <1>2, <1>8 DEF Saves
    <2> QED
      BY <1>2, <2>2, <2>3, <2>4, <2>5 DEF ForwarderOK
  <1>14. Typed'
    BY <1>0, <1>1, <1>5, <1>6, <1>7, <1>8 DEF Typed
  <1>15. DiskOK'
    BY <1>0, <1>1 DEF DiskOK, ClosedTogether
  <1>16. task.pc # "start"
    BY <1>0, <1>1 DEF Alive, TaskOK
  <1> QED
    BY <1>0, <1>5, <1>8, <1>11, <1>12, <1>13, <1>14, <1>15, <1>16, ForwardKeeps

\* The other steps of the forwarder: the bus and the delivery state stay as
\* they are.
LEMMA FwdRestKeeps ==
    ASSUME IndInv, fwd.pc # "done",
           UNCHANGED <<mode, up, cancel, provider, task, registered, view, crashes, live, bus>>,
           fwd' \in Forwarders, faults' \in Nat, disk' \in Disks, disk'.gen = disk.gen, DiskOK',
           channel' \in Channels, channel'.sender = channel.sender,
           (channel'.events = channel.events /\ channel'.receiver = channel.receiver)
             \/ (channel'.events = <<>> /\ ~channel'.receiver),
           ForwarderOK'
    PROVE  IndInv'
  <1>1. Typed /\ BusOK /\ ViewsOK /\ Alive
    BY BeforeADeath DEF IndInv
  <1>2. Len(channel'.events) <= ChannelSize
    <2>1. Len(channel.events) <= ChannelSize /\ Len(<<>>) = 0
      BY <1>1 DEF Typed
    <2> QED
      BY <2>1, Bounds
  <1>3. Typed'
    BY <1>1, <1>2 DEF Typed
  <1>4. BusOK' /\ ViewsOK'
    <2>1. live.watermark <= task'.seq
      BY <1>1 DEF BusOK
    <2> QED
      BY <1>1, <2>1, BusStays, ViewsStay
  <1>5. ChannelOK'
    BY <1>1 DEF Alive, ChannelOK
  <1>6. DeltasOK'
    BY <1>1 DEF Alive, DeltasOK
  <1>7. task.pc = "start" => live'.watermark = live.watermark /\ channel'.events = <<>>
    BY <1>1 DEF Alive, TaskOK
  <1>8. \A i \in DOMAIN bus' : bus'[i].kind # "committed" /\ bus'[i].kind \notin Terminal
    <2>1. task.pc \in Running
      BY <1>1 DEF Alive, ForwarderOK
    <2> QED
      BY <1>1, <2>1, NothingAnnounced DEF Running
  <1> QED
    BY <1>3, <1>4, <1>5, <1>6, <1>7, <1>8, ForwardKeeps

\* The interval ticks, or the channel closes.
LEMMA FwdTickKeeps ==
    ASSUME IndInv, FwdTick \/ FwdClosed
    PROVE  IndInv'
  <1>0. fwd.pc = "recv"
        /\ UNCHANGED <<mode, disk, up, cancel, provider, task, channel, live, registered, bus, view,
                       faults, crashes>>
    BY DEF FwdTick, FwdClosed
  <1>1. Typed /\ DiskOK /\ Alive /\ ForwarderOK
    BY <1>0, BeforeADeath DEF IndInv, Alive
  <1>2. fwd \in Forwarders /\ fwd.text \in Nat /\ fwd.saved \in Nat /\ fwd.dirty \in BOOLEAN
        /\ channel \in Channels
    BY <1>1, Fields DEF Typed
  <1>3. channel.receiver /\ task.pc \in Running /\ fwd.result # "ok"
    BY <1>0, <1>1 DEF ForwarderOK
  <1>4. ASSUME ~Saves PROVE ~fwd.dirty /\ (disk.gen = "running" => disk.content = NoText)
    BY <1>1, <1>4 DEF ForwarderOK
  <1>5. fwd.dirty /\ mode.preserve => Saves
    BY <1>4
  <1>6. fwd' \in Forwarders /\ ForwarderOK'
    <2>1. ASSUME NEW pc \in {"checkpoint", "last_checkpoint"}, fwd' = [fwd EXCEPT !.pc = pc], Saves,
                 pc = "last_checkpoint" => channel.events = <<>> /\ ~channel.sender
          PROVE  fwd' \in Forwarders /\ ForwarderOK'
      <3>1. fwd' \in Forwarders /\ fwd'.pc = pc /\ fwd'.text = fwd.text /\ fwd'.saved = fwd.saved
            /\ fwd'.dirty = fwd.dirty /\ fwd'.result = fwd.result
        BY <1>2, <2>1 DEF Forwarders
      <3>2. Saves'
        BY <1>0, <2>1 DEF Saves
      <3> QED
        BY <1>0, <1>1, <1>3, <2>1, <3>1, <3>2 DEF ForwarderOK
    <2>2. ASSUME fwd' = [fwd EXCEPT !.pc = "done", !.result = "ok"], channel.events = <<>>,
                 ~channel.sender
          PROVE  fwd' \in Forwarders /\ ForwarderOK'
      <3>1. fwd' \in Forwarders /\ fwd'.pc = "done" /\ fwd'.text = fwd.text /\ fwd'.saved = fwd.saved
            /\ fwd'.dirty = fwd.dirty /\ fwd'.result = "ok"
        BY <1>2, <2>2 DEF Forwarders
      <3>2. Saves' <=> Saves
        BY <1>0 DEF Saves
      <3> QED
        BY <1>0, <1>1, <1>3, <1>4, <2>2, <3>1, <3>2 DEF ForwarderOK
    <2>3. CASE FwdTick
      BY <1>5, <2>1, <2>3 DEF FwdTick
    <2>4. CASE FwdClosed
      BY <1>5, <2>1, <2>2, <2>4 DEF FwdClosed
    <2> QED
      BY <2>3, <2>4
  <1>7. DiskOK'
    BY <1>0, <1>1 DEF DiskOK, ClosedTogether
  <1>8. faults \in Nat /\ disk \in Disks
    BY <1>1 DEF Typed
  <1> QED
    BY <1>0, <1>2, <1>6, <1>7, <1>8, FwdRestKeeps

\* What was shown is saved.
LEMMA FwdCheckpointKeeps ==
    ASSUME IndInv, FwdCheckpoint
    PROVE  IndInv'
  <1>0. fwd.pc \in {"checkpoint", "last_checkpoint"} /\ disk.msg = "pending"
        /\ disk' = [disk EXCEPT !.content = <<"raw", fwd.text>>]
        /\ UNCHANGED <<mode, up, cancel, provider, task, channel, live, registered, bus, view,
                       faults, crashes>>
    BY DEF FwdCheckpoint
  <1>1. Typed /\ DiskOK /\ Alive /\ ForwarderOK
    BY <1>0, BeforeADeath DEF IndInv, Alive
  <1>2. fwd \in Forwarders /\ fwd.text \in Nat /\ fwd.saved \in Nat /\ channel \in Channels
        /\ disk \in Disks /\ task.text \in Nat /\ task.reasoning \in Nat
        /\ task.text + task.reasoning <= MaxOutput
    BY <1>1, Fields DEF Typed
  <1>3. channel.receiver /\ task.pc \in Running /\ fwd.result # "ok" /\ Saves
    BY <1>0, <1>1 DEF ForwarderOK
  <1>4. fwd.text <= task.text
    <2>1. fwd.text = Len(live.text)
      BY <1>1, <1>3 DEF ForwarderOK
    <2> QED
      BY <1>1, <1>3, <2>1 DEF Alive, DeltasOK, Saves
  <1>5. PICK c \in Pieces : c = <<"raw", fwd.text>>
    <2>1. fwd.text \in 0 .. MaxOutput
      BY <1>2, <1>4, Bounds
    <2> QED
      BY <2>1 DEF Pieces
  <1>6. /\ disk' \in Disks /\ disk'.gen = disk.gen /\ disk'.msg = disk.msg
        /\ disk'.attempt = disk.attempt /\ disk'.occurred = disk.occurred /\ disk'.content = c
    <2>1. disk' = [disk EXCEPT !.content = c]
      BY <1>0, <1>5
    <2> QED
      BY <1>2, <2>1 DEF Disks
  <1>7. DiskOK'
    BY <1>0, <1>1, <1>3, <1>6 DEF DiskOK, ClosedTogether, Saves, Occurrences
  <1>8. fwd' \in Forwarders /\ ForwarderOK'
    <2>1. CASE fwd.pc = "checkpoint"
      <3>1. PICK n \in Nat : n = fwd.text
        BY <1>2
      <3>2. fwd' = [fwd EXCEPT !.pc = "recv", !.saved = n, !.dirty = FALSE]
        BY <2>1, <3>1 DEF FwdCheckpoint
      <3>3. fwd' \in Forwarders /\ fwd'.pc = "recv" /\ fwd'.saved = n /\ fwd'.text = n
            /\ ~fwd'.dirty /\ fwd'.result = fwd.result
        BY <1>2, <3>1, <3>2 DEF Forwarders
      <3>4. Saves' /\ fwd.text = Len(live.text)
        BY <1>0, <1>1, <1>3 DEF Saves, ForwarderOK
      <3>5. n - n < CheckpointEvery /\ ~(n < n) /\ n <= n
        BY Bounds
      <3>6. c[1] = "raw" /\ c[2] = n
        BY <1>5, <3>1
      <3> QED
        BY <1>0, <1>3, <1>5, <1>6, <3>1, <3>3, <3>4, <3>5, <3>6 DEF ForwarderOK
    <2>2. CASE fwd.pc = "last_checkpoint"
      <3>1. fwd' = [fwd EXCEPT !.pc = "done", !.result = "ok"]
        BY <2>2 DEF FwdCheckpoint
      <3>2. fwd' \in Forwarders /\ fwd'.pc = "done" /\ fwd'.saved = fwd.saved /\ fwd'.text = fwd.text
            /\ fwd'.result = "ok"
        BY <1>2, <3>1 DEF Forwarders
      <3>3. Saves' /\ fwd.text = Len(live.text) /\ fwd.saved <= fwd.text
            /\ channel.events = <<>> /\ ~channel.sender
        BY <1>0, <1>1, <1>3, <2>2 DEF Saves, ForwarderOK
      <3>4. c[1] = "raw" /\ c[2] <= fwd.text
        BY <1>2, <1>5
      <3> QED
        BY <1>0, <1>3, <1>6, <3>2, <3>3, <3>4 DEF ForwarderOK
    <2> QED
      BY <1>0, <2>1, <2>2
  <1>9. faults' \in Nat
    BY <1>0, <1>1 DEF Typed
  <1> QED
    BY <1>0, <1>2, <1>6, <1>7, <1>8, <1>9, FwdRestKeeps

\* A checkpoint that fails closes the channel.
LEMMA FwdCheckpointFailsKeeps ==
    ASSUME IndInv, FwdCheckpointFails
    PROVE  IndInv'
  <1>0. fwd.pc \in {"checkpoint", "last_checkpoint"} /\ faults' = faults + 1
        /\ fwd' = [fwd EXCEPT !.pc = "done", !.result = "error"]
        /\ channel' = [channel EXCEPT !.receiver = FALSE, !.events = <<>>]
        /\ UNCHANGED <<mode, disk, up, cancel, provider, task, live, registered, bus, view, crashes>>
    BY DEF FwdCheckpointFails
  <1>1. Typed /\ DiskOK /\ Alive /\ ForwarderOK
    BY <1>0, BeforeADeath DEF IndInv, Alive
  <1>2. fwd \in Forwarders /\ channel \in Channels /\ disk \in Disks /\ faults \in Nat
    BY <1>1 DEF Typed
  <1>3. Saves
    BY <1>0, <1>1 DEF ForwarderOK
  <1>4. <<>> \in Seq(Events)
    OBVIOUS
  <1>5. channel' \in Channels /\ channel'.events = <<>> /\ ~channel'.receiver
        /\ channel'.sender = channel.sender
    BY <1>0, <1>2, <1>4 DEF Channels
  <1>6. fwd' \in Forwarders /\ fwd'.pc = "done" /\ fwd'.result = "error" /\ fwd'.text = fwd.text
        /\ fwd'.saved = fwd.saved
    BY <1>0, <1>2 DEF Forwarders
  <1>7. ForwarderOK'
    <2>1. Saves'
      BY <1>0, <1>3 DEF Saves
    <2> QED
      BY <1>0, <1>1, <1>3, <1>5, <1>6, <2>1 DEF ForwarderOK
  <1>8. DiskOK'
    BY <1>0, <1>1 DEF DiskOK, ClosedTogether
  <1>9. faults' \in Nat
    BY <1>0, <1>2
  <1> QED
    BY <1>0, <1>2, <1>5, <1>6, <1>7, <1>8, <1>9, FwdRestKeeps

-----------------------------------------------------------------------------
(* The terminal transaction *)

\* Steps between the return of the loop and the first announcement: the task
\* keeps its counts, and only the rows and the task change.
LEMMA RowsKeep ==
    ASSUME IndInv, task.pc \in {"returned", "finalize", "compensate", "reread"}, fwd.pc = "done",
           FinishUnchanged, UNCHANGED <<live, registered, bus>>,
           task' \in Tasks, task'.seq = task.seq, task'.text = task.text,
           task'.reasoning = task.reasoning, task'.pc \in Finishing, task'.result \in Statuses,
           faults' \in Nat, disk' \in Disks, DiskOK',
           disk'.gen = "running" => disk' = disk,
           task'.pc = "finalize" => disk'.gen = "running",
           (task'.pc \in {"finalize", "compensate", "reread"} /\ task'.result = "complete") => task'.keep,
           (task'.result = "complete" /\ ~mode.defer) => task.text = Len(live.text),
           task'.pc = "compensate" => faults' > 0 /\ (disk'.gen = "running" \/ disk' = Finalized'),
           task'.pc = "reread" =>
             faults' > 0 /\ (disk'.gen = "running" \/ disk' = Finalized' \/ disk' = Compensated'),
           (task'.pc \in {"reread", "terminal"} /\ disk'.gen = "running") => faults' > 1,
           task'.pc \in {"display", "committed"} =>
             /\ disk'.gen = task'.result /\ disk'.msg = task'.result
             /\ disk'.content = Canonical(task.text),
           task'.pc = "display" =>
             mode.defer /\ (task'.result = "complete" =>
                              disk'.projection /\ (task'.shows = "display" \/ faults' > 1)),
           (task'.pc \in {"committed", "terminal"} /\ task'.result = "complete") => Shown',
           (task'.pc = "terminal" /\ task'.result # "failed") => disk'.gen = task'.result
    PROVE  IndInv'
  <1>0. Typed /\ BusOK /\ ViewsOK /\ Alive /\ crashes = 0
    BY BeforeADeath DEF IndInv
  <1>1. mode' = mode /\ up' = up /\ cancel' = cancel /\ provider' = provider /\ channel' = channel
        /\ fwd' = fwd /\ view' = view /\ crashes' = crashes
    BY DEF FinishUnchanged
  <1>2. Typed'
    BY <1>0, <1>1 DEF Typed
  <1>3. BusOK' /\ ViewsOK'
    <2>1. live.watermark <= task'.seq
      BY <1>0 DEF BusOK
    <2> QED
      BY <1>0, <1>1, <2>1, BusStays, ViewsStay
  <1>4. ChannelOK'
    BY <1>0, <1>1 DEF Alive, ChannelOK
  <1>5. DeltasOK'
    <2>1. task.pc \in Running \cup {"finalize", "compensate", "reread", "display"}
      BY DEF Running
    <2> QED
      BY <1>0, <1>1, <2>1 DEF Alive, DeltasOK
  <1>6. ForwarderOK'
    <2>1. Saves' <=> Saves
      BY <1>1 DEF Saves
    <2>2. disk'.gen = "running" => disk'.content = disk.content /\ disk.gen = "running"
      OBVIOUS
    <2> QED
      BY <1>0, <1>1, <2>1, <2>2 DEF Alive, ForwarderOK
  <1>7. TaskOK'
    <2>1. TaskOK
      BY <1>0 DEF Alive
    <2>2. registered /\ live.phase = "running" /\ ~channel.sender /\ provider.st # "dropped"
      BY <2>1 DEF TaskOK
    <2>3. task'.pc \notin {"start", "collect", "drain", "returned", "dropping", "gone"}
          /\ task'.pc \notin Running
      BY DEF Finishing, Running
    <2> QED
      BY <1>1, <2>2, <2>3 DEF TaskOK
  <1>8. AnnouncementsOK'
    <2>1. \A i \in DOMAIN bus : bus[i].kind # "committed" /\ bus[i].kind \notin Terminal
      BY <1>0, NothingAnnounced
    <2>2. \A i \in DOMAIN bus : bus[i].kind # "finished" /\ bus[i].kind # "cancelled"
      BY <2>1 DEF Terminal
    <2>3. task'.pc \in {"display", "committed"} =>
            /\ disk'.gen = task'.result /\ disk'.msg = task'.result
            /\ disk'.content = Canonical(task.text)'
      BY <1>1 DEF Canonical
    <2>4. \A i \in DOMAIN bus' : bus'[i].kind \notin {"committed", "finished", "cancelled"}
                                /\ bus'[i].kind \notin Terminal
      BY <2>1, <2>2
    <2>5. task'.pc = "display" =>
             mode'.defer /\ (task'.result = "complete" =>
                              disk'.projection /\ (task'.shows = "display" \/ faults' > 1))
      BY <1>1
    <2> QED
      BY <2>3, <2>4, <2>5 DEF AnnouncementsOK
  <1> QED
    BY <1>0, <1>1, <1>2, <1>3, <1>4, <1>5, <1>6, <1>7, <1>8 DEF IndInv, Alive

\* What a terminal transaction makes of the rows.
LEMMA ClosedRows ==
    ASSUME Typed, task.result \in Statuses
    PROVE  /\ Canonical(task.text) \in Pieces
           /\ mode.defer => Canonical(task.text)[1] # "raw"
           /\ Canonical(task.text)[2] = task.text
           /\ \A d \in {Finalized, Compensated} :
                /\ d \in Disks
                /\ d.gen # "running" /\ d.msg # "pending" /\ d.attempt # "running"
                /\ d.occurred = Occurrences(d.msg # "deleted")
                /\ mode.defer => d.content = NoText \/ d.content[1] # "raw"
                /\ task.keep => d.msg = d.gen /\ d.content = Canonical(task.text)
           /\ Finalized.gen = task.result
           /\ Finalized.projection <=> task.keep /\ mode.defer
           /\ Compensated.gen = "failed"
  <1>1. task.text \in Nat /\ task.reasoning \in Nat /\ task.text + task.reasoning <= MaxOutput
        /\ task.keep \in BOOLEAN /\ mode.defer \in BOOLEAN
    BY Fields DEF Typed
  <1>2. PICK n \in 0 .. MaxOutput : n = task.text
    BY <1>1, Bounds
  <1>3. /\ Canonical(task.text) \in Pieces
        /\ mode.defer => Canonical(task.text)[1] # "raw"
        /\ Canonical(task.text)[2] = task.text
    BY <1>2 DEF Canonical, Pieces
  <1>4. PICK c \in Pieces : /\ c = IF task.keep THEN Canonical(task.text) ELSE NoText
                            /\ mode.defer => c = NoText \/ c[1] # "raw"
    <2>1. NoText \in Pieces
      BY Bounds DEF NoText, Pieces
    <2> QED
      BY <1>1, <1>3, <2>1
  <1>5. \A k \in BOOLEAN : Occurrences(k) \in SUBSET {"after_generation", "message_committed"}
    BY DEF Occurrences
  <1>6. /\ Finalized \in Disks
        /\ Finalized.gen = task.result /\ Finalized.msg = (IF task.keep THEN task.result ELSE "deleted")
        /\ Finalized.content = c /\ Finalized.attempt = "completed"
        /\ Finalized.occurred = Occurrences(task.keep)
    <2>1. PICK p \in BOOLEAN : p = (task.keep /\ mode.defer)
      BY <1>1
    <2>2. Finalized = [gen |-> task.result, msg |-> IF task.keep THEN task.result ELSE "deleted",
                       content |-> c, projection |-> p, attempt |-> "completed",
                       occurred |-> Occurrences(task.keep)]
      BY <1>4, <2>1 DEF Finalized, TerminalMessage
    <2> QED
      BY <1>1, <1>5, <2>2 DEF Disks
  <1>7. Finalized.projection <=> task.keep /\ mode.defer
    BY DEF Finalized
  <1>8. /\ Compensated \in Disks
        /\ Compensated.gen = "failed" /\ Compensated.msg = (IF task.keep THEN "failed" ELSE "deleted")
        /\ Compensated.content = c /\ Compensated.attempt = "completed"
        /\ Compensated.occurred = Occurrences(task.keep)
    <2>1. Compensated = [gen |-> "failed", msg |-> IF task.keep THEN "failed" ELSE "deleted",
                         content |-> c, projection |-> FALSE, attempt |-> "completed",
                         occurred |-> Occurrences(task.keep)]
      BY <1>4 DEF Compensated, TerminalMessage
    <2> QED
      BY <1>1, <1>5, <2>1 DEF Disks, Statuses
  <1>9. ASSUME NEW d, d.msg = (IF task.keep THEN d.gen ELSE "deleted"), d.gen \in Statuses,
               d.occurred = Occurrences(task.keep), d.content = c
        PROVE  /\ d.gen # "running" /\ d.msg # "pending"
               /\ d.occurred = Occurrences(d.msg # "deleted")
               /\ mode.defer => d.content = NoText \/ d.content[1] # "raw"
               /\ task.keep => d.msg = d.gen /\ d.content = Canonical(task.text)
    <2>1. d.gen # "running" /\ d.msg # "pending" /\ (d.msg # "deleted" <=> task.keep)
      BY <1>1, <1>9 DEF Statuses
    <2>2. Occurrences(d.msg # "deleted") = Occurrences(task.keep)
      BY <2>1 DEF Occurrences
    <2> QED
      BY <1>4, <1>9, <2>1, <2>2
  <1>10. "failed" \in Statuses
    BY DEF Statuses
  <1>11. /\ Finalized.gen # "running" /\ Finalized.msg # "pending"
         /\ Finalized.occurred = Occurrences(Finalized.msg # "deleted")
         /\ mode.defer => Finalized.content = NoText \/ Finalized.content[1] # "raw"
         /\ task.keep => Finalized.msg = Finalized.gen /\ Finalized.content = Canonical(task.text)
    BY <1>6, <1>9
  <1>12. /\ Compensated.gen # "running" /\ Compensated.msg # "pending"
         /\ Compensated.occurred = Occurrences(Compensated.msg # "deleted")
         /\ mode.defer => Compensated.content = NoText \/ Compensated.content[1] # "raw"
         /\ task.keep => Compensated.msg = Compensated.gen /\ Compensated.content = Canonical(task.text)
    BY <1>8, <1>9, <1>10
  <1> QED
    BY <1>3, <1>6, <1>7, <1>8, <1>11, <1>12

\* Closed rows are rows closed together.
LEMMA ClosedDisk ==
    ASSUME Typed, task.result \in Statuses, mode' = mode,
           disk' = Finalized \/ disk' = Compensated
    PROVE  DiskOK' /\ disk' \in Disks /\ disk'.gen # "running"
  <1>1. /\ disk' \in Disks
        /\ disk'.gen # "running" /\ disk'.msg # "pending" /\ disk'.attempt # "running"
        /\ disk'.occurred = Occurrences(disk'.msg # "deleted")
        /\ mode.defer => disk'.content = NoText \/ disk'.content[1] # "raw"
    BY ClosedRows
  <1> QED
    BY <1>1 DEF DiskOK, ClosedTogether, Occurrences

\* With no transforms the text that was shown is the text that was stored.
LEMMA RawIsShown ==
    ASSUME Typed, Alive, ~mode.defer, task.text = Len(live.text), task.text # 0
    PROVE  Last(live.text) = <<"raw", task.text>>
  <1>1. live.text \in Seq(AnyPieces) /\ task.text \in Nat
    BY Fields
  <1>2. task.text \in DOMAIN live.text
    BY <1>1
  <1>3. live.text[task.text] = <<"raw", task.text>>
    BY <1>2 DEF Alive, DeltasOK
  <1> QED
    BY <1>3 DEF Last

\* The results of the loop and of the forwarder are merged.
LEMMA FinishKeeps ==
    ASSUME IndInv, Finish
    PROVE  IndInv'
  <1>0. task.pc = "returned" /\ fwd.pc = "done" /\ FinishUnchanged
        /\ UNCHANGED <<disk, live, registered, bus, faults>>
    BY DEF Finish
  <1>1. Typed /\ DiskOK /\ Alive
    BY <1>0, BeforeADeath DEF IndInv
  <1>2. task \in Tasks /\ task.text \in Nat /\ task.reasoning \in Nat /\ Len(live.text) \in Nat
        /\ mode.preserve \in BOOLEAN /\ disk \in Disks /\ faults \in Nat
    BY <1>1, Fields DEF Typed
  <1>3. task.result \in Statuses /\ disk.gen = "running"
    BY <1>0, <1>1 DEF Alive, TaskOK, Running
  <1>4. Merged \in Statuses
    BY <1>3 DEF Merged, Statuses
  <1>5. PICK r \in Statuses, k \in BOOLEAN :
          r = Merged /\ (k <=> Merged = "complete" \/ (mode.preserve /\ task.text > 0))
    BY <1>4
  <1>6. task' = [task EXCEPT !.pc = "finalize", !.result = r, !.keep = k]
    BY <1>5 DEF Finish
  <1>7. task' \in Tasks /\ task'.pc = "finalize" /\ task'.result = r /\ task'.keep = k
        /\ task'.text = task.text /\ task'.reasoning = task.reasoning /\ task'.seq = task.seq
    BY <1>2, <1>6 DEF Tasks, Finishing
  <1>8. ASSUME r = "complete", ~mode.defer PROVE task.text = Len(live.text)
    <2>1. fwd.result = "ok"
      BY <1>5, <1>8 DEF Merged
    <2>2. channel.events = <<>> /\ channel.receiver
      BY <1>1, <2>1 DEF Alive, ForwarderOK
    <2>3. Len(live.text) <= task.text /\ Deltas(<<>>, "text", Len(live.text), task.text)
      BY <1>1, <1>8, <2>2 DEF Alive, DeltasOK
    <2> QED
      BY <1>2, <2>3, NoDeltas
  <1>9. DiskOK'
    BY <1>0, <1>1 DEF DiskOK, ClosedTogether, FinishUnchanged
  <1>10. task'.pc \in Finishing
    BY <1>7 DEF Finishing
  <1>11. task'.result = "complete" => task'.keep
    BY <1>5, <1>7
  <1> QED
    BY <1>0, <1>2, <1>3, <1>5, <1>7, <1>8, <1>9, <1>10, <1>11, RowsKeep

\* What is announced next.
LEMMA AnnouncingFacts ==
    ASSUME task \in Tasks, mode \in [preserve : BOOLEAN, defer : BOOLEAN],
           NEW committed \in BOOLEAN, NEW status \in Statuses,
           NEW shows \in {"display", "content"}, Announcing(committed, status, shows)
    PROVE  /\ task' \in Tasks /\ task'.pc \in Finishing
           /\ task'.pc \in {"display", "committed", "terminal"}
           /\ task'.pc = "display" <=> committed /\ mode.defer
           /\ task'.pc = "committed" <=> committed /\ ~mode.defer
           /\ task'.pc = "terminal" <=> ~committed
           /\ task'.result = status /\ task'.shows = shows /\ task'.keep = task.keep
           /\ task'.text = task.text /\ task'.reasoning = task.reasoning /\ task'.seq = task.seq
  <1>1. mode.defer \in BOOLEAN
    OBVIOUS
  <1>2. PICK p \in {"display", "committed", "terminal"} :
          /\ p = IF committed /\ mode.defer THEN "display"
                 ELSE IF committed THEN "committed" ELSE "terminal"
          /\ p = "display" <=> committed /\ mode.defer
          /\ p = "committed" <=> committed /\ ~mode.defer
          /\ p = "terminal" <=> ~committed
    BY <1>1
  <1>3. task' = [task EXCEPT !.pc = p, !.result = status, !.shows = shows]
    BY <1>2 DEF Announcing
  <1>4. task' \in Tasks /\ task'.pc = p /\ task'.result = status /\ task'.shows = shows
        /\ task'.keep = task.keep /\ task'.text = task.text /\ task'.reasoning = task.reasoning
        /\ task'.seq = task.seq
    BY <1>3 DEF Tasks, Finishing
  <1>5. p \in Finishing
    BY DEF Finishing
  <1> QED
    BY <1>2, <1>4, <1>5

\* The finalized text of a complete generation without transforms is shown.
LEMMA FinalizedIsShown ==
    ASSUME Typed, Alive, task.result \in Statuses, task.keep, ~mode.defer,
           task.text = Len(live.text), disk' = Finalized, live' = live, mode' = mode,
           task'.text = task.text
    PROVE  Shown'
  <1>1. /\ Finalized.msg = Finalized.gen /\ Finalized.content = Canonical(task.text)
        /\ ~Finalized.projection /\ Finalized.gen = task.result
    BY ClosedRows
  <1>2. disk'.msg # "deleted" /\ ~disk'.projection /\ disk'.content = <<"raw", task.text>>
    BY <1>1 DEF Statuses, Canonical
  <1>3. Stored'[1] = <<"raw", task.text>>
    BY <1>2 DEF Stored
  <1>4. task.text # 0 => Last(live'.text) = <<"raw", task.text>>
    BY RawIsShown
  <1> QED
    BY <1>3, <1>4 DEF Shown

\* The terminal transaction commits.
LEMMA FinalizeOkKeeps ==
    ASSUME IndInv, FinalizeOk
    PROVE  IndInv'
  <1>0. task.pc = "finalize" /\ disk' = Finalized /\ Announcing(task.keep, task.result, "display")
        /\ FinishUnchanged /\ UNCHANGED <<live, registered, bus, faults>>
    BY DEF FinalizeOk
  <1>1. Typed /\ Alive
    BY <1>0, BeforeADeath DEF IndInv
  <1>2. task \in Tasks /\ mode \in [preserve : BOOLEAN, defer : BOOLEAN] /\ task.keep \in BOOLEAN
        /\ faults \in Nat
    BY <1>1, Fields, StreamConstants DEF Typed
  <1>3. /\ task.result \in Statuses /\ fwd.pc = "done" /\ (task.result = "complete" => task.keep)
        /\ (task.result = "complete" /\ ~mode.defer) => task.text = Len(live.text)
    BY <1>0, <1>1 DEF Alive, TaskOK, Finishing
  <1>4. mode' = mode
    BY <1>0 DEF FinishUnchanged
  <1>5. DiskOK' /\ disk' \in Disks /\ disk'.gen # "running"
    BY <1>0, <1>1, <1>3, <1>4, ClosedDisk
  <1>6. /\ disk'.gen = task.result /\ (disk'.projection <=> task.keep /\ mode.defer)
        /\ task.keep => disk'.msg = disk'.gen /\ disk'.content = Canonical(task.text)
    BY <1>0, <1>1, <1>3, ClosedRows
  <1>7. /\ task' \in Tasks /\ task'.pc \in Finishing
        /\ task'.pc \in {"display", "committed", "terminal"}
        /\ task'.pc = "display" <=> task.keep /\ mode.defer
        /\ task'.pc = "committed" <=> task.keep /\ ~mode.defer
        /\ task'.pc = "terminal" <=> ~task.keep
        /\ task'.result = task.result /\ task'.shows = "display"
        /\ task'.text = task.text /\ task'.reasoning = task.reasoning /\ task'.seq = task.seq
    BY <1>0, <1>2, <1>3, AnnouncingFacts
  <1>8. ASSUME task'.pc \in {"committed", "terminal"}, task'.result = "complete" PROVE Shown'
    <2>1. task.keep /\ ~mode.defer
      BY <1>3, <1>7, <1>8
    <2> QED
      BY <1>0, <1>1, <1>3, <1>4, <1>7, <1>8, <2>1, FinalizedIsShown
  <1> QED
    BY <1>0, <1>2, <1>3, <1>5, <1>6, <1>7, <1>8, RowsKeep

\* The rows a terminal transaction would write depend on the task's counts,
\* result and decision, which the error paths keep.
LEMMA SameRows ==
    ASSUME mode' = mode, task'.result = task.result, task'.keep = task.keep, task'.text = task.text
    PROVE  Finalized' = Finalized /\ Compensated' = Compensated
BY DEF Finalized, Compensated, TerminalMessage, Canonical, Occurrences

\* The terminal transaction reports an error.
LEMMA FinalizeFailsKeeps ==
    ASSUME IndInv, NEW in \in BOOLEAN, FinalizeFails(in)
    PROVE  IndInv'
  <1>0. task.pc = "finalize" /\ disk.gen = "running" /\ faults' = faults + 1
        /\ disk' = (IF in THEN Finalized ELSE disk)
        /\ task' = [task EXCEPT !.pc = "compensate"]
        /\ FinishUnchanged /\ UNCHANGED <<live, registered, bus>>
    BY DEF FinalizeFails
  <1>1. Typed /\ Alive /\ DiskOK
    BY <1>0, BeforeADeath DEF IndInv
  <1>2. task \in Tasks /\ faults \in Nat /\ disk \in Disks
    BY <1>1 DEF Typed
  <1>3. /\ task.result \in Statuses /\ fwd.pc = "done" /\ (task.result = "complete" => task.keep)
        /\ (task.result = "complete" /\ ~mode.defer) => task.text = Len(live.text)
    BY <1>0, <1>1 DEF Alive, TaskOK, Finishing
  <1>4. /\ task' \in Tasks /\ task'.pc = "compensate" /\ task'.result = task.result
        /\ task'.keep = task.keep
        /\ task'.text = task.text /\ task'.reasoning = task.reasoning /\ task'.seq = task.seq
    BY <1>0, <1>2 DEF Tasks, Finishing
  <1>5. mode' = mode
    BY <1>0 DEF FinishUnchanged
  <1>6. DiskOK' /\ disk' \in Disks /\ (disk' = disk \/ (disk' = Finalized' /\ disk'.gen # "running"))
    <2>1. CASE in
      BY <1>0, <1>1, <1>3, <1>4, <1>5, <2>1, ClosedDisk, SameRows
    <2>2. CASE ~in
      BY <1>0, <1>1, <1>2, <1>5, <2>2 DEF DiskOK, ClosedTogether
    <2> QED
      BY <2>1, <2>2
  <1>7. faults' \in Nat /\ faults' > 0
    BY <1>0, <1>2
  <1>8. task'.pc \in Finishing
    BY <1>4 DEF Finishing
  <1> QED
    BY <1>0, <1>3, <1>4, <1>6, <1>7, <1>8, RowsKeep

\* The generation is failed instead.
LEMMA CompensateOkKeeps ==
    ASSUME IndInv, CompensateOk
    PROVE  IndInv'
  <1>0. task.pc = "compensate" /\ disk' = Compensated /\ Announcing(task.keep, "failed", "content")
        /\ FinishUnchanged /\ UNCHANGED <<live, registered, bus, faults>>
    BY DEF CompensateOk
  <1>1. Typed /\ Alive
    BY <1>0, BeforeADeath DEF IndInv
  <1>2. task \in Tasks /\ mode \in [preserve : BOOLEAN, defer : BOOLEAN] /\ task.keep \in BOOLEAN
        /\ faults \in Nat /\ "failed" \in Statuses
    BY <1>1, Fields, StreamConstants DEF Typed, Statuses
  <1>3. task.result \in Statuses /\ fwd.pc = "done"
    BY <1>0, <1>1 DEF Alive, TaskOK, Finishing
  <1>4. mode' = mode
    BY <1>0 DEF FinishUnchanged
  <1>5. DiskOK' /\ disk' \in Disks /\ disk'.gen # "running"
    BY <1>0, <1>1, <1>3, <1>4, ClosedDisk
  <1>6. /\ disk'.gen = "failed"
        /\ task.keep => disk'.msg = disk'.gen /\ disk'.content = Canonical(task.text)
    BY <1>0, <1>1, <1>3, ClosedRows
  <1>7. /\ task' \in Tasks /\ task'.pc \in Finishing
        /\ task'.pc \in {"display", "committed", "terminal"}
        /\ task'.pc = "display" <=> task.keep /\ mode.defer
        /\ task'.pc = "committed" <=> task.keep /\ ~mode.defer
        /\ task'.pc = "terminal" <=> ~task.keep
        /\ task'.result = "failed"
        /\ task'.text = task.text /\ task'.reasoning = task.reasoning /\ task'.seq = task.seq
    BY <1>0, <1>2, AnnouncingFacts
  <1> QED
    BY <1>0, <1>2, <1>3, <1>5, <1>6, <1>7, RowsKeep

\* No running generation is left, or the compensation fails too.
LEMMA CompensateFailsKeeps ==
    ASSUME IndInv, CompensateRefused \/ \E in \in BOOLEAN : CompensateFails(in)
    PROVE  IndInv'
  <1>0. task.pc = "compensate" /\ task' = [task EXCEPT !.pc = "reread"]
        /\ FinishUnchanged /\ UNCHANGED <<live, registered, bus>>
    BY DEF CompensateRefused, CompensateFails
  <1>1. Typed /\ Alive /\ DiskOK
    BY <1>0, BeforeADeath DEF IndInv
  <1>2. task \in Tasks /\ faults \in Nat /\ disk \in Disks
    BY <1>1 DEF Typed
  <1>3. /\ task.result \in Statuses /\ fwd.pc = "done" /\ (task.result = "complete" => task.keep)
        /\ (task.result = "complete" /\ ~mode.defer) => task.text = Len(live.text)
        /\ faults > 0 /\ (disk.gen = "running" \/ disk = Finalized)
    BY <1>0, <1>1 DEF Alive, TaskOK, Finishing
  <1>4. /\ task' \in Tasks /\ task'.pc = "reread" /\ task'.result = task.result
        /\ task'.keep = task.keep
        /\ task'.text = task.text /\ task'.reasoning = task.reasoning /\ task'.seq = task.seq
    BY <1>0, <1>2 DEF Tasks, Finishing
  <1>5. mode' = mode
    BY <1>0 DEF FinishUnchanged
  <1>6. Finalized' = Finalized /\ Compensated' = Compensated
    BY <1>4, <1>5, SameRows
  <1>7. task'.pc \in Finishing
    BY <1>4 DEF Finishing
  <1>8. CASE CompensateRefused
    <2>1. disk' = disk /\ disk.gen # "running" /\ faults' = faults
      BY <1>8 DEF CompensateRefused
    <2>2. DiskOK'
      BY <1>1, <1>5, <2>1 DEF DiskOK, ClosedTogether
    <2> QED
      BY <1>0, <1>2, <1>3, <1>4, <1>6, <1>7, <2>1, <2>2, RowsKeep
  <1>9. ASSUME NEW in \in BOOLEAN, CompensateFails(in) PROVE IndInv'
    <2>1. disk' = (IF in THEN Compensated ELSE disk) /\ faults' = faults + 1 /\ disk.gen = "running"
      BY <1>9 DEF CompensateFails
    <2>2. DiskOK' /\ disk' \in Disks /\ (disk' = disk \/ (disk' = Compensated' /\ disk'.gen # "running"))
      <3>1. CASE in
        BY <1>1, <1>3, <1>5, <1>6, <2>1, <3>1, ClosedDisk
      <3>2. CASE ~in
        BY <1>1, <1>2, <1>5, <2>1, <3>2 DEF DiskOK, ClosedTogether
      <3> QED
        BY <3>1, <3>2
    <2>3. faults' \in Nat /\ faults' > 1 /\ faults' > 0
      BY <1>2, <1>3, <2>1
    <2> QED
      BY <1>0, <1>3, <1>4, <1>7, <2>1, <2>2, <2>3, RowsKeep
  <1> QED
    BY <1>8, <1>9

\* The stored generation decides what is announced.
LEMMA RereadKeeps ==
    ASSUME IndInv, Reread \/ RereadFails \/ RereadProjectionFails
    PROVE  IndInv'
  <1>0. task.pc = "reread" /\ FinishUnchanged /\ UNCHANGED <<disk, live, registered, bus>>
    BY DEF Reread, RereadFails, RereadProjectionFails
  <1>1. Typed /\ Alive /\ DiskOK
    BY <1>0, BeforeADeath DEF IndInv
  <1>2. task \in Tasks /\ mode \in [preserve : BOOLEAN, defer : BOOLEAN] /\ task.keep \in BOOLEAN
        /\ faults \in Nat /\ "failed" \in Statuses /\ disk \in Disks
    BY <1>1, Fields, StreamConstants DEF Typed, Statuses
  <1>3. /\ task.result \in Statuses /\ fwd.pc = "done" /\ (task.result = "complete" => task.keep)
        /\ (task.result = "complete" /\ ~mode.defer) => task.text = Len(live.text)
        /\ faults > 0 /\ (disk.gen = "running" \/ disk = Finalized \/ disk = Compensated)
        /\ disk.gen = "running" => faults > 1
    BY <1>0, <1>1 DEF Alive, TaskOK, Finishing
  <1>4. mode' = mode /\ DiskOK' /\ disk' = disk
    BY <1>0, <1>1 DEF DiskOK, ClosedTogether, FinishUnchanged
  <1>5. ASSUME disk.gen = task.result
        PROVE  /\ disk.gen # "running"
               /\ task.keep => disk.msg = task.result /\ disk.content = Canonical(task.text)
               /\ task.result = "complete" => disk = Finalized /\ (disk.projection <=> mode.defer)
    <2>1. disk.gen # "running"
      BY <1>3, <1>5 DEF Statuses
    <2>2. disk = Finalized \/ disk = Compensated
      BY <1>3, <2>1
    <2>3. task.keep => disk.msg = disk.gen /\ disk.content = Canonical(task.text)
      BY <1>1, <1>3, <2>2, ClosedRows
    <2>4. task.result = "complete" => disk = Finalized
      <3>1. Compensated.gen = "failed"
        BY <1>1, <1>3, ClosedRows
      <3> QED
        BY <1>5, <2>2, <3>1
    <2>5. task.result = "complete" => (disk.projection <=> mode.defer)
      <3>1. Finalized.projection <=> task.keep /\ mode.defer
        BY <1>1, <1>3, ClosedRows
      <3> QED
        BY <1>3, <2>4, <3>1
    <2> QED
      BY <1>5, <2>1, <2>3, <2>4, <2>5
  <1>6. ASSUME disk.gen = task.result, NEW shows \in {"display", "content"},
               Announcing(task.keep, task.result, shows), faults' \in Nat,
               task.result = "complete" /\ mode.defer => shows = "display" \/ faults' > 1
        PROVE  IndInv'
    <2>1. /\ task' \in Tasks /\ task'.pc \in Finishing
          /\ task'.pc \in {"display", "committed", "terminal"}
          /\ task'.pc = "display" <=> task.keep /\ mode.defer
          /\ task'.pc = "committed" <=> task.keep /\ ~mode.defer
          /\ task'.pc = "terminal" <=> ~task.keep
          /\ task'.result = task.result /\ task'.shows = shows
          /\ task'.text = task.text /\ task'.reasoning = task.reasoning /\ task'.seq = task.seq
      BY <1>2, <1>3, <1>6, AnnouncingFacts
    <2>2. ASSUME task'.pc \in {"committed", "terminal"}, task'.result = "complete" PROVE Shown'
      <3>1. task.keep /\ ~mode.defer /\ disk' = Finalized
        BY <1>3, <1>4, <1>5, <1>6, <2>1, <2>2
      <3> QED
        BY <1>0, <1>1, <1>3, <1>4, <2>1, <2>2, <3>1, FinalizedIsShown
    <2>3. /\ disk'.gen # "running" /\ disk'.gen = task'.result
          /\ task.keep => disk'.msg = task'.result /\ disk'.content = Canonical(task.text)
          /\ (task'.result = "complete" /\ mode.defer) => disk'.projection
      BY <1>4, <1>5, <1>6, <2>1
    <2>4. task'.pc = "display" =>
             mode.defer /\ (task'.result = "complete" =>
                              disk'.projection /\ (task'.shows = "display" \/ faults' > 1))
      BY <1>6, <2>1, <2>3
    <2> QED
      BY <1>0, <1>2, <1>3, <1>4, <1>6, <2>1, <2>2, <2>3, <2>4, RowsKeep
  <1>7. ASSUME Announcing(FALSE, "failed", "content"), faults' \in Nat, faults <= faults'
        PROVE  IndInv'
    <2>1. /\ task' \in Tasks /\ task'.pc \in Finishing /\ task'.pc = "terminal"
          /\ task'.result = "failed"
          /\ task'.text = task.text /\ task'.reasoning = task.reasoning /\ task'.seq = task.seq
      BY <1>2, <1>7, AnnouncingFacts
    <2>2. disk'.gen = "running" => faults' > 1
      BY <1>2, <1>3, <1>4, <1>7
    <2> QED
      BY <1>0, <1>2, <1>3, <1>4, <1>7, <2>1, <2>2, RowsKeep
  <1>8. CASE Reread
    <2>1. faults' = faults
      BY <1>8 DEF Reread
    <2>2. CASE disk.gen = task.result
      <3>1. PICK shows \in {"display", "content"} :
              shows = IF disk.projection THEN "display" ELSE "content"
        OBVIOUS
      <3>2. Announcing(task.keep, task.result, shows)
        BY <1>8, <2>2, <3>1 DEF Reread
      <3>3. task.result = "complete" /\ mode.defer => shows = "display"
        BY <1>5, <2>2, <3>1
      <3> QED
        BY <1>2, <1>6, <2>1, <2>2, <3>2, <3>3
    <2>3. CASE disk.gen # task.result
      <3>1. Announcing(FALSE, "failed", "content")
        BY <1>8, <2>3, Zenon DEF Reread
      <3>2. faults' \in Nat /\ faults <= faults'
        BY <1>2, <2>1
      <3> QED
        BY <1>7, <3>1, <3>2
    <2> QED
      BY <2>2, <2>3
  <1>9. CASE RereadFails
    <2>1. faults' = faults + 1 /\ Announcing(FALSE, "failed", "content")
      BY <1>9 DEF RereadFails
    <2> QED
      BY <1>2, <1>7, <2>1
  <1>10. CASE RereadProjectionFails
    <2>1. faults' = faults + 1 /\ Announcing(TRUE, task.result, "content") /\ task.keep
          /\ disk.gen = task.result
      BY <1>10 DEF RereadProjectionFails
    <2>2. Announcing(task.keep, task.result, "content")
      BY <1>2, <2>1
    <2>3. faults' \in Nat /\ faults' > 1
      BY <1>2, <1>3, <2>1
    <2> QED
      BY <1>6, <2>1, <2>2, <2>3
  <1> QED
    BY <1>8, <1>9, <1>10

-----------------------------------------------------------------------------
(* The announcements *)

\* A publication of the task, once the channel is closed.
LEMMA AnnouncePublishes ==
    ASSUME IndInv, task.pc \in {"display", "committed", "terminal"}, FinishUnchanged,
           UNCHANGED <<disk, registered, faults>>,
           NEW e \in Events, e.seq = task.seq + 1, Publish(e),
           task' \in Tasks, task'.seq = task.seq + 1, task'.text = task.text,
           task'.reasoning = task.reasoning, e.kind # "reasoning",
           e.kind = "text" => /\ mode.defer /\ live.text = <<>>
                              /\ e.piece \in Pieces /\ e.piece[1] # "raw"
    PROVE  /\ Typed' /\ DiskOK' /\ BusOK' /\ ViewsOK' /\ ChannelOK' /\ ForwarderOK'
           /\ Len(live'.reasoning) <= task'.reasoning
           /\ channel'.receiver =>
                Deltas(channel'.events, "reasoning", Len(live'.reasoning), task'.reasoning)
           /\ live'.phase = IF e.kind \in Terminal THEN "terminal" ELSE live.phase
           /\ live'.text = IF e.kind = "text" THEN Append(live.text, e.piece) ELSE live.text
           /\ bus' = Append(bus, e)
  <1>0. Typed /\ DiskOK /\ BusOK /\ ViewsOK /\ Alive
    BY BeforeADeath DEF IndInv
  <1>1. mode' = mode /\ up' = up /\ cancel' = cancel /\ provider' = provider /\ channel' = channel
        /\ fwd' = fwd /\ view' = view /\ crashes' = crashes
    BY DEF FinishUnchanged
  <1>2. registered /\ live.phase = "running" /\ fwd.pc = "done"
    BY <1>0 DEF Alive, TaskOK, Finishing
  <1>3. channel.events = <<>>
    BY <1>0, <1>2 DEF Alive, ForwarderOK, ChannelOK
  <1>4. task.seq \in Nat /\ live.watermark \in Nat /\ live.watermark <= task.seq /\ e.seq \in Nat
    BY <1>0, Fields DEF BusOK, Events
  <1>5. e.seq > live.watermark /\ task'.seq \in Nat /\ e.seq <= task'.seq
    BY <1>4
  <1>6. PublishUpdate(e)
    BY <1>2, <1>5 DEF Publish, Publishable
  <1>7. e.kind = "text" => Len(live.text) < MaxPrefix
    <2>1. live.text = <<>> => Len(live.text) = 0
      OBVIOUS
    <2> QED
      BY <2>1, Bounds
  <1>8. /\ BusOK' /\ ViewsOK' /\ live' \in Lives /\ bus' \in Seq(Events)
        /\ live'.phase = IF e.kind \in Terminal THEN "terminal" ELSE live.phase
        /\ live'.text = IF e.kind = "text" THEN Append(live.text, e.piece) ELSE live.text
        /\ live'.reasoning = IF e.kind = "reasoning" THEN Append(live.reasoning, e.piece)
                                                     ELSE live.reasoning
        /\ bus' = Append(bus, e)
    BY <1>0, <1>1, <1>5, <1>6, <1>7, PublishKeeps
  <1>9. live'.reasoning = live.reasoning
    BY <1>8
  <1>10. Typed'
    BY <1>0, <1>1, <1>8 DEF Typed
  <1>11. DiskOK'
    BY <1>0, <1>1 DEF DiskOK, ClosedTogether
  <1>12. ChannelOK'
    BY <1>1, <1>3 DEF ChannelOK
  <1>13. Len(live'.reasoning) <= task'.reasoning
         /\ (channel'.receiver =>
               Deltas(channel'.events, "reasoning", Len(live'.reasoning), task'.reasoning))
    BY <1>0, <1>1, <1>9 DEF Alive, DeltasOK
  <1>14. ForwarderOK'
    <2>1. Saves' <=> Saves
      BY <1>1 DEF Saves
    <2>2. Saves => live'.text = live.text
      BY <1>8 DEF Saves
    <2> QED
      BY <1>0, <1>1, <1>2, <2>1, <2>2 DEF Alive, ForwarderOK
  <1> QED
    BY <1>8, <1>10, <1>11, <1>12, <1>13, <1>14

\* What the task does when it announces.
LEMMA AnnounceTask ==
    ASSUME task \in Tasks, Announce
    PROVE  /\ task' \in Tasks
           /\ task'.seq = IF task.pc = "display" /\ task.text = 0 THEN task.seq ELSE task.seq + 1
           /\ task.pc = "display" => task'.pc = "committed"
           /\ task.pc = "committed" => task'.pc = "terminal"
           /\ task.pc = "terminal" => task'.pc = "dropping"
           /\ task'.text = task.text /\ task'.reasoning = task.reasoning
           /\ task'.result = task.result /\ task'.keep = task.keep /\ task'.shows = task.shows
  <1>1. task.pc \in {"display", "committed", "terminal"} /\ task.seq \in Nat
    BY DEF Announce, Tasks
  <1>2. PICK n \in Nat : n = IF task.pc = "display" /\ task.text = 0 THEN task.seq ELSE task.seq + 1
    <2>1. task.seq + 1 \in Nat
      BY <1>1
    <2> QED
      BY <1>1, <2>1
  <1>3. ASSUME NEW p \in {"committed", "terminal", "dropping"},
               task' = [task EXCEPT !.seq = n, !.pc = p]
        PROVE  /\ task' \in Tasks /\ task'.seq = n /\ task'.pc = p
               /\ task'.text = task.text /\ task'.reasoning = task.reasoning
               /\ task'.result = task.result /\ task'.keep = task.keep /\ task'.shows = task.shows
    BY <1>3 DEF Tasks, Finishing
  <1>4. CASE task.pc = "display"
    <2>1. task' = [task EXCEPT !.seq = n, !.pc = "committed"]
      BY <1>2, <1>4 DEF Announce
    <2> QED
      BY <1>2, <1>3, <1>4, <2>1
  <1>5. CASE task.pc = "committed"
    <2>1. task' = [task EXCEPT !.seq = n, !.pc = "terminal"]
      BY <1>2, <1>5 DEF Announce
    <2> QED
      BY <1>2, <1>3, <1>5, <2>1
  <1>6. CASE task.pc = "terminal"
    <2>1. task' = [task EXCEPT !.seq = n, !.pc = "dropping"]
      BY <1>2, <1>6 DEF Announce
    <2> QED
      BY <1>2, <1>3, <1>6, <2>1
  <1> QED
    BY <1>1, <1>4, <1>5, <1>6

\* The parts of the invariant after an announcement.
LEMMA AnnounceAssembles ==
    ASSUME IndInv, task.pc \in {"display", "committed", "terminal"}, FinishUnchanged,
           UNCHANGED <<disk, registered, faults>>,
           task'.text = task.text, task'.reasoning = task.reasoning, task'.result = task.result,
           task.pc = "display" => task'.pc = "committed",
           task.pc = "committed" => task'.pc = "terminal",
           task.pc = "terminal" => task'.pc = "dropping",
           Typed', DiskOK', BusOK', ViewsOK', ChannelOK', ForwarderOK', AnnouncementsOK',
           Len(live'.reasoning) <= task'.reasoning,
           channel'.receiver =>
             Deltas(channel'.events, "reasoning", Len(live'.reasoning), task'.reasoning),
           live'.phase = IF task.pc = "terminal" THEN "terminal" ELSE live.phase,
           ~mode.defer => live'.text = live.text
    PROVE  IndInv'
  <1>0. Typed /\ Alive /\ crashes = 0
    BY BeforeADeath DEF IndInv
  <1>1. mode' = mode /\ up' = up /\ provider' = provider /\ channel' = channel /\ fwd' = fwd
        /\ crashes' = crashes
    BY DEF FinishUnchanged
  <1>2. TaskOK /\ DeltasOK /\ AnnouncementsOK
    BY <1>0 DEF Alive
  <1>3. task'.pc \in {"committed", "terminal", "dropping"} /\ task.pc \in Finishing
    BY DEF Finishing
  <1>4. DeltasOK'
    <2>1. task'.pc \notin Running \cup {"finalize", "compensate", "reread", "display"}
      BY <1>3 DEF Running
    <2> QED
      BY <1>1, <1>2, <2>1 DEF DeltasOK
  <1>5. TaskOK'
    <2>1. /\ task'.pc \notin Running \cup {"finalize"}
          /\ task'.pc \notin {"finalize", "compensate", "reread", "start", "collect", "drain", "gone"}
      BY <1>3 DEF Running
    <2>2. registered /\ live.phase = "running" /\ ~channel.sender /\ provider.st # "dropped"
          /\ task.result \in Statuses /\ fwd.pc = "done"
          /\ (task.result = "complete" /\ ~mode.defer => task.text = Len(live.text))
      BY <1>2, <1>3 DEF TaskOK
    <2>3. task'.pc \in {"terminal", "dropping"} /\ disk.gen = "running" => faults > 1
      <3>1. CASE task.pc = "committed"
        <4>1. disk.gen # "running"
          BY <1>2, <2>2, <3>1 DEF AnnouncementsOK, Statuses
        <4> QED
          BY <4>1
      <3>2. CASE task.pc = "terminal"
        BY <1>2, <3>2 DEF TaskOK
      <3> QED
        BY <3>1, <3>2
    <2>4. live'.phase = "running" <=> task'.pc \notin {"dropping", "gone"}
      BY <2>2
    <2> QED
      BY <1>1, <2>1, <2>2, <2>3, <2>4 DEF TaskOK
  <1> QED
    BY <1>0, <1>1, <1>4, <1>5 DEF IndInv, Alive

\* The announced text of a deferred display.
LEMMA AnnounceDisplayKeeps ==
    ASSUME IndInv, Announce, task.pc = "display"
    PROVE  IndInv'
  <1>0. FinishUnchanged /\ UNCHANGED <<disk, registered, faults>>
    BY DEF Announce
  <1>1. Typed /\ DiskOK /\ BusOK /\ ViewsOK /\ Alive
    BY BeforeADeath DEF IndInv
  <1>2. task \in Tasks /\ task.seq \in Nat /\ task.text \in Nat /\ task.reasoning \in Nat
        /\ task.text + task.reasoning <= MaxOutput
    BY <1>1, Fields DEF Typed
  <1>3. /\ task' \in Tasks
        /\ task'.seq = IF task.text = 0 THEN task.seq ELSE task.seq + 1
        /\ task'.pc = "committed"
        /\ task'.text = task.text /\ task'.reasoning = task.reasoning
        /\ task'.result = task.result /\ task'.keep = task.keep /\ task'.shows = task.shows
    BY <1>2, AnnounceTask
  <1>4. /\ disk.gen = task.result /\ disk.msg = task.result /\ disk.content = Canonical(task.text)
        /\ mode.defer
        /\ task.result = "complete" => disk.projection /\ (task.shows = "display" \/ faults > 1)
        /\ live.text = <<>> /\ task.result \in Statuses
    BY <1>1 DEF Alive, AnnouncementsOK, DeltasOK, TaskOK, Finishing
  <1>5. mode' = mode /\ up' = up /\ cancel' = cancel /\ provider' = provider /\ channel' = channel
        /\ fwd' = fwd /\ view' = view /\ crashes' = crashes /\ disk' = disk /\ faults' = faults
    BY <1>0 DEF FinishUnchanged
  <1>6. Canonical(task.text) = <<"canonical", task.text>>
    BY <1>4 DEF Canonical
  <1>7. ASSUME \A i \in DOMAIN bus' : bus'[i].kind # "committed" /\ bus'[i].kind \notin Terminal,
               task.result = "complete" => Shown'
        PROVE  AnnouncementsOK'
    <2>1. disk'.gen = task'.result /\ disk'.msg = task'.result
          /\ disk'.content = Canonical(task.text)'
      BY <1>3, <1>4, <1>5 DEF Canonical
    <2>2. \A i \in DOMAIN bus' : bus'[i].kind \notin {"committed", "finished", "cancelled"}
                                 /\ bus'[i].kind \notin Terminal
      BY <1>7 DEF Terminal
    <2> QED
      BY <1>3, <1>7, <2>1, <2>2 DEF AnnouncementsOK
  <1>8. \A i \in DOMAIN bus : bus[i].kind # "committed" /\ bus[i].kind \notin Terminal
    BY <1>1, NothingAnnounced
  <1>9. CASE task.text = 0
    <2>1. bus' = bus /\ live' = live
      BY <1>9 DEF Announce
    <2>2. Typed' /\ DiskOK'
      BY <1>0, <1>1, <1>3, <1>5, <2>1 DEF Typed, DiskOK, ClosedTogether
    <2>3. BusOK' /\ ViewsOK'
      <3>1. live.watermark <= task'.seq
        BY <1>1, <1>3, <1>9 DEF BusOK
      <3> QED
        BY <1>1, <1>5, <2>1, <3>1, BusStays, ViewsStay
    <2>4. ChannelOK' /\ ForwarderOK'
      <3>1. fwd.pc = "done" /\ task'.seq = task.seq
        BY <1>1, <1>3, <1>9 DEF Alive, TaskOK, Finishing
      <3>2. ChannelOK'
        BY <1>1, <1>5, <2>1, <3>1 DEF Alive, ChannelOK
      <3>3. Saves' <=> Saves
        BY <1>5 DEF Saves
      <3> QED
        BY <1>1, <1>5, <2>1, <3>1, <3>2, <3>3 DEF Alive, ForwarderOK
    <2>5. Len(live'.reasoning) <= task'.reasoning
          /\ (channel'.receiver =>
                Deltas(channel'.events, "reasoning", Len(live'.reasoning), task'.reasoning))
      BY <1>1, <1>3, <1>5, <2>1 DEF Alive, DeltasOK
    <2>6. AnnouncementsOK'
      BY <1>3, <1>7, <1>8, <1>9, <2>1 DEF Shown
    <2>7. live'.phase = live.phase
      BY <2>1
    <2> QED
      BY <1>0, <1>3, <1>4, <2>2, <2>3, <2>4, <2>5, <2>6, <2>7, AnnounceAssembles
  <1>10. CASE task.text # 0
    <2>1. PICK n \in 0 .. MaxOutput : n = task.text
      BY <1>2, Bounds
    <2>2. PICK c \in Pieces : /\ c = IF task.shows = "display" THEN <<"display", n>>
                                                               ELSE <<"canonical", n>>
                              /\ c[1] # "raw" /\ c \in AnyPieces
      <3>1. <<"display", n>> \in Pieces /\ <<"canonical", n>> \in Pieces
            /\ <<"display", n>> \in AnyPieces /\ <<"canonical", n>> \in AnyPieces
        BY Bounds DEF Pieces, AnyPieces
      <3> QED
        BY <3>1
    <2>3. PICK q \in Nat : q = task.seq + 1
      BY <1>2
    <2>4. PICK e \in Events : e = Event(q, "text", c)
      BY <2>2 DEF Event, Events, Sent
    <2>5. e.seq = q /\ e.kind = "text" /\ e.piece = c
      BY <2>4 DEF Event
    <2>6. Publish(e)
      <3>1. e = Event(NextSequence, "text",
                      IF task.shows = "display" THEN <<"display", task.text>>
                                                ELSE Canonical(task.text))
        BY <1>6, <2>1, <2>2, <2>3, <2>4 DEF NextSequence
      <3> QED
        BY <1>10, <3>1 DEF Announce
    <2>7. task'.seq = task.seq + 1
      BY <1>3, <1>10
    <2>8. /\ Typed' /\ DiskOK' /\ BusOK' /\ ViewsOK' /\ ChannelOK' /\ ForwarderOK'
          /\ Len(live'.reasoning) <= task'.reasoning
          /\ channel'.receiver =>
               Deltas(channel'.events, "reasoning", Len(live'.reasoning), task'.reasoning)
          /\ live'.phase = IF e.kind \in Terminal THEN "terminal" ELSE live.phase
          /\ live'.text = IF e.kind = "text" THEN Append(live.text, e.piece) ELSE live.text
          /\ bus' = Append(bus, e)
      BY <1>0, <1>3, <1>4, <2>2, <2>3, <2>5, <2>6, <2>7, AnnouncePublishes
    <2>9. \A i \in DOMAIN bus' : bus'[i].kind # "committed" /\ bus'[i].kind \notin Terminal
      <3>1. bus \in Seq(Events)
        BY <1>1 DEF Typed
      <3>2. \A i \in DOMAIN bus' : bus'[i] = e \/ (i \in DOMAIN bus /\ bus'[i] = bus[i])
        BY <2>8, <3>1
      <3> QED
        BY <1>8, <2>5, <3>2 DEF Terminal
    <2>10. Last(live'.text) = c
      <3>1. live'.text = <<c>>
        BY <1>4, <2>5, <2>8
      <3> QED
        BY <3>1 DEF Last
    <2>11. ASSUME task.result = "complete" PROVE Shown'
      <3>1. disk.projection /\ disk.msg # "deleted" /\ disk.content = <<"canonical", n>>
        BY <1>4, <1>6, <2>1, <2>11
      <3>2. Stored[1] = <<"display", n>>
        <4>1. disk.content[2] = n
          BY <3>1
        <4> QED
          BY <3>1, <4>1 DEF Stored
      <3>3. Stored'[1] = Stored[1]
        BY <1>5 DEF Stored
      <3>4. CASE task.shows = "display"
        BY <2>2, <2>10, <3>2, <3>3, <3>4 DEF Shown
      <3>5. CASE task.shows # "display"
        BY <1>4, <1>5, <2>2, <2>10, <2>11, <3>1, <3>5 DEF Shown
      <3> QED
        BY <3>4, <3>5
    <2>12. AnnouncementsOK'
      BY <1>7, <2>9, <2>11
    <2>13. live'.phase = live.phase
      BY <2>5, <2>8 DEF Terminal
    <2> QED
      BY <1>0, <1>3, <1>4, <2>8, <2>12, <2>13, AnnounceAssembles
  <1> QED
    BY <1>9, <1>10

\* The message and then the end are announced.
LEMMA AnnounceEndKeeps ==
    ASSUME IndInv, Announce, task.pc \in {"committed", "terminal"}
    PROVE  IndInv'
  <1>0. FinishUnchanged /\ UNCHANGED <<disk, registered, faults>>
    BY DEF Announce
  <1>1. Typed /\ DiskOK /\ BusOK /\ ViewsOK /\ Alive
    BY BeforeADeath DEF IndInv
  <1>2. task \in Tasks /\ task.seq \in Nat /\ task.text \in Nat /\ bus \in Seq(Events)
    BY <1>1, Fields DEF Typed
  <1>3. /\ task' \in Tasks /\ task'.seq = task.seq + 1
        /\ task.pc = "committed" => task'.pc = "terminal"
        /\ task.pc = "terminal" => task'.pc = "dropping"
        /\ task'.text = task.text /\ task'.reasoning = task.reasoning
        /\ task'.result = task.result
    BY <1>2, AnnounceTask
  <1>4. TaskOK /\ AnnouncementsOK /\ task.result \in Statuses
    BY <1>1 DEF Alive, TaskOK, Finishing
  <1>5. mode' = mode /\ disk' = disk /\ faults' = faults
    BY <1>0 DEF FinishUnchanged
  <1>6. PICK q \in Nat : q = task.seq + 1
    BY <1>2
  <1>7. PICK e \in Events :
          /\ Publish(e) /\ e.seq = q /\ e.kind \notin {"text", "reasoning"}
          /\ task.pc = "committed" => e.kind = "committed" /\ e.piece = <<task.result, task.text>>
          /\ task.pc = "terminal" => e.kind = TerminalKind(task.result)
    <2>1. CASE task.pc = "committed"
      <3>1. <<task.result, task.text>> \in AnyPieces
        BY <1>2, <1>4 DEF AnyPieces
      <3>2. PICK e \in Events : e = Event(q, "committed", <<task.result, task.text>>)
        BY <3>1 DEF Event, Events
      <3>3. Publish(e)
        BY <1>6, <2>1, <3>2 DEF Announce, NextSequence
      <3> QED
        BY <2>1, <3>2, <3>3 DEF Event
    <2>2. CASE task.pc = "terminal"
      <3>1. TerminalKind(task.result) \in Terminal /\ TerminalKind(task.result) \notin {"text", "reasoning"}
        BY <1>4 DEF TerminalKind, Statuses, Terminal
      <3>2. PICK e \in Events : e = Event(q, TerminalKind(task.result), NoText)
        <4>1. NoText \in AnyPieces
          BY DEF NoText, AnyPieces
        <4> QED
          BY <3>1, <4>1 DEF Event, Events
      <3>3. Publish(e)
        BY <1>6, <2>2, <3>2 DEF Announce, NextSequence
      <3> QED
        BY <2>2, <3>1, <3>2, <3>3 DEF Event
    <2> QED
      BY <2>1, <2>2
  <1>8. /\ Typed' /\ DiskOK' /\ BusOK' /\ ViewsOK' /\ ChannelOK' /\ ForwarderOK'
        /\ Len(live'.reasoning) <= task'.reasoning
        /\ channel'.receiver =>
             Deltas(channel'.events, "reasoning", Len(live'.reasoning), task'.reasoning)
        /\ live'.phase = IF e.kind \in Terminal THEN "terminal" ELSE live.phase
        /\ live'.text = live.text
        /\ bus' = Append(bus, e)
    BY <1>0, <1>3, <1>6, <1>7, AnnouncePublishes
  <1>9. live'.phase = IF task.pc = "terminal" THEN "terminal" ELSE live.phase
    <2>1. e.kind \in Terminal <=> task.pc = "terminal"
      BY <1>4, <1>7 DEF TerminalKind, Statuses, Terminal
    <2> QED
      BY <1>8, <2>1
  <1>10. Shown' <=> Shown
    BY <1>3, <1>5, <1>8 DEF Shown, Stored
  <1>11. /\ Len(bus) \in Nat /\ DOMAIN bus = 1 .. Len(bus) /\ Len(bus') = Len(bus) + 1
         /\ \A i \in DOMAIN bus' : \/ i \in DOMAIN bus /\ bus'[i] = bus[i]
                                   \/ i = Len(bus') /\ bus'[i] = e
    BY <1>2, <1>8
  <1>12. AnnouncementsOK'
    <2>1. ASSUME NEW n PROVE Canonical(n)' = Canonical(n)
      BY <1>5 DEF Canonical
    <2>2. \A i \in DOMAIN bus : bus[i].kind \notin Terminal
      BY <1>4 DEF AnnouncementsOK
    <2>3. CASE task.pc = "committed"
      <3>1. e.kind = "committed" /\ e.piece = <<task.result, task.text>> /\ e.kind \notin Terminal
        BY <1>7, <2>3 DEF Terminal
      <3>2. disk.gen = task.result /\ disk.msg = task.result /\ disk.content = Canonical(task.text)
            /\ (task.result = "complete" => Shown)
        BY <1>4, <2>3 DEF AnnouncementsOK
      <3>3. disk.gen # "running"
        BY <1>4, <3>2 DEF Statuses
      <3>4. task'.pc = "terminal"
        BY <1>3, <2>3
      <3>5. \A i \in DOMAIN bus : bus[i].kind # "committed"
        BY <1>1, <2>3, NothingAnnounced
      <3>6. \A i \in DOMAIN bus' : bus'[i].kind \notin Terminal
                                   /\ bus'[i].kind # "finished" /\ bus'[i].kind # "cancelled"
        BY <1>11, <2>2, <3>1 DEF Terminal
      <3>7. ASSUME NEW i \in DOMAIN bus', bus'[i].kind = "committed"
            PROVE  disk'.msg = bus'[i].piece[1] /\ disk'.content = Canonical(bus[i].piece[2])'
        <4>1. bus'[i] = e
          BY <1>11, <3>5, <3>7
        <4>2. bus'[i].piece[1] = task.result /\ bus'[i].piece[2] = task.text
          BY <3>1, <4>1
        <4> QED
          BY <1>5, <3>2, <4>2 DEF Canonical
      <3> QED
        BY <1>3, <1>5, <1>10, <3>2, <3>3, <3>4, <3>6, <3>7 DEF AnnouncementsOK
    <2>4. CASE task.pc = "terminal"
      <3>1. e.kind = TerminalKind(task.result)
        BY <1>7, <2>4
      <3>2. /\ e.kind # "committed"
            /\ e.kind = "finished" => task.result = "complete"
            /\ e.kind = "cancelled" => task.result = "cancelled"
        BY <1>4, <3>1 DEF TerminalKind, Statuses
      <3>3. task'.pc = "dropping"
        BY <1>3, <2>4
      <3>4. /\ task.result # "failed" => disk.gen = task.result
            /\ task.result = "complete" => Shown
        BY <1>4, <2>4 DEF AnnouncementsOK
      <3>5. \A i \in DOMAIN bus : bus[i].kind = "committed" =>
              /\ disk.gen # "running" /\ disk.msg = bus[i].piece[1]
              /\ disk.content = Canonical(bus[i].piece[2])
        BY <1>4 DEF AnnouncementsOK
      <3>6. ASSUME NEW i \in DOMAIN bus', bus'[i].kind = "committed"
            PROVE  /\ disk'.gen # "running" /\ disk'.msg = bus'[i].piece[1]
                   /\ disk'.content = Canonical(bus[i].piece[2])'
        <4>1. i \in DOMAIN bus /\ bus'[i] = bus[i]
          BY <1>11, <3>2, <3>6
        <4> QED
          BY <1>5, <3>5, <3>6, <4>1 DEF Canonical
      <3>7. ASSUME NEW i \in DOMAIN bus', bus'[i].kind \in Terminal
            PROVE  i = Len(bus') /\ bus'[i] = e
        BY <1>11, <2>2, <3>7
      <3>8. ASSUME NEW i \in DOMAIN bus', bus'[i].kind = "finished"
            PROVE  disk'.gen = "complete" /\ Shown'
        <4>1. e.kind = "finished"
          BY <3>7, <3>8 DEF Terminal
        <4> QED
          BY <1>5, <1>10, <3>2, <3>4, <4>1
      <3>9. ASSUME NEW i \in DOMAIN bus', bus'[i].kind = "cancelled"
            PROVE  disk'.gen = "cancelled"
        <4>1. e.kind = "cancelled"
          BY <3>7, <3>9 DEF Terminal
        <4> QED
          BY <1>5, <3>2, <3>4, <4>1
      <3> QED
        BY <3>3, <3>6, <3>7, <3>8, <3>9 DEF AnnouncementsOK
    <2> QED
      BY <2>3, <2>4
  <1> QED
    BY <1>0, <1>3, <1>8, <1>9, <1>12, AnnounceAssembles

\* The generation leaves the registry.
LEMMA TaskGoneKeeps ==
    ASSUME IndInv, TaskGone
    PROVE  IndInv'
  <1>0. task.pc = "dropping" /\ task' = [task EXCEPT !.pc = "gone"] /\ ~registered'
        /\ FinishUnchanged /\ UNCHANGED <<disk, live, bus, faults>>
    BY DEF TaskGone
  <1>1. Typed /\ DiskOK /\ BusOK /\ ViewsOK /\ Alive /\ crashes = 0
    BY <1>0, BeforeADeath DEF IndInv
  <1>2. mode' = mode /\ up' = up /\ cancel' = cancel /\ provider' = provider /\ channel' = channel
        /\ fwd' = fwd /\ view' = view /\ crashes' = crashes
    BY <1>0 DEF FinishUnchanged
  <1>3. /\ task' \in Tasks /\ task'.pc = "gone" /\ task'.seq = task.seq /\ task'.text = task.text
        /\ task'.reasoning = task.reasoning /\ task'.result = task.result
    <2>1. task \in Tasks
      BY <1>1 DEF Typed
    <2> QED
      BY <1>0, <2>1 DEF Tasks
  <1>4. registered' \in BOOLEAN
    BY DEF TaskGone
  <1>5. Typed'
    BY <1>0, <1>1, <1>2, <1>3, <1>4 DEF Typed
  <1>6. DiskOK'
    BY <1>0, <1>1, <1>2 DEF DiskOK, ClosedTogether
  <1>7. BusOK' /\ ViewsOK'
    <2>1. live.watermark <= task'.seq
      BY <1>1, <1>3 DEF BusOK
    <2> QED
      BY <1>0, <1>1, <1>2, <2>1, BusStays, ViewsStay
  <1>8. ChannelOK'
    BY <1>0, <1>1, <1>2, <1>3 DEF Alive, ChannelOK
  <1>9. DeltasOK'
    <2>1. task'.pc \notin Running \cup {"finalize", "compensate", "reread", "display"}
      BY <1>3 DEF Running
    <2> QED
      BY <1>0, <1>1, <1>2, <1>3, <2>1 DEF Alive, DeltasOK
  <1>10. ForwarderOK'
    <2>1. fwd.pc = "done" /\ (Saves' <=> Saves)
      BY <1>0, <1>1, <1>2 DEF Alive, TaskOK, Saves
    <2> QED
      BY <1>0, <1>1, <1>2, <2>1 DEF Alive, ForwarderOK
  <1>11. TaskOK'
    <2>1. /\ task'.pc \notin Running \cup Finishing
          /\ task'.pc \notin {"finalize", "compensate", "reread", "start", "collect", "drain", "returned"}
      BY <1>3 DEF Running, Finishing
    <2>2. live.phase = "terminal" /\ ~channel.sender /\ provider.st # "dropped" /\ fwd.pc = "done"
          /\ (disk.gen = "running" => faults > 1)
      <3>1. live.phase \in {"running", "terminal"}
        BY <1>1, Fields
      <3> QED
        BY <1>0, <1>1, <3>1 DEF Alive, TaskOK
    <2> QED
      BY <1>0, <1>2, <1>3, <2>1, <2>2 DEF TaskOK
  <1>12. AnnouncementsOK'
    <2>1. Shown' <=> Shown
      BY <1>0, <1>3 DEF Shown, Stored
    <2>2. AnnouncementsOK
      BY <1>1 DEF Alive
    <2> QED
      BY <1>0, <1>2, <1>3, <2>1, <2>2 DEF AnnouncementsOK, Canonical
  <1> QED
    BY <1>1, <1>2, <1>5, <1>6, <1>7, <1>8, <1>9, <1>10, <1>11, <1>12 DEF IndInv, Alive

-----------------------------------------------------------------------------
(* The clients *)

\* A step that touches neither the generation nor the bus.
LEMMA ClientKeeps ==
    ASSUME IndInv, UNCHANGED <<mode, disk, up, provider, task, channel, fwd, live, registered, bus,
                               faults, crashes>>,
           cancel' \in BOOLEAN, view' \in [Viewers -> Views], ViewsOK'
    PROVE  IndInv'
  <1>1. Typed' /\ DiskOK' /\ BusOK'
    BY DEF IndInv, Typed, DiskOK, ClosedTogether, BusOK
  <1>2. Dead => Dead'
    BY DEF Dead
  <1>3. ASSUME Alive PROVE Alive'
    <2>1. ChannelOK' /\ DeltasOK'
      BY <1>3 DEF Alive, ChannelOK, DeltasOK
    <2>2. ForwarderOK'
      BY <1>3 DEF Alive, ForwarderOK, Saves
    <2>3. TaskOK'
      <3>1. Finalized' = Finalized /\ Compensated' = Compensated
        BY SameRows
      <3> QED
        BY <1>3, <3>1 DEF Alive, TaskOK
    <2>4. AnnouncementsOK'
      <3>1. Shown' <=> Shown
        BY DEF Shown, Stored
      <3> QED
        BY <1>3, <3>1 DEF Alive, AnnouncementsOK, Canonical
    <2> QED
      BY <1>3, <2>1, <2>2, <2>3, <2>4 DEF Alive
  <1> QED
    BY <1>1, <1>2, <1>3 DEF IndInv

\* A cancellation is only noted.
LEMMA CancelKeeps ==
    ASSUME IndInv, Cancel
    PROVE  IndInv'
  <1>1. /\ UNCHANGED <<mode, disk, up, provider, task, channel, fwd, live, registered, bus, faults,
                       crashes, view>>
        /\ cancel' \in BOOLEAN
    BY DEF Cancel
  <1>2. view \in [Viewers -> Views] /\ ViewsOK
    BY DEF IndInv, Typed
  <1>3. ViewsOK'
    BY <1>1, <1>2, ViewsStay
  <1> QED
    BY <1>1, <1>2, <1>3, ClientKeeps

\* One viewer's stream changes.
LEMMA OneViewKeeps ==
    ASSUME IndInv, NEW v \in Viewers, ViewUnchanged, NEW w \in Views,
           view' = [view EXCEPT ![v] = w], w.why # "sequence",
           w.st \in {"attached", "done"} => Follows(w)
    PROVE  IndInv'
  <1>1. view \in [Viewers -> Views] /\ ViewsOK /\ cancel \in BOOLEAN
    BY DEF IndInv, Typed
  <1>2. view' \in [Viewers -> Views] /\ view'[v] = w
        /\ \A u \in Viewers \ {v} : view'[u] = view[u]
    BY <1>1
  <1>3. /\ UNCHANGED <<mode, disk, up, provider, task, channel, fwd, live, registered, bus, faults,
                       crashes>>
        /\ cancel' = cancel
    BY DEF ViewUnchanged
  <1>4. ASSUME NEW u \in Viewers
        PROVE  /\ view'[u].why # "sequence"
               /\ view'[u].st \in {"attached", "done"} => Follows(view[u])'
    <2>1. CASE u = v
      BY <1>2, <1>3, <2>1 DEF Follows
    <2>2. CASE u # v
      BY <1>1, <1>2, <1>3, <2>2 DEF ViewsOK, Follows
    <2> QED
      BY <2>1, <2>2
  <1>5. ViewsOK'
    BY <1>4 DEF ViewsOK
  <1> QED
    BY <1>1, <1>2, <1>3, <1>5, ClientKeeps

\* A viewer attaches with the prefixes and the receiver of one moment.
LEMMA AttachKeeps ==
    ASSUME IndInv, NEW v \in Viewers, Attach(v)
    PROVE  IndInv'
  <1>0. Typed /\ BusOK
    BY DEF IndInv
  <1>1. live.text \in Seq(AnyPieces) /\ live.reasoning \in Seq(AnyPieces) /\ live.watermark \in Nat
        /\ bus \in Seq(Events) /\ Len(bus) \in Nat
    BY <1>0, Fields DEF Typed
  <1>2. PICK n \in Nat : n = Len(bus) + 1 /\ n - 1 = Len(bus)
    BY <1>1
  <1>3. PICK w \in Views : w = Attached
    <2>1. Attached \in Views
      BY <1>1, <1>2 DEF Attached, Views
    <2> QED
      BY <2>1
  <1>4. /\ w.st = "attached" /\ w.text = live.text /\ w.reasoning = live.reasoning
        /\ w.last = live.watermark /\ w.next = n /\ w.why = "none"
    BY <1>2, <1>3 DEF Attached
  <1>5. Follows(w)
    <2>1. n \in 1 .. Len(bus) + 1 /\ live.watermark <= live.watermark
      BY <1>1, <1>2
    <2>2. \A i \in DOMAIN bus : i < n <=> bus[i].seq <= live.watermark
      <3>1. \A i \in DOMAIN bus : i < n
        BY <1>1, <1>2
      <3> QED
        BY <1>0, <3>1 DEF BusOK
    <2> QED
      BY <1>0, <1>2, <1>4, <2>1, <2>2 DEF Follows, BusOK
  <1>6. ViewUnchanged /\ view' = [view EXCEPT ![v] = w]
    BY <1>3 DEF Attach
  <1> QED
    BY <1>4, <1>5, <1>6, OneViewKeeps

\* A viewer reads the stored message.
LEMMA ReadDurableKeeps ==
    ASSUME IndInv, NEW v \in Viewers, ReadDurable(v)
    PROVE  IndInv'
  <1>1. disk.content \in Pieces
    BY Fields DEF IndInv
  <1>2. Stored \in Seq(AnyPieces)
    <2>1. disk.content \in AnyPieces /\ <<"display", disk.content[2]>> \in AnyPieces
      BY <1>1, Bounds DEF Pieces, AnyPieces
    <2> QED
      BY <2>1 DEF Stored
  <1>3. PICK t \in Seq(AnyPieces) : t = Stored
    BY <1>2
  <1>4. <<>> \in Seq(AnyPieces)
    OBVIOUS
  <1>5. NoView \in Views
    BY <1>4 DEF NoView, Views
  <1>6. PICK w : w = [NoView EXCEPT !.st = "durable", !.text = t]
    OBVIOUS
  <1>7. w \in Views /\ w.st = "durable" /\ w.why = NoView.why
    BY <1>5, <1>6 DEF Views
  <1>8. NoView.why = "none"
    BY DEF NoView
  <1>9. ViewUnchanged /\ view' = [view EXCEPT ![v] = w]
    BY <1>3, <1>6 DEF ReadDurable
  <1> QED
    BY <1>7, <1>8, <1>9, OneViewKeeps

\* A viewer that takes the next event still follows the bus.
LEMMA ReceivedFollows ==
    ASSUME Typed, BusOK, NEW s \in Views, Follows(s), s.why # "sequence", s.next <= Len(bus),
           NEW w, w = Received(s, bus[s.next])
    PROVE  w \in Views /\ w.why = s.why /\ Follows(w)
  <1>1. /\ s.next \in Nat /\ 1 <= s.next /\ s.last \in Nat /\ bus \in Seq(Events) /\ Len(bus) \in Nat
        /\ s.text \in Seq(AnyPieces) /\ s.reasoning \in Seq(AnyPieces)
        /\ DOMAIN bus = 1 .. Len(bus) /\ live.watermark \in Nat
    BY Fields DEF Typed, Views, Follows
  <1>2. s.next \in DOMAIN bus
    BY <1>1
  <1>3. PICK e \in Events : e = bus[s.next]
    BY <1>1, <1>2
  <1>4. e.seq \in Nat /\ e.piece \in AnyPieces
    BY DEF Events
  <1>5. PICK m \in Nat : m = s.next + 1
    BY <1>1
  <1>6. PICK x \in Seq(AnyPieces), y \in Seq(AnyPieces) :
          /\ x = IF e.kind = "text" THEN Append(s.text, e.piece) ELSE s.text
          /\ y = IF e.kind = "reasoning" THEN Append(s.reasoning, e.piece) ELSE s.reasoning
    <2>1. Append(s.text, e.piece) \in Seq(AnyPieces) /\ Append(s.reasoning, e.piece) \in Seq(AnyPieces)
      BY <1>1, <1>4
    <2> QED
      BY <1>1, <2>1
  <1>7. PICK p \in {"attached", "reconcile", "done", "none", "durable"} :
          p = IF e.kind \in Terminal THEN "done" ELSE s.st
    BY DEF Views
  <1>8. w = [s EXCEPT !.st = p, !.last = e.seq, !.next = m, !.text = x, !.reasoning = y]
    BY <1>3, <1>5, <1>6, <1>7 DEF Received
  <1>9. /\ w \in Views /\ w.last = e.seq /\ w.next = m /\ w.text = x /\ w.reasoning = y
        /\ w.why = s.why
    BY <1>4, <1>8 DEF Views
  <1>10. m \in 1 .. Len(bus) + 1 /\ m - 1 = s.next
    BY <1>1, <1>5
  <1>11. e.seq <= live.watermark
    BY <1>2, <1>3 DEF BusOK
  <1>12. ASSUME NEW i \in DOMAIN bus
         PROVE  i < m <=> bus[i].seq <= e.seq
    <2>1. bus[i].seq \in Nat /\ i \in Nat
      <3>1. bus[i] \in Events
        BY <1>1, <1>12
      <3> QED
        BY <1>1, <3>1 DEF Events
    <2>2. CASE i < s.next
      <3>1. bus[i].seq < e.seq
        BY <1>2, <1>3, <2>2 DEF BusOK
      <3> QED
        BY <1>1, <1>4, <1>5, <2>1, <2>2, <3>1
    <2>3. CASE i = s.next
      BY <1>1, <1>3, <1>4, <1>5, <2>3
    <2>4. CASE s.next < i
      <3>1. e.seq < bus[i].seq
        BY <1>2, <1>3, <2>4 DEF BusOK
      <3> QED
        BY <1>1, <1>4, <1>5, <2>1, <2>4, <3>1
    <2> QED
      BY <1>1, <2>1, <2>2, <2>3, <2>4
  <1>13. PICK n \in Nat : n = s.next - 1 /\ n + 1 = s.next
    <2>1. s.next - 1 \in Nat /\ (s.next - 1) + 1 = s.next
      BY <1>1
    <2> QED
      BY <2>1
  <1>14. ConsistsOf(x, bus, "text", s.next)
    <2>1. ConsistsOf(s.text, bus, "text", n) /\ bus[n + 1] = e
      BY <1>3, <1>13 DEF Follows
    <2>2. /\ e.kind = "text" => ConsistsOf(Append(s.text, e.piece), bus, "text", n + 1)
          /\ e.kind # "text" => ConsistsOf(s.text, bus, "text", n + 1)
      BY <1>1, <1>4, <2>1, NextPiece
    <2> QED
      BY <1>6, <1>13, <2>2
  <1>15. ConsistsOf(y, bus, "reasoning", s.next)
    <2>1. ConsistsOf(s.reasoning, bus, "reasoning", n) /\ bus[n + 1] = e
      BY <1>3, <1>13 DEF Follows
    <2>2. /\ e.kind = "reasoning" => ConsistsOf(Append(s.reasoning, e.piece), bus, "reasoning", n + 1)
          /\ e.kind # "reasoning" => ConsistsOf(s.reasoning, bus, "reasoning", n + 1)
      BY <1>1, <1>4, <2>1, NextPiece
    <2> QED
      BY <1>6, <1>13, <2>2
  <1> QED
    BY <1>9, <1>10, <1>11, <1>12, <1>14, <1>15 DEF Follows

\* A viewer receives: the order of the bus never gives it a reason to reload.
LEMMA RecvKeeps ==
    ASSUME IndInv, NEW v \in Viewers, Recv(v)
    PROVE  IndInv'
  <1> DEFINE s == view[v]
  <1>0. Typed /\ BusOK /\ ViewsOK
    BY DEF IndInv
  <1>1. s.st = "attached" /\ s.next <= Len(bus) /\ ViewUnchanged
    BY DEF Recv
  <1>2. s \in Views /\ Follows(s) /\ s.why # "sequence"
    BY <1>0, <1>1 DEF Typed, ViewsOK
  <1>3. ~(bus[s.next].seq <= s.last)
    <2>1. s.next \in DOMAIN bus /\ s.next \in Nat
      <3>1. bus \in Seq(Events) /\ s.next \in 1 .. Len(bus) + 1
        BY <1>0, <1>2 DEF Typed, Follows
      <3> QED
        BY <1>1, <3>1
    <2> QED
      BY <1>2, <2>1 DEF Follows
  <1>4. CASE Len(bus) - s.next + 1 > BusSize
    <2>1. PICK w : w = [s EXCEPT !.st = "reconcile", !.why = "lagged"]
      OBVIOUS
    <2>2. view' = [view EXCEPT ![v] = w]
      BY <1>4, <2>1 DEF Recv, Reconcile
    <2>3. w \in Views /\ w.st = "reconcile" /\ w.why = "lagged"
      BY <1>2, <2>1 DEF Views
    <2> QED
      BY <1>1, <2>2, <2>3, OneViewKeeps
  <1>5. CASE ~(Len(bus) - s.next + 1 > BusSize)
    <2>1. PICK w : w = Received(s, bus[s.next])
      OBVIOUS
    <2>2. view' = [view EXCEPT ![v] = w]
      BY <1>3, <1>5, <2>1 DEF Recv
    <2>3. w \in Views /\ w.why = s.why /\ Follows(w)
      BY <1>0, <1>1, <1>2, <2>1, ReceivedFollows
    <2> QED
      BY <1>1, <1>2, <2>2, <2>3, OneViewKeeps
  <1> QED
    BY <1>4, <1>5

-----------------------------------------------------------------------------
(* Death and the next start *)

\* The process dies.
LEMMA CrashKeeps ==
    ASSUME IndInv, Crash
    PROVE  IndInv'
  <1>0. Typed /\ DiskOK /\ BusOK
    BY DEF IndInv
  <1>1. /\ task \in Tasks /\ fwd \in Forwarders /\ provider \in Providers /\ live \in Lives
        /\ crashes \in Nat
    BY <1>0 DEF Typed
  <1>2. <<>> \in Seq(Events) /\ <<>> \in Seq(AnyPieces) /\ <<>> \in Seq({"text", "reasoning"})
        /\ Len(<<>>) = 0
    OBVIOUS
  <1>3. mode' = mode /\ disk' = disk /\ faults' = faults /\ crashes' = crashes + 1 /\ ~up' /\ ~registered'
        /\ ~cancel' /\ bus' = <<>>
    BY DEF Crash
  <1>4. up' \in BOOLEAN /\ registered' \in BOOLEAN /\ cancel' \in BOOLEAN
    BY DEF Crash
  <1>5. task' \in Tasks /\ task'.pc = "gone" /\ task'.seq = task.seq /\ task'.text = task.text
        /\ task'.reasoning = task.reasoning
    BY <1>1 DEF Crash, Tasks
  <1>6. fwd' \in Forwarders /\ fwd'.pc = "done"
    BY <1>1 DEF Crash, Forwarders
  <1>7. channel' \in Channels /\ channel'.events = <<>>
    BY <1>2 DEF Crash, Channels
  <1>8. provider' \in Providers /\ provider'.queue = <<>>
    BY <1>1, <1>2 DEF Crash, Providers
  <1>9. /\ live' \in Lives /\ live'.phase = "terminal" /\ live'.text = <<>> /\ live'.reasoning = <<>>
        /\ live'.lost = live.lost /\ live'.watermark = live.watermark
    BY <1>1, <1>2 DEF Crash, Lives
  <1>10. view' \in [Viewers -> Views] /\ \A v \in Viewers : view'[v] = NoView
    <2>1. NoView \in Views
      BY <1>2 DEF NoView, Views
    <2> QED
      BY <2>1 DEF Crash
  <1>11. Typed'
    <2>1. crashes' \in Nat /\ Len(channel'.events) <= ChannelSize /\ Len(provider'.queue) <= ProviderQueue
      BY <1>1, <1>2, <1>3, <1>7, <1>8, Bounds
    <2> QED
      BY <1>0, <1>2, <1>3, <1>4, <1>5, <1>6, <1>7, <1>8, <1>9, <1>10, <2>1 DEF Typed
  <1>12. DiskOK'
    BY <1>0, <1>3 DEF DiskOK, ClosedTogether
  <1>13. BusOK'
    <2>1. DOMAIN bus' = {}
      BY <1>3
    <2>2. ConsistsOf(live'.text, bus', "text", Len(bus'))
          /\ ConsistsOf(live'.reasoning, bus', "reasoning", Len(bus'))
      BY <1>2, <1>3, <1>9, NothingCarried
    <2> QED
      BY <1>0, <1>5, <1>9, <2>1, <2>2 DEF BusOK
  <1>14. ViewsOK'
    <2>1. NoView.st = "none" /\ NoView.why = "none"
      BY DEF NoView
    <2> QED
      BY <1>10, <2>1 DEF ViewsOK
  <1>15. Dead'
    BY <1>3, <1>5, <1>6, <1>7, <1>9 DEF Dead
  <1>16. crashes' # 0
    BY <1>1, <1>3
  <1> QED
    BY <1>11, <1>12, <1>13, <1>14, <1>15, <1>16 DEF IndInv

\* The next start closes the generation it finds running.
LEMMA ReopenKeeps ==
    ASSUME IndInv, Reopen
    PROVE  IndInv'
  <1>0. Typed /\ DiskOK /\ BusOK /\ ViewsOK
    BY DEF IndInv
  <1>1. ~up /\ disk' = Recovered /\ up' \in BOOLEAN
        /\ UNCHANGED <<mode, cancel, provider, task, channel, fwd, live, registered, bus, view, faults,
                       crashes>>
    BY DEF Reopen
  <1>2. crashes # 0 /\ crashes > 0 /\ Dead
    BY <1>0, <1>1 DEF IndInv, Alive, Typed
  <1>3. disk \in Disks
    BY <1>0 DEF Typed
  <1>4. disk' \in Disks /\ DiskOK' /\ disk'.gen # "running"
    <2>1. CASE disk.gen # "running"
      <3>1. disk' = disk
        BY <1>1, <2>1 DEF Recovered
      <3> QED
        BY <1>0, <1>1, <1>3, <2>1, <3>1 DEF DiskOK, ClosedTogether
    <2>2. CASE disk.gen = "running"
      <3>1. PICK k \in BOOLEAN : k <=> Checkpointed
        OBVIOUS
      <3>2. PICK m \in {"cancelled", "deleted"} : m = (IF k THEN "cancelled" ELSE "deleted")
        OBVIOUS
      <3>3. PICK o \in SUBSET {"after_generation", "message_committed"} : o = Occurrences(k)
        BY DEF Occurrences
      <3>4. disk' = [disk EXCEPT !.gen = "cancelled", !.msg = m, !.attempt = "completed",
                                 !.occurred = o]
        BY <1>1, <2>2, <3>1, <3>2, <3>3 DEF Recovered, TerminalMessage, Occurrences
      <3>5. /\ disk' \in Disks /\ disk'.gen = "cancelled" /\ disk'.msg = m
            /\ disk'.attempt = "completed" /\ disk'.occurred = o /\ disk'.content = disk.content
        BY <1>3, <3>4 DEF Disks, Statuses
      <3>6. o = Occurrences(m # "deleted")
        BY <3>2, <3>3 DEF Occurrences
      <3>7. m # "pending"
        BY <3>2
      <3> QED
        BY <1>0, <1>1, <3>5, <3>6, <3>7 DEF DiskOK, ClosedTogether, Occurrences
    <2> QED
      BY <2>1, <2>2
  <1>5. Typed'
    BY <1>0, <1>1, <1>4 DEF Typed
  <1>6. BusOK' /\ ViewsOK'
    <2>1. live.watermark <= task'.seq
      BY <1>0, <1>1 DEF BusOK
    <2> QED
      BY <1>0, <1>1, <2>1, BusStays, ViewsStay
  <1>7. Dead'
    BY <1>1, <1>2, <1>4 DEF Dead
  <1> QED
    BY <1>1, <1>2, <1>4, <1>5, <1>6, <1>7 DEF IndInv

-----------------------------------------------------------------------------
(* The theorems *)

\* The invariant holds when the task is spawned.
LEMMA InitKeeps ==
    ASSUME Init
    PROVE  IndInv
  <1>1. <<>> \in Seq(Events) /\ <<>> \in Seq(AnyPieces) /\ <<>> \in Seq({"text", "reasoning"})
        /\ Len(<<>>) = 0 /\ DOMAIN <<>> = {}
    OBVIOUS
  <1>2. NoText \in Pieces /\ NoText[1] = "raw" /\ NoText[2] = 0
    BY Bounds DEF NoText, Pieces
  <1>3. NoView \in Views /\ [NoView EXCEPT !.st = "attached"] \in Views
    BY <1>1 DEF NoView, Views
  <1>4. \A v \in Viewers : /\ view[v] \in Views /\ view[v].text = <<>> /\ view[v].reasoning = <<>>
                           /\ view[v].last = 0 /\ view[v].next = 1 /\ view[v].why = "none"
    <2>1. \A w \in {NoView, [NoView EXCEPT !.st = "attached"]} :
            /\ w.text = <<>> /\ w.reasoning = <<>> /\ w.last = 0 /\ w.next = 1 /\ w.why = "none"
      BY DEF NoView
    <2>2. \A v \in Viewers : view[v] \in {NoView, [NoView EXCEPT !.st = "attached"]}
      BY DEF Init
    <2> QED
      BY <1>3, <2>1, <2>2
  <1>5. view \in [Viewers -> Views]
    BY <1>3 DEF Init
  <1>6. disk \in Disks /\ provider \in Providers /\ task \in Tasks /\ channel \in Channels
        /\ fwd \in Forwarders /\ live \in Lives
    <2>1. disk \in Disks
      BY <1>2 DEF Init, Disks
    <2>2. provider \in Providers
      BY <1>1 DEF Init, Providers
    <2>3. task \in Tasks
      BY DEF Init, Tasks, Running
    <2>4. channel \in Channels
      BY <1>1 DEF Init, Channels
    <2>5. fwd \in Forwarders
      BY DEF Init, Forwarders
    <2>6. live \in Lives
      BY <1>1 DEF Init, Lives
    <2> QED
      BY <2>1, <2>2, <2>3, <2>4, <2>5, <2>6
  <1>7. Typed
    <2>1. Len(provider.queue) <= ProviderQueue /\ Len(channel.events) <= ChannelSize
          /\ task.text + task.reasoning <= MaxOutput
      BY <1>1, Bounds DEF Init
    <2>2. mode \in Modes /\ up \in BOOLEAN /\ cancel \in BOOLEAN /\ registered \in BOOLEAN
          /\ bus = <<>> /\ faults \in Nat /\ crashes \in Nat
      BY DEF Init
    <2> QED
      BY <1>1, <1>5, <1>6, <2>1, <2>2 DEF Typed
  <1>8. DiskOK
    BY DEF Init, DiskOK, ClosedTogether
  <1>9. ConsistsOf(<<>>, <<>>, "text", 0) /\ ConsistsOf(<<>>, <<>>, "reasoning", 0)
    BY NothingCarried
  <1>10. BusOK
    <2>1. bus = <<>> /\ live.text = <<>> /\ live.reasoning = <<>> /\ ~live.lost
          /\ live.watermark = 0 /\ task.seq = 1
      BY DEF Init
    <2> QED
      BY <1>1, <1>9, <2>1 DEF BusOK
  <1>11. ViewsOK
    <2>1. bus = <<>> /\ live.watermark = 0
      BY DEF Init
    <2>2. ASSUME NEW v \in Viewers PROVE Follows(view[v])
      BY <1>1, <1>4, <1>9, <2>1 DEF Follows
    <2> QED
      BY <1>4, <2>2 DEF ViewsOK
  <1>12. ChannelOK
    BY <1>1 DEF Init, ChannelOK
  <1>13. DeltasOK
    BY <1>1 DEF Init, DeltasOK, Deltas
  <1>14. ForwarderOK
    <2>1. ~fwd.dirty /\ fwd.pc = "recv" /\ fwd.text = 0 /\ fwd.saved = 0 /\ fwd.result = "none"
          /\ live.text = <<>> /\ disk.content = NoText /\ channel.receiver /\ task.pc \in Running
      BY DEF Init, Running
    <2>2. 0 - 0 < CheckpointEvery
      BY Bounds
    <2> QED
      BY <1>1, <1>2, <2>1, <2>2 DEF ForwarderOK, NoText
  <1>15. TaskOK
    <2>1. task.pc = "start" /\ registered /\ live.phase = "running" /\ channel.sender
          /\ live.watermark = 0 /\ task.seq = 1 /\ channel.events = <<>> /\ task.text = 0
          /\ task.reasoning = 0 /\ provider.st = "idle" /\ disk.gen = "running"
      BY DEF Init
    <2> QED
      BY <2>1 DEF TaskOK, Finishing
  <1>16. AnnouncementsOK
    BY <1>1 DEF Init, AnnouncementsOK
  <1>17. crashes = 0 /\ up
    BY DEF Init
  <1> QED
    BY <1>7, <1>8, <1>10, <1>11, <1>12, <1>13, <1>14, <1>15, <1>16, <1>17 DEF IndInv, Alive

\* Every step keeps the invariant.
LEMMA NextKeeps ==
    ASSUME IndInv, [Next]_vars
    PROVE  IndInv'
  <1>1. CASE UNCHANGED vars \/ Idle
    <2>1. /\ UNCHANGED <<mode, disk, up, provider, task, channel, fwd, live, registered, bus, faults,
                         crashes, view>>
          /\ cancel' = cancel
      BY <1>1 DEF vars, Idle
    <2>2. ViewsOK /\ view \in [Viewers -> Views] /\ cancel \in BOOLEAN
      BY DEF IndInv, Typed
    <2>3. ViewsOK'
      BY <2>1, <2>2, ViewsStay
    <2> QED
      BY <2>1, <2>2, <2>3, ClientKeeps
  <1>2. CASE ProviderStep
    BY <1>2, ProviderKeeps
  <1>3. CASE RunStep
    BY <1>3, RunRejectedKeeps, RunStartKeeps, RunForwardKeeps, RunStopsKeeps, RunDrainedKeeps DEF RunStep
  <1>4. CASE ForwarderStep
    BY <1>4, FwdEventKeeps, FwdTickKeeps, FwdCheckpointKeeps, FwdCheckpointFailsKeeps DEF ForwarderStep
  <1>5. CASE FinishStep
    <2>1. CASE Announce
      <3>1. task.pc \in {"display", "committed", "terminal"}
        BY <2>1 DEF Announce
      <3> QED
        BY <2>1, <3>1, AnnounceDisplayKeeps, AnnounceEndKeeps
    <2>2. CASE \E in \in BOOLEAN : FinalizeFails(in)
      BY <2>2, FinalizeFailsKeeps
    <2>3. CASE CompensateRefused \/ \E in \in BOOLEAN : CompensateFails(in)
      BY <2>3, CompensateFailsKeeps
    <2>4. CASE Finish \/ FinalizeOk \/ CompensateOk \/ TaskGone
      BY <2>4, FinishKeeps, FinalizeOkKeeps, CompensateOkKeeps, TaskGoneKeeps
    <2>5. CASE Reread \/ RereadFails \/ RereadProjectionFails
      BY <2>5, RereadKeeps
    <2> QED
      BY <1>5, <2>1, <2>2, <2>3, <2>4, <2>5 DEF FinishStep
  <1>6. CASE Cancel \/ Crash \/ Reopen
    BY <1>6, CancelKeeps, CrashKeeps, ReopenKeeps
  <1>7. CASE \E v \in Viewers : Attach(v) \/ ReadDurable(v) \/ Recv(v)
    BY <1>7, AttachKeeps, ReadDurableKeeps, RecvKeeps
  <1> QED
    BY <1>1, <1>2, <1>3, <1>4, <1>5, <1>6, <1>7 DEF Next

\* The task, the forwarder, the bus, the viewers and the rows are consistent
\* in every reachable state: every delta is published, in the channel, or lost
\* with its receiver, and what is announced next is already durable.
THEOREM StreamIsConsistent == Spec => []IndInv
  <1>1. Init => IndInv
    BY InitKeeps
  <1>2. IndInv /\ [Next]_vars => IndInv'
    BY NextKeeps
  <1> QED
    BY <1>1, <1>2, PTL DEF Spec

\* A running generation can be subscribed to or is stranded, no viewer meets a
\* false order (ChatEventStream::recv), raw text stays hidden behind
\* transforms, and the rows close together (finalize.rs).
THEOREM StreamInvTheorem == Spec => []StreamInv
  <1>1. ASSUME IndInv PROVE StreamInv
    <2>0. Typed /\ DiskOK /\ BusOK /\ ViewsOK
      BY <1>1 DEF IndInv
    <2>1. TypeOK
      <3>1. disk \in Disks /\ live.phase \in {"running", "terminal"}
        BY <2>0, Fields DEF Typed
      <3>2. \A v \in Viewers : view[v] \in Views
        BY <2>0 DEF Typed
      <3>3. DOMAIN bus = 1 .. Len(bus)
        BY <2>0 DEF Typed
      <3>4. \A i \in 1 .. Len(bus) : bus[i].kind = "text" => bus[i].piece \in Pieces
        BY <2>0, <3>3 DEF BusOK
      <3> QED
        BY <2>0, <3>1, <3>2, <3>4 DEF Typed, TypeOK, Disks, Views
    <2>2. OnlyLagReconciles
      <3>1. \A v \in Viewers : view[v] \in Views /\ view[v].why # "sequence"
        BY <2>0 DEF Typed, ViewsOK
      <3> QED
        BY <3>1 DEF OnlyLagReconciles, Views
    <2>3. TerminalOrLive
      <3>1. SUFFICES ASSUME up, disk.gen = "running" PROVE Subscribable \/ Stranded
        BY DEF TerminalOrLive
      <3>2. Alive
        BY <1>1, <2>0, <3>1 DEF IndInv, Dead, Typed
      <3>3. CASE task.pc \in {"dropping", "gone"}
        BY <3>1, <3>2, <3>3 DEF Alive, TaskOK, Stranded
      <3>4. CASE task.pc \notin {"dropping", "gone"}
        BY <2>0, <3>1, <3>2, <3>4 DEF Alive, TaskOK, BusOK, Subscribable
      <3> QED
        BY <3>3, <3>4
    <2>4. RawStaysHidden
      <3>1. DOMAIN bus = 1 .. Len(bus)
        BY <2>0 DEF Typed
      <3> QED
        BY <2>0, <3>1 DEF BusOK, DiskOK, RawStaysHidden
    <2> QED
      BY <2>0, <2>1, <2>2, <2>3, <2>4 DEF StreamInv, DiskOK
  <1> QED
    BY <1>1, StreamIsConsistent, PTL

\* What a viewer shows is what the bus carried up to the sequence it has
\* reached, whenever it attached, lagged or reattached
\* (GenerationEventSubscription).
THEOREM ViewIsExactTheorem == Spec => []ViewIsExact
  <1>1. ASSUME IndInv PROVE ViewIsExact
    <2>1. SUFFICES ASSUME NEW v \in Viewers, view[v].st \in {"attached", "done"}
                   PROVE  \E n \in 0 .. Len(bus) :
                            /\ \A i \in 1 .. Len(bus) : i <= n <=> bus[i].seq <= view[v].last
                            /\ ConsistsOf(view[v].text, bus, "text", n)
                            /\ ConsistsOf(view[v].reasoning, bus, "reasoning", n)
      BY DEF ViewIsExact
    <2>2. Follows(view[v]) /\ bus \in Seq(Events)
      BY <1>1, <2>1 DEF IndInv, ViewsOK, Typed
    <2>3. Len(bus) \in Nat /\ DOMAIN bus = 1 .. Len(bus)
      BY <2>2
    <2>4. view[v].next \in 1 .. Len(bus) + 1
      BY <2>2 DEF Follows
    <2>5. PICK n \in 0 .. Len(bus) : n = view[v].next - 1
      BY <2>3, <2>4
    <2>6. \A i \in 1 .. Len(bus) : i <= n <=> i < view[v].next
      BY <2>3, <2>4, <2>5
    <2> QED
      BY <2>2, <2>3, <2>5, <2>6 DEF Follows
  <1> QED
    BY <1>1, StreamIsConsistent, PTL

\* What the bus announced is what the database holds
\* (finish_generation_task), through failing and compensated transactions.
THEOREM AnnouncedIsDurableTheorem == Spec => []AnnouncedIsDurable
  <1>1. ASSUME IndInv PROVE AnnouncedIsDurable
    <2>1. SUFFICES ASSUME up, NEW i \in 1 .. Len(bus)
                   PROVE  LET e == bus[i] IN
                          /\ e.kind = "finished" => disk.gen = "complete" /\ Shown
                          /\ e.kind = "cancelled" => disk.gen = "cancelled"
                          /\ e.kind = "committed" => /\ disk.msg = e.piece[1]
                                                     /\ disk.content = Canonical(e.piece[2])
                          /\ e.kind \in Terminal => i = Len(bus)
      BY DEF AnnouncedIsDurable, Shown
    <2>2. i \in DOMAIN bus /\ bus # <<>> /\ crashes \in Nat
      BY <1>1 DEF IndInv, Typed
    <2>3. AnnouncementsOK
      BY <1>1, <2>2 DEF IndInv, Dead, Alive
    <2> QED
      BY <2>2, <2>3 DEF AnnouncementsOK
  <1> QED
    BY <1>1, StreamIsConsistent, PTL

\* A crash costs fewer than CheckpointEvery deltas of what was shown
\* (partial_checkpoint_due), and nothing is stored that was not shown.
THEOREM LossIsBoundedTheorem == Spec => []LossIsBounded
  <1>1. ASSUME IndInv PROVE LossIsBounded
    <2>1. SUFFICES ASSUME up, disk.msg = "pending", ~mode.defer
                   PROVE  /\ disk.content[2] <= Len(live.text)
                          /\ (mode.preserve /\ fwd.pc = "recv")
                               => Len(live.text) - disk.content[2] < CheckpointEvery
      BY DEF LossIsBounded
    <2>2. Typed /\ disk.gen = "running"
      BY <1>1, <2>1 DEF IndInv, DiskOK, ClosedTogether
    <2>3. ForwarderOK
      BY <1>1, <2>1, <2>2 DEF IndInv, Dead, Alive, Typed
    <2>4. Len(live.text) \in Nat /\ fwd.saved \in Nat
      BY <2>2, Fields
    <2>5. CASE Saves
      <3>1. disk.content[2] <= Len(live.text)
        BY <2>2, <2>3, <2>5 DEF ForwarderOK
      <3>2. ASSUME fwd.pc = "recv" PROVE Len(live.text) - disk.content[2] < CheckpointEvery
        <4>1. disk.content = <<"raw", fwd.saved>> /\ fwd.text = Len(live.text)
              /\ fwd.text - fwd.saved < CheckpointEvery
          BY <2>3, <2>5, <3>2 DEF ForwarderOK
        <4>2. disk.content[2] = fwd.saved
          BY <4>1
        <4> QED
          BY <4>1, <4>2
      <3> QED
        BY <3>1, <3>2
    <2>6. CASE ~Saves
      <3>1. disk.content = NoText /\ ~mode.preserve
        BY <2>1, <2>2, <2>3, <2>6 DEF ForwarderOK, Saves
      <3>2. disk.content[2] = 0
        BY <3>1 DEF NoText
      <3> QED
        BY <2>4, <3>1, <3>2
    <2> QED
      BY <2>5, <2>6
  <1> QED
    BY <1>1, StreamIsConsistent, PTL
=============================================================================

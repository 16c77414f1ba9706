------------------------------- MODULE Viewer -------------------------------
(***************************************************************************)
(* What a browser shows of an arena: a thread that allocates and frees,    *)
(* its events on their way to the server, the snapshot for a client that   *)
(* connects (HeapWalk), and the browser (Frontend).                        *)
(*                                                                         *)
(* The parts between are taken as their own modules show them.  Events are *)
(* broadcast in batches, once each and in order (EventPipeline); a full    *)
(* ring drops them (LocalTracker).  A client is listed when its connection *)
(* is accepted; a batch is posted to it if its session is listed and open, *)
(* its snapshot is posted after it was taken, and messages arrive as       *)
(* posted (WsServer).  One thread allocates, and only its shard has blocks.*)
(***************************************************************************)
EXTENDS HeapWalk, Frontend

CONSTANTS
  MyShard,      \* the shard of the thread's context
  Offsets,      \* where in a shard its allocator may place a block
  UserSize,     \* size the callers ask for
  BlockSize,    \* actual_size of a block
  RingSize,     \* events that fit the ring
  Samplings,    \* values of the option sampling
  MaxOps,       \* bound: allocations and deallocations
  MaxConnects,  \* bound: connections of the client
  MaxImports    \* bound: exports that are imported again

VARIABLES
  live,         \* headers of the blocks handed out
  magic,        \* those whose magic is intact
  stage, freed, \* where the thread is in dealloc_raw, and the block
  ops,
  sampling_,
  pending,      \* events recorded and not yet broadcast
  client,       \* "away", "accepted" (in its handshake), "greeting" (in on_accept),
                \* "taken" (its snapshot) or "ready"
  listed,       \* its session is in sessions_
  inbox,        \* messages posted to the client
  connects, imports,
  lost,         \* history: an event was dropped or left out by sampling
  overtaken,    \* history: a batch was posted before the snapshot
  early,        \* history: the client came before the first allocation
  saved         \* history: the display at the export, and whether the events
                \* exported are all that it shows

heapvars == <<live, magic, stage, freed, ops>>
netvars  == <<client, listed, inbox, connects>>
histvars == <<overtaken, early, saved>>
vars     == <<walkvars, uivars, heapvars, sampling_, pending, lost, netvars, imports, histvars>>

Init ==
  /\ WalkInit /\ UiInit
  /\ live = {} /\ magic = {} /\ stage = "idle" /\ freed = {} /\ ops = 0
  /\ sampling_ \in Samplings /\ pending = <<>> /\ lost = FALSE
  /\ client = "away" /\ listed = FALSE /\ inbox = <<>> /\ connects = 0 /\ imports = 0
  /\ overtaken = FALSE /\ early = FALSE /\ saved = [map |-> {}, whole |-> FALSE]

Raw(b) == b.shard * ShardSize + b.off

\* next_event_id_ before a call that records: every operation has been counted,
\* and a dealloc_raw under way not yet.
next_event_id_ == IF stage = "record" THEN ops - 1 ELSE ops

\* record_alloc and record_dealloc: one event in sampling_ is recorded, unless
\* the ring is full.
Record(kind, off) ==
  LET sampled == (next_event_id_ + 1) % sampling_ = 0
  IN  /\ \/ sampled /\ pending' = Append(pending, [kind |-> kind, off |-> off]) /\ UNCHANGED lost
         \/ (sampled => Len(pending) >= RingSize) /\ lost' = TRUE /\ UNCHANGED pending
      /\ UNCHANGED sampling_

-----------------------------------------------------------------------------
\* alloc_raw under its shard's mutex: the event has the offset in the shard.
Allocate ==
  /\ stage = "idle" /\ ops < MaxOps /\ walking # MyShard
  /\ \E off \in Offsets :
       LET b == [shard |-> MyShard, off |-> off, size |-> UserSize]
       IN  /\ \A d \in live : off + BlockSize <= d.off \/ d.off + BlockSize <= off
           /\ live' = live \cup {b} /\ magic' = magic \cup {b}
           /\ Record("allocate", off)
  /\ ops' = ops + 1
  /\ UNCHANGED <<walkvars, uivars, stage, freed, netvars, imports, histvars>>

\* Mutant: the event is recorded first, and the magic cleared with the free.
DeallocBeginLate(b) ==
  /\ stage = "idle" /\ ops < MaxOps /\ b \in magic
  /\ stage' = "record" /\ freed' = {b}
  /\ ops' = ops + 1
  /\ UNCHANGED <<walkvars, uivars, live, magic, sampling_, pending, lost, netvars, imports, histvars>>

\* dealloc_raw: the magic is cleared,
DeallocBegin(b) ==
  /\ stage = "idle" /\ ops < MaxOps /\ b \in magic
  /\ magic' = magic \ {b}
  /\ stage' = "record" /\ freed' = {b}
  /\ ops' = ops + 1
  /\ UNCHANGED <<walkvars, uivars, live, sampling_, pending, lost, netvars, imports, histvars>>

\* then the event recorded, with the offset in the arena,
DeallocRecord ==
  /\ stage = "record" /\ stage' = "free"
  /\ \E b \in freed : Record("deallocate", Raw(b))
  /\ UNCHANGED <<walkvars, uivars, live, magic, freed, ops, netvars, imports, histvars>>

\* Mutant: the block is freed without its shard's mutex.
DeallocFreeUnlocked ==
  /\ stage = "free" /\ stage' = "idle"
  /\ live' = live \ freed /\ magic' = magic \ freed /\ freed' = {}
  /\ UNCHANGED <<walkvars, uivars, ops, sampling_, pending, lost, netvars, imports, histvars>>

\* then the block freed under its shard's mutex.
DeallocFree ==
  /\ stage = "free" /\ stage' = "idle" /\ walking # MyShard
  /\ live' = live \ freed /\ magic' = magic \ freed /\ freed' = {}
  /\ UNCHANGED <<walkvars, uivars, ops, sampling_, pending, lost, netvars, imports, histvars>>

-----------------------------------------------------------------------------
\* What is_open() of the client's session may return on the batcher thread: not
\* before its handshake is done, and until on_accept has returned perhaps the old
\* value.
Readings ==
  CASE client = "ready" -> {TRUE}
    [] client \in {"greeting", "taken"} -> BOOLEAN
    [] OTHER -> {FALSE}

\* The batcher: a batch of events it drained.  A session that is not open is
\* erased from sessions_.
Broadcast ==
  \E n \in 1 .. Len(pending), open \in Readings :
    /\ pending' = SubSeq(pending, n + 1, Len(pending))
    /\ listed' = (listed /\ open)
    /\ IF listed /\ open
       THEN /\ inbox' = Append(inbox, [type |-> "events", list |-> SubSeq(pending, 1, n)])
            /\ overtaken' = (overtaken \/ client # "ready")
       ELSE UNCHANGED <<inbox, overtaken>>
    /\ UNCHANGED <<walkvars, uivars, heapvars, sampling_, lost, client, connects, imports,
                   early, saved>>

\* The connection is accepted and its session listed; the handshake begins.
\* app.js connects again two seconds after a close.
Accept ==
  /\ client = "away" /\ connects < MaxConnects
  /\ client' = "accepted" /\ listed' = TRUE /\ connects' = connects + 1
  /\ overtaken' = FALSE /\ early' = (ops = 0)
  /\ UNCHANGED <<walkvars, uivars, heapvars, sampling_, pending, lost, inbox, imports, saved>>

\* on_accept: the handshake is done, and the snapshot is begun.
OnAccept ==
  /\ client = "accepted" /\ client' = "greeting" /\ WalkBegin
  /\ UNCHANGED <<uivars, heapvars, sampling_, pending, lost, listed, inbox, connects, imports,
                 histvars>>

Walk ==
  /\ client = "greeting" /\ WalkStep(magic)
  /\ client' = IF walking' = kMaxShards THEN "taken" ELSE client
  /\ UNCHANGED <<uivars, heapvars, sampling_, pending, lost, listed, inbox, connects, imports,
                 histvars>>

PostSnapshot ==
  /\ client = "taken" /\ client' = "ready"
  /\ inbox' = Append(inbox, [type |-> "snapshot", blocks |-> blocks])
  /\ blocks' = {}
  /\ UNCHANGED <<walking, offset, uivars, heapvars, sampling_, pending, lost, listed, connects,
                 imports, histvars>>

\* The handshake fails or the connection ends; the next one has a session of its own.
Close ==
  /\ client \in {"accepted", "ready"} /\ client' = "away" /\ listed' = FALSE /\ inbox' = <<>>
  /\ UNCHANGED <<walkvars, uivars, heapvars, sampling_, pending, lost, connects, imports, histvars>>

Deliver ==
  /\ inbox # <<>> /\ handleMessage(Head(inbox))
  /\ inbox' = Tail(inbox)
  /\ saved' = [saved EXCEPT !.whole = @ /\ ~replaying]
  /\ UNCHANGED <<walkvars, heapvars, sampling_, pending, lost, client, listed, connects, imports,
                 overtaken, early>>

-----------------------------------------------------------------------------
\* Every event recorded has been handled.
AllArrived == stage = "idle" /\ pending = <<>> /\ inbox = <<>> /\ client = "ready"

\* The display was made by the events in the timeline and nothing else.
Whole ==
  /\ AllArrived /\ early /\ ~lost /\ ~overtaken /\ connects = 1 /\ imports = 0
  /\ eventCount = Len(timeline)

ExportImport ==
  /\ imports < MaxImports /\ Import
  /\ imports' = imports + 1
  /\ saved' = [map |-> map, whole |-> Whole]
  /\ UNCHANGED <<walkvars, heapvars, sampling_, pending, lost, netvars, overtaken, early>>

Click(A) ==
  A /\ UNCHANGED <<walkvars, heapvars, sampling_, pending, lost, netvars, imports, histvars>>

Next ==
  \/ Allocate \/ (\E b \in magic : DeallocBegin(b)) \/ DeallocRecord \/ DeallocFree
  \/ Broadcast
  \/ Accept \/ OnAccept \/ Walk \/ PostSnapshot \/ Close \/ Deliver
  \/ ExportImport
  \/ Click(Clear) \/ Click(ReplayStart) \/ Click(ReplayStep) \/ Click(ReplayAbort)

Spec == Init /\ [][Next]_vars

-----------------------------------------------------------------------------
\* While a walk has a shard's mutex, the blocks it has found there are handed
\* out, at the place in the arena it says, whatever words it reads on its way
\* and whoever clears magics meanwhile.
SnapshotSound ==
  \A a \in blocks : a \div ShardSize = walking => a \in {Raw(b) : b \in live}

\* Once all has arrived, a browser whose session is still listed shows no block
\* that was freed, whenever it connected, and one that was there from the start
\* shows just the live blocks; unless an event was lost, a batch overtook the
\* snapshot, or something was replayed.  A browser whose session a broadcast has
\* erased during its handshake gets no more batches and may show freed blocks.
ViewRight ==
  AllArrived /\ listed /\ ~lost /\ ~overtaken /\ imports = 0 =>
    /\ map \subseteq {Raw(b) : b \in live}
    /\ early => map = {Raw(b) : b \in live}

\* Replaying an export brings back what was on display when it was made, if
\* the timeline was whole (the browser was there from the start, every event was
\* recorded and none left the timeline) and no message came in during the replay.
ReplayReproduces ==
  replaying /\ replay_i > Len(events) /\ saved.whole => map = saved.map

\* block_metadata.hpp: "Offset from arena base."  The offset in the event of a
\* first allocation is where in the arena its block is.
OffsetFromArenaBase ==
  ops = 1 => \A k \in 1 .. Len(pending) : pending[k].off \in {Raw(b) : b \in live}
=============================================================================

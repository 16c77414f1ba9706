# Verification of Memory-Mapping-Visualization

TLA+ models of the instrumented allocator, the arena around it, its event
pipeline, WebSocket server and browser view, and the programs that use them, with
TLC runs on small instances and TLAPS proofs for all instances.
Paths below are relative to the repository.

## The system

| Part | State | Operations |
|---|---|---|
| `FreeListAllocator` (`src/allocator/free_list.*`) | red-black tree of free blocks by address, eight LIFO lists of small blocks, `allocated_`, `free_blocks_` | `allocate`, `deallocate` |
| Its tree | nodes inside the free memory, `root_`, `nil_`, colours, `subtree_max` | `insert_node`, `delete_node`, rotations, fixups, `find_first_fit`, `successor`, `predecessor`, `verify_tree` |
| `LocalTracker` / `RingBuffer` (`src/tracker/tracker.hpp`) | ring of events, `head_`, `tail_`, `next_event_id_` | `record_alloc`, `record_dealloc`, `push`, `pop`, `drain_to` |
| `WsServer` / `WsSession` (`src/server/ws_server.*`) | `sessions_`, per session `is_websocket_` and socket, handlers in `io_context` | accept, upgrade, `on_accept`, `on_read`, `send`, `broadcast`, `stop` |
| `VisualizationArena` (`src/interface/visualization_arena.*`) | 256 shards (mutex and allocator), thread-local contexts, generation, batcher | `create`, move, destroy, `alloc_raw`, `dealloc_raw`, `snapshot_json`, `event_log_json` |
| `Arena`, `TrackedResource` | the mapped region; `next_tag_` | map, unmap, `do_allocate`, `do_deallocate` |
| Reports (`cache_analyzer`, `padding_inspector`) | none | pure functions of a block list |
| `main.cpp` | `g_stress_running`, detached stress threads | `stress_test`, `stop` commands |
| Simulation (`src/simulation/`) | streams, metrics, traffic pattern | request handling, generation, metrics |
| Frontend (`web/app.js`) | block map, event list, replay | snapshot, event, export, import, replay |

A thread calls `alloc_raw`, which takes its shard's lock and calls `allocate`;
the event goes into the thread's ring.  Every 16 ms the batcher thread drains
all rings under `contexts_mutex` and broadcasts a batch.  The server thread
posts a snapshot to each new client and writes posted messages.

What is hard: long sequences of splits and merges; tree fixups in shapes no
test builds; a lock-free ring whose indices are seen late; a magic number checked
and cleared without the lock that guards the block; thread-local contexts that
outlive their arena; a broadcast that falls into a handshake; a snapshot taken
while blocks go away, and a browser that must make one picture of both.

## Modules

* `AllocatorContract` - what callers of the allocator rely on.
* `FreeList` - the allocator with the tree as a set of blocks.  Variables have
  the names of the members; `live` is what callers hold.  `AllocateSmall`,
  `AllocateTree` (with `Carve`) and `AllocateFails` are the exits of `allocate`;
  `DeallocateSmall`, `DeallocateLarge` and `DeallocateRejected` those of
  `deallocate`.  Blocks are given back with their actual size, as `dealloc_raw`
  does.
* `RBTreeOps` - the tree's member functions as operators on a record of all
  node fields; left and right versions share one operator with a side.
* `RBTree` - all sequences of insertions, removals and growth.
* `FreeListTree` - the allocator making its calls on that tree.
* `EventChannel` - a bounded FIFO channel; `LocalTracker` - the tracker and its
  ring.  `head_seen` and `tail_seen` say how many stores the other side can see.
* `VisualizationArena` - arenas, shards and threads.  `alloc_raw` is two steps
  (the thread's context, then everything under the shard's mutex), `dealloc_raw`
  three: the magic is checked (`DeallocBegin`), cleared (`DeallocClear`), and the
  block given back (`DeallocFree`).  A pointer may be given back a second time
  once its magic is cleared (`DeallocAgain`).  Every shard is an instance of
  `AllocatorContract`.
* `EventPipeline` - the contexts' rings, the batcher, `event_log_json` and the
  destructor's join.
* `HeapWalk` - `snapshot_json`, header by header under one shard's mutex after
  the other.  `Frontend` - the block map, timeline, export, import and replay of
  `web/app.js`.  `Viewer` - one thread, its events (sampled, and dropped by a full
  ring), a client that is accepted, greeted and comes back, the walk and the
  browser together.  As in `WsServer` the session is listed at its accept, and a
  broadcast that finds it not open erases it.
* `WsServer` - sessions, the handler queue and the batcher's broadcasts.
  `on_accept` is three steps (flag set, snapshot taken, snapshot posted), since
  the batcher can run between them.  `is_websocket_` is not atomic; `Readings`
  lets the batcher read an old value if `StaleReads` is set.  It is in
  `ws_server` and in the proofs; the two runs that show a disagreement are without
  it, so that they do not rest on the data race.
* `StressControl` - the commands of `main.cpp` and the threads they start.
* `Simulation` - traffic patterns, requests with their buffers, metrics.
* `Reports` - cache and padding reports as operators on a list of blocks.
* `MC...` - the modules TLC runs; `...Proofs` - theorems.

How they fit: `FreeListTree` implements `FreeList`, which implements
`AllocatorContract`, by which `VisualizationArena` takes its shards.
`LocalTracker` implements `EventChannel`, the ring of `EventPipeline`.  `Viewer`
assumes of the pipeline and of the server what `EventPipeline` and `WsServer`
show: events once and in order, and for a listed client no gap.

## Runs

| Run | Shows | States |
|---|---|---|
| `free_list` | blocks tile the region, tree blocks never touch, counters of bytes are exact, the contract is kept; the reports on these blocks agree with a count of bytes | 6 342 |
| `free_list_tree` | the pointer tree implements `FreeList`; the search fails only when nothing fits | 84 156 |
| `rb_tree` | order, balance, `subtree_max`, first fit, neighbours; `verify_tree` never aborts | 105 979 |
| `local_tracker` | no slot race, FIFO, drops only when full, everything drained | 11 781 |
| `ws_server` | listed clients miss nothing, order kept, delivery | 284 556 |
| `arena` | no abort, magics match the blocks handed out, callers' bytes apart, each thread on its own arena, shards used by contract; callers do not give one pointer back on two threads at once | 182 937 |
| `viewer` | a snapshot lists no free block, a browser that stays listed shows no freed block, replay reproduces an export | 1 368 811 |
| `programs` | events in order and broadcast; a stop ends the stress threads there are; the simulation ends, counts each request once and returns its buffers | 113 938 |
| `free_list_alignment` | disagreement: a popped small block ignores the alignment | - |
| `ws_server_listed` | disagreement: a client in its handshake is dropped by a broadcast | - |
| `ws_server_snapshot` | disagreement: a batch can overtake the snapshot | - |
| `viewer_offset` | disagreement: outside the first shard an allocation event has the offset in the shard, not in the arena | - |

`programs` puts three independent programs into one state space: the first state
chooses which of them runs.

`MagicIsLive` and `ShardsKeepContract` hold under a condition on callers: no two
threads give the same pointer back at once.  The check and the clearing of the
magic are not one step, so two such calls can both pass the check, and the block
would go back twice; the model leaves them out.  What the two properties show is
that all else is safe without the lock: other calls that allocate and free in the
same shard between the check, the clearing and the free, and a second give-back
once the magic is cleared.

`ViewRight` has conditions, and each is a way the display goes wrong: an event
left out by sampling or dropped by a full ring, a batch that overtakes the
snapshot, a session erased by a broadcast during its handshake (such a browser
gets its snapshot and no batch, and goes on showing blocks that are freed), a
replay.  Of a browser that connects late it says only that nothing freed is shown:
the walk of `snapshot_json` goes on by the size the caller asked for, so that it
loses its way behind the first block and leaves out blocks that are there.  It is
checked for one allocating thread and the first shard, where events and snapshots
agree on offsets; events of two threads have no common order in the code.
`ReplayReproduces` is about an export of a whole timeline, with no message during
the replay.

`FlagObeyed` speaks of the time from a stop to the next test.  A test that is
started within the 10 ms for which a thread of the stopped one sleeps finds that
thread still going: it goes on with the new test, and the first to finish ends
both, since there is one flag for all.

Bounds.  The 448-byte region holds three large blocks, and with `Base` 16 an
alignment of 64 leaves a gap for a list and one of 256 a gap for the tree.
`free_blocks_` drifts without end once aligned requests are made, because the
gap before an aligned block is not counted; it is kept modulo `Modulus`, 2 in
the runs, and only its range is checked.  A delete fixup that moves up past a black
parent takes ten nodes; all other cases of both fixups happen with eight.  One
of the ten may be large; searches among several large blocks are made in
`free_list_tree`.  A ring of three slots goes round twice in six sampled events.
Two clients and three batches put batches before, into and after a handshake.
Two arenas, one after or beside the other, two objects and four calls let a
thread come back with a context of an arena that is gone, and let two threads
free blocks of one shard.  A shard of 64 bytes holds one or two blocks.  In
`viewer` three allocations and deallocations and two connections put a free
before, into and after a walk, a batch into the handshake, and a timeline of two
events overflows; `Samplings` has the rates 1 and 2.  Ten
requests make every traffic pattern take several turns.

Fairness.  The batcher loops while the arena runs and an atomic store becomes
visible in finite time, so draining, flushing and `SeeHead` are weakly fair; who
holds `contexts_mutex` gives it back.  A stress thread that was started runs, and
the simulation is one thread that nothing blocks.  The server thread finishes
`on_accept` and runs posted handlers; this assumes that clients read what is
written to them, because `ws_.write` is synchronous.  A client that does not read
blocks the server, and `Delivered` says nothing of that case.  Nothing is assumed
of application threads, clients, commands or the user.

## Proofs

`FreeListProofs`, for every region, request set and alignment set: type
correctness, `Disjoint`, `Covered`, `WellFormed`, `Coalesced`, `Accounting`,
`WholeAgain`, and that `FreeList` implements `AllocatorContract`.  They rest
on one another: exact counting, for one, needs that blocks do not overlap.  The
inductive invariant says that tree, lists and callers tile the region (no
overlap, full cover, on the quantum), that tree blocks do not touch, that no
list holds a block twice, and that `allocated_` is the number of bytes callers
hold.  Coalescing needs the tiling: a merged block may touch no third one.
Assumed: base and size are multiples of 16, the size holds a header, alignments
above 16 are multiples of 16.

`LocalTrackerProofs`, for every ring size and sampling rate: type correctness,
`NoSlotRace`, `DropsOnlyWhenFull` and that the tracker implements
`EventChannel`.  The invariant ties both indices to the lengths of the accepted
and drained sequences modulo `N`, bounds what is in flight by `N - 1`, and says
which event each slot in use holds.

`ArenaMemoryProofs` (the invariant, arenas and allocation) and
`VisualizationArenaProofs` (deallocation and the theorems), for any threads, objects, arenas, shards, sizes and
alignments: `NeverAborts`, `MagicIsLive`, `CallersSafe`, `OwnArena` and
`ShardsKeepContract`.  None is inductive alone.  The invariant adds that the
blocks of a shard lie in it and apart (`BlocksSound`), that the locals of a call
in progress belong to an arena that is there (`CallsSound`), that an arena has
one object and its resource leads there (`ObjectsSound`), that a caller's
footer leads to a header of a block that nobody is giving back
(`PointersSound`), and that a call between its check and its clearing has found a
header that no caller's pointer leads to any more (`ClaimsSound`).  The heart is
`MagicIsLive`: magics stand exactly in front of blocks handed out and not yet
cleared, and what one call has checked no other call clears, so that one
`dealloc_raw` per block reaches the shard, which is what its contract asks for.
That a pointer is given back on one thread at a time is part of the model, by
which `DeallocBegin` takes it from its holder.
Assumed: a positive shard size and overhead, at least one shard.

`WsQueueProofs` (the invariant, and a session's own steps) and `WsServerProofs`
(broadcasts, posted handlers and the theorems), for any clients and any number of broadcasts: `NothingMissed`
and `InOrder`.  The invariant follows a session through `on_accept`: nothing is
sent before the handshake and no snapshot before its end (`NotYet`); what is
sent to a listed client has no gap and reaches up to the last batch (`NoGap`); in
between taking and posting the snapshot, every batch the snapshot lacks is on
its way (`SnapshotCurrent`); and what is queued comes after what is written
(`Ordered`).  `NoGap` leaves out closed clients, whose messages are dropped.

`EventPipelineProofs`, for any contexts and ring sizes: `InIdOrder`.  The
invariant says that log, batch, ring and the next id of a context follow one
another in this order.  `SimulationProofs`, for any request counts, burst sizes
and latencies: `BuffersReturned` and `CountedOnce`.  The invariant says for each
place in `handle_request` which buffers are held, and that requests counted, in
the current batch and remaining add up to the total.

Only model-checked: liveness; everything about the red-black tree, whose
operators are recursive; the composed `Viewer`, `StressControl` and the reports;
percentiles.

## Not modelled

* `allocate` sizes that wrap in `size_t`, blocks above 1 GiB, and `deallocate`
  with a size other than the actual one, which the code aborts on or misfiles.
* Totals and tags in snapshots and events, times, byte sums of the metrics, and
  the circular log of allocator operations: output that nothing reads back.
* JSON formatting, command lines, file serving, drawing and statistics in the
  browser: pure input and output.  The benchmarks only call modelled parts.
* The older stress functions of `main.cpp`, which nothing calls.
* A thread that gives back a block of an arena while another destroys that
  arena, which the callers have to rule out: `Destroy` waits for calls to end.
* Two overlapping calls of `dealloc_raw` on one pointer, likewise left to the
  callers.
* The event that `dealloc_raw` records through a context it has not compared with
  the arena's generation: `VisualizationArena` has no events, and `EventPipeline`
  and `Viewer` have one arena.

## Disagreements without a run

Between the repository's words and its code, seen while modelling; the code is
what the modules follow.

* `src/interface/visualization_arena.cpp:509` clears the magic "to prevent double
  free".  It does so for calls one after the other; two overlapping calls can both
  pass the check of line 505.
* The repository's `README.md:151-158` shows `padding_report()` and `cache_report()` of an arena
  with results; both return an empty report (`visualization_arena.cpp:556`, `:558`).
  `Reports` models the functions that compute them, which the facade does not call.
* The repository's `README.md:103` says that an export has all recorded events; the list that is
  exported is cut to 200 (`web/app.js:265`).
* `src/interface/visualization_arena.hpp:139` promises the full event history;
  `event_log_json` returns what has not been broadcast yet, since the batcher
  takes the events it sends.
* `src/interface/visualization_arena.hpp:59` says that allocations are not
  synchronized; `alloc_raw` and `dealloc_raw` take the shard's mutex.  The model
  has several threads allocate at once, as `main.cpp` and the benchmarks do.

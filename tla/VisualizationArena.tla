------------------------- MODULE VisualizationArena -------------------------
(***************************************************************************)
(* The facade (interface/visualization_arena.cpp) as its callers see it:   *)
(* arenas cut into shards with one lock each, the thread-local context     *)
(* that ties a thread to a shard of an arena, the header and the footer    *)
(* alloc_raw writes around a caller's bytes and dealloc_raw finds them by, *)
(* and creation, move and destruction of the objects.                      *)
(*                                                                         *)
(* An arena is named by its generation.  A shard's allocator is taken by   *)
(* its contract (AllocatorContract), and what is done under a shard's      *)
(* mutex is one step.  The thread-local tls_context_ is static: arenas     *)
(* share it.  What becomes of the events recorded here is EventPipeline.   *)
(***************************************************************************)
EXTENDS Integers

CONSTANTS
  Threads,      \* application threads
  Handles,      \* VisualizationArena objects, between which an Impl moves
  MaxArenas,    \* bound: arenas created
  kMaxShards,
  ShardSize,    \* bytes of a shard
  Overhead,     \* sizeof(AllocationHeader) + sizeof(std::uint32_t)
  Sizes, Alignments,  \* arguments of alloc_raw
  Slack,        \* bytes by which a shard's allocator may exceed a request
  None,         \* a null pointer
  MaxCalls      \* bound: calls of alloc_raw and dealloc_raw, moves

Arenas   == 1 .. MaxArenas
Shards   == 0 .. kMaxShards - 1
Capacity == kMaxShards * ShardSize
Granules == {x \in 0 .. ShardSize : x % 16 = 0}
Blocks   == [off : Granules, size : Granules]

ASSUME ArenaAssumption ==
  /\ MaxArenas \in Nat /\ MaxCalls \in Nat
  /\ kMaxShards \in Nat \ {0} /\ ShardSize \in Nat \ {0}
  /\ Overhead \in Nat \ {0} /\ Slack \in Nat
  /\ Sizes \subseteq Nat /\ Alignments \subseteq Nat
  /\ None \notin Handles /\ None \notin [generation : Arenas, shard : Shards]

VARIABLES
  arena,            \* "none", "up" or "down"
  holder,           \* the object whose impl_ the arena is
  resource,         \* resource->arena_
  next_shard_idx,
  live, allocated_, \* of each shard's allocator
  header,           \* the headers with an intact magic
  footer,           \* the words in front of callers' bytes: address, distance
  pointers,         \* what callers hold
  tls_context_,
  pc, job,          \* where a thread is in its call, and its locals
  calls

life   == <<arena, holder, resource>>
memory == <<header, footer, pointers>>
shards == <<live, allocated_>>
thread == <<tls_context_, next_shard_idx, pc, job>>
vars   == <<life, memory, shards, thread, calls>>

NoJob == [arena |-> 0, size |-> 0, alignment |-> 0, raw |-> 0, actual_size |-> 0]

Init ==
  /\ arena = [g \in Arenas |-> "none"]
  /\ holder = [g \in Arenas |-> None]
  /\ resource = [g \in Arenas |-> None]
  /\ live = [g \in Arenas |-> [s \in Shards |-> {}]]
  /\ allocated_ = [g \in Arenas |-> [s \in Shards |-> 0]]
  /\ header = [g \in Arenas |-> {}] /\ footer = [g \in Arenas |-> {}]
  /\ pointers = {}
  /\ next_shard_idx = [g \in Arenas |-> 0]
  /\ tls_context_ = [t \in Threads |-> None]
  /\ pc = [t \in Threads |-> "idle"] /\ job = [t \in Threads |-> NoJob]
  /\ calls = 0

-----------------------------------------------------------------------------
\* Arena::create maps the region, ~Arena unmaps it.
MapRegion(g)   == arena' = [arena EXCEPT ![g] = "up"]
UnmapRegion(g) == arena' = [arena EXCEPT ![g] = "down"]

\* create: a new generation; the resource points to the object returned.
Create(g, h) ==
  /\ arena[g] = "none" /\ \A f \in Arenas : f < g => arena[f] # "none"
  /\ h \notin {holder[f] : f \in Arenas}
  /\ MapRegion(g)
  /\ holder' = [holder EXCEPT ![g] = h]
  /\ resource' = [resource EXCEPT ![g] = h]
  /\ UNCHANGED <<memory, shards, thread, calls>>

\* No call on arena g is under way.
Quiet(g) == \A t \in Threads : job[t].arena # g

Target(g, h) == arena[g] = "up" /\ Quiet(g) /\ h \notin {holder[f] : f \in Arenas}

\* Move construction; and move assignment, after the Destroy of the arena the
\* target object had.
Move(g, h) ==
  /\ Target(g, h) /\ calls < MaxCalls
  /\ calls' = calls + 1
  /\ holder' = [holder EXCEPT ![g] = h]
  /\ resource' = [resource EXCEPT ![g] = h]
  /\ UNCHANGED <<arena, memory, shards, thread>>

\* The destructor: Impl and the mapping go away with all that callers held.
Destroy(g) ==
  /\ arena[g] = "up" /\ Quiet(g)
  /\ UnmapRegion(g)
  /\ holder' = [holder EXCEPT ![g] = None]
  /\ resource' = [resource EXCEPT ![g] = None]
  /\ pointers' = {p \in pointers : p.arena # g}
  /\ UNCHANGED <<header, footer, shards, thread, calls>>

-----------------------------------------------------------------------------
\* Mutant: any context will do, whatever arena it was made for.
StaleNever(t, g) == tls_context_[t] = None

Stale(t, g) == tls_context_[t] = None \/ tls_context_[t].generation # g

\* Shards are given to threads in turn.
init_tls_context(t, g) ==
  /\ next_shard_idx' = [next_shard_idx EXCEPT ![g] = @ + 1]
  /\ tls_context_' = [tls_context_ EXCEPT ![t] =
       [generation |-> g, shard |-> next_shard_idx[g] % kMaxShards]]

\* The call of alloc_raw: a context of another arena is replaced.
AllocBegin(t, g, size, alignment) ==
  /\ pc[t] = "idle" /\ calls < MaxCalls /\ arena[g] = "up"
  /\ calls' = calls + 1
  /\ job' = [job EXCEPT ![t] = [NoJob EXCEPT !.arena = g, !.size = size, !.alignment = alignment]]
  /\ pc' = [pc EXCEPT ![t] = "allocate"]
  /\ IF Stale(t, g) THEN init_tls_context(t, g) ELSE UNCHANGED <<next_shard_idx, tls_context_>>
  /\ UNCHANGED <<life, memory, shards>>

\* The arena that the resource of arena g allocates from and frees to.
Through(g) == {h \in Arenas : resource[g] = holder[h]}

\* TrackedResource::do_allocate goes through the object resource points to,
do_allocate(t, g, size, alignment) ==
  \E h \in Through(g) : AllocBegin(t, h, size, alignment)

\* Where the caller's bytes start, behind header, padding and footer.
OffsetToUser(alignment) ==
  Overhead + IF alignment > 0 /\ Overhead % alignment # 0
             THEN alignment - (Overhead % alignment)
             ELSE 0

\* Mutant: the padding in front of the caller's bytes is not asked for.
TotalUnpadded(size, alignment) == size + Overhead

Total(size, alignment) == size + OffsetToUser(alignment)

Apart(b, c) == b.off + b.size <= c.off \/ c.off + c.size <= b.off

\* What a shard's allocate may answer a request for total bytes with.
Answers(blocks, total) ==
  {b \in Blocks :
     /\ b.size > 0 /\ b.size >= total /\ b.size <= total + Slack
     /\ b.off + b.size <= ShardSize
     /\ \A c \in blocks : Apart(b, c)}

\* Mutant: shards counted from the end of the arena.
ShardFromEnd(raw) ==
  IF raw \in 0 .. Capacity - 1 THEN (Capacity - 1 - raw) \div ShardSize ELSE kMaxShards

\* The clamp to the last shard never acts: Capacity is kMaxShards shards.
get_shard_idx(raw) ==
  IF raw \in 0 .. Capacity - 1 THEN raw \div ShardSize ELSE kMaxShards

\* The call is over, or the process is.
Return(t) == pc' = [pc EXCEPT ![t] = "idle"] /\ job' = [job EXCEPT ![t] = NoJob]
Abort(t)  == pc' = [pc EXCEPT ![t] = "abort"] /\ UNCHANGED job

\* Header and footer are written and the caller's bytes cleared; what was
\* there before is gone.
Write(g, raw, actual_size, user, size) ==
  /\ header' = [header EXCEPT ![g] = @ \cup {[raw |-> raw, actual_size |-> actual_size]}]
  /\ footer' = [footer EXCEPT ![g] =
       {f \in @ : f.user <= raw \/ raw + actual_size < f.user}
         \cup {[user |-> user, distance |-> user - raw]}]
  /\ pointers' = pointers \cup {[arena |-> g, user |-> user, size |-> size]}

\* The shard of the context is locked and its allocator answers with b.
\* "FATAL: Shard Mismatch!" is an abort.
Allocate(t, b) ==
  LET j   == job[t]
      g   == tls_context_[t].generation
      s   == tls_context_[t].shard
      raw == s * ShardSize + b.off
  IN  /\ pc[t] = "allocate"
      /\ b \in Answers(live[g][s], Total(j.size, j.alignment))
      /\ live' = [live EXCEPT ![g][s] = @ \cup {b}]
      /\ allocated_' = [allocated_ EXCEPT ![g][s] = @ + b.size]
      /\ IF get_shard_idx(raw) # s
         THEN Abort(t) /\ UNCHANGED memory
         ELSE Write(g, raw, b.size, raw + OffsetToUser(j.alignment), j.size) /\ Return(t)
      /\ UNCHANGED <<life, tls_context_, next_shard_idx, calls>>

\* allocate may fail: nullptr.
AllocateFails(t) ==
  /\ pc[t] = "allocate"
  /\ Return(t)
  /\ UNCHANGED <<life, memory, shards, tls_context_, next_shard_idx, calls>>

-----------------------------------------------------------------------------
\* The intact header that the footer in front of user leads to.
HeaderOf(g, user) ==
  {h \in header[g] : \E f \in footer[g] : f.user = user /\ h.raw = user - f.distance}

\* dealloc_raw up to the check of the magic, made without a lock: the footer leads
\* to the header.  The caller gives the pointer up with the call.
DeallocBegin(t, p) ==
  \E h \in HeaderOf(p.arena, p.user) :
    /\ pc[t] = "idle" /\ calls < MaxCalls /\ arena[p.arena] = "up"
    /\ calls' = calls + 1
    /\ pointers' = pointers \ {p}
    /\ job' = [job EXCEPT ![t] = [NoJob EXCEPT !.arena = p.arena, !.size = p.size, !.raw = h.raw]]
    /\ pc' = [pc EXCEPT ![t] = "clear"]
    /\ UNCHANGED <<life, shards, header, footer, tls_context_, next_shard_idx>>

\* and so does do_deallocate.
do_deallocate(t, p) == p.arena \in Through(p.arena) /\ DeallocBegin(t, p)

Checked(t, h) == pc[t] = "clear" /\ h \in header[job[t].arena] /\ h.raw = job[t].raw

Take(t, actual_size) ==
  /\ job' = [job EXCEPT ![t].actual_size = actual_size]
  /\ pc' = [pc EXCEPT ![t] = "free"]
  /\ UNCHANGED <<life, shards, footer, pointers, tls_context_, next_shard_idx, calls>>

\* Mutant: the size given back is the one the caller names.
DeallocBySize(t, h) ==
  /\ Checked(t, h) /\ Take(t, job[t].size)
  /\ header' = [header EXCEPT ![job[t].arena] = @ \ {h}]

\* Mutant: the magic stays.
DeallocKeepsMagic(t, h) == Checked(t, h) /\ Take(t, h.actual_size) /\ UNCHANGED header

\* The magic is cleared, also without a lock, and actual_size read.  That the
\* header is still there is part of MagicIsLive.
DeallocClear(t, h) ==
  /\ Checked(t, h) /\ Take(t, h.actual_size)
  /\ header' = [header EXCEPT ![job[t].arena] = @ \ {h}]

\* dealloc_raw of a pointer given back before, while its block is not in use
\* again: there is no magic, and the call returns.  Callers do not give one
\* pointer back on two threads at once: a second call that makes its check
\* between the check and the clearing of the first passes it as well, and is left
\* out here.
DeallocAgain(t, g) ==
  /\ pc[t] = "idle" /\ calls < MaxCalls /\ arena[g] = "up"
  /\ \E f \in footer[g] : HeaderOf(g, f.user) = {}
  /\ calls' = calls + 1
  /\ UNCHANGED <<life, memory, shards, thread>>

contains(s, raw) == s * ShardSize <= raw /\ raw < (s + 1) * ShardSize

\* The shard of get_shard_idx, or else what the search over all shards finds.
OwnerOf(raw) ==
  LET idx == get_shard_idx(raw)
  IN  IF contains(idx, raw) THEN {idx} ELSE {s \in Shards : contains(s, raw)}

\* The rest of dealloc_raw: the shard is found and locked, and its allocator
\* takes the block back.  An address outside the arena is ignored; "FATAL: No
\* shard owns pointer" is an abort.
DeallocFree(t) ==
  LET g == job[t].arena
      b(s) == [off |-> job[t].raw - s * ShardSize, size |-> job[t].actual_size]
  IN  /\ pc[t] = "free"
      /\ IF get_shard_idx(job[t].raw) >= kMaxShards THEN Return(t) /\ UNCHANGED shards
         ELSE IF OwnerOf(job[t].raw) = {} THEN Abort(t) /\ UNCHANGED shards
         ELSE \E s \in OwnerOf(job[t].raw) :
                /\ live' = [live EXCEPT ![g][s] = @ \ {b(s)}]
                /\ allocated_' = [allocated_ EXCEPT ![g][s] = @ - b(s).size]
                /\ Return(t)
      /\ UNCHANGED <<life, memory, tls_context_, next_shard_idx, calls>>

-----------------------------------------------------------------------------
CallStep(t) ==
  \/ \E g \in Arenas, size \in Sizes, alignment \in Alignments :
       AllocBegin(t, g, size, alignment) \/ do_allocate(t, g, size, alignment)
  \/ \E b \in Blocks : Allocate(t, b)
  \/ AllocateFails(t)
  \/ \E p \in pointers : DeallocBegin(t, p) \/ do_deallocate(t, p)
  \/ \E h \in UNION {header[g] : g \in Arenas} : DeallocClear(t, h)
  \/ \E g \in Arenas : DeallocAgain(t, g)
  \/ DeallocFree(t)

ObjectStep(g) ==
  \/ \E h \in Handles : Create(g, h) \/ Move(g, h)
  \/ Destroy(g)

Next == (\E t \in Threads : CallStep(t)) \/ (\E g \in Arenas : ObjectStep(g))

Spec == Init /\ [][Next]_vars

-----------------------------------------------------------------------------
Jobs == [arena : Arenas \cup {0}, size : Sizes \cup {0}, alignment : Alignments \cup {0},
         raw : Nat, actual_size : Nat]

\* Every variable has its type, as the members of Impl and ThreadContext and
\* the locals of alloc_raw and dealloc_raw have theirs.
TypeOK ==
  /\ arena \in [Arenas -> {"none", "up", "down"}]
  /\ holder \in [Arenas -> Handles \cup {None}] /\ resource \in [Arenas -> Handles \cup {None}]
  /\ live \in [Arenas -> [Shards -> SUBSET Blocks]]
  /\ allocated_ \in [Arenas -> [Shards -> Int]]
  /\ header \in [Arenas -> SUBSET [raw : Nat, actual_size : Nat]]
  /\ footer \in [Arenas -> SUBSET [user : Nat, distance : Nat]]
  /\ pointers \subseteq [arena : Arenas, user : Nat, size : Sizes]
  /\ next_shard_idx \in [Arenas -> Nat]
  /\ tls_context_ \in [Threads -> [generation : Arenas, shard : Shards] \cup {None}]
  /\ pc \in [Threads -> {"idle", "allocate", "clear", "free", "abort"}]
  /\ job \in [Threads -> Jobs] /\ calls \in 0 .. MaxCalls

\* Neither the shard check of alloc_raw nor the search of dealloc_raw ever
\* aborts: addresses, shards and contexts agree, whichever thread frees what.
NeverAborts == \A t \in Threads : pc[t] # "abort"

HeaderAt(s, b) == [raw |-> s * ShardSize + b.off, actual_size |-> b.size]
HeaderIn(j)    == [raw |-> j.raw, actual_size |-> j.actual_size]
Clearing(t, g) == pc[t] = "clear" /\ job[t].arena = g
Freeing(t, g)  == pc[t] = "free" /\ job[t].arena = g
Taking(t, g)   == Clearing(t, g) \/ Freeing(t, g)
BeingFreed(g)  == {HeaderIn(job[t]) : t \in {u \in Threads : Freeing(u, g)}}
HandedOut(g)   == UNION {{HeaderAt(s, b) : b \in live[g][s]} : s \in Shards}

\* As long as callers do not give one pointer back on two threads at once, what
\* dealloc_raw does to headers without the shard's lock is safe against all
\* other calls.  A magic stands in front of exactly the blocks that shards have
\* handed out and no call has cleared; the magic a call has found is still there
\* when it clears it; and no two calls are at work on the same block, also not
\* when a pointer is given back again after its magic was cleared.
MagicIsLive ==
  \A g \in Arenas :
    /\ header[g] \cup BeingFreed(g) = HandedOut(g)
    /\ header[g] \cap BeingFreed(g) = {}
    /\ \A t \in Threads : Clearing(t, g) => \E h \in header[g] : h.raw = job[t].raw
    /\ \A t, u \in Threads :
         t # u /\ Taking(t, g) /\ Taking(u, g) => job[t].raw # job[u].raw

\* A pointer a caller holds leads, through its footer, to one intact header; the
\* block of that header holds all of the caller's bytes; and no two callers hold
\* the same byte, whichever shards they got them from.
CallersSafe ==
  \A p \in pointers :
    /\ \E h \in header[p.arena] :
         /\ HeaderOf(p.arena, p.user) = {h}
         /\ h.raw + Overhead <= p.user /\ p.user + p.size <= h.raw + h.actual_size
    /\ \A q \in pointers :
         p # q /\ p.arena = q.arena => p.user + p.size <= q.user \/ q.user + q.size <= p.user

\* alloc_raw takes memory from the arena it is called on, also on a thread that
\* has used another one since, and from an arena that is still there; and the
\* pmr resource of an arena leads to that arena, wherever it has been moved.
OwnArena ==
  /\ \A t \in Threads :
       pc[t] = "allocate" =>
         tls_context_[t].generation = job[t].arena /\ arena[job[t].arena] = "up"
  /\ \A g \in Arenas : arena[g] = "up" => Through(g) = {g}

Totals == {Total(size, alignment) : size \in Sizes, alignment \in Alignments}

Shard(g, s) == INSTANCE AllocatorContract
                 WITH Size <- ShardSize, Requests <- Totals,
                      live <- live[g][s], allocated_ <- allocated_[g][s]

\* Every shard is used as the contract of its allocator says: only blocks it
\* has handed out go back to it, once and with their actual size, although
\* dealloc_raw has read that size before it takes the lock.  Callers do not give
\* one pointer back on two threads at once.
ShardsKeepContract ==
  /\ \A g \in Arenas, s \in Shards : Shard(g, s)!Init
  /\ [][\A g \in Arenas, s \in Shards :
          Shard(g, s)!Next \/ UNCHANGED <<live[g][s], allocated_[g][s]>>]_vars
=============================================================================

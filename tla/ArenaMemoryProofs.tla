------------------------- MODULE ArenaMemoryProofs --------------------------
(***************************************************************************)
(* The inductive invariant of VisualizationArena, the arithmetic of shards *)
(* and headers it rests on, and the steps that create, move and destroy    *)
(* arenas or allocate.  VisualizationArenaProofs has the other steps and   *)
(* the theorems.                                                           *)
(***************************************************************************)
EXTENDS VisualizationArena, TLAPS

Context == [generation : Arenas, shard : Shards]
Headers == [raw : Nat, actual_size : Nat]

\* Two headers stand in front of blocks that do not meet.
Away(h, k) == h.raw + h.actual_size <= k.raw \/ k.raw + k.actual_size <= h.raw

\* A shard's blocks lie in it and do not meet.
BlocksSound ==
  \A g \in Arenas, s \in Shards : \A b \in live[g][s] :
    /\ b.size > 0 /\ b.off + b.size <= ShardSize
    /\ \A c \in live[g][s] : b = c \/ Apart(b, c)

\* The locals of a call are those of a call on an arena that is there, and the
\* context of an alloc_raw is one of its arena.
CallsSound ==
  \A t \in Threads :
    /\ pc[t] = "allocate" =>
         /\ tls_context_[t] \in Context /\ tls_context_[t].generation = job[t].arena
         /\ job[t].size \in Sizes /\ job[t].alignment \in Alignments
         /\ arena[job[t].arena] = "up"
    /\ pc[t] \in {"clear", "free"} => job[t].arena \in Arenas

\* Every arena that is there has one object, and its resource knows which.
ObjectsSound ==
  /\ resource = holder
  /\ \A g \in Arenas : arena[g] = "up" => holder[g] # None
  /\ \A g, h \in Arenas : holder[g] = holder[h] /\ holder[g] # None => g = h

\* The caller's bytes p lie behind the header h, in its block.
Behind(p, h) == h.raw + Overhead <= p.user /\ p.user + p.size <= h.raw + h.actual_size

\* The footer of p leads to h.
Leads(p, h) ==
  {f \in footer[p.arena] : f.user = p.user} = {[user |-> p.user, distance |-> p.user - h.raw]}

\* Every caller has a block of its own, and its footer leads there.
PointersSound ==
  /\ \A p \in pointers : \E h \in header[p.arena] : Behind(p, h) /\ Leads(p, h)
  /\ \A p, q \in pointers : \A h \in header[p.arena] :
       p.arena = q.arena /\ Behind(p, h) /\ Behind(q, h) => p = q

\* The block that a dealloc_raw is about to clear is not the block of a pointer
\* that some caller still holds.
ClaimsSound ==
  \A t \in Threads, p \in pointers :
    Clearing(t, p.arena) => \A h \in header[p.arena] : Behind(p, h) => h.raw # job[t].raw

\* The inductive invariant.
IInv ==
  /\ TypeOK /\ NeverAborts /\ BlocksSound /\ CallsSound /\ ObjectsSound
  /\ MagicIsLive /\ PointersSound /\ ClaimsSound

-----------------------------------------------------------------------------
\* Products of naturals, kept apart from the rest of the arithmetic.
LEMMA Product ==
  ASSUME NEW m \in Nat, NEW n \in Nat
  PROVE  m * n \in Nat
  OBVIOUS

\* A shard ends where the next one starts, or before.
LEMMA ShardsInOrder ==
  ASSUME NEW n \in Nat, NEW s \in Nat, NEW r \in Nat, s < r
  PROVE  s * n + n <= r * n
<1>1. (r - s - 1) * n \in Nat
  BY Product
<1>2. (r - s - 1) * n = r * n - s * n - n
  OBVIOUS
<1>3. s * n \in Int /\ r * n \in Int
  OBVIOUS
<1> QED
  BY <1>1, <1>2, <1>3

\* Dividing an address by the size of a shard gives the shard.
LEMMA ShardOfAddress ==
  ASSUME NEW n \in Nat \ {0}, NEW s \in Nat, NEW o \in Nat, o < n
  PROVE  (s * n + o) \div n = s
<1> DEFINE q == (s * n + o) \div n
<1>1. s * n + o \in Nat
  BY Product
<1>2. q \in Nat /\ q * n <= s * n + o /\ s * n + o < q * n + n
  BY <1>1
<1> HIDE DEF q
<1>3. q * n \in Int /\ s * n \in Int
  BY <1>2
<1>4. ~ q < s
  <2> SUFFICES ASSUME q < s PROVE FALSE
    OBVIOUS
  <2>1. q * n + n <= s * n
    BY <1>2, ShardsInOrder
  <2> QED
    BY <1>2, <1>3, <2>1
<1>5. ~ s < q
  <2> SUFFICES ASSUME s < q PROVE FALSE
    OBVIOUS
  <2>1. s * n + n <= q * n
    BY <1>2, ShardsInOrder
  <2> QED
    BY <1>2, <1>3, <2>1
<1> QED
  BY <1>2, <1>4, <1>5 DEF q

\* get_shard_idx, contains and the search of dealloc_raw agree on the addresses
\* of a shard's blocks.
LEMMA FoundShard ==
  ASSUME NEW s \in Shards, NEW o \in Nat, o < ShardSize
  PROVE  /\ s * ShardSize + o \in Nat
         /\ get_shard_idx(s * ShardSize + o) = s
         /\ OwnerOf(s * ShardSize + o) = {s}
<1> DEFINE raw == s * ShardSize + o
<1>1. /\ s \in Nat /\ s < kMaxShards
      /\ kMaxShards \in Nat \ {0} /\ ShardSize \in Nat \ {0}
  BY ArenaAssumption DEF Shards
<1>2. s * ShardSize \in Nat
  BY <1>1, Product
<1>3. raw \div ShardSize = s
  BY <1>1, ShardOfAddress
<1>4. s * ShardSize + ShardSize <= kMaxShards * ShardSize
  BY <1>1, ShardsInOrder
<1>5. Capacity \in Nat /\ raw \in 0 .. Capacity - 1
  BY <1>1, <1>2, <1>4, Product DEF Capacity
<1>6. get_shard_idx(raw) = s
  BY <1>3, <1>5 DEF get_shard_idx
<1>7. (s + 1) * ShardSize = s * ShardSize + ShardSize
  BY <1>1
<1>8. contains(s, raw)
  BY <1>1, <1>2, <1>7 DEF contains
<1>9. OwnerOf(raw) = {s}
  BY <1>6, <1>8 DEF OwnerOf
<1> QED
  BY <1>2, <1>6, <1>9, <1>1

\* Blocks that do not meet in a shard, or are of two shards, do not meet in
\* the arena.
LEMMA AwayInArena ==
  ASSUME NEW s \in Shards, NEW r \in Shards, NEW b \in [off : Nat, size : Nat],
         NEW c \in [off : Nat, size : Nat],
         b.off + b.size <= ShardSize, c.off + c.size <= ShardSize,
         s = r => Apart(b, c)
  PROVE  Away(HeaderAt(s, b), HeaderAt(r, c))
<1>1. s \in Nat /\ r \in Nat /\ ShardSize \in Nat
  BY ArenaAssumption DEF Shards
<1>2. s * ShardSize \in Nat /\ r * ShardSize \in Nat
  BY <1>1, Product
<1>3. b.off \in Nat /\ b.size \in Nat /\ c.off \in Nat /\ c.size \in Nat
  OBVIOUS
<1>4. CASE s = r
  BY <1>2, <1>3, <1>4 DEF Apart, Away, HeaderAt
<1>5. CASE s < r
  <2>1. s * ShardSize + ShardSize <= r * ShardSize
    BY <1>1, <1>5, ShardsInOrder
  <2> QED
    BY <1>1, <1>2, <1>3, <2>1 DEF Away, HeaderAt
<1>6. CASE r < s
  <2>1. r * ShardSize + ShardSize <= s * ShardSize
    BY <1>1, <1>6, ShardsInOrder
  <2> QED
    BY <1>1, <1>2, <1>3, <2>1 DEF Away, HeaderAt
<1> QED
  BY <1>1, <1>4, <1>5, <1>6

\* Blocks are naturals.
LEMMA BlockTypes == Blocks \subseteq [off : Nat, size : Nat]
  BY ArenaAssumption DEF Blocks, Granules

\* What the shards of an arena have handed out.
LEMMA HandedMember ==
  ASSUME NEW g, NEW h
  PROVE  h \in HandedOut(g) <=> \E s \in Shards : \E b \in live[g][s] : h = HeaderAt(s, b)
  BY DEF HandedOut

\* Blocks handed out are not empty and do not meet.
LEMMA HandedApart ==
  ASSUME TypeOK, BlocksSound, NEW g \in Arenas, NEW h \in HandedOut(g), NEW k \in HandedOut(g)
  PROVE  h \in Headers /\ h.actual_size > 0 /\ (h = k \/ Away(h, k))
<1>a. PICK s \in Shards : \E b \in live[g][s] : h = HeaderAt(s, b)
  BY HandedMember
<1>1. PICK b \in live[g][s] : h = HeaderAt(s, b)
  BY <1>a
<1>b. PICK r \in Shards : \E c \in live[g][r] : k = HeaderAt(r, c)
  BY HandedMember
<1>2. PICK c \in live[g][r] : k = HeaderAt(r, c)
  BY <1>b
<1>3. b \in [off : Nat, size : Nat] /\ c \in [off : Nat, size : Nat]
  BY BlockTypes DEF TypeOK
<1>4. /\ b.size > 0 /\ b.off + b.size <= ShardSize /\ c.off + c.size <= ShardSize
      /\ s = r => b = c \/ Apart(b, c)
  BY DEF BlocksSound
<1>5. s * ShardSize \in Nat
  BY ArenaAssumption, Product DEF Shards
<1>6. h \in Headers /\ h.actual_size > 0
  BY <1>1, <1>3, <1>4, <1>5 DEF HeaderAt, Headers
<1>7. CASE s = r /\ b = c
  BY <1>1, <1>2, <1>6, <1>7
<1>8. CASE ~(s = r /\ b = c)
  <2>1. s = r => Apart(b, c)
    BY <1>4, <1>8
  <2> QED
    BY <1>1, <1>2, <1>3, <1>4, <1>6, <2>1, AwayInArena
<1> QED
  BY <1>7, <1>8
\* The caller's bytes start behind the header and the footer.
LEMMA BehindHeader ==
  ASSUME NEW alignment \in Alignments
  PROVE  OffsetToUser(alignment) \in Nat /\ OffsetToUser(alignment) >= Overhead
<1>1. alignment \in Nat /\ Overhead \in Nat
  BY ArenaAssumption
<1>2. alignment > 0 => Overhead % alignment \in 0 .. alignment - 1
  BY <1>1
<1> QED
  BY <1>1, <1>2 DEF OffsetToUser

-----------------------------------------------------------------------------
\* A step that leaves headers, shards and calls of dealloc_raw alone keeps the
\* meaning of the magic.
LEMMA SameMagic ==
  ASSUME MagicIsLive, header' = header, live' = live,
         \A t \in Threads : \A w \in {"clear", "free"} :
           (pc'[t] = w <=> pc[t] = w) /\ (pc[t] = w => job'[t] = job[t])
  PROVE  MagicIsLive'
<1>1. \A t \in Threads, g \in Arenas :
        /\ Freeing(t, g)' <=> Freeing(t, g)
        /\ Clearing(t, g)' <=> Clearing(t, g)
        /\ Taking(t, g)' <=> Taking(t, g)
  BY DEF Freeing, Clearing, Taking
<1>2. \A t \in Threads, g \in Arenas : Taking(t, g) => job'[t] = job[t]
  BY DEF Freeing, Clearing, Taking
<1>3. \A g \in Arenas : BeingFreed(g)' = BeingFreed(g)
  BY <1>1, <1>2 DEF BeingFreed, Taking
<1>4. \A g \in Arenas : HandedOut(g)' = HandedOut(g)
  BY DEF HandedOut, HeaderAt
<1>5. ASSUME NEW g \in Arenas
      PROVE  /\ header'[g] \cup BeingFreed(g)' = HandedOut(g)'
             /\ header'[g] \cap BeingFreed(g)' = {}
  BY <1>3, <1>4 DEF MagicIsLive
<1>6. ASSUME NEW g \in Arenas, NEW t \in Threads, Clearing(t, g)'
      PROVE  \E h \in header'[g] : h.raw = job'[t].raw
  BY <1>1, <1>2, <1>6 DEF MagicIsLive, Taking
<1>7. ASSUME NEW g \in Arenas, NEW t \in Threads, NEW u \in Threads,
             t # u, Taking(t, g)', Taking(u, g)'
      PROVE  job'[t].raw # job'[u].raw
  BY <1>1, <1>2, <1>7 DEF MagicIsLive
<1> QED
  BY <1>5, <1>6, <1>7 DEF MagicIsLive

\* A step that leaves headers and calls of dealloc_raw alone, and gives no caller
\* a new pointer, disturbs no claim.
LEMMA SameClaims ==
  ASSUME ClaimsSound, header' = header, pointers' \subseteq pointers,
         \A t \in Threads : pc'[t] = "clear" => pc[t] = "clear" /\ job'[t] = job[t]
  PROVE  ClaimsSound'
  BY DEF ClaimsSound, Clearing, Behind

\* A step that leaves headers and footers alone takes nothing from the callers
\* that remain.
LEMMA SamePointers ==
  ASSUME PointersSound, header' = header, footer' = footer, pointers' \subseteq pointers
  PROVE  PointersSound'
<1>1. \A p, h : Leads(p, h)' <=> Leads(p, h)
  BY DEF Leads
<1> QED
  BY <1>1 DEF PointersSound, Behind

\* The invariant looks at the variables of vars only.
LEMMA StutterKeeps ==
  ASSUME IInv, UNCHANGED vars
  PROVE  IInv'
<1> USE DEF IInv, vars, life, memory, shards, thread
<1>1. TypeOK' /\ NeverAborts'
  BY DEF TypeOK, NeverAborts
<1>2. BlocksSound' /\ CallsSound' /\ ObjectsSound'
  BY DEF BlocksSound, CallsSound, ObjectsSound
<1>3. MagicIsLive'
  BY SameMagic
<1>4. PointersSound' /\ ClaimsSound'
  BY SamePointers, SameClaims
<1> QED
  BY <1>1, <1>2, <1>3, <1>4

\* At the start there is no arena, no call and no block.
LEMMA InitSound == Init => IInv
<1> SUFFICES ASSUME Init PROVE IInv
  OBVIOUS
<1> USE DEF Init
<1>1. TypeOK
  BY ArenaAssumption DEF TypeOK, Jobs, NoJob
<1>2. NeverAborts /\ CallsSound
  BY DEF NeverAborts, CallsSound
<1>3. BlocksSound /\ PointersSound /\ ClaimsSound
  BY DEF BlocksSound, PointersSound, ClaimsSound
<1>4. ObjectsSound
  BY DEF ObjectsSound
<1>5. MagicIsLive
  BY DEF MagicIsLive, BeingFreed, HandedOut, Freeing, Clearing, Taking
<1> QED
  BY <1>1, <1>2, <1>3, <1>4, <1>5 DEF IInv

-----------------------------------------------------------------------------
\* Objects: creation, move and destruction.
LEMMA CreateKeeps ==
  ASSUME IInv, NEW g \in Arenas, NEW h \in Handles, Create(g, h)
  PROVE  IInv'
<1> USE DEF IInv, Create, MapRegion, memory, shards, thread
<1>1. TypeOK' /\ NeverAborts'
  BY DEF TypeOK, NeverAborts
<1>2. BlocksSound'
  BY DEF BlocksSound
<1>3. CallsSound'
  BY DEF CallsSound, TypeOK, Context
<1>4. ObjectsSound'
  BY ArenaAssumption DEF ObjectsSound, TypeOK
<1>5. MagicIsLive' /\ PointersSound' /\ ClaimsSound'
  BY SameMagic, SamePointers, SameClaims
<1> QED
  BY <1>1, <1>2, <1>3, <1>4, <1>5

\* A move changes only which object holds the arena.
LEMMA MoveKeeps ==
  ASSUME IInv, NEW g \in Arenas, NEW h \in Handles, Move(g, h)
  PROVE  IInv'
<1> USE DEF IInv, Move, Target, memory, shards, thread
<1>1. TypeOK' /\ NeverAborts'
  <2>1. calls' \in 0 .. MaxCalls
    BY ArenaAssumption DEF TypeOK
  <2> QED
    BY <2>1 DEF TypeOK, NeverAborts
<1>2. BlocksSound' /\ CallsSound'
  BY DEF BlocksSound, CallsSound
<1>4. ObjectsSound'
  BY ArenaAssumption DEF ObjectsSound, TypeOK
<1>5. MagicIsLive' /\ PointersSound' /\ ClaimsSound'
  BY SameMagic, SamePointers, SameClaims
<1> QED
  BY <1>1, <1>2, <1>4, <1>5

\* The destructor runs when no call is under way, and forgets all blocks.
LEMMA DestroyKeeps ==
  ASSUME IInv, NEW g \in Arenas, Destroy(g)
  PROVE  IInv'
<1> USE DEF IInv, Destroy, UnmapRegion, Quiet, shards, thread
<1>1. TypeOK' /\ NeverAborts'
  BY SMTT(20) DEF TypeOK, NeverAborts
<1>2. BlocksSound'
  BY DEF BlocksSound
<1>3. CallsSound'
  BY DEF CallsSound, TypeOK, Context
<1>4. ObjectsSound'
  BY DEF ObjectsSound, TypeOK
<1>5. MagicIsLive' /\ PointersSound' /\ ClaimsSound'
  BY SameMagic, SamePointers, SameClaims
<1> QED
  BY <1>1, <1>2, <1>3, <1>4, <1>5

\* alloc_raw up to the shard's lock, through the arena or its resource.
LEMMA AllocBeginKeeps ==
  ASSUME IInv, NEW t \in Threads, NEW g \in Arenas, NEW size \in Sizes,
         NEW alignment \in Alignments, AllocBegin(t, g, size, alignment)
  PROVE  IInv'
<1> USE DEF IInv, AllocBegin, life, memory, shards
<1>1. /\ job'[t].arena = g /\ job'[t].size = size /\ job'[t].alignment = alignment
      /\ job' \in [Threads -> Jobs]
      /\ \A u \in Threads : u # t => job'[u] = job[u] /\ pc'[u] = pc[u]
      /\ pc'[t] = "allocate" /\ pc' \in [Threads -> {"idle", "allocate", "clear", "free", "abort"}]
  BY ArenaAssumption, Zenon DEF TypeOK, Jobs, NoJob
<1>2. /\ next_shard_idx' \in [Arenas -> Nat]
      /\ tls_context_' \in [Threads -> Context \cup {None}]
      /\ tls_context_'[t] \in Context /\ tls_context_'[t].generation = g
      /\ \A u \in Threads : u # t => tls_context_'[u] = tls_context_[u]
  <2>1. CASE Stale(t, g)
    <3> DEFINE ctx == [generation |-> g, shard |-> next_shard_idx[g] % kMaxShards]
    <3>1. next_shard_idx[g] % kMaxShards \in Shards
      BY ArenaAssumption, SMTT(20) DEF TypeOK, Shards
    <3>2. ctx \in Context /\ ctx.generation = g
      BY <3>1 DEF Context
    <3>3. tls_context_' = [tls_context_ EXCEPT ![t] = ctx]
      BY <2>1 DEF init_tls_context
    <3>4. next_shard_idx' \in [Arenas -> Nat]
      <4>1. next_shard_idx' = [next_shard_idx EXCEPT ![g] = @ + 1]
        BY <2>1 DEF init_tls_context
      <4> QED
        BY <4>1 DEF TypeOK
    <3> HIDE DEF ctx
    <3>5. tls_context_ \in [Threads -> Context \cup {None}]
      BY DEF TypeOK, Context
    <3> QED
      BY <3>2, <3>3, <3>4, <3>5
  <2>2. CASE ~Stale(t, g)
    BY <2>2 DEF TypeOK, Stale, Context
  <2> QED
    BY <2>1, <2>2
<1>3. TypeOK'
  <2>1. calls' \in 0 .. MaxCalls
    BY ArenaAssumption DEF TypeOK
  <2> QED
    BY <1>1, <1>2, <2>1 DEF TypeOK, Context
<1>4. NeverAborts' /\ CallsSound'
  BY <1>1, <1>2 DEF NeverAborts, CallsSound
<1>5. BlocksSound' /\ ObjectsSound'
  BY DEF BlocksSound, ObjectsSound
<1>6. MagicIsLive' /\ PointersSound' /\ ClaimsSound'
  BY <1>1, SameMagic, SamePointers, SameClaims
<1> QED
  BY <1>3, <1>4, <1>5, <1>6

\* Calls that give nothing back: a failed allocate and a second dealloc_raw.
LEMMA AllocateFailsKeeps ==
  ASSUME IInv, NEW t \in Threads, AllocateFails(t)
  PROVE  IInv'
<1> USE DEF IInv, AllocateFails, Return, life, memory, shards
<1>1. TypeOK' /\ NeverAborts'
  BY ArenaAssumption, SMTT(20) DEF TypeOK, NeverAborts, Jobs, NoJob
<1>2. BlocksSound' /\ ObjectsSound' /\ CallsSound'
  BY DEF BlocksSound, ObjectsSound, CallsSound, TypeOK
<1>3. MagicIsLive' /\ PointersSound' /\ ClaimsSound'
  BY SameMagic, SamePointers, SameClaims DEF TypeOK
<1> QED
  BY <1>1, <1>2, <1>3

\* A second dealloc_raw finds no magic and changes nothing.
LEMMA DeallocAgainKeeps ==
  ASSUME IInv, NEW t \in Threads, NEW g \in Arenas, DeallocAgain(t, g)
  PROVE  IInv'
<1> USE DEF IInv, DeallocAgain, life, memory, shards, thread
<1>1. TypeOK' /\ NeverAborts'
  <2>1. calls' \in 0 .. MaxCalls
    BY ArenaAssumption DEF TypeOK
  <2> QED
    BY <2>1 DEF TypeOK, NeverAborts
<1>2. BlocksSound' /\ ObjectsSound' /\ CallsSound'
  BY SMTT(20) DEF BlocksSound, ObjectsSound, CallsSound
<1>3. MagicIsLive' /\ PointersSound' /\ ClaimsSound'
  BY SameMagic, SamePointers, SameClaims
<1> QED
  BY <1>1, <1>2, <1>3
-----------------------------------------------------------------------------
\* The new block is away from all others, so writing its header, its footer
\* and the caller's bytes spoils none.
LEMMA WriteKeeps ==
  ASSUME IInv, NEW t \in Threads, NEW b \in Blocks, NEW g \in Arenas, NEW s \in Shards,
         NEW size \in Sizes, NEW off \in Nat, NEW raw \in Nat,
         pc[t] = "allocate", raw = s * ShardSize + b.off, off >= Overhead,
         b.size >= size + off, b.off + b.size <= ShardSize, b.size > 0,
         \A c \in live[g][s] : Apart(b, c),
         live' = [live EXCEPT ![g][s] = @ \cup {b}],
         allocated_' = [allocated_ EXCEPT ![g][s] = @ + b.size],
         Write(g, raw, b.size, raw + off, size), Return(t),
         UNCHANGED <<life, tls_context_, next_shard_idx, calls>>
  PROVE  IInv'
<1> DEFINE user == raw + off
           new == [raw |-> raw, actual_size |-> b.size]
           foot == [user |-> user, distance |-> user - raw]
           p0 == [arena |-> g, user |-> user, size |-> size]
<1>2. Overhead \in Nat \ {0} /\ size \in Nat
  BY ArenaAssumption
<1>4. b \in [off : Nat, size : Nat] /\ b.off \in Nat /\ b.size \in Nat
  BY BlockTypes
<1>8. new = HeaderAt(s, b)
  BY DEF HeaderAt
<1>9. \A k \in HandedOut(g) : k \in Headers /\ k.actual_size > 0 /\ Away(new, k)
  <2> SUFFICES ASSUME NEW k \in HandedOut(g)
               PROVE  k \in Headers /\ k.actual_size > 0 /\ Away(new, k)
    OBVIOUS
  <2>1. k \in Headers /\ k.actual_size > 0
    BY HandedApart DEF IInv
  <2>2. PICK r \in Shards : \E c \in live[g][r] : k = HeaderAt(r, c)
    BY HandedMember
  <2>3. PICK c \in live[g][r] : k = HeaderAt(r, c)
    BY <2>2
  <2>4. c \in [off : Nat, size : Nat] /\ c.off + c.size <= ShardSize
    BY BlockTypes DEF IInv, TypeOK, BlocksSound
  <2>5. s = r => Apart(b, c)
    OBVIOUS
  <2> QED
    BY <1>4, <1>8, <2>1, <2>3, <2>4, <2>5, AwayInArena
<1>10. /\ user \in Nat /\ user - raw \in Nat /\ user > raw /\ user >= raw + Overhead
       /\ user + size <= raw + b.size
  BY <1>2, <1>4
<1>11. new \in Headers /\ new.raw = raw /\ new.actual_size = b.size
  BY <1>4 DEF Headers
<1>12. /\ foot \in [user : Nat, distance : Nat] /\ foot.user = user
       /\ p0 \in [arena : Arenas, user : Nat, size : Sizes]
       /\ p0.arena = g /\ p0.user = user /\ p0.size = size
  BY <1>10
<1>13. foot = [user |-> user, distance |-> user - raw]
  OBVIOUS
<1>14. /\ header' = [header EXCEPT ![g] = @ \cup {new}]
       /\ footer' = [footer EXCEPT ![g] =
                      {f \in @ : f.user <= raw \/ raw + b.size < f.user} \cup {foot}]
       /\ pointers' = pointers \cup {p0}
  BY SMTT(20) DEF Write
<1> HIDE DEF new, foot, p0, user
<1>15. /\ header' \in [Arenas -> SUBSET Headers] /\ header'[g] = header[g] \cup {new}
       /\ \A f \in Arenas : f # g => header'[f] = header[f]
  BY <1>11, <1>14, SMTT(20) DEF IInv, TypeOK, Headers
<1>16. /\ footer' \in [Arenas -> SUBSET [user : Nat, distance : Nat]]
       /\ footer'[g] = {f \in footer[g] : f.user <= raw \/ raw + b.size < f.user} \cup {foot}
       /\ \A f \in Arenas : f # g => footer'[f] = footer[f]
  BY <1>12, <1>14, SMTT(20) DEF IInv, TypeOK
<1>17. /\ live' \in [Arenas -> [Shards -> SUBSET Blocks]]
       /\ live'[g][s] = live[g][s] \cup {b}
       /\ \A f \in Arenas, r \in Shards : f # g \/ r # s => live'[f][r] = live[f][r]
  BY DEF IInv, TypeOK
<1>18. TypeOK' /\ NeverAborts' /\ CallsSound' /\ ObjectsSound'
  <2>1. allocated_' \in [Arenas -> [Shards -> Int]]
    BY <1>4, SMTT(20) DEF IInv, TypeOK
  <2>2. pc' \in [Threads -> {"idle", "allocate", "clear", "free", "abort"}] /\ job' \in [Threads -> Jobs]
    BY ArenaAssumption, SMTT(20) DEF IInv, TypeOK, Return, Jobs, NoJob
  <2>3. pointers' \subseteq [arena : Arenas, user : Nat, size : Sizes]
    BY <1>12, <1>14, SMTT(20) DEF IInv, TypeOK
  <2>4. TypeOK'
    BY <1>15, <1>16, <1>17, <2>1, <2>2, <2>3, SMTT(20) DEF IInv, TypeOK, life, Headers
  <2>5. NeverAborts' /\ CallsSound' /\ ObjectsSound'
    BY SMTT(20) DEF IInv, TypeOK, NeverAborts, CallsSound, ObjectsSound, Return, life
  <2> QED
    BY <2>4, <2>5
<1>19. BlocksSound'
  <2> SUFFICES ASSUME NEW f \in Arenas, NEW r \in Shards, NEW c \in live'[f][r]
               PROVE  /\ c.size > 0 /\ c.off + c.size <= ShardSize
                      /\ \A d \in live'[f][r] : c = d \/ Apart(c, d)
    BY DEF BlocksSound
  <2>1. CASE f # g \/ r # s
    BY <1>17, <2>1 DEF IInv, BlocksSound
  <2>2. CASE f = g /\ r = s
    <3>1. \A d \in live[g][s] : Apart(d, b)
      BY DEF Apart
    <3> QED
      BY <1>17, <2>2, <3>1 DEF IInv, BlocksSound
  <2> QED
    BY <2>1, <2>2
<1>20. /\ HandedOut(g)' = HandedOut(g) \cup {new}
       /\ \A f \in Arenas : f # g => HandedOut(f)' = HandedOut(f)
  <2>1. \A f, h : h \in HandedOut(f)' <=> \E r \in Shards : \E c \in live'[f][r] : h = HeaderAt(r, c)
    BY DEF HandedOut, HeaderAt
  <2>2. \A f, h : h \in HandedOut(f) <=> \E r \in Shards : \E c \in live[f][r] : h = HeaderAt(r, c)
    BY HandedMember
  <2>3. ASSUME NEW f \in Arenas, f # g
        PROVE  HandedOut(f)' = HandedOut(f)
    <3>1. \A h : h \in HandedOut(f)' <=> h \in HandedOut(f)
      BY <1>17, <2>1, <2>2, <2>3
    <3> QED
      BY <3>1, Zenon
  <2>4. \A h : h \in HandedOut(g)' <=> h \in HandedOut(g) \/ h = new
    BY <1>8, <1>17, <2>1, <2>2
  <2>5. HandedOut(g)' = HandedOut(g) \cup {new}
    BY <2>4
  <2> QED
    BY <2>3, <2>5
<1>21. MagicIsLive'
  <2>1. \A u \in Threads, f \in Arenas :
          /\ Freeing(u, f)' <=> Freeing(u, f)
          /\ Clearing(u, f)' <=> Clearing(u, f)
          /\ Taking(u, f)' <=> Taking(u, f)
    BY SMTT(20) DEF Freeing, Clearing, Taking, Return, IInv, TypeOK
  <2>2. \A u \in Threads, f \in Arenas : Taking(u, f) => job'[u] = job[u]
    BY DEF Freeing, Clearing, Taking, Return, IInv, TypeOK
  <2>3. \A f \in Arenas : BeingFreed(f)' = BeingFreed(f)
    BY <2>1, <2>2 DEF BeingFreed, Taking
  <2>4. BeingFreed(g) \subseteq HandedOut(g)
    BY DEF IInv, MagicIsLive
  <2>5. new \notin HandedOut(g)
    BY <1>4, <1>9, <1>11 DEF Away, Headers
  <2>6. ASSUME NEW f \in Arenas
        PROVE  /\ header'[f] \cup BeingFreed(f)' = HandedOut(f)'
               /\ header'[f] \cap BeingFreed(f)' = {}
    BY <1>15, <1>20, <2>3, <2>4, <2>5 DEF IInv, MagicIsLive
  <2>7. ASSUME NEW f \in Arenas, NEW u \in Threads, Clearing(u, f)'
        PROVE  \E k \in header'[f] : k.raw = job'[u].raw
    BY <1>15, <2>1, <2>2, <2>7 DEF IInv, MagicIsLive, Taking
  <2>8. ASSUME NEW f \in Arenas, NEW u \in Threads, NEW v \in Threads,
               u # v, Taking(u, f)', Taking(v, f)'
        PROVE  job'[u].raw # job'[v].raw
    BY <2>1, <2>2, <2>8 DEF IInv, MagicIsLive
  <2> QED
    BY <2>6, <2>7, <2>8 DEF MagicIsLive
<1>22. \A p \in pointers : p.arena = g =>
         ~Behind(p, new)' /\ p.user # user /\ (p.user <= raw \/ raw + b.size < p.user)
  <2> SUFFICES ASSUME NEW p \in pointers, p.arena = g
               PROVE  ~Behind(p, new)' /\ p.user # user /\ (p.user <= raw \/ raw + b.size < p.user)
    OBVIOUS
  <2>1. PICK k \in header[g] : Behind(p, k)
    BY DEF IInv, PointersSound
  <2>2. k \in HandedOut(g)
    BY DEF IInv, MagicIsLive
  <2>3. k \in Headers /\ k.actual_size > 0 /\ Away(new, k)
    BY <1>9, <2>2, SMTT(20)
  <2>4. p.user \in Nat /\ p.size \in Nat
    BY ArenaAssumption, Zenon DEF IInv, TypeOK
  <2>5. k.raw \in Nat /\ k.actual_size \in Nat
    BY <2>3 DEF Headers
  <2> QED
    BY <1>2, <1>4, <1>10, <1>11, <2>1, <2>3, <2>4, <2>5 DEF Behind, Away
<1>23. \A p \in pointers : \A k : Leads(p, k) => Leads(p, k)'
  <2> SUFFICES ASSUME NEW p \in pointers, NEW k, Leads(p, k)
               PROVE  {f \in footer'[p.arena] : f.user = p.user} =
                        {[user |-> p.user, distance |-> p.user - k.raw]}
    BY DEF Leads
  <2>1. p.arena \in Arenas
    BY DEF IInv, TypeOK
  <2>2. CASE p.arena # g
    BY <1>16, <2>1, <2>2 DEF Leads
  <2>3. CASE p.arena = g
    <3>1. {f \in footer'[g] : f.user = p.user} = {f \in footer[g] : f.user = p.user}
      BY <1>12, <1>16, <1>22, <2>3
    <3> QED
      BY <2>3, <3>1 DEF Leads
  <2> QED
    BY <2>2, <2>3
<1>24. Leads(p0, new)'
  <2>1. \A f \in footer'[g] : f.user = user => f = foot
    <3> SUFFICES ASSUME NEW f \in footer[g], f.user = user,
                        f.user <= raw \/ raw + b.size < f.user
                 PROVE  FALSE
      BY <1>16
    <3> QED
      BY <1>2, <1>4, <1>10
  <2>2. {f \in footer'[g] : f.user = user} = {foot}
    BY <1>12, <1>16, <2>1
  <2> QED
    BY <1>11, <1>12, <1>13, <2>2 DEF Leads
<1>25. Behind(p0, new)
  BY <1>10, <1>11, <1>12 DEF Behind
<1>26. PointersSound'
  <2>1. \A p \in pointers' : \E k \in header'[p.arena] : Behind(p, k) /\ Leads(p, k)'
    <3> SUFFICES ASSUME NEW p \in pointers'
                 PROVE  \E k \in header'[p.arena] : Behind(p, k) /\ Leads(p, k)'
      OBVIOUS
    <3>1. CASE p = p0
      BY <1>12, <1>15, <1>24, <1>25, <3>1
    <3>2. CASE p \in pointers
      <4>1. PICK k \in header[p.arena] : Behind(p, k) /\ Leads(p, k)
        BY <3>2, SMTT(20) DEF IInv, PointersSound
      <4>2. k \in header'[p.arena]
        BY <1>15, <3>2, Zenon DEF IInv, TypeOK
      <4> QED
        BY <1>23, <3>2, <4>1, <4>2
    <3> QED
      BY <1>14, <3>1, <3>2
  <2>2. ASSUME NEW p \in pointers', NEW q \in pointers', NEW k \in header'[p.arena],
               p.arena = q.arena, Behind(p, k), Behind(q, k)
        PROVE  p = q
    <3>1. p \in pointers \/ p = p0
      BY <1>14
    <3>2. q \in pointers \/ q = p0
      BY <1>14
    <3>3. p.arena \in Arenas
      BY <1>12, <3>1 DEF IInv, TypeOK
    <3>4. CASE p.arena # g
      BY <1>12, <1>15, <2>2, <3>1, <3>2, <3>3, <3>4 DEF IInv, PointersSound
    <3>5. CASE p.arena = g /\ k = new
      BY <1>22, <2>2, <3>1, <3>2, <3>5, Zenon DEF Behind
    <3>6. CASE p.arena = g /\ k \in header[g]
      <4>1. k \in HandedOut(g)
        BY <3>6 DEF IInv, MagicIsLive
      <4>2. k \in Headers /\ Away(new, k) /\ k.actual_size > 0
        BY <1>9, <4>1
      <4>3. ~Behind(p0, k)
        <5>1. k.raw \in Nat /\ k.actual_size \in Nat
          BY <4>2 DEF Headers
        <5>2. raw + b.size <= k.raw \/ k.raw + k.actual_size <= raw
          BY <1>11, <4>2 DEF Away
        <5> QED
          BY <1>2, <1>4, <1>10, <1>12, <5>1, <5>2 DEF Behind
      <4>4. p \in pointers /\ q \in pointers
        BY <2>2, <3>1, <3>2, <4>3
      <4> QED
        BY <2>2, <3>6, <4>4, Zenon DEF IInv, PointersSound
    <3> QED
      BY <1>15, <2>2, <3>4, <3>5, <3>6
  <2>3. \A p, k : Behind(p, k)' <=> Behind(p, k)
    BY DEF Behind
  <2> QED
    BY <2>1, <2>2, <2>3 DEF PointersSound
<1>27. ClaimsSound'
  <2> SUFFICES ASSUME NEW u \in Threads, NEW p \in pointers', NEW k \in header'[p.arena],
                      Clearing(u, p.arena)', Behind(p, k)
               PROVE  k.raw # job'[u].raw
    BY SMTT(20) DEF ClaimsSound, Behind
  <2>1. pc[u] = "clear" /\ job'[u] = job[u] /\ Clearing(u, p.arena)
    BY Zenon DEF Clearing, Return, IInv, TypeOK
  <2>2. p \in pointers \/ p = p0
    BY <1>14, SMTT(20)
  <2>3. p.arena \in Arenas
    BY <1>12, <2>2, Zenon DEF IInv, TypeOK
  <2>4. CASE k \in header[p.arena] /\ p \in pointers
    BY <2>1, <2>4 DEF IInv, ClaimsSound
  <2>5. CASE p.arena = g /\ k = new
    <3>1. PICK c \in header[g] : c.raw = job[u].raw
      BY <2>1, <2>5 DEF IInv, MagicIsLive
    <3>2. c \in HandedOut(g)
      BY DEF IInv, MagicIsLive
    <3>3. c \in Headers /\ c.actual_size > 0 /\ Away(new, c)
      BY <1>9, <3>2
    <3> QED
      BY <1>4, <1>11, <2>1, <2>5, <3>1, <3>3 DEF Away, Headers
  <2>6. CASE k \in header[p.arena] /\ p = p0
    <3>1. k \in HandedOut(g)
      BY <1>12, <2>6 DEF IInv, MagicIsLive
    <3>2. k \in Headers /\ Away(new, k) /\ k.actual_size > 0
      BY <1>9, <3>1
    <3>3. k.raw \in Nat /\ k.actual_size \in Nat
      BY <3>2 DEF Headers
    <3>4. raw + b.size <= k.raw \/ k.raw + k.actual_size <= raw
      BY <1>11, <3>2 DEF Away
    <3>5. ~Behind(p0, k)
      BY <1>2, <1>4, <1>10, <1>12, <3>3, <3>4, SMTT(20) DEF Behind
    <3> QED
      BY <2>6, <3>5
  <2> QED
    BY <1>12, <1>15, <2>2, <2>3, <2>4, <2>5, <2>6
<1> QED
  BY <1>18, <1>19, <1>21, <1>26, <1>27 DEF IInv

\* alloc_raw under the shard's lock: get_shard_idx finds the shard again.
LEMMA AllocateKeeps ==
  ASSUME IInv, NEW t \in Threads, NEW b \in Blocks, Allocate(t, b)
  PROVE  IInv'
<1>1. PICK g \in Arenas, s \in Shards, size \in Sizes, alignment \in Alignments :
        /\ g = tls_context_[t].generation /\ s = tls_context_[t].shard
        /\ size = job[t].size /\ alignment = job[t].alignment
  BY DEF IInv, CallsSound, Allocate, Context
<1>2. PICK off \in Nat : off = OffsetToUser(alignment) /\ off >= Overhead
  BY BehindHeader
<1>3. /\ b.size >= size + off /\ b.off + b.size <= ShardSize /\ b.size > 0
      /\ \A c \in live[g][s] : Apart(b, c)
  BY <1>1, <1>2 DEF Allocate, Answers, Total
<1>4. b.off \in Nat /\ b.size \in Nat
  BY BlockTypes
<1>5. b.off < ShardSize
  <2>1. b.off + b.size <= ShardSize /\ b.size > 0
    BY <1>3
  <2>2. ShardSize \in Nat
    BY ArenaAssumption
  <2> QED
    BY <1>4, <2>1, <2>2
<1>6. PICK raw \in Nat : raw = s * ShardSize + b.off /\ get_shard_idx(raw) = s
  BY <1>4, <1>5, FoundShard, SMTT(20)
<1>7. /\ live' = [live EXCEPT ![g][s] = @ \cup {b}]
      /\ allocated_' = [allocated_ EXCEPT ![g][s] = @ + b.size]
      /\ Write(g, raw, b.size, raw + off, size) /\ Return(t)
      /\ UNCHANGED <<life, tls_context_, next_shard_idx, calls>>
  BY <1>1, <1>2, <1>6, SMTT(20) DEF Allocate
<1>8. pc[t] = "allocate"
  BY DEF Allocate
<1> QED
  BY <1>2, <1>3, <1>6, <1>7, <1>8, WriteKeeps, Zenon
=============================================================================

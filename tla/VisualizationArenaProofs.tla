---------------------- MODULE VisualizationArenaProofs ----------------------
(***************************************************************************)
(* Machine-checked proofs about VisualizationArena: for every number of    *)
(* threads, objects, arenas and shards, every shard size, every header     *)
(* size and every set of request sizes and alignments.  ArenaMemoryProofs  *)
(* has the invariant and the steps that allocate.                          *)
(***************************************************************************)
EXTENDS ArenaMemoryProofs

\* Headers with the same address are the same.
LEMMA OneHeader ==
  ASSUME IInv, NEW g \in Arenas, NEW h \in HandedOut(g), NEW k \in HandedOut(g), h.raw = k.raw
  PROVE  h = k
<1>1. /\ h \in Headers /\ h.actual_size > 0 /\ k \in Headers /\ k.actual_size > 0
      /\ h = k \/ Away(h, k)
  BY HandedApart DEF IInv
<1> QED
  BY <1>1 DEF Away, Headers

\* The footer of a caller's pointer leads to one header, the one in front of it.
LEMMA FooterLeads ==
  ASSUME IInv, NEW p \in pointers
  PROVE  \E h \in header[p.arena] :
           Behind(p, h) /\ Leads(p, h) /\ HeaderOf(p.arena, p.user) = {h}
<1>1. PICK h \in header[p.arena] : Behind(p, h) /\ Leads(p, h)
  BY DEF IInv, PointersSound
<1>2. p.arena \in Arenas /\ p.user \in Nat
  BY DEF IInv, TypeOK
<1>3. header[p.arena] \subseteq HandedOut(p.arena)
  BY <1>2 DEF IInv, MagicIsLive
<1>4. \A k \in header[p.arena] : k.raw \in Nat
  BY <1>2 DEF IInv, TypeOK
<1>5. \A f : f \in footer[p.arena] /\ f.user = p.user
               <=> f = [user |-> p.user, distance |-> p.user - h.raw]
  BY <1>1 DEF Leads
<1>6. \A k \in header[p.arena] :
        (\E f \in footer[p.arena] : f.user = p.user /\ k.raw = p.user - f.distance)
          <=> k.raw = h.raw
  <2> SUFFICES ASSUME NEW k \in header[p.arena]
               PROVE  (\E f \in footer[p.arena] : f.user = p.user /\ k.raw = p.user - f.distance)
                        <=> k.raw = p.user - (p.user - h.raw)
    BY <1>1, <1>2, <1>4
  <2> DEFINE foot == [user |-> p.user, distance |-> p.user - h.raw]
  <2>1. foot.user = p.user /\ foot.distance = p.user - h.raw
    OBVIOUS
  <2>2. \A f : f \in footer[p.arena] /\ f.user = p.user <=> f = foot
    BY <1>5
  <2> HIDE DEF foot
  <2> QED
    BY <2>1, <2>2
<1>7. \A k \in header[p.arena] : k.raw = h.raw => k = h
  BY <1>2, <1>3, OneHeader
<1>8. HeaderOf(p.arena, p.user) = {h}
  BY <1>1, <1>6, <1>7 DEF HeaderOf
<1> QED
  BY <1>1, <1>8

\* A header with its magic is not in the hands of a call that has cleared one.
LEMMA NotYetTaken ==
  ASSUME IInv, NEW g \in Arenas, NEW h \in header[g], NEW u \in Threads, Freeing(u, g)
  PROVE  job[u].raw # h.raw
<1>1. HeaderIn(job[u]) \in BeingFreed(g) /\ HeaderIn(job[u]).raw = job[u].raw
  BY DEF HeaderIn, BeingFreed
<1>2. HeaderIn(job[u]) # h /\ HeaderIn(job[u]) \in HandedOut(g) /\ h \in HandedOut(g)
  BY <1>1 DEF IInv, MagicIsLive
<1> QED
  BY <1>1, <1>2, OneHeader

\* dealloc_raw up to its check: the caller's pointer is gone, so the block it led
\* to is this call's alone.
LEMMA DeallocBeginKeeps ==
  ASSUME IInv, NEW t \in Threads, NEW p \in pointers, DeallocBegin(t, p)
  PROVE  IInv'
<1>1. PICK g \in Arenas : g = p.arena
  BY DEF IInv, TypeOK
<1>2. PICK h \in header[g] : Behind(p, h) /\ HeaderOf(g, p.user) = {h}
  BY <1>1, FooterLeads
<1>3. h \in Headers /\ h.raw \in Nat /\ h \in HandedOut(g)
  BY DEF IInv, TypeOK, Headers, MagicIsLive
<1>4. /\ pc[t] = "idle" /\ pc'[t] = "clear" /\ pointers' = pointers \ {p}
      /\ job'[t].arena = g /\ job'[t].raw = h.raw
      /\ job' \in [Threads -> Jobs]
      /\ pc' \in [Threads -> {"idle", "allocate", "clear", "free", "abort"}]
      /\ \A u \in Threads : u # t => pc'[u] = pc[u] /\ job'[u] = job[u]
      /\ UNCHANGED <<life, shards, header, footer, tls_context_, next_shard_idx>>
  <2> DEFINE j == [NoJob EXCEPT !.arena = g, !.size = p.size, !.raw = h.raw]
  <2>1. /\ pc[t] = "idle" /\ pointers' = pointers \ {p}
        /\ job' = [job EXCEPT ![t] = j] /\ pc' = [pc EXCEPT ![t] = "clear"]
        /\ UNCHANGED <<life, shards, header, footer, tls_context_, next_shard_idx>>
    BY <1>1, <1>2 DEF DeallocBegin
  <2>2. p.size \in Sizes
    BY DEF IInv, TypeOK
  <2>3. j \in Jobs /\ j.arena = g /\ j.raw = h.raw
    BY <1>3, <2>2, Zenon DEF Jobs, NoJob
  <2> HIDE DEF j
  <2>4. job \in [Threads -> Jobs] /\ pc \in [Threads -> {"idle", "allocate", "clear", "free", "abort"}]
    BY DEF IInv, TypeOK
  <2> QED
    BY <2>1, <2>3, <2>4
<1>5. TypeOK'
  <2>1. calls' \in 0 .. MaxCalls
    BY ArenaAssumption DEF DeallocBegin, IInv, TypeOK
  <2> QED
    BY <1>4, <2>1 DEF IInv, TypeOK, life, shards
<1>6. NeverAborts' /\ CallsSound'
  <2>1. arena' = arena /\ tls_context_' = tls_context_
    BY <1>4 DEF life
  <2>2. NeverAborts'
    BY <1>4 DEF IInv, NeverAborts
  <2>3. CallsSound'
    BY <1>4, <2>1 DEF IInv, CallsSound
  <2> QED
    BY <2>2, <2>3
<1>7. BlocksSound' /\ ObjectsSound'
  BY <1>4 DEF IInv, BlocksSound, ObjectsSound, life, shards
<1>8. PointersSound'
  BY <1>4, SamePointers DEF IInv
<1>9. \A u \in Threads, f \in Arenas :
        /\ Freeing(u, f)' <=> Freeing(u, f)
        /\ u # t => (Clearing(u, f)' <=> Clearing(u, f)) /\ (Taking(u, f)' <=> Taking(u, f))
        /\ Clearing(t, f)' <=> f = g
        /\ Taking(t, f)' <=> f = g
        /\ Freeing(u, f) => u # t
  BY <1>4 DEF Freeing, Clearing, Taking
<1>10. ASSUME NEW u \in Threads, Taking(u, g)
       PROVE  job[u].raw # h.raw
  <2>1. CASE Freeing(u, g)
    BY <2>1, NotYetTaken
  <2>2. CASE Clearing(u, g)
    BY <1>1, <1>2, <2>2 DEF IInv, ClaimsSound
  <2> QED
    BY <1>10, <2>1, <2>2 DEF Taking
<1>11. MagicIsLive'
  <2>1. \A f \in Arenas : HandedOut(f)' = HandedOut(f)
    BY <1>4 DEF HandedOut, HeaderAt, shards
  <2>2. \A f \in Arenas : BeingFreed(f)' = BeingFreed(f)
    BY <1>4, <1>9 DEF BeingFreed
  <2>3. ASSUME NEW f \in Arenas
        PROVE  /\ header'[f] \cup BeingFreed(f)' = HandedOut(f)'
               /\ header'[f] \cap BeingFreed(f)' = {}
    BY <1>4, <2>1, <2>2 DEF IInv, MagicIsLive
  <2>4. ASSUME NEW f \in Arenas, NEW u \in Threads, Clearing(u, f)'
        PROVE  \E k \in header'[f] : k.raw = job'[u].raw
    <3>1. CASE u = t
      BY <1>4, <1>9, <2>4, <3>1
    <3>2. CASE u # t
      BY <1>4, <1>9, <2>4, <3>2 DEF IInv, MagicIsLive
    <3> QED
      BY <3>1, <3>2
  <2>5. ASSUME NEW f \in Arenas, NEW u \in Threads, NEW v \in Threads,
               u # v, Taking(u, f)', Taking(v, f)'
        PROVE  job'[u].raw # job'[v].raw
    <3>1. CASE u # t /\ v # t
      <4>1. Taking(u, f) /\ Taking(v, f) /\ job'[u] = job[u] /\ job'[v] = job[v]
        BY <1>4, <1>9, <2>5, <3>1
      <4> QED
        BY <2>5, <4>1 DEF IInv, MagicIsLive
    <3>2. CASE u = t
      BY <1>4, <1>9, <1>10, <2>5, <3>2
    <3>3. CASE v = t
      BY <1>4, <1>9, <1>10, <2>5, <3>3
    <3> QED
      BY <3>1, <3>2, <3>3
  <2> QED
    BY <2>3, <2>4, <2>5 DEF MagicIsLive
<1>12. ClaimsSound'
  <2> SUFFICES ASSUME NEW u \in Threads, NEW q \in pointers', NEW k \in header'[q.arena],
                      Clearing(u, q.arena)', Behind(q, k)
               PROVE  k.raw # job'[u].raw
    BY DEF ClaimsSound, Behind
  <2>1. q \in pointers /\ q # p /\ q.arena \in Arenas /\ k \in header[q.arena]
    BY <1>4 DEF IInv, TypeOK
  <2>2. CASE u # t
    BY <1>4, <1>9, <2>1, <2>2 DEF IInv, ClaimsSound
  <2>3. CASE u = t
    <3>1. q.arena = g
      BY <1>9, <2>1, <2>3
    <3>2. k # h
      BY <1>1, <1>2, <2>1, <3>1 DEF IInv, PointersSound
    <3>3. k \in HandedOut(g)
      BY <2>1, <3>1 DEF IInv, MagicIsLive
    <3> QED
      BY <1>3, <1>4, <2>3, <3>2, <3>3, OneHeader
  <2> QED
    BY <2>2, <2>3
<1> QED
  BY <1>5, <1>6, <1>7, <1>8, <1>11, <1>12 DEF IInv

\* The magic is cleared: the block is in the hands of this call, and of no caller.
LEMMA DeallocClearKeeps ==
  ASSUME IInv, NEW t \in Threads, NEW h, DeallocClear(t, h)
  PROVE  IInv'
<1>1. PICK g \in Arenas : g = job[t].arena
  BY DEF IInv, CallsSound, DeallocClear, Checked
<1>2. h \in header[g] /\ h.raw = job[t].raw /\ Clearing(t, g)
  BY <1>1 DEF DeallocClear, Checked, Clearing
<1>4. h \in Headers /\ h.raw \in Nat /\ h.actual_size \in Nat /\ h \in HandedOut(g)
  BY <1>2 DEF IInv, TypeOK, Headers, MagicIsLive
<1>5. /\ pc[t] = "clear" /\ pc'[t] = "free" /\ pointers' = pointers
      /\ job'[t].arena = g /\ job'[t].raw = h.raw /\ job'[t].actual_size = h.actual_size
      /\ job' \in [Threads -> Jobs]
      /\ pc' \in [Threads -> {"idle", "allocate", "clear", "free", "abort"}]
      /\ \A u \in Threads : u # t => pc'[u] = pc[u] /\ job'[u] = job[u]
      /\ UNCHANGED <<life, shards, footer, tls_context_, next_shard_idx, calls>>
  <2>1. /\ job' = [job EXCEPT ![t].actual_size = h.actual_size]
        /\ pc[t] = "clear" /\ pc' = [pc EXCEPT ![t] = "free"] /\ pointers' = pointers
        /\ UNCHANGED <<life, shards, footer, tls_context_, next_shard_idx, calls>>
    BY DEF DeallocClear, Checked, Take
  <2>2. job \in [Threads -> Jobs] /\ pc \in [Threads -> {"idle", "allocate", "clear", "free", "abort"}]
    BY DEF IInv, TypeOK
  <2>3. job' \in [Threads -> Jobs] /\ job'[t] = [job[t] EXCEPT !.actual_size = h.actual_size]
    BY <1>4, <2>1, <2>2 DEF Jobs
  <2>4. job[t] \in Jobs
    BY <2>2
  <2>5. job'[t].arena = g /\ job'[t].raw = h.raw /\ job'[t].actual_size = h.actual_size
    BY <1>1, <1>2, <2>3, <2>4 DEF Jobs
  <2> QED
    BY <2>1, <2>2, <2>3, <2>5
<1>6. /\ header' \in [Arenas -> SUBSET Headers] /\ header'[g] = header[g] \ {h}
      /\ \A f \in Arenas : f # g => header'[f] = header[f]
  BY <1>1, <1>2 DEF DeallocClear, IInv, TypeOK, Headers
<1>7. TypeOK'
  BY <1>5, <1>6 DEF IInv, TypeOK, life, shards, Headers
<1>8. NeverAborts' /\ CallsSound'
  <2>1. arena' = arena /\ tls_context_' = tls_context_
    BY <1>5, SMTT(20) DEF life
  <2>2. NeverAborts'
    BY <1>5 DEF IInv, NeverAborts
  <2>3. ASSUME NEW u \in Threads, u # t
        PROVE  pc'[u] = pc[u] /\ job'[u] = job[u]
    BY <1>5, <2>3
  <2>4. CallsSound'
    BY <1>5, <2>1, <2>3 DEF IInv, CallsSound
  <2> QED
    BY <2>2, <2>4
<1>9. BlocksSound' /\ ObjectsSound'
  BY <1>5 DEF IInv, BlocksSound, ObjectsSound, life, shards
<1>10. MagicIsLive'
  <2>1. \A f \in Arenas : HandedOut(f)' = HandedOut(f)
    BY <1>5 DEF HandedOut, HeaderAt, shards
  <2>2. \A u \in Threads, f \in Arenas :
          /\ u # t => (Freeing(u, f)' <=> Freeing(u, f)) /\ HeaderIn(job'[u]) = HeaderIn(job[u])
          /\ Freeing(t, f)' <=> f = g
          /\ ~Freeing(t, f)
    BY <1>5 DEF Freeing
  <2>3. HeaderIn(job'[t]) = h
    BY <1>4, <1>5 DEF HeaderIn, Headers
  <2>4. \A f \in Arenas : \A k :
          k \in BeingFreed(f) <=> \E u \in Threads : Freeing(u, f) /\ k = HeaderIn(job[u])
    BY DEF BeingFreed
  <2>5. \A f \in Arenas : \A k :
          k \in BeingFreed(f)' <=> \E u \in Threads : Freeing(u, f)' /\ k = HeaderIn(job'[u])
    BY DEF BeingFreed, HeaderIn
  <2>6. BeingFreed(g)' = BeingFreed(g) \cup {h}
    <3>1. ASSUME NEW k PROVE k \in BeingFreed(g)' <=> k \in BeingFreed(g) \/ k = h
      <4>1. k \in BeingFreed(g) <=> \E u \in Threads : Freeing(u, g) /\ k = HeaderIn(job[u])
        BY <2>4
      <4>2. k \in BeingFreed(g)' <=> \E u \in Threads : Freeing(u, g)' /\ k = HeaderIn(job'[u])
        BY <2>5
      <4> QED
        BY <2>2, <2>3, <4>1, <4>2
    <3> QED
      BY <3>1
  <2>7. ASSUME NEW f \in Arenas, f # g
        PROVE  BeingFreed(f)' = BeingFreed(f)
    <3>1. ASSUME NEW k PROVE k \in BeingFreed(f)' <=> k \in BeingFreed(f)
      <4>1. k \in BeingFreed(f) <=> \E u \in Threads : Freeing(u, f) /\ k = HeaderIn(job[u])
        BY <2>4
      <4>2. k \in BeingFreed(f)' <=> \E u \in Threads : Freeing(u, f)' /\ k = HeaderIn(job'[u])
        BY <2>5
      <4> QED
        BY <2>2, <2>7, <4>1, <4>2
    <3> QED
      BY <3>1
  <2>8. /\ header[g] \cup BeingFreed(g) = HandedOut(g) /\ header[g] \cap BeingFreed(g) = {}
    BY DEF IInv, MagicIsLive
  <2>9. ASSUME NEW u \in Threads, u # t, Taking(u, g)
        PROVE  job[u].raw # h.raw
    BY <1>2, <2>9 DEF IInv, MagicIsLive, Taking
  <2>10. ASSUME NEW f \in Arenas, NEW u \in Threads, NEW v \in Threads,
                u # v, Taking(u, f)', Taking(v, f)'
         PROVE  job'[u].raw # job'[v].raw
    <3>1. Taking(u, f) /\ Taking(v, f) /\ job'[u].raw = job[u].raw /\ job'[v].raw = job[v].raw
      <4>1. \A w \in Threads : Taking(w, f)' => Taking(w, f) /\ job'[w].raw = job[w].raw
        BY <1>1, <1>2, <1>5 DEF Taking, Clearing, Freeing
      <4> QED
        BY <2>10, <4>1
    <3> QED
      BY <2>10, <3>1 DEF IInv, MagicIsLive
  <2>12. ASSUME NEW f \in Arenas, NEW u \in Threads, Clearing(u, f)'
         PROVE  \E k \in header'[f] : k.raw = job'[u].raw
    <3>1. u # t /\ Clearing(u, f) /\ job'[u] = job[u]
      BY <1>5, <2>12 DEF Clearing
    <3>2. PICK k \in header[f] : k.raw = job[u].raw
      BY <3>1 DEF IInv, MagicIsLive
    <3>3. f = g => k # h
      BY <2>9, <3>1, <3>2 DEF Taking
    <3> QED
      BY <1>6, <3>1, <3>2, <3>3
  <2>11. ASSUME NEW f \in Arenas
         PROVE  /\ header'[f] \cup BeingFreed(f)' = HandedOut(f)'
                /\ header'[f] \cap BeingFreed(f)' = {}
    <3>1. CASE f = g
      <4>1. header'[g] = header[g] \ {h} /\ h \in header[g]
        BY <1>2, <1>6
      <4>2. BeingFreed(g)' = BeingFreed(g) \cup {h} /\ HandedOut(g)' = HandedOut(g)
        BY <2>1, <2>6
      <4>3. /\ header'[g] \cup BeingFreed(g)' = HandedOut(g)'
            /\ header'[g] \cap BeingFreed(g)' = {}
        BY <2>8, <4>1, <4>2
      <4> QED
        BY <3>1, <4>3
    <3>2. CASE f # g
      BY <1>6, <2>1, <2>7, <3>2 DEF IInv, MagicIsLive
    <3> QED
      BY <3>1, <3>2
  <2> QED
    BY <2>10, <2>11, <2>12 DEF MagicIsLive
<1>11. PointersSound'
  <2>1. \A q, k : Leads(q, k)' <=> Leads(q, k)
    BY <1>5 DEF Leads
  <2>2. ASSUME NEW q \in pointers'
        PROVE  \E k \in header'[q.arena] : Behind(q, k) /\ Leads(q, k)
    <3>1. q \in pointers /\ q.arena \in Arenas
      BY <1>5 DEF IInv, TypeOK
    <3>2. PICK k \in header[q.arena] : Behind(q, k) /\ Leads(q, k)
      BY <3>1 DEF IInv, PointersSound
    <3>3. q.arena = g => k # h
      BY <1>2, <3>1, <3>2 DEF IInv, ClaimsSound
    <3> QED
      BY <1>6, <3>1, <3>2, <3>3
  <2>3. ASSUME NEW q \in pointers', NEW r \in pointers', NEW k \in header'[q.arena],
               q.arena = r.arena, Behind(q, k), Behind(r, k)
        PROVE  q = r
    <3>1. q \in pointers /\ r \in pointers /\ q.arena \in Arenas
      BY <1>5 DEF IInv, TypeOK
    <3>2. k \in header[q.arena]
      BY <1>6, <3>1, SMTT(20)
    <3> QED
      BY <2>3, <3>1, <3>2, SMTT(20) DEF IInv, PointersSound
  <2> QED
    BY <2>1, <2>2, <2>3 DEF PointersSound, Behind
<1>12. ClaimsSound'
  <2> SUFFICES ASSUME NEW u \in Threads, NEW q \in pointers', NEW k \in header'[q.arena],
                      Clearing(u, q.arena)', Behind(q, k)
               PROVE  k.raw # job'[u].raw
    BY SMTT(20) DEF ClaimsSound, Behind
  <2>1. q \in pointers /\ q.arena \in Arenas
    BY <1>5 DEF IInv, TypeOK
  <2>2. k \in header[q.arena]
    BY <1>6, <2>1
  <2>3. Clearing(u, q.arena) /\ job'[u] = job[u]
    BY <1>5, SMTT(20) DEF Clearing
  <2> QED
    BY <2>1, <2>2, <2>3 DEF IInv, ClaimsSound
<1> QED
  BY <1>7, <1>8, <1>9, <1>10, <1>11, <1>12 DEF IInv

\* The shard that dealloc_raw finds has handed the block out, with that size.
LEMMA FreedIsLive ==
  ASSUME IInv, NEW t \in Threads, NEW g \in Arenas, Freeing(t, g)
  PROVE  \E s \in Shards, b \in Blocks :
           /\ b \in live[g][s] /\ HeaderIn(job[t]) = HeaderAt(s, b)
           /\ get_shard_idx(job[t].raw) = s /\ OwnerOf(job[t].raw) = {s}
           /\ b = [off |-> job[t].raw - s * ShardSize, size |-> job[t].actual_size]
<1>1. HeaderIn(job[t]) \in HandedOut(g)
  BY DEF IInv, MagicIsLive, BeingFreed
<1>2. PICK s \in Shards : \E b \in live[g][s] : HeaderIn(job[t]) = HeaderAt(s, b)
  BY <1>1, HandedMember
<1>3. PICK b \in live[g][s] : HeaderIn(job[t]) = HeaderAt(s, b)
  BY <1>2
<1>4. b \in Blocks /\ b \in [off : Nat, size : Nat]
  BY BlockTypes DEF IInv, TypeOK
<1>5. b.size > 0 /\ b.off + b.size <= ShardSize /\ b.off \in Nat /\ b.size \in Nat
  BY <1>4 DEF IInv, BlocksSound
<1>6. b.off < ShardSize
  BY <1>5, ArenaAssumption
<1>7. job[t].raw = s * ShardSize + b.off /\ job[t].actual_size = b.size
  BY <1>3 DEF HeaderIn, HeaderAt
<1>8. get_shard_idx(job[t].raw) = s /\ OwnerOf(job[t].raw) = {s}
  BY <1>5, <1>6, <1>7, FoundShard
<1>9. s * ShardSize \in Nat
  BY ArenaAssumption, Product DEF Shards
<1>10. job[t].raw - s * ShardSize = b.off
  BY <1>5, <1>7, <1>9
<1>11. b = [off |-> job[t].raw - s * ShardSize, size |-> job[t].actual_size]
  BY <1>4, <1>7, <1>10, SMTT(20)
<1> QED
  BY <1>3, <1>4, <1>8, <1>11
\* The rest of dealloc_raw, in terms of the block it gives back.
LEMMA FreeEffect ==
  ASSUME IInv, NEW t \in Threads, DeallocFree(t)
  PROVE  \E g \in Arenas, s \in Shards, b \in Blocks :
           /\ Freeing(t, g) /\ b \in live[g][s] /\ HeaderIn(job[t]) = HeaderAt(s, b)
           /\ live' = [live EXCEPT ![g][s] = @ \ {b}]
           /\ allocated_' = [allocated_ EXCEPT ![g][s] = @ - b.size]
           /\ Return(t)
           /\ UNCHANGED <<life, memory, tls_context_, next_shard_idx, calls>>
<1>1. PICK g \in Arenas : g = job[t].arena /\ Freeing(t, g)
  BY DEF DeallocFree, Freeing, IInv, CallsSound
<1>2. PICK s \in Shards, b \in Blocks :
        /\ b \in live[g][s] /\ HeaderIn(job[t]) = HeaderAt(s, b)
        /\ get_shard_idx(job[t].raw) = s /\ OwnerOf(job[t].raw) = {s}
        /\ b = [off |-> job[t].raw - s * ShardSize, size |-> job[t].actual_size]
  BY <1>1, FreedIsLive
<1>3. ~(get_shard_idx(job[t].raw) >= kMaxShards)
  BY <1>2, ArenaAssumption DEF Shards
<1>4. /\ live' = [live EXCEPT ![g][s] = @ \ {b}]
      /\ allocated_' = [allocated_ EXCEPT ![g][s] = @ - b.size]
      /\ Return(t)
      /\ UNCHANGED <<life, memory, tls_context_, next_shard_idx, calls>>
  BY <1>1, <1>2, <1>3 DEF DeallocFree
<1> QED
  BY <1>1, <1>2, <1>4, Zenon

\* The shard the block came from takes it back.
LEMMA DeallocFreeKeeps ==
  ASSUME IInv, NEW t \in Threads, DeallocFree(t)
  PROVE  IInv'
<1>1. PICK g \in Arenas, s \in Shards, b \in Blocks :
        /\ Freeing(t, g) /\ b \in live[g][s] /\ HeaderIn(job[t]) = HeaderAt(s, b)
        /\ live' = [live EXCEPT ![g][s] = @ \ {b}]
        /\ allocated_' = [allocated_ EXCEPT ![g][s] = @ - b.size]
        /\ Return(t)
        /\ UNCHANGED <<life, memory, tls_context_, next_shard_idx, calls>>
  BY FreeEffect, SMTT(20)
<1>2. /\ live' \in [Arenas -> [Shards -> SUBSET Blocks]]
      /\ live'[g][s] = live[g][s] \ {b}
      /\ \A f \in Arenas, r \in Shards : f # g \/ r # s => live'[f][r] = live[f][r]
  BY <1>1, SMTT(20) DEF IInv, TypeOK
<1>3. /\ pc[t] = "free" /\ pc'[t] = "idle" /\ job[t].arena = g
      /\ \A u \in Threads : u # t => pc'[u] = pc[u] /\ job'[u] = job[u]
  BY <1>1 DEF Freeing, Return, IInv, TypeOK
<1>4. TypeOK' /\ NeverAborts' /\ CallsSound' /\ ObjectsSound'
  <2>1. allocated_' \in [Arenas -> [Shards -> Int]]
    <3>1. b.size \in Nat
      BY BlockTypes, SMTT(20)
    <3> QED
      <4>1. allocated_ \in [Arenas -> [Shards -> Int]]
        BY DEF IInv, TypeOK
      <4>2. allocated_' = [allocated_ EXCEPT ![g][s] = @ - b.size]
        BY <1>1
      <4> QED
        BY <3>1, <4>1, <4>2
  <2>2. pc' \in [Threads -> {"idle", "allocate", "clear", "free", "abort"}] /\ job' \in [Threads -> Jobs]
    BY <1>1, ArenaAssumption, ZenonT(30) DEF IInv, TypeOK, Return, Jobs, NoJob
  <2>3. TypeOK'
    BY <1>1, <1>2, <2>1, <2>2, Zenon DEF IInv, TypeOK, life, memory
  <2>4. NeverAborts' /\ CallsSound' /\ ObjectsSound'
    BY <1>1, <1>3, SMTT(20) DEF IInv, NeverAborts, CallsSound, ObjectsSound, life
  <2> QED
    BY <2>3, <2>4
<1>5. BlocksSound'
  <2>1. \A f \in Arenas, r \in Shards : live'[f][r] \subseteq live[f][r]
    BY <1>2
  <2> QED
    BY <2>1 DEF IInv, BlocksSound, Apart
<1>6. PointersSound' /\ ClaimsSound'
  BY <1>1, <1>3, SamePointers, SameClaims, SMTT(20) DEF IInv, memory
<1>7. MagicIsLive'
  <2> DEFINE h == HeaderAt(s, b)
  <2>1. \A f \in Arenas : \A k :
          k \in HandedOut(f) <=> \E r \in Shards : \E c \in live[f][r] : k = HeaderAt(r, c)
    BY HandedMember
  <2>2. \A f \in Arenas : \A k :
          k \in HandedOut(f)' <=> \E r \in Shards : \E c \in live'[f][r] : k = HeaderAt(r, c)
    BY DEF HandedOut, HeaderAt
  <2>3. \A r \in Shards : \A c \in live[g][r] : HeaderAt(r, c) = h => r = s /\ c = b
    <3> SUFFICES ASSUME NEW r \in Shards, NEW c \in live[g][r], HeaderAt(r, c) = h,
                        ~(r = s /\ c = b)
                 PROVE  FALSE
      OBVIOUS
    <3>1. /\ c \in [off : Nat, size : Nat] /\ c.off + c.size <= ShardSize
          /\ b \in [off : Nat, size : Nat] /\ b.off + b.size <= ShardSize /\ b.size > 0
          /\ r = s => Apart(c, b)
      <4>1. live[g][r] \in SUBSET Blocks /\ live[g][s] \in SUBSET Blocks /\ b \in live[g][s]
        <5>1. live \in [Arenas -> [Shards -> SUBSET Blocks]]
          BY DEF IInv, TypeOK
        <5>2. b \in live[g][s]
          BY <1>1
        <5> QED
          BY <5>1, <5>2, SMTT(20)
      <4>2. c \in [off : Nat, size : Nat] /\ b \in [off : Nat, size : Nat]
        BY <4>1, BlockTypes
      <4>3. c.off + c.size <= ShardSize /\ b.off + b.size <= ShardSize /\ b.size > 0
        BY <4>1 DEF IInv, BlocksSound
      <4>4. r = s => Apart(c, b)
        BY <4>1 DEF IInv, BlocksSound
      <4> QED
        BY <4>2, <4>3, <4>4
    <3>2. Away(h, h)
      BY <3>1, AwayInArena
    <3>3. h.raw \in Nat /\ h.actual_size \in Nat /\ h.actual_size > 0
      <4>1. s * ShardSize \in Nat
        BY ArenaAssumption, Product DEF Shards
      <4> QED
        BY <3>1, <4>1 DEF HeaderAt
    <3> HIDE DEF h
    <3> QED
      BY <3>2, <3>3 DEF Away
  <2> HIDE DEF h
  <2>4. HandedOut(g)' = HandedOut(g) \ {h}
    <3>1. \A k : k \in HandedOut(g)' <=> k \in HandedOut(g) /\ k # h
      BY <1>1, <1>2, <2>1, <2>2, <2>3 DEF h
    <3> QED
      BY <3>1
  <2>5. ASSUME NEW f \in Arenas, f # g
        PROVE  HandedOut(f)' = HandedOut(f)
    <3>1. ASSUME NEW k PROVE k \in HandedOut(f)' <=> k \in HandedOut(f)
      <4>1. k \in HandedOut(f) <=> \E r \in Shards : \E c \in live[f][r] : k = HeaderAt(r, c)
        BY <2>1
      <4>2. k \in HandedOut(f)' <=> \E r \in Shards : \E c \in live'[f][r] : k = HeaderAt(r, c)
        BY <2>2
      <4>3. \A r \in Shards : live'[f][r] = live[f][r]
        BY <1>2, <2>5
      <4> QED
        BY <4>1, <4>2, <4>3
    <3> QED
      BY <3>1, Zenon
  <2>6. \A u \in Threads, f \in Arenas :
          /\ u # t => (Freeing(u, f)' <=> Freeing(u, f)) /\ HeaderIn(job'[u]) = HeaderIn(job[u])
          /\ Freeing(t, f) <=> f = g
          /\ ~Freeing(t, f)'
    BY <1>3 DEF Freeing
  <2>7. \A f \in Arenas : \A k :
          k \in BeingFreed(f) <=> \E u \in Threads : Freeing(u, f) /\ k = HeaderIn(job[u])
    BY DEF BeingFreed
  <2>8. \A f \in Arenas : \A k :
          k \in BeingFreed(f)' <=> \E u \in Threads : Freeing(u, f)' /\ k = HeaderIn(job'[u])
    BY DEF BeingFreed, HeaderIn
  <2>9. \A u \in Threads : u # t /\ Freeing(u, g) => HeaderIn(job[u]) # h
    <3>1. \A u \in Threads : HeaderIn(job[u]).raw = job[u].raw
      BY DEF HeaderIn
    <3> QED
      BY <1>1, <3>1 DEF IInv, MagicIsLive, Taking, h
  <2>10. BeingFreed(g)' = BeingFreed(g) \ {h}
    <3>1. \A k : k \in BeingFreed(g)' <=> k \in BeingFreed(g) /\ k # h
      BY <1>1, <2>6, <2>7, <2>8, <2>9, SMTT(20) DEF h
    <3> QED
      BY <3>1
  <2>11. ASSUME NEW f \in Arenas, f # g
         PROVE  BeingFreed(f)' = BeingFreed(f)
    <3>1. ASSUME NEW k PROVE k \in BeingFreed(f)' <=> k \in BeingFreed(f)
      <4>1. k \in BeingFreed(f) <=> \E u \in Threads : Freeing(u, f) /\ k = HeaderIn(job[u])
        BY <2>7
      <4>2. k \in BeingFreed(f)' <=> \E u \in Threads : Freeing(u, f)' /\ k = HeaderIn(job'[u])
        BY <2>8
      <4> QED
        BY <2>6, <2>11, <4>1, <4>2
    <3> QED
      BY <3>1, Zenon
  <2>12. h \in BeingFreed(g) /\ header' = header
    BY <1>1, <2>7 DEF h, memory
  <2>13. ASSUME NEW f \in Arenas
         PROVE  /\ header'[f] \cup BeingFreed(f)' = HandedOut(f)'
                /\ header'[f] \cap BeingFreed(f)' = {}
    <3>1. header[f] \cup BeingFreed(f) = HandedOut(f) /\ header[f] \cap BeingFreed(f) = {}
      BY DEF IInv, MagicIsLive
    <3>2. CASE f = g
      BY <2>4, <2>10, <2>12, <3>1, <3>2
    <3>3. CASE f # g
      BY <2>5, <2>11, <2>12, <3>1, <3>3
    <3> QED
      BY <3>2, <3>3, SMTT(20)
  <2>14. \A u \in Threads, f \in Arenas :
           Taking(u, f)' => u # t /\ Taking(u, f) /\ job'[u] = job[u]
    BY <1>3, SMTT(20) DEF Taking, Clearing, Freeing
  <2>15. ASSUME NEW f \in Arenas, NEW u \in Threads, NEW v \in Threads,
                u # v, Taking(u, f)', Taking(v, f)'
         PROVE  job'[u].raw # job'[v].raw
    BY <2>14, <2>15, SMTT(20) DEF IInv, MagicIsLive
  <2>16. ASSUME NEW f \in Arenas, NEW u \in Threads, Clearing(u, f)'
         PROVE  \E k \in header'[f] : k.raw = job'[u].raw
    <3>1. Clearing(u, f) /\ job'[u] = job[u]
      BY <1>3, <2>16 DEF Clearing
    <3> QED
      BY <2>12, <3>1 DEF IInv, MagicIsLive
  <2> QED
    BY <2>13, <2>15, <2>16 DEF MagicIsLive
<1> QED
  BY <1>4, <1>5, <1>6, <1>7 DEF IInv

-----------------------------------------------------------------------------
\* Every step keeps the invariant.
LEMMA NextKeeps == IInv /\ [Next]_vars => IInv'
<1> SUFFICES ASSUME IInv, [Next]_vars PROVE IInv'
  BY SMTT(20)
<1>1. ASSUME NEW t \in Threads, CallStep(t)
      PROVE  IInv'
  <2>1. ASSUME NEW g \in Arenas, NEW size \in Sizes, NEW alignment \in Alignments,
               AllocBegin(t, g, size, alignment) \/ do_allocate(t, g, size, alignment)
        PROVE  IInv'
    <3>1. PICK h \in Arenas : AllocBegin(t, h, size, alignment)
      BY <2>1 DEF do_allocate, Through
    <3> QED
      BY <3>1, AllocBeginKeeps
  <2>2. ASSUME NEW b \in Blocks, Allocate(t, b)
        PROVE  IInv'
    BY <2>2, AllocateKeeps
  <2>3. ASSUME NEW p \in pointers, DeallocBegin(t, p) \/ do_deallocate(t, p)
        PROVE  IInv'
    BY <2>3, DeallocBeginKeeps DEF do_deallocate
  <2>7. ASSUME NEW h, DeallocClear(t, h)
        PROVE  IInv'
    BY <2>7, DeallocClearKeeps
  <2>4. CASE AllocateFails(t)
    BY <2>4, AllocateFailsKeeps
  <2>5. ASSUME NEW g \in Arenas, DeallocAgain(t, g)
        PROVE  IInv'
    BY <2>5, DeallocAgainKeeps
  <2>6. CASE DeallocFree(t)
    BY <2>6, DeallocFreeKeeps
  <2> QED
    BY <1>1, <2>1, <2>2, <2>3, <2>4, <2>5, <2>6, <2>7 DEF CallStep
<1>2. ASSUME NEW g \in Arenas, ObjectStep(g)
      PROVE  IInv'
  BY <1>2, CreateKeeps, MoveKeeps, DestroyKeeps DEF ObjectStep
<1>3. CASE UNCHANGED vars
  BY <1>3, StutterKeeps
<1> QED
  BY <1>1, <1>2, <1>3 DEF Next

\* The invariant holds throughout.
THEOREM ArenaInvariant == Spec => []IInv
  BY InitSound, NextKeeps, PTL DEF Spec

\* Type correctness of Impl, its contexts and the locals of its calls.
THEOREM ArenaTypes == Spec => []TypeOK
<1>1. IInv => TypeOK
  BY DEF IInv
<1> QED
  BY <1>1, ArenaInvariant, PTL

\* alloc_raw and dealloc_raw never reach their abort calls.
THEOREM ArenaNeverAborts == Spec => []NeverAborts
<1>1. IInv => NeverAborts
  BY DEF IInv
<1> QED
  BY <1>1, ArenaInvariant, PTL

\* What dealloc_raw does to headers without a lock is safe against all other
\* calls, as long as callers do not give one pointer back on two threads at once.
THEOREM ArenaMagic == Spec => []MagicIsLive
<1>1. IInv => MagicIsLive
  BY DEF IInv
<1> QED
  BY <1>1, ArenaInvariant, PTL

\* alloc_raw serves a thread from the arena it was called on, and a pmr
\* resource finds its arena after any moves.
THEOREM ArenaOwn == Spec => []OwnArena
<1>1. IInv => OwnArena
  BY DEF IInv, OwnArena, CallsSound, ObjectsSound, Through
<1> QED
  BY <1>1, ArenaInvariant, PTL

\* Footers lead to headers, callers' bytes lie in their blocks, and no two
\* callers share a byte.
THEOREM ArenaCallers == Spec => []CallersSafe
<1>1. IInv => CallersSafe
  <2> SUFFICES ASSUME IInv, NEW p \in pointers
               PROVE  /\ \E h \in header[p.arena] :
                           /\ HeaderOf(p.arena, p.user) = {h}
                           /\ h.raw + Overhead <= p.user /\ p.user + p.size <= h.raw + h.actual_size
                      /\ \A q \in pointers : p # q /\ p.arena = q.arena =>
                           p.user + p.size <= q.user \/ q.user + q.size <= p.user
    BY DEF CallersSafe
  <2>1. PICK h \in header[p.arena] : Behind(p, h) /\ HeaderOf(p.arena, p.user) = {h}
    BY FooterLeads
  <2>2. ASSUME NEW q \in pointers, p # q, p.arena = q.arena
        PROVE  p.user + p.size <= q.user \/ q.user + q.size <= p.user
    <3>1. PICK k \in header[p.arena] : Behind(q, k)
      BY <2>2 DEF IInv, PointersSound
    <3>2. h # k
      BY <2>1, <2>2, <3>1 DEF IInv, PointersSound
    <3>3. p.arena \in Arenas /\ p.user \in Nat /\ p.size \in Nat /\ q.user \in Nat /\ q.size \in Nat
      BY ArenaAssumption, Zenon DEF IInv, TypeOK
    <3>4. h \in HandedOut(p.arena) /\ k \in HandedOut(p.arena)
      BY <3>3 DEF IInv, MagicIsLive
    <3>5. Away(h, k) /\ h \in Headers /\ k \in Headers
      BY <3>2, <3>3, <3>4, HandedApart DEF IInv
    <3>6. Overhead \in Nat
      BY ArenaAssumption
    <3> QED
      BY <2>1, <3>1, <3>3, <3>5, <3>6 DEF Away, Behind, Headers
  <2> QED
    BY <2>1, <2>2 DEF Behind
<1> QED
  BY <1>1, ArenaInvariant, PTL

-----------------------------------------------------------------------------
\* What a step does to a shard, in the words of its contract.
ShardStep(g, s) == Shard(g, s)!Next \/ UNCHANGED <<live[g][s], allocated_[g][s]>>

\* A step of alloc_raw under the lock is a Grant of the context's shard.
LEMMA AllocateGrants ==
  ASSUME IInv, NEW t \in Threads, NEW b \in Blocks, Allocate(t, b),
         NEW g \in Arenas, NEW s \in Shards
  PROVE  ShardStep(g, s)
<1>1. PICK g0 \in Arenas, s0 \in Shards :
        g0 = tls_context_[t].generation /\ s0 = tls_context_[t].shard
  BY SMTT(20) DEF IInv, CallsSound, Allocate, Context
<1>2. /\ b \in Answers(live[g0][s0], Total(job[t].size, job[t].alignment))
      /\ live' = [live EXCEPT ![g0][s0] = @ \cup {b}]
      /\ allocated_' = [allocated_ EXCEPT ![g0][s0] = @ + b.size]
  BY <1>1 DEF Allocate
<1>3. CASE g # g0 \/ s # s0
  <2>1. live'[g][s] = live[g][s] /\ allocated_'[g][s] = allocated_[g][s]
    BY <1>2, <1>3 DEF IInv, TypeOK
  <2> QED
    BY <2>1 DEF ShardStep
<1>4. CASE g = g0 /\ s = s0
  <2>1. live'[g][s] = live[g][s] \cup {b} /\ allocated_'[g][s] = allocated_[g][s] + b.size
    BY <1>2, <1>4 DEF IInv, TypeOK
  <2>2. PICK total \in Totals : total = Total(job[t].size, job[t].alignment)
    <3>1. job[t].size \in Sizes /\ job[t].alignment \in Alignments
      BY DEF IInv, CallsSound, Allocate
    <3> QED
      BY <3>1, SMTT(20) DEF Totals
  <2>3. /\ b.size > 0 /\ b.size >= total /\ b.off + b.size <= ShardSize
        /\ \A c \in live[g][s] : Apart(b, c)
    BY <1>2, <1>4, <2>2 DEF Answers
  <2>4. b.off \in Granules /\ b.size \in Granules /\ b = [off |-> b.off, size |-> b.size]
    BY DEF Blocks
  <2>5. Shard(g, s)!Grant(total)
    BY <2>1, <2>3, <2>4 DEF Shard!Grant, Shard!Granules, Shard!Apart, Granules, Apart
  <2> QED
    BY <2>5 DEF ShardStep, Shard!Next
<1> QED
  BY <1>3, <1>4, SMTT(20)

\* The rest of dealloc_raw is a Return to the shard that had handed the block out.
LEMMA FreeReturns ==
  ASSUME IInv, NEW t \in Threads, DeallocFree(t), NEW g \in Arenas, NEW s \in Shards
  PROVE  ShardStep(g, s)
<1>1. PICK g0 \in Arenas, s0 \in Shards, b \in Blocks :
        /\ Freeing(t, g0) /\ b \in live[g0][s0] /\ HeaderIn(job[t]) = HeaderAt(s0, b)
        /\ live' = [live EXCEPT ![g0][s0] = @ \ {b}]
        /\ allocated_' = [allocated_ EXCEPT ![g0][s0] = @ - b.size]
        /\ Return(t)
        /\ UNCHANGED <<life, memory, tls_context_, next_shard_idx, calls>>
  BY FreeEffect, Zenon
<1>2. CASE g # g0 \/ s # s0
  <2>1. live'[g][s] = live[g][s] /\ allocated_'[g][s] = allocated_[g][s]
    BY <1>1, <1>2, ZenonT(30) DEF IInv, TypeOK
  <2> QED
    BY <2>1 DEF ShardStep
<1>3. CASE g = g0 /\ s = s0
  <2>1. /\ b \in live[g][s] /\ live'[g][s] = live[g][s] \ {b}
        /\ allocated_'[g][s] = allocated_[g][s] - b.size
    BY <1>1, <1>3, ZenonT(30) DEF IInv, TypeOK
  <2>2. Shard(g, s)!Return(b)
    BY <2>1, Zenon DEF Shard!Return
  <2> QED
    BY <2>1, <2>2, SMTT(20) DEF ShardStep, Shard!Next
<1> QED
  BY <1>2, <1>3

\* Every shard is used as the contract of its allocator says, under the same
\* condition on callers.
THEOREM ArenaShards == Spec => ShardsKeepContract
<1>1. Init => \A g \in Arenas, s \in Shards : Shard(g, s)!Init
  BY DEF Init, Shard!Init
<1>2. IInv /\ [Next]_vars =>
        [\A g \in Arenas, s \in Shards :
           Shard(g, s)!Next \/ UNCHANGED <<live[g][s], allocated_[g][s]>>]_vars
  <2> SUFFICES ASSUME IInv, Next, NEW g \in Arenas, NEW s \in Shards
               PROVE  ShardStep(g, s)
    BY DEF ShardStep
  <2>1. ASSUME UNCHANGED shards PROVE ShardStep(g, s)
    BY <2>1 DEF ShardStep, shards
  <2>2. ASSUME NEW t \in Threads, CallStep(t) PROVE ShardStep(g, s)
    <3>1. CASE UNCHANGED shards
      BY <2>1, <3>1
    <3>2. CASE ~UNCHANGED shards
      <4>1. (\E b \in Blocks : Allocate(t, b)) \/ DeallocFree(t)
        BY <2>2, <3>2, Zenon DEF CallStep, AllocBegin, do_allocate, AllocateFails, DeallocBegin,
                          do_deallocate, DeallocClear, Take, DeallocAgain, shards
      <4> QED
        BY <4>1, AllocateGrants, FreeReturns, SMTT(20)
    <3> QED
      BY <3>1, <3>2
  <2>3. ASSUME NEW f \in Arenas, ObjectStep(f) PROVE ShardStep(g, s)
    BY <2>1, <2>3 DEF ObjectStep, Create, Move, Destroy, shards
  <2> QED
    BY <2>2, <2>3 DEF Next
<1> QED
  BY <1>1, <1>2, ArenaInvariant, PTL DEF Spec, ShardsKeepContract
=============================================================================

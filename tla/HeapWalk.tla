------------------------------ MODULE HeapWalk ------------------------------
(***************************************************************************)
(* snapshot_json (interface/visualization_arena.cpp): the walk over the    *)
(* memory of each shard, under that shard's mutex, that finds the blocks a *)
(* snapshot lists.  dealloc_raw clears a magic without that mutex, so the  *)
(* walk is taken header by header.                                         *)
(*                                                                         *)
(* From a header with a magic the walk goes on by the size the caller      *)
(* asked for.  That leads into the block itself, and there, as wherever    *)
(* no magic is found, it goes on by the word it reads.                     *)
(***************************************************************************)
EXTENDS Integers

CONSTANTS
  kMaxShards,
  ShardSize,    \* cap
  HeaderSize    \* sizeof(AllocationHeader)

Shards == 0 .. kMaxShards - 1

VARIABLES
  walking,      \* the shard whose mutex is held, kMaxShards before and after
  offset,
  blocks        \* the arena offsets of the blocks found

walkvars == <<walking, offset, blocks>>

WalkInit == walking = kMaxShards /\ offset = 0 /\ blocks = {}

\* What the first word of memory without a magic can be: the size of a free
\* block, a link of a list, or bytes of a caller.
Words == 0 .. ShardSize

WalkBegin ==
  /\ walking = kMaxShards
  /\ walking' = 0 /\ offset' = 0 /\ blocks' = {}

\* Mutant: the offset within the shard is reported.
ReportsShardOffset(s, off) == off

Reports(s, off) == s * ShardSize + off

\* The loop's exits leave this shard for the next.
Leave == walking' = walking + 1 /\ offset' = 0

Ends(step) == step = 0 \/ step > ShardSize \/ offset + step > ShardSize
Go(step)   == IF Ends(step) THEN Leave ELSE offset' = offset + step /\ UNCHANGED walking

\* One turn of the loop; magic holds [shard, off, size] of the intact headers.
WalkStep(magic) ==
  LET at == {h \in magic : h.shard = walking /\ h.off = offset}
  IN  /\ walking \in Shards
      /\ IF offset + HeaderSize > ShardSize
         THEN Leave /\ UNCHANGED blocks
         ELSE IF at = {}
         THEN (\E word \in Words : Go(word)) /\ UNCHANGED blocks
         ELSE \E h \in at :
                /\ Go(h.size)
                /\ blocks' = IF Ends(h.size) THEN blocks
                             ELSE blocks \cup {Reports(walking, offset)}
=============================================================================

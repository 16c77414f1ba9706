------------------------------ MODULE FreeList ------------------------------
(***************************************************************************)
(* FreeListAllocator (allocator/free_list.cpp): the first-fit allocator    *)
(* over one contiguous region.  Free memory is either a node of an         *)
(* address-ordered tree or an entry of one of eight LIFO lists of small    *)
(* blocks.  This module keeps the tree as the set of its blocks; how the   *)
(* red-black tree represents that set is the subject of RBTree.            *)
(*                                                                         *)
(* A block is its offset from base_ and its size, both in bytes.           *)
(***************************************************************************)
EXTENDS Integers, Sequences, FiniteSets

CONSTANTS
  Base,        \* address of base_
  Size,        \* size_
  Requests,    \* sizes callers pass to allocate
  Alignments,  \* alignments callers pass to allocate
  Modulus      \* size_t arithmetic is modulo this (2^64 on the build target)

VARIABLES
  tree,          \* the blocks of the tree rooted at root_
  free_lists_,   \* class index -> offsets, head of the list first
  allocated_,
  free_blocks_,
  live           \* blocks handed out by allocate and not yet given back

vars == <<tree, free_lists_, allocated_, free_blocks_, live>>

kSmallBlockQuantum == 16
kNumSmallClasses   == 8
kMaxSmallBlockSize == kSmallBlockQuantum * kNumSmallClasses
kMinBlockSize      == 48

Classes == 0 .. kNumSmallClasses - 1

\* Mmap returns whole pages and the shards cut from them are multiples of the
\* quantum; FreeBlock headers need the 16-byte alignment the rest relies on.
ASSUME RegionAssumption ==
  /\ Base \in Nat /\ Base % kSmallBlockQuantum = 0
  /\ Size \in Nat /\ Size % kSmallBlockQuantum = 0 /\ Size >= kMinBlockSize
  /\ Modulus \in Nat /\ Modulus > 1

\* Alignments are powers of two; all the code needs of one above the quantum
\* is that it is a multiple of the quantum.
ASSUME RequestAssumption ==
  /\ Requests \subseteq Nat
  /\ Alignments \subseteq Nat
  /\ \A a \in Alignments : a <= kSmallBlockQuantum \/ a % kSmallBlockQuantum = 0

-----------------------------------------------------------------------------
Block(off, size) == [off |-> off, size |-> size]
End(b)           == b.off + b.size
Bytes(b)         == b.off .. (End(b) - 1)

ClassOf(size)  == (size \div kSmallBlockQuantum) - 1
ClassSize(idx) == kSmallBlockQuantum * (idx + 1)

\* The blocks held by segregated lists.
Listed(lists) ==
  UNION { { Block(lists[idx][i], ClassSize(idx)) : i \in 1 .. Len(lists[idx]) } : idx \in Classes }

SmallBlocks == Listed(free_lists_)

FreeBlocks == tree \cup SmallBlocks
Blocks     == FreeBlocks \cup live

\* Mutants: the request used as it is; rounded down.
InternalSizeUnrounded(size) == IF size = 0 THEN 1 ELSE size
InternalSizeDown(size)      == (size \div 16) * 16

\* size rounded up to the quantum, zero counted as one.
InternalSize(size) ==
  LET n == IF size = 0 THEN 1 ELSE size
  IN  ((n + 15) \div 16) * 16

InternalAlign(alignment) ==
  IF alignment < kSmallBlockQuantum THEN kSmallBlockQuantum ELSE alignment

\* Where std::align moves an offset to: the next multiple of align, the
\* multiple being taken of the address and not of the offset.
AlignUp(off, align) ==
  LET r == (Base + off) % align
  IN  IF r = 0 THEN off ELSE off + (align - r)

\* Mutant: the new head does not link to the old one.
PushUnlinked(lists, b) == [lists EXCEPT ![ClassOf(b.size)] = <<b.off>>]

\* A block becomes the head of the list of its class.
Push(lists, b) == [lists EXCEPT ![ClassOf(b.size)] = <<b.off>> \o @]

-----------------------------------------------------------------------------
\* The constructor: one block that spans the region.
Init ==
  /\ tree = {Block(0, Size)}
  /\ free_lists_ = [idx \in Classes |-> <<>>]
  /\ allocated_ = 0
  /\ free_blocks_ = 1
  /\ live = {}

\* A small request finds a block in the list of its class.
SmallHit(n) == n <= kMaxSmallBlockSize /\ free_lists_[ClassOf(n)] # <<>>

\* Tree blocks the search of allocate accepts: at least min_size long, and
\* long enough for n bytes once the start has been aligned.
Candidates(n, align) ==
  { b \in tree : /\ b.size >= n /\ b.size >= kMinBlockSize
                 /\ AlignUp(b.off, align) + n <= End(b) }

\* Mutants: the head stays in the list; the counters stay behind.
AllocateSmallNoPop(size, alignment) ==
  LET n == InternalSize(size)
  IN  /\ SmallHit(n)
      /\ live' = live \cup {Block(Head(free_lists_[ClassOf(n)]), n)}
      /\ allocated_' = allocated_ + n
      /\ free_blocks_' = (free_blocks_ - 1) % Modulus
      /\ UNCHANGED <<tree, free_lists_>>

AllocateSmallUncounted(size, alignment) ==
  LET n == InternalSize(size)
  IN  /\ SmallHit(n)
      /\ free_lists_' = [free_lists_ EXCEPT ![ClassOf(n)] = Tail(@)]
      /\ live' = live \cup {Block(Head(free_lists_[ClassOf(n)]), n)}
      /\ UNCHANGED <<tree, allocated_, free_blocks_>>

\* allocate, first part: pop the head of the class list.
AllocateSmall(size, alignment) ==
  LET n   == InternalSize(size)
      idx == ClassOf(n)
  IN  /\ SmallHit(n)
      /\ free_lists_' = [free_lists_ EXCEPT ![idx] = Tail(@)]
      /\ allocated_' = allocated_ + n
      /\ free_blocks_' = (free_blocks_ - 1) % Modulus
      /\ live' = live \cup {Block(Head(free_lists_[idx]), n)}
      /\ UNCHANGED tree

\* allocate, second part, once the search has settled on block b: cut the n
\* bytes at the first aligned offset out of it; the gap before them and the
\* remainder behind them go back to the tree or to a list.
Carve(b, n, align) ==
  LET ptr       == AlignUp(b.off, align)
      gap       == Block(b.off, ptr - b.off)
      remainder == Block(ptr + n, End(b) - (ptr + n))
      gapListed == gap.size \in kSmallBlockQuantum .. kMaxSmallBlockSize
      remListed == remainder.size \in kSmallBlockQuantum .. kMinBlockSize - 1
      absorbed  == remainder.size < kSmallBlockQuantum
      actual    == IF absorbed THEN n + remainder.size ELSE n
      listsGap  == IF gapListed THEN Push(free_lists_, gap) ELSE free_lists_
  IN  /\ tree' = (tree \ {b})
                   \cup (IF gap.size > kMaxSmallBlockSize THEN {gap} ELSE {})
                   \cup (IF remainder.size >= kMinBlockSize THEN {remainder} ELSE {})
      /\ free_lists_' = IF remListed THEN Push(listsGap, remainder) ELSE listsGap
      /\ free_blocks_' = IF absorbed THEN (free_blocks_ - 1) % Modulus ELSE free_blocks_
      /\ allocated_' = allocated_ + actual
      /\ live' = live \cup {Block(ptr, actual)}

AllocateTree(size, alignment) ==
  LET n     == InternalSize(size)
      align == InternalAlign(alignment)
  IN  /\ ~SmallHit(n)
      /\ \E b \in Candidates(n, align) :
           /\ \A c \in Candidates(n, align) : b.off <= c.off
           /\ Carve(b, n, align)

\* allocate returns OutOfMemory.
AllocateFails(size, alignment) ==
  LET n == InternalSize(size)
  IN  /\ ~SmallHit(n)
      /\ Candidates(n, InternalAlign(alignment)) = {}
      /\ UNCHANGED vars

allocate(size, alignment) ==
  \/ AllocateSmall(size, alignment)
  \/ AllocateTree(size, alignment)
  \/ AllocateFails(size, alignment)

\* Mutant: the bytes of the largest class are subtracted.
DeallocateSmallByClass(b) ==
  /\ b.size <= kMaxSmallBlockSize
  /\ free_lists_' = Push(free_lists_, b)
  /\ allocated_' = allocated_ - kMaxSmallBlockSize
  /\ free_blocks_' = (free_blocks_ + 1) % Modulus
  /\ live' = live \ {b}
  /\ UNCHANGED tree

\* deallocate of a block of at most 128 bytes: push it on its list.
DeallocateSmall(b) ==
  /\ b.size <= kMaxSmallBlockSize
  /\ free_lists_' = Push(free_lists_, b)
  /\ allocated_' = allocated_ - b.size
  /\ free_blocks_' = (free_blocks_ + 1) % Modulus
  /\ live' = live \ {b}
  /\ UNCHANGED tree

\* Mutant: the block is inserted and not merged.
DeallocateLargeUnmerged(b) ==
  /\ b.size > kMaxSmallBlockSize
  /\ tree' = tree \cup {b}
  /\ free_blocks_' = (free_blocks_ + 1) % Modulus
  /\ allocated_' = allocated_ - b.size
  /\ live' = live \ {b}
  /\ UNCHANGED free_lists_

\* deallocate of a larger block: insert it into the tree and merge it with
\* the tree block that starts where it ends, then with the one that ends
\* where it starts.
DeallocateLarge(b) ==
  LET succ   == {c \in tree : c.off = End(b)}
      prev   == {c \in tree : End(c) = b.off}
      first  == IF prev = {} THEN b ELSE CHOOSE c \in prev : TRUE
      last   == IF succ = {} THEN b ELSE CHOOSE c \in succ : TRUE
      merges == (IF succ = {} THEN 0 ELSE 1) + (IF prev = {} THEN 0 ELSE 1)
  IN  /\ b.size > kMaxSmallBlockSize
      /\ tree' = (tree \ (succ \cup prev)) \cup {Block(first.off, End(last) - first.off)}
      /\ free_blocks_' = (free_blocks_ + 1 - merges) % Modulus
      /\ allocated_' = allocated_ - b.size
      /\ live' = live \ {b}
      /\ UNCHANGED free_lists_

\* deallocate returns BadPointer for an address outside the region and
\* InvalidAlignment for one that is not a multiple of 16, before it has
\* changed anything.  For nullptr, offset -Base, it returns at once.
DeallocateRejected(off) ==
  /\ off \notin 0 .. Size - 1 \/ (Base + off) % 16 # 0
  /\ UNCHANGED vars

\* A block is given back with its actual size.
deallocate(b) == DeallocateSmall(b) \/ DeallocateLarge(b)

Next ==
  \/ \E size \in Requests, alignment \in Alignments : allocate(size, alignment)
  \/ \E b \in live : deallocate(b)
  \/ \E off \in {-Base, -kSmallBlockQuantum, 8, Size} : DeallocateRejected(off)

Spec == Init /\ [][Next]_vars

-----------------------------------------------------------------------------
TypeOK ==
  /\ tree \subseteq [off : Nat, size : Nat]
  /\ live \subseteq [off : Nat, size : Nat]
  /\ free_lists_ \in [Classes -> Seq(Nat)]
  /\ allocated_ \in Nat
  /\ free_blocks_ \in 0 .. Modulus - 1

Overlap(b, c) == b.off < End(c) /\ c.off < End(b)

NoDuplicates(lists) ==
  \A idx \in Classes : \A i, j \in 1 .. Len(lists[idx]) :
    lists[idx][i] = lists[idx][j] => i = j

\* No byte belongs to two blocks, whoever holds them: two callers, a caller
\* and the tree, a caller and a small list, or the tree and a small list.
\* A block is in one place only, and once only in its list.
Disjoint ==
  /\ \A b, c \in Blocks : b # c => ~Overlap(b, c)
  /\ tree \cap SmallBlocks = {}
  /\ FreeBlocks \cap live = {}
  /\ NoDuplicates(free_lists_)

\* No byte of the region is lost: whatever allocate splits off and whatever
\* deallocate merges, each byte is in some block.
Covered == \A x \in 0 .. Size - 1 : \E b \in Blocks : x \in Bytes(b)

\* Blocks are never empty, stay inside the region and start and end on the
\* quantum, so that each free one can hold its header at an aligned address.
WellFormed ==
  /\ \A b \in Blocks : /\ b.size >= kSmallBlockQuantum /\ End(b) <= Size
                       /\ b.off % kSmallBlockQuantum = 0
                       /\ b.size % kSmallBlockQuantum = 0
  /\ \A b \in tree : b.size >= kMinBlockSize

\* Two tree blocks never touch: whenever a block enters the tree, everything
\* it could merge with has been merged.
Coalesced == \A b, c \in tree : End(b) # c.off

\* The bytes of a set of blocks.
Held(blocks) == UNION {Bytes(b) : b \in blocks}

\* bytes_allocated() is the number of bytes callers hold, bytes_free() the
\* number of bytes in the tree and the lists.
Accounting ==
  /\ allocated_ = Cardinality(Held(live))
  /\ Size - allocated_ = Cardinality(Held(FreeBlocks))

\* Small blocks are never merged, but once callers and lists hold none, the
\* tree is one block again: nothing else fragments the region for good.
WholeAgain == live = {} /\ SmallBlocks = {} => tree = {Block(0, Size)}

\* The block allocate hands out has the alignment it was asked for.
AlignmentHonoured ==
  [][ \A size \in Requests, alignment \in Alignments :
        allocate(size, alignment) => \A b \in live' \ live : (Base + b.off) % alignment = 0 ]_vars

-----------------------------------------------------------------------------
Contract == INSTANCE AllocatorContract

\* The allocator keeps its contract: whatever allocate pops, splits or
\* absorbs, the caller gets a part nobody else holds, and nothing but
\* allocate and deallocate changes what callers hold.
KeepsContract == Contract!Spec
=============================================================================

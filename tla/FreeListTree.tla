---------------------------- MODULE FreeListTree ----------------------------
(***************************************************************************)
(* FreeListAllocator with its red-black tree: allocate and deallocate make *)
(* the calls on the tree that free_list.cpp makes, one after the other,    *)
(* and find their blocks with find_first_fit, successor and predecessor.   *)
(* Shown to implement FreeList, where the tree is a set of blocks.         *)
(***************************************************************************)
EXTENDS Integers, Sequences, FiniteSets

CONSTANTS Base, Size, Requests, Alignments, Modulus, Nil

VARIABLES t, free_lists_, allocated_, free_blocks_, live

vars == <<t, free_lists_, allocated_, free_blocks_, live>>

T == INSTANCE RBTreeOps WITH Addr <- {a \in 0 .. Size - 1 : a % 16 = 0}

\* FreeList, with the blocks the nodes are for its set.
F == INSTANCE FreeList WITH tree <- T!Content(t)

Init ==
  /\ t = T!insert_node(T!Empty, 0, Size)
  /\ free_lists_ = [idx \in F!Classes |-> <<>>]
  /\ allocated_ = 0
  /\ free_blocks_ = 1
  /\ live = {}

-----------------------------------------------------------------------------
Fits(x, n, align) == F!AlignUp(x, align) + n <= x + t.size[x]

\* Mutant: the first node long enough is the only one tried.
SearchOnce(x, n, align) == IF x = Nil \/ Fits(x, n, align) THEN x ELSE Nil

\* The search loop of allocate, from node x on.
RECURSIVE Search(_, _, _)
Search(x, n, align) ==
  IF x = Nil \/ (t.size[x] >= n /\ t.size[x] >= F!kMinBlockSize /\ Fits(x, n, align)) THEN x
  ELSE Search(T!successor(t, x), n, align)

Found(n, align) ==
  Search(T!find_first_fit(t, IF n < F!kMinBlockSize THEN F!kMinBlockSize ELSE n), n, align)

\* The nodes and trees on the way are bound one after the other, as the code
\* computes them.
AllocateTree(size, alignment) ==
  LET n     == F!InternalSize(size)
      align == F!InternalAlign(alignment)
  IN  /\ ~F!SmallHit(n)
      /\ \E curr \in {Found(n, align)} \ {Nil} : \E ptr \in {F!AlignUp(curr, align)} :
         LET gap     == F!Block(curr, ptr - curr)
             rest    == F!Block(ptr + n, curr + t.size[curr] - (ptr + n))
             listGap == IF gap.size \in F!kSmallBlockQuantum .. F!kMaxSmallBlockSize
                        THEN F!Push(free_lists_, gap) ELSE free_lists_
             absorb  == rest.size < F!kSmallBlockQuantum
             actual  == IF absorb THEN n + rest.size ELSE n
         IN  /\ \E cut \in {T!delete_node(t, curr)} :
                \E withGap \in {IF gap.size > F!kMaxSmallBlockSize
                                THEN T!insert_node(cut, gap.off, gap.size) ELSE cut} :
                  t' = IF rest.size >= F!kMinBlockSize
                       THEN T!insert_node(withGap, rest.off, rest.size) ELSE withGap
             /\ free_lists_' = IF rest.size \in F!kSmallBlockQuantum .. F!kMinBlockSize - 1
                               THEN F!Push(listGap, rest) ELSE listGap
             /\ free_blocks_' = IF absorb THEN (free_blocks_ - 1) % Modulus ELSE free_blocks_
             /\ allocated_' = allocated_ + actual
             /\ live' = live \cup {F!Block(ptr, actual)}

AllocateFails(size, alignment) ==
  LET n == F!InternalSize(size)
  IN  /\ ~F!SmallHit(n)
      /\ Found(n, F!InternalAlign(alignment)) = Nil
      /\ UNCHANGED vars

AllocateSmall(size, alignment) ==
  UNCHANGED t /\ F!AllocateSmall(size, alignment)

DeallocateSmall(b) == UNCHANGED t /\ F!DeallocateSmall(b)

\* Mutant: the predecessor grows by the size before the first merge.
DeallocateLargeStale(b) ==
  /\ b.size > F!kMaxSmallBlockSize
  /\ \E freed \in {T!insert_node(t, b.off, b.size)} :
     \E succ \in {T!successor(freed, b.off)} :
     LET next == succ # Nil /\ b.off + b.size = succ
     IN  \E t1 \in {IF next
                    THEN T!Grow(T!delete_node(freed, succ), b.off, b.size + freed.size[succ])
                    ELSE freed} :
         \E prev \in {T!predecessor(t1, b.off)} :
         LET last   == prev # Nil /\ prev + t1.size[prev] = b.off
             merges == (IF next THEN 1 ELSE 0) + (IF last THEN 1 ELSE 0)
         IN  /\ t' = IF last
                     THEN T!Grow(T!delete_node(t1, b.off), prev, t1.size[prev] + b.size)
                     ELSE t1
             /\ free_blocks_' = (free_blocks_ + 1 - merges) % Modulus
  /\ allocated_' = allocated_ - b.size
  /\ live' = live \ {b}
  /\ UNCHANGED free_lists_

\* deallocate of a large block: insert, merge with the successor, then with
\* the predecessor, which swallows the freed node.
DeallocateLarge(b) ==
  /\ b.size > F!kMaxSmallBlockSize
  /\ \E freed \in {T!insert_node(t, b.off, b.size)} :
     \E succ \in {T!successor(freed, b.off)} :
     LET next == succ # Nil /\ b.off + b.size = succ
     IN  \E t1 \in {IF next
                    THEN T!Grow(T!delete_node(freed, succ), b.off, b.size + freed.size[succ])
                    ELSE freed} :
         \E prev \in {T!predecessor(t1, b.off)} :
         LET last   == prev # Nil /\ prev + t1.size[prev] = b.off
             merges == (IF next THEN 1 ELSE 0) + (IF last THEN 1 ELSE 0)
         IN  /\ t' = IF last
                     THEN T!Grow(T!delete_node(t1, b.off), prev, t1.size[prev] + t1.size[b.off])
                     ELSE t1
             /\ free_blocks_' = (free_blocks_ + 1 - merges) % Modulus
  /\ allocated_' = allocated_ - b.size
  /\ live' = live \ {b}
  /\ UNCHANGED free_lists_

Next ==
  \/ \E size \in Requests, alignment \in Alignments :
       \/ AllocateSmall(size, alignment)
       \/ AllocateTree(size, alignment)
       \/ AllocateFails(size, alignment)
  \/ \E b \in live : DeallocateSmall(b) \/ DeallocateLarge(b)

Spec == Init /\ [][Next]_vars

-----------------------------------------------------------------------------
\* The pointer structure implements the set: allocate takes and splits the
\* block the set-based allocator takes, and deallocate merges the blocks it
\* merges.  A failed allocate changes nothing, so that failing when it should
\* not is the matter of SearchComplete.
ImplementsFreeList == F!Spec

\* allocate reports OutOfMemory only when no tree block can hold the request
\* at its alignment, and otherwise settles on the lowest one that can: the
\* search goes on behind blocks that are long enough and fail the alignment.
SearchComplete ==
  \A size \in Requests, alignment \in Alignments :
    LET n     == F!InternalSize(size)
        align == F!InternalAlign(alignment)
        fits  == {b.off : b \in F!Candidates(n, align)}
    IN  IF fits = {} THEN Found(n, align) = Nil
        ELSE Found(n, align) \in fits /\ \A x \in fits : Found(n, align) <= x
=============================================================================

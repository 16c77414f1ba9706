------------------------- MODULE AllocatorContract -------------------------
(***************************************************************************)
(* What FreeListAllocator promises its callers, with nothing said of trees *)
(* or lists: allocate hands out some part of the region that no other      *)
(* caller holds, at least as long as requested, on the 16-byte quantum;    *)
(* deallocate takes one part back; bytes_allocated() moves by exactly the  *)
(* size of the part.                                                       *)
(***************************************************************************)
EXTENDS Integers

CONSTANTS Size, Requests

VARIABLES live, allocated_

cvars == <<live, allocated_>>

Granules == {x \in 0 .. Size : x % 16 = 0}

Apart(b, c) == b.off + b.size <= c.off \/ c.off + c.size <= b.off

Init == live = {} /\ allocated_ = 0

Grant(size) ==
  \E off, n \in Granules :
    LET b == [off |-> off, size |-> n]
    IN  /\ n > 0 /\ n >= size /\ off + n <= Size
        /\ \A c \in live : Apart(b, c)
        /\ live' = live \cup {b}
        /\ allocated_' = allocated_ + n

Return(b) ==
  /\ live' = live \ {b}
  /\ allocated_' = allocated_ - b.size

Next ==
  \/ \E size \in Requests : Grant(size)
  \/ \E b \in live : Return(b)

Spec == Init /\ [][Next]_cvars
=============================================================================

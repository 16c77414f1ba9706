--------------------------- MODULE FreeListProofs ---------------------------
(***************************************************************************)
(* Machine-checked proofs about FreeList: for every region, every set of   *)
(* requests and every set of alignments the assumptions allow.             *)
(***************************************************************************)
EXTENDS FreeList, FiniteSetTheorems, TLAPS

AnyBlock == [off : Nat, size : Nat]
Lists    == [Classes -> Seq(Nat)]

\* A block is determined by its fields.
LEMMA BlockFields ==
  /\ \A o, s : Block(o, s).off = o /\ Block(o, s).size = s
  /\ \A o, s \in Nat : Block(o, s) \in AnyBlock
  /\ \A b \in AnyBlock : b.off \in Nat /\ b.size \in Nat /\ b = Block(b.off, b.size)
  BY DEF Block, AnyBlock

\* What belongs to a list, without the UNION.
LEMMA ListedMember ==
  ASSUME NEW lists \in Lists, NEW b
  PROVE  b \in Listed(lists) <=>
           \E idx \in Classes : \E i \in 1 .. Len(lists[idx]) :
              b = Block(lists[idx][i], ClassSize(idx))
  BY DEF Listed, Lists

\* A multiple of the quantum between 16 and 128 determines its class.
LEMMA ClassRange ==
  ASSUME NEW n \in Nat, n % 16 = 0, n >= 16, n <= 128
  PROVE  ClassOf(n) \in Classes /\ ClassSize(ClassOf(n)) = n
  BY DEF ClassOf, ClassSize, Classes, kSmallBlockQuantum, kNumSmallClasses

\* Pushing a block adds it to what the lists hold.
LEMMA PushListed ==
  ASSUME NEW lists \in Lists, NEW b \in AnyBlock,
         b.size % 16 = 0, b.size >= 16, b.size <= 128
  PROVE  /\ Push(lists, b) \in Lists
         /\ Listed(Push(lists, b)) = Listed(lists) \cup {b}
         /\ NoDuplicates(lists) /\ b \notin Listed(lists) => NoDuplicates(Push(lists, b))
<1> DEFINE k == ClassOf(b.size)
           new == Push(lists, b)
<1>1. k \in Classes /\ ClassSize(k) = b.size
  BY ClassRange DEF AnyBlock
<1>2. /\ new \in Lists
      /\ Len(new[k]) = Len(lists[k]) + 1
      /\ new[k][1] = b.off
      /\ \A i \in 1 .. Len(lists[k]) : new[k][i + 1] = lists[k][i]
      /\ \A i \in 2 .. Len(new[k]) : new[k][i] = lists[k][i - 1]
      /\ \A idx \in Classes : idx # k => new[idx] = lists[idx]
  BY <1>1 DEF Push, Lists, AnyBlock
<1>3. b = Block(b.off, ClassSize(k))
  BY <1>1 DEF Block, AnyBlock
<1> HIDE DEF k, new
<1>m. /\ \A c : c \in Listed(lists) <=>
             \E idx \in Classes : \E i \in 1 .. Len(lists[idx]) :
                c = Block(lists[idx][i], ClassSize(idx))
      /\ \A c : c \in Listed(new) <=>
             \E idx \in Classes : \E i \in 1 .. Len(new[idx]) :
                c = Block(new[idx][i], ClassSize(idx))
  BY <1>2, ListedMember
<1>l. /\ \A idx \in Classes : Len(lists[idx]) \in Nat
      /\ \A i \in 1 .. Len(lists[k]) : i + 1 \in 1 .. Len(new[k])
      /\ \A i \in 2 .. Len(new[k]) : i - 1 \in 1 .. Len(lists[k])
      /\ \A i \in 1 .. Len(new[k]) : i = 1 \/ i \in 2 .. Len(new[k])
      /\ \A idx \in Classes : Len(new[idx]) \in Nat
  BY <1>1, <1>2 DEF Lists
<1>4. ASSUME NEW c PROVE c \in Listed(new) <=> c \in Listed(lists) \cup {b}
  <2>1. ASSUME c \in Listed(new) PROVE c \in Listed(lists) \cup {b}
    <3>1. PICK idx \in Classes : \E i \in 1 .. Len(new[idx]) :
            c = Block(new[idx][i], ClassSize(idx))
      BY <2>1, <1>m
    <3>2. PICK i \in 1 .. Len(new[idx]) : c = Block(new[idx][i], ClassSize(idx))
      BY <3>1
    <3>3. CASE idx # k
      BY <3>2, <3>3, <1>2, <1>m
    <3>4. CASE idx = k /\ i = 1
      BY <3>2, <3>4, <1>2, <1>3
    <3>5. CASE idx = k /\ i \in 2 .. Len(new[k])
      BY <3>2, <3>5, <1>1, <1>2, <1>l, <1>m, ZenonT(30)
    <3> QED BY <3>3, <3>4, <3>5, <1>l
  <2>2. ASSUME c \in Listed(lists) PROVE c \in Listed(new)
    <3>1. PICK idx \in Classes : \E i \in 1 .. Len(lists[idx]) :
            c = Block(lists[idx][i], ClassSize(idx))
      BY <2>2, <1>m
    <3> QED BY <3>1, <1>1, <1>2, <1>l, <1>m
  <2>3. b \in Listed(new)
    BY <1>1, <1>2, <1>3, <1>l, <1>m
  <2> QED BY <2>1, <2>2, <2>3
<1>5. ASSUME NoDuplicates(lists), b \notin Listed(lists) PROVE NoDuplicates(new)
  <2> SUFFICES ASSUME NEW idx \in Classes, NEW i \in 1 .. Len(new[idx]),
                      NEW j \in 1 .. Len(new[idx]), new[idx][i] = new[idx][j]
               PROVE  i = j
    BY <1>l DEF NoDuplicates
  <2>1. CASE idx # k
    BY <2>1, <1>2, <1>5, <1>l DEF NoDuplicates
  <2>2. CASE idx = k
    <3>1. \A n \in 1 .. Len(lists[k]) : lists[k][n] # b.off
      BY <1>1, <1>3, <1>5, <1>m
    <3>2. CASE i = 1 /\ j = 1
      BY <3>2
    <3>3. CASE i \in 2 .. Len(new[k]) /\ j \in 2 .. Len(new[k])
      <4>1. lists[k][i - 1] = lists[k][j - 1]
        BY <2>2, <3>3, <1>2, Zenon
      <4>2. i - 1 = j - 1
        BY <4>1, <3>3, <1>1, <1>5, <1>l, Zenon DEF NoDuplicates
      <4> QED BY <4>2, <1>1, <1>l
    <3>4. \A n \in 2 .. Len(new[k]) : new[k][n] # new[k][1]
      BY <3>1, <1>2, <1>l
    <3> QED BY <2>2, <3>2, <3>3, <3>4, <1>l
  <2> QED BY <2>1, <2>2
<1> QED BY <1>2, <1>4, <1>5 DEF new

\* Popping the head of a list removes that block and no other.
LEMMA PopListed ==
  ASSUME NEW lists \in Lists, NoDuplicates(lists),
         NEW n \in Nat, n % 16 = 0, n >= 16, n <= 128, lists[ClassOf(n)] # <<>>
  PROVE  LET b   == Block(Head(lists[ClassOf(n)]), n)
             new == [lists EXCEPT ![ClassOf(n)] = Tail(@)]
         IN  /\ new \in Lists /\ NoDuplicates(new)
             /\ b \in AnyBlock /\ b \in Listed(lists)
             /\ Listed(new) = Listed(lists) \ {b}
<1> DEFINE k == ClassOf(n)
           b   == Block(Head(lists[k]), n)
           new == [lists EXCEPT ![k] = Tail(@)]
<1>1. k \in Classes /\ ClassSize(k) = n
  BY ClassRange
<1>2. /\ new \in Lists
      /\ Len(lists[k]) \in Nat \ {0}
      /\ Len(new[k]) = Len(lists[k]) - 1
      /\ lists[k][1] = Head(lists[k]) /\ Head(lists[k]) \in Nat
      /\ \A i \in 1 .. Len(new[k]) : new[k][i] = lists[k][i + 1]
      /\ \A i \in 2 .. Len(lists[k]) : lists[k][i] = new[k][i - 1]
      /\ \A idx \in Classes : idx # k => new[idx] = lists[idx]
  BY <1>1 DEF Lists
<1>3. b = Block(lists[k][1], ClassSize(k)) /\ b \in AnyBlock
  BY <1>1, <1>2 DEF Block, AnyBlock
<1> HIDE DEF k, new, b
<1>m. /\ \A c : c \in Listed(lists) <=>
             \E idx \in Classes : \E i \in 1 .. Len(lists[idx]) :
                c = Block(lists[idx][i], ClassSize(idx))
      /\ \A c : c \in Listed(new) <=>
             \E idx \in Classes : \E i \in 1 .. Len(new[idx]) :
                c = Block(new[idx][i], ClassSize(idx))
  BY <1>2, ListedMember
<1>l. /\ \A idx \in Classes : Len(lists[idx]) \in Nat /\ Len(new[idx]) \in Nat
      /\ 1 \in 1 .. Len(lists[k])
      /\ \A i \in 2 .. Len(lists[k]) : i - 1 \in 1 .. Len(new[k])
      /\ \A i \in 1 .. Len(new[k]) : i + 1 \in 2 .. Len(lists[k])
      /\ \A i \in 1 .. Len(lists[k]) : i = 1 \/ i \in 2 .. Len(lists[k])
      /\ \A i \in 2 .. Len(lists[k]) : i # 1 /\ i \in 1 .. Len(lists[k])
  BY <1>1, <1>2 DEF Lists
<1>s. \A idx \in Classes : ClassSize(idx) = ClassSize(k) => idx = k
  BY <1>1 DEF ClassSize, Classes, kSmallBlockQuantum
<1>4. \A i \in 2 .. Len(lists[k]) : lists[k][i] # lists[k][1]
  BY <1>1, <1>l DEF NoDuplicates
<1>5. b \in Listed(lists)
  BY <1>1, <1>3, <1>l, <1>m
<1>6. ASSUME NEW c \in Listed(new) PROVE c \in Listed(lists) /\ c # b
  <2>1. PICK idx \in Classes : \E i \in 1 .. Len(new[idx]) :
          c = Block(new[idx][i], ClassSize(idx))
    BY <1>6, <1>m
  <2>2. PICK i \in 1 .. Len(new[idx]) : c = Block(new[idx][i], ClassSize(idx))
    BY <2>1
  <2>3. CASE idx # k
    <3>1. c \in Listed(lists)
      BY <2>2, <2>3, <1>2, <1>m
    <3>2. c.size = ClassSize(idx) /\ b.size = ClassSize(k)
      BY <2>2, <1>3 DEF Block
    <3> QED BY <3>1, <3>2, <2>3, <1>s
  <2>4. CASE idx = k
    <3>1. i + 1 \in 2 .. Len(lists[k]) /\ new[k][i] = lists[k][i + 1]
      BY <2>4, <1>2, <1>l
    <3>2. c \in Listed(lists)
      BY <3>1, <2>2, <2>4, <1>1, <1>l, <1>m
    <3>3. c.off # b.off
      BY <3>1, <2>2, <2>4, <1>3, <1>4 DEF Block
    <3> QED BY <3>2, <3>3
  <2> QED BY <2>3, <2>4
<1>7. ASSUME NEW c \in Listed(lists), c # b PROVE c \in Listed(new)
  <2>1. PICK idx \in Classes : \E i \in 1 .. Len(lists[idx]) :
          c = Block(lists[idx][i], ClassSize(idx))
    BY <1>7, <1>m
  <2>2. PICK i \in 1 .. Len(lists[idx]) : c = Block(lists[idx][i], ClassSize(idx))
    BY <2>1
  <2>3. CASE idx # k
    BY <2>2, <2>3, <1>2, <1>m
  <2>4. CASE idx = k
    <3>1. i \in 2 .. Len(lists[k])
      BY <2>2, <2>4, <1>3, <1>7, <1>l
    <3>2. i - 1 \in 1 .. Len(new[k]) /\ lists[k][i] = new[k][i - 1]
      BY <3>1, <1>2, <1>l
    <3> QED BY <3>2, <2>2, <2>4, <1>1, <1>m, SMTT(20)
  <2> QED BY <2>3, <2>4
<1>8. NoDuplicates(new)
  <2> SUFFICES ASSUME NEW idx \in Classes, NEW i \in 1 .. Len(new[idx]),
                      NEW j \in 1 .. Len(new[idx]), new[idx][i] = new[idx][j]
               PROVE  i = j
    BY DEF NoDuplicates
  <2>1. CASE idx # k
    BY <2>1, <1>2, Zenon DEF NoDuplicates
  <2>2. CASE idx = k
    <3>1. /\ i + 1 \in 1 .. Len(lists[k]) /\ j + 1 \in 1 .. Len(lists[k])
          /\ lists[k][i + 1] = lists[k][j + 1]
      BY <2>2, <1>2, <1>l, SMTT(20)
    <3>2. i + 1 = j + 1
      BY <3>1, <1>1, SMTT(20) DEF NoDuplicates
    <3> QED BY <3>2, <2>2, <1>1, <1>l
  <2> QED BY <2>1, <2>2
<1>9. Listed(new) = Listed(lists) \ {b}
  BY <1>6, <1>7
<1> QED BY <1>2, <1>3, <1>5, <1>8, <1>9, Zenon DEF b, new, k

-----------------------------------------------------------------------------
\* Aligning to a multiple of the quantum stays on the quantum.
LEMMA ModMultiple ==
  ASSUME NEW x \in Nat, NEW a \in Nat \ {0}, x % 16 = 0, a % 16 = 0
  PROVE  x % a \in 0 .. a - 1 /\ (x % a) % 16 = 0
<1> DEFINE k == a \div 16
           m == x \div 16
           q == x \div a
           r == x % a
<1>1. a = 16 * k /\ x = 16 * m /\ k \in Int /\ m \in Int
  OBVIOUS
<1>2. x = a * q + r 
  OBVIOUS
<1>q. q \in Int /\ r \in 0 .. a - 1
  OBVIOUS
<1> HIDE DEF k, m, q, r
<1>3. PICK p \in Int : p = k * q
  BY <1>1, <1>q
<1>4. a * q = 16 * p
  BY <1>1, <1>q, <1>3
<1>5. r = 16 * (m - p)
  BY <1>1, <1>2, <1>q, <1>3, <1>4
<1>6. (16 * (m - p)) % 16 = 0
  BY <1>1, <1>3
<1> QED BY <1>q, <1>5, <1>6 DEF r

\* std::align moves an offset on the quantum forward, to one on the quantum.
LEMMA AlignUpQuantum ==
  ASSUME NEW off \in Nat, off % 16 = 0, NEW align \in Nat \ {0}, align % 16 = 0
  PROVE  /\ AlignUp(off, align) \in Nat
         /\ AlignUp(off, align) >= off
         /\ AlignUp(off, align) % 16 = 0
<1> DEFINE r == (Base + off) % align
<1>1. Base \in Nat /\ (Base + off) \in Nat /\ (Base + off) % 16 = 0
  BY RegionAssumption DEF kSmallBlockQuantum
<1>2. r \in 0 .. align - 1 /\ r % 16 = 0
  BY <1>1, ModMultiple, Zenon
<1>3. AlignUp(off, align) = IF r = 0 THEN off ELSE off + (align - r)
  BY DEF AlignUp
<1> HIDE DEF r
<1> QED BY <1>2, <1>3

\* What a request becomes.
LEMMA InternalRange ==
  /\ \A size \in Requests : /\ InternalSize(size) \in Nat
                             /\ InternalSize(size) >= 16 /\ InternalSize(size) >= size
                             /\ InternalSize(size) % 16 = 0
  /\ \A a \in Alignments : InternalAlign(a) \in Nat \ {0} /\ InternalAlign(a) % 16 = 0
  BY RequestAssumption DEF InternalSize, InternalAlign, kSmallBlockQuantum

-----------------------------------------------------------------------------
\* Blocks that partition the region.
WellSized(b) ==
  /\ b.size >= kSmallBlockQuantum /\ End(b) <= Size
  /\ b.off % kSmallBlockQuantum = 0 /\ b.size % kSmallBlockQuantum = 0

Tiling(P) ==
  /\ P \subseteq AnyBlock
  /\ \A b \in P : WellSized(b)
  /\ \A b, c \in P : b # c => ~Overlap(b, c)
  /\ \A x \in 0 .. Size - 1 : \E b \in P : x \in Bytes(b)

\* Two blocks overlap exactly when they share a byte.
LEMMA SharedByte ==
  ASSUME NEW b \in AnyBlock, NEW c \in AnyBlock, b.size > 0, c.size > 0
  PROVE  Overlap(b, c) <=> \E x \in Nat : x \in Bytes(b) /\ x \in Bytes(c)
<1>1. ASSUME Overlap(b, c) PROVE \E x \in Nat : x \in Bytes(b) /\ x \in Bytes(c)
  <2>1. CASE b.off <= c.off
    <3>1. c.off \in Nat /\ c.off \in Bytes(b) /\ c.off \in Bytes(c)
      BY <1>1, <2>1 DEF Overlap, Bytes, End, AnyBlock
    <3> QED BY <3>1
  <2>2. CASE c.off <= b.off
    <3>1. b.off \in Nat /\ b.off \in Bytes(b) /\ b.off \in Bytes(c)
      BY <1>1, <2>2 DEF Overlap, Bytes, End, AnyBlock
    <3> QED BY <3>1
  <2> QED BY <2>1, <2>2 DEF AnyBlock
<1>2. ASSUME NEW x \in Nat, x \in Bytes(b), x \in Bytes(c) PROVE Overlap(b, c)
  BY <1>2 DEF Overlap, Bytes, End, AnyBlock
<1> QED BY <1>1, <1>2

\* The blocks R fill exactly the bytes of the blocks Q.
Fills(Q, R) ==
  /\ R \subseteq AnyBlock
  /\ \A r \in R : WellSized(r)
  /\ \A r, s \in R : r # s => ~Overlap(r, s)
  /\ \A x \in Nat : (\E q \in Q : x \in Bytes(q)) <=> (\E r \in R : x \in Bytes(r))

\* Replacing some tiles by others that fill the same bytes leaves a tiling,
\* and the new tiles are new.
LEMMA Retile ==
  ASSUME NEW P, NEW Q, NEW R, Tiling(P), Q \subseteq P, Fills(Q, R)
  PROVE  Tiling((P \ Q) \cup R) /\ (P \ Q) \cap R = {}
<1> USE DEF Fills
<1>1. \A b \in P \cup R : b \in AnyBlock /\ b.size > 0 /\ WellSized(b)
  BY DEF Tiling, WellSized, kSmallBlockQuantum, AnyBlock
<1>2. ASSUME NEW p \in P \ Q, NEW r \in R PROVE ~Overlap(p, r) /\ ~Overlap(r, p)
  <2> SUFFICES ASSUME Overlap(p, r) \/ Overlap(r, p) PROVE FALSE
    OBVIOUS
  <2>1. PICK x \in Nat : x \in Bytes(p) /\ x \in Bytes(r)
    BY <1>1, SharedByte
  <2>2. PICK q \in Q : x \in Bytes(q)
    BY <2>1
  <2>3. Overlap(p, q)
    BY <1>1, <2>1, <2>2, SharedByte
  <2> QED BY <2>3 DEF Tiling
<1>3. ASSUME NEW r \in R PROVE Overlap(r, r)
  BY <1>1 DEF Overlap, End, AnyBlock
<1>4. ASSUME NEW x \in 0 .. Size - 1 PROVE \E b \in (P \ Q) \cup R : x \in Bytes(b)
  <2>1. PICK b \in P : x \in Bytes(b)
    BY DEF Tiling
  <2>2. CASE b \in Q
    <3>1. x \in Nat
      OBVIOUS
    <3>2. \E r \in R : x \in Bytes(r)
      BY <2>1, <2>2, <3>1
    <3> QED BY <3>2
  <2> QED BY <2>1, <2>2
<1>5. (P \ Q) \cap R = {}
  BY <1>2, <1>3
<1> QED BY <1>1, <1>2, <1>4, <1>5 DEF Tiling

-----------------------------------------------------------------------------
\* The part of the invariant that speaks of sets of blocks: T the tree, S the
\* small lists, L the callers.
Shape(T, S, L) ==
  /\ Tiling(T \cup S \cup L)
  /\ T \cap S = {} /\ (T \cup S) \cap L = {}
  /\ \A b \in T : b.size >= kMinBlockSize
  /\ \A b, c \in T : End(b) # c.off

\* Multiples of the quantum are closed under the sums a split computes.
LEMMA QuantumSum ==
  ASSUME NEW x \in Int, NEW y \in Int, x % 16 = 0, y % 16 = 0
  PROVE  (x + y) % 16 = 0 /\ (x - y) % 16 = 0
  OBVIOUS

\* A point of an interval cut at two places is in one of the three parts.
LEMMA Thirds ==
  ASSUME NEW x \in Nat, NEW a \in Nat, NEW b \in Nat, NEW c \in Nat, NEW d \in Nat,
         a <= b, b <= c, c <= d
  PROVE  (x >= a /\ x < d) <=> \/ x >= a /\ x < b
                               \/ x >= b /\ x < c
                               \/ x >= c /\ x < d
  OBVIOUS

\* The pieces of block b when n bytes are cut out of it at ptr.
Pieces(b, ptr, n) ==
  { r \in { Block(b.off, ptr - b.off), Block(ptr, n), Block(ptr + n, End(b) - (ptr + n)) } :
      r.size > 0 }

\* The non-empty pieces tile the block.
LEMMA CarveTiles ==
  ASSUME NEW b \in AnyBlock, WellSized(b), NEW ptr \in Nat, NEW n \in Nat,
         ptr >= b.off, ptr % 16 = 0, n >= 16, n % 16 = 0, ptr + n <= End(b)
  PROVE  Fills({b}, Pieces(b, ptr, n))
<1> DEFINE gap == Block(b.off, ptr - b.off)
           got == Block(ptr, n)
           rem == Block(ptr + n, End(b) - (ptr + n))
           R   == Pieces(b, ptr, n)
<1>1. /\ b.off \in Nat /\ b.size \in Nat /\ End(b) = b.off + b.size
      /\ b.off % 16 = 0 /\ b.size % 16 = 0 /\ End(b) <= Size /\ Size \in Nat
  BY RegionAssumption DEF AnyBlock, WellSized, End, kSmallBlockQuantum
<1>n. /\ End(b) \in Nat /\ ptr + n \in Nat
      /\ ptr - b.off \in Nat /\ End(b) - (ptr + n) \in Nat
      /\ ptr <= Size /\ ptr + n <= Size
  BY <1>1
<1>2. /\ gap.off = b.off /\ gap.size = ptr - b.off /\ gap \in AnyBlock
      /\ rem.off = ptr + n /\ rem.size = End(b) - (ptr + n) /\ rem \in AnyBlock
      /\ got.off = ptr /\ got.size = n /\ got \in AnyBlock
  BY <1>1, <1>n, BlockFields, SMTT(20)
<1>3. \A r : r \in R <=> r \in {gap, got, rem} /\ r.size > 0
  BY DEF Pieces
<1> HIDE DEF gap, got, rem, R
<1>4. End(gap) = ptr /\ End(got) = ptr + n /\ End(rem) = End(b)
  BY <1>1, <1>2 DEF End
<1>5. gap.size % 16 = 0 /\ rem.size % 16 = 0 /\ rem.off % 16 = 0
  <2>1. /\ ptr \in Int /\ n \in Int /\ b.off \in Int /\ b.size \in Int
        /\ End(b) \in Int /\ ptr + n \in Int
    BY <1>1
  <2>2. (ptr - b.off) % 16 = 0 /\ (ptr + n) % 16 = 0 /\ (b.off + b.size) % 16 = 0
    BY <1>1, <2>1, QuantumSum, Zenon
  <2>3. (End(b) - (ptr + n)) % 16 = 0
    BY <1>1, <2>1, <2>2, QuantumSum, Zenon
  <2> QED BY <1>2, <2>2, <2>3
<1>6. R \subseteq AnyBlock
  BY <1>2, <1>3
<1>7. ASSUME NEW r \in R PROVE WellSized(r)
  <2>1. r \in {gap, got, rem} /\ r.size > 0
    BY <1>3
  <2>2. r.size % 16 = 0 /\ r.off % 16 = 0
    BY <2>1, <1>1, <1>2, <1>5
  <2>3. End(r) <= Size
    BY <2>1, <1>1, <1>n, <1>4, Zenon
  <2>4. r.size \in Nat
    BY <1>6 DEF AnyBlock
  <2>5. r.size >= 16
    BY <2>1, <2>2, <2>4
  <2> QED BY <2>2, <2>3, <2>5 DEF WellSized, kSmallBlockQuantum
<1>8. ASSUME NEW r \in R, NEW s \in R, r # s PROVE ~Overlap(r, s)
  BY <1>1, <1>2, <1>3, <1>4, <1>8 DEF Overlap
<1>9. ASSUME NEW x \in Nat PROVE x \in Bytes(b) <=> \E r \in R : x \in Bytes(r)
  <2>1. /\ x \in Bytes(b) <=> x >= b.off /\ x < End(b)
        /\ x \in Bytes(gap) <=> x >= b.off /\ x < ptr
        /\ x \in Bytes(got) <=> x >= ptr /\ x < ptr + n
        /\ x \in Bytes(rem) <=> x >= ptr + n /\ x < End(b)
    BY <1>1, <1>2, <1>4 DEF Bytes
  <2>2. /\ x \in Bytes(gap) => gap \in R
        /\ x \in Bytes(got) => got \in R
        /\ x \in Bytes(rem) => rem \in R
    BY <2>1, <1>1, <1>2, <1>3
  <2>3. x \in Bytes(b) <=> x \in Bytes(gap) \/ x \in Bytes(got) \/ x \in Bytes(rem)
    BY <2>1, <1>1, <1>n, Thirds
  <2>4. (\E r \in R : x \in Bytes(r)) <=> x \in Bytes(gap) \/ x \in Bytes(got) \/ x \in Bytes(rem)
    BY <2>2, <1>3
  <2> QED BY <2>3, <2>4
<1> QED BY <1>6, <1>7, <1>8, <1>9 DEF Fills, R

\* NT and NS are the pieces that go back to the tree and to the small lists.
Returned(NT, NS, b, ptr, n) ==
  /\ NT \cap NS = {} /\ Block(ptr, n) \notin NT \cup NS
  /\ NT \cup NS \cup {Block(ptr, n)} = Pieces(b, ptr, n)
  /\ \A r \in NT : r.size >= kMinBlockSize

\* Cutting n bytes at ptr out of tree block b.
LEMMA CarveShape ==
  ASSUME NEW T, NEW S, NEW L, Shape(T, S, L), NEW b \in T,
         NEW ptr \in Nat, NEW n \in Nat, ptr >= b.off, ptr % 16 = 0,
         n >= 16, n % 16 = 0, ptr + n <= End(b),
         NEW NT, NEW NS, Returned(NT, NS, b, ptr, n)
  PROVE  /\ Shape((T \ {b}) \cup NT, S \cup NS, L \cup {Block(ptr, n)})
         /\ NS \cap S = {}
         /\ Block(ptr, n) \in AnyBlock /\ Block(ptr, n) \notin L
<1> DEFINE got == Block(ptr, n)
           P   == T \cup S \cup L
           R   == NT \cup NS \cup {got}
<1> USE DEF Returned
<1>1. b \in AnyBlock /\ b \in P /\ WellSized(b) /\ Tiling(P)
  BY DEF Shape, Tiling
<1>2. b \notin S \cup L /\ T \cap S = {} /\ (T \cup S) \cap L = {}
  BY DEF Shape
<1>3. got \in AnyBlock /\ got.off = ptr /\ got.size = n
  BY DEF Block, AnyBlock
<1>4. R = Pieces(b, ptr, n)
  OBVIOUS
<1> HIDE DEF got, P, R
<1>5. Fills({b}, R)
  BY <1>1, <1>4, CarveTiles
<1>6. Tiling((P \ {b}) \cup R) /\ (P \ {b}) \cap R = {}
  BY <1>1, <1>5, Retile
<1>n. /\ b.off \in Nat /\ b.size \in Nat /\ End(b) = b.off + b.size
  BY <1>1 DEF AnyBlock, End
<1>p. ASSUME NEW r \in NT \cup NS
      PROVE  \/ r.off = b.off /\ End(r) = ptr /\ ptr > b.off
             \/ r.off = ptr + n /\ End(r) = End(b) /\ ptr + n < End(b)
  <2>1. r \in Pieces(b, ptr, n) /\ r # got
    BY DEF got
  <2>2. /\ r = Block(b.off, ptr - b.off) \/ r = Block(ptr + n, End(b) - (ptr + n))
        /\ r.size > 0
    BY <2>1 DEF Pieces, got
  <2> QED BY <2>2, <1>n, BlockFields DEF End
<1>7. b \notin NT \cup NS
  BY <1>n, <1>p
<1>8. (P \ {b}) \cup R = ((T \ {b}) \cup NT) \cup (S \cup NS) \cup (L \cup {got})
  BY <1>2 DEF P, R
<1>9. /\ ((T \ {b}) \cup NT) \cap (S \cup NS) = {}
      /\ ((T \ {b}) \cup NT \cup (S \cup NS)) \cap (L \cup {got}) = {}
      /\ NS \cap S = {} /\ got \notin L
  BY <1>2, <1>6, <1>7 DEF P, R, got
<1>10. \A c \in (T \ {b}) \cup NT : c.size >= kMinBlockSize
  BY DEF Shape
<1>11. \A c, d \in (T \ {b}) \cup NT : End(c) # d.off
  <2>1. ASSUME NEW c \in T \ {b}
        PROVE  /\ c.off \in Nat /\ End(c) \in Nat /\ c.off < End(c)
               /\ End(c) <= b.off \/ End(b) <= c.off
               /\ End(c) # b.off /\ End(b) # c.off
    <3>1. c \in AnyBlock /\ ~Overlap(c, b) /\ WellSized(c) /\ End(c) # b.off /\ End(b) # c.off
      BY DEF Shape, Tiling
    <3> QED BY <3>1, <1>n DEF Overlap, WellSized, End, AnyBlock, kSmallBlockQuantum
  <2>2. \A c, d \in T \ {b} : End(c) # d.off
    BY DEF Shape
  <2>3. \A c \in T \ {b}, d \in NT : End(c) # d.off /\ End(d) # c.off
    BY <2>1, <1>n, <1>p
  <2>4. \A c, d \in NT : End(c) # d.off
    BY <1>n, <1>p
  <2> QED BY <2>2, <2>3, <2>4
<1> QED BY <1>3, <1>6, <1>8, <1>9, <1>10, <1>11, Zenon DEF Shape, got

\* Moving a block between a small list and a caller.
LEMMA MoveShape ==
  ASSUME NEW T, NEW S, NEW L, Shape(T, S, L), NEW b
  PROVE  /\ b \in S => Shape(T, S \ {b}, L \cup {b}) /\ b \notin L
         /\ b \in L => Shape(T, S \cup {b}, L \ {b}) /\ b \notin S
<1>1. ASSUME b \in S PROVE T \cup (S \ {b}) \cup (L \cup {b}) = T \cup S \cup L
  BY <1>1
<1>2. ASSUME b \in L PROVE T \cup (S \cup {b}) \cup (L \ {b}) = T \cup S \cup L
  BY <1>2
<1> QED BY <1>1, <1>2 DEF Shape

\* Merging block b of a caller with the tree blocks it touches.
LEMMA MergeShape ==
  ASSUME NEW T, NEW S, NEW L, Shape(T, S, L), NEW b \in L, b.size >= kMinBlockSize,
         NEW succ, succ = {c \in T : c.off = End(b)},
         NEW prev, prev = {c \in T : End(c) = b.off},
         NEW first, first = IF prev = {} THEN b ELSE CHOOSE c \in prev : TRUE,
         NEW last, last = IF succ = {} THEN b ELSE CHOOSE c \in succ : TRUE
  PROVE  Shape((T \ (succ \cup prev)) \cup {Block(first.off, End(last) - first.off)},
               S, L \ {b})
<1> DEFINE m == Block(first.off, End(last) - first.off)
           P == T \cup S \cup L
           Q == {b} \cup succ \cup prev
           R == {m}
<1>1. /\ Tiling(P) /\ Q \subseteq P /\ b \notin T \cup S /\ T \cap S = {} /\ (T \cup S) \cap L = {}
      /\ \A c \in T : c.size >= kMinBlockSize
      /\ \A c, d \in T : End(c) # d.off
  BY DEF Shape
<1>2. ASSUME NEW c \in P
      PROVE  /\ c \in AnyBlock /\ c.off \in Nat /\ c.size \in Nat /\ End(c) = c.off + c.size
             /\ c.size >= 16 /\ End(c) <= Size /\ c.off % 16 = 0 /\ c.size % 16 = 0
  BY <1>1 DEF Tiling, WellSized, AnyBlock, End, kSmallBlockQuantum
<1>3. \A c, d \in P : c # d => End(c) <= d.off \/ End(d) <= c.off
  BY <1>1, <1>2 DEF Tiling, Overlap
<1>4. /\ first \in P /\ last \in P
      /\ prev = {} => first = b
      /\ succ = {} => last = b
      /\ prev # {} => first \in prev
      /\ succ # {} => last \in succ
  BY <1>1
<1>5. /\ \A c \in prev : c \in T /\ End(c) = b.off /\ c # b
      /\ \A c \in succ : c \in T /\ c.off = End(b) /\ c # b
      /\ \A c \in T : (End(c) = b.off => c \in prev) /\ (c.off = End(b) => c \in succ)
  BY <1>1
<1> HIDE DEF P, Q, R, m
<1>6. /\ \A c \in prev : c = first
      /\ \A c \in succ : c = last
  <2>1. T \subseteq P /\ b \in P
    BY DEF P
  <2>2. \A c, d \in P : End(c) = End(d) => c = d
    BY <1>2, <1>3
  <2>3. \A c, d \in P : c.off = d.off => c = d
    BY <1>2, <1>3
  <2> QED BY <2>1, <2>2, <2>3, <1>4, <1>5
<1>7. Q = {b, first, last}
  BY <1>4, <1>6 DEF Q
<1>8. /\ b \in P /\ first.off <= b.off /\ End(b) <= End(last)
      /\ first = b \/ (End(first) = b.off /\ first \in T)
      /\ last = b \/ (last.off = End(b) /\ last \in T)
  BY <1>2, <1>4, <1>5 DEF P
<1>9. /\ m \in AnyBlock /\ m.off = first.off /\ End(m) = End(last)
      /\ m.size = End(last) - first.off /\ m.size \in Nat /\ b.size \in Nat
      /\ m.size >= b.size /\ b.size >= 16
  <2>1. /\ first.off \in Nat /\ End(last) \in Nat /\ End(last) - first.off \in Nat
        /\ End(last) - first.off >= b.size
    BY <1>2, <1>4, <1>8
  <2>2. b.size \in Nat /\ b.size >= 16
    BY <1>2, <1>8
  <2>3. m \in AnyBlock /\ m.off = first.off /\ m.size = End(last) - first.off
    BY <2>1, BlockFields DEF m
  <2>4. End(m) = m.off + m.size
    BY DEF End
  <2>5. End(m) = End(last)
    BY <2>1, <2>3, <2>4
  <2> QED BY <2>1, <2>2, <2>3, <2>5
<1>10. WellSized(m)
  <2>1. End(last) <= Size /\ first.off % 16 = 0
    BY <1>2, <1>4
  <2>2. (End(last) - first.off) % 16 = 0
    <3>1. /\ last.off \in Int /\ last.size \in Int /\ End(last) \in Int /\ first.off \in Int
          /\ last.off % 16 = 0 /\ last.size % 16 = 0 /\ End(last) = last.off + last.size
      BY <1>2, <1>4
    <3>2. (last.off + last.size) % 16 = 0
      BY <3>1, QuantumSum, Zenon
    <3>3. End(last) % 16 = 0
      BY <3>1, <3>2
    <3> QED BY <2>1, <3>1, <3>3, QuantumSum, Zenon
  <2>3. m.size >= 16
    BY <1>9
  <2> QED BY <2>1, <2>2, <2>3, <1>9 DEF WellSized, kSmallBlockQuantum
<1>11. Fills(Q, R)
  <2>1. \A r, s \in {m} : r # s => ~Overlap(r, s)
    OBVIOUS
  <2>2. ASSUME NEW x \in Nat
        PROVE  (\E q \in Q : x \in Bytes(q)) <=> (\E r \in {m} : x \in Bytes(r))
    <3>1. /\ x \in Bytes(m) <=> first.off <= x /\ x < End(last)
          /\ x \in Bytes(b) <=> b.off <= x /\ x < End(b)
          /\ x \in Bytes(first) <=> first.off <= x /\ x < End(first)
          /\ x \in Bytes(last) <=> last.off <= x /\ x < End(last)
      BY <1>2, <1>4, <1>8, <1>9 DEF Bytes
    <3>2. x \in Bytes(m) <=> x \in Bytes(b) \/ x \in Bytes(first) \/ x \in Bytes(last)
      BY <3>1, <1>2, <1>4, <1>8
    <3> QED BY <3>2, <1>7
  <2> QED BY <2>1, <2>2, <1>9, <1>10 DEF Fills, R
<1>12. Tiling((P \ Q) \cup {m}) /\ (P \ Q) \cap {m} = {}
  <2>1. Tiling((P \ Q) \cup R) /\ (P \ Q) \cap R = {}
    BY <1>1, <1>11, Retile
  <2> QED BY <2>1 DEF R
<1>13. (P \ Q) \cup {m} = ((T \ (succ \cup prev)) \cup {m}) \cup S \cup (L \ {b})
  BY <1>1, <1>5 DEF P, Q
<1>14. /\ ((T \ (succ \cup prev)) \cup {m}) \cap S = {}
       /\ ((T \ (succ \cup prev)) \cup {m} \cup S) \cap (L \ {b}) = {}
  BY <1>1, <1>5, <1>12 DEF P, Q
<1>15. m.size >= kMinBlockSize
  BY <1>9 DEF kMinBlockSize
<1>16. \A c, d \in (T \ (succ \cup prev)) \cup {m} : End(c) # d.off
  <2>1. ASSUME NEW c \in T \ (succ \cup prev) PROVE End(c) # m.off /\ End(m) # c.off
    BY <1>1, <1>4, <1>5, <1>9
  <2>2. End(m) # m.off
    BY <1>2, <1>8, <1>9 DEF AnyBlock
  <2> QED BY <1>1, <2>1, <2>2
<1> QED BY <1>1, <1>12, <1>13, <1>14, <1>15, <1>16, Zenon DEF Shape, m

-----------------------------------------------------------------------------
\* Tiles hold finitely many bytes, and one more tile adds its size to them.
LEMMA HeldAdd ==
  ASSUME NEW P, Tiling(P), NEW L, NEW b \in P, L \subseteq P, b \notin L
  PROVE  /\ Cardinality(Held(L)) \in Nat
         /\ Cardinality(Held(L \cup {b})) = Cardinality(Held(L)) + b.size
<1>1. b.off \in Int /\ End(b) - 1 \in Int /\ b.size \in Nat /\ b.size > 0 /\ End(b) = b.off + b.size
  BY DEF Tiling, WellSized, AnyBlock, End, kSmallBlockQuantum
<1>2. IsFiniteSet(Bytes(b)) /\ Cardinality(Bytes(b)) = b.size
  <2>1. IsFiniteSet(b.off .. (End(b) - 1))
    BY <1>1, FS_Interval, SMTT(20)
  <2>2. Cardinality(b.off .. (End(b) - 1))
          = IF b.off > End(b) - 1 THEN 0 ELSE (End(b) - 1) - b.off + 1
    BY <1>1, FS_Interval, Zenon
  <2> QED BY <1>1, <2>1, <2>2 DEF Bytes
<1>3. Held(L) \subseteq 0 .. Size - 1
  <2>1. ASSUME NEW c \in L PROVE Bytes(c) \subseteq 0 .. Size - 1
    <3>1. c \in AnyBlock /\ End(c) <= Size /\ Size \in Nat
      BY RegionAssumption DEF Tiling, WellSized
    <3> QED BY <3>1 DEF Bytes, AnyBlock, End
  <2> QED BY <2>1 DEF Held
<1>4. IsFiniteSet(Held(L)) /\ Cardinality(Held(L)) \in Nat
  <2>1. 0 \in Int /\ Size - 1 \in Int
    BY RegionAssumption
  <2>2. IsFiniteSet(0 .. Size - 1)
    BY <2>1, FS_Interval
  <2>3. Held(L) \in SUBSET (0 .. Size - 1)
    BY <1>3
  <2>4. IsFiniteSet(Held(L))
    BY <2>2, <2>3, FS_Subset, Zenon
  <2> QED BY <2>4, FS_CardinalityType
<1>5. Held(L \cup {b}) = Held(L) \cup Bytes(b)
  BY DEF Held
<1>6. Held(L) \cap Bytes(b) = {}
  <2> SUFFICES ASSUME NEW c \in L, NEW x \in Bytes(c), x \in Bytes(b) PROVE FALSE
    BY DEF Held
  <2>1. c \in AnyBlock /\ b \in AnyBlock /\ c # b /\ ~Overlap(c, b)
    BY DEF Tiling
  <2> QED BY <2>1 DEF Overlap, Bytes, AnyBlock, End
<1>7. Cardinality(Held(L) \cup Bytes(b))
        = Cardinality(Held(L)) + Cardinality(Bytes(b)) - Cardinality(Held(L) \cap Bytes(b))
  BY <1>2, <1>4, FS_Union
<1>8. Cardinality(Held(L) \cap Bytes(b)) = 0
  BY <1>6, FS_EmptySet, Zenon
<1>9. Cardinality(Held(L \cup {b})) = Cardinality(Held(L) \cup Bytes(b))
  BY <1>5, Zenon
<1> QED BY <1>1, <1>2, <1>4, <1>7, <1>8, <1>9

\* The bytes the callers do not hold are the free ones.
LEMMA HeldFree ==
  ASSUME NEW F, NEW L, Tiling(F \cup L), F \cap L = {}
  PROVE  Size - Cardinality(Held(L)) = Cardinality(Held(F))
<1>1. ASSUME NEW c \in F \cup L
      PROVE  /\ c \in AnyBlock /\ c.off \in Nat /\ c.size \in Nat /\ End(c) = c.off + c.size
             /\ Bytes(c) \subseteq 0 .. Size - 1
  <2>1. c \in AnyBlock /\ End(c) <= Size /\ Size \in Nat
    BY RegionAssumption DEF Tiling, WellSized
  <2> QED BY <2>1 DEF Bytes, AnyBlock, End
<1>2. Held(F) \cup Held(L) = 0 .. Size - 1
  <2>1. Held(F) \cup Held(L) \subseteq 0 .. Size - 1
    BY <1>1 DEF Held
  <2>2. ASSUME NEW x \in 0 .. Size - 1 PROVE x \in Held(F) \cup Held(L)
    BY DEF Tiling, Held
  <2> QED BY <2>1, <2>2
<1>3. Held(F) \cap Held(L) = {}
  <2> SUFFICES ASSUME NEW c \in F, NEW d \in L, NEW x \in Bytes(c), x \in Bytes(d) PROVE FALSE
    BY DEF Held
  <2>1. c # d /\ ~Overlap(c, d)
    BY DEF Tiling
  <2> QED BY <1>1, <2>1 DEF Overlap, Bytes
<1>4. IsFiniteSet(0 .. Size - 1) /\ Cardinality(0 .. Size - 1) = Size
  <2>1. 0 \in Int /\ Size - 1 \in Int /\ Size \in Nat /\ Size >= 48
    BY RegionAssumption DEF kMinBlockSize
  <2>2. /\ IsFiniteSet(0 .. Size - 1)
        /\ Cardinality(0 .. Size - 1) = IF 0 > Size - 1 THEN 0 ELSE (Size - 1) - 0 + 1
    BY <2>1, FS_Interval
  <2> QED BY <2>1, <2>2
<1>5. IsFiniteSet(Held(F)) /\ IsFiniteSet(Held(L))
  <2>1. Held(F) \in SUBSET (0 .. Size - 1) /\ Held(L) \in SUBSET (0 .. Size - 1)
    BY <1>2
  <2> QED BY <2>1, <1>4, FS_Subset, Zenon
<1>6. Cardinality(Held(F)) \in Nat /\ Cardinality(Held(L)) \in Nat
  BY <1>5, FS_CardinalityType
<1>7. Cardinality(Held(F) \cup Held(L))
        = Cardinality(Held(F)) + Cardinality(Held(L)) - Cardinality(Held(F) \cap Held(L))
  BY <1>5, FS_Union
<1>8. Cardinality(Held(F) \cap Held(L)) = 0
  BY <1>3, FS_EmptySet, Zenon
<1>9. Cardinality(Held(F) \cup Held(L)) = Size
  BY <1>2, <1>4, Zenon
<1> QED BY <1>6, <1>7, <1>8, <1>9, RegionAssumption

-----------------------------------------------------------------------------
\* The inductive invariant.
IInv ==
  /\ TypeOK
  /\ Shape(tree, SmallBlocks, live)
  /\ NoDuplicates(free_lists_)
  /\ allocated_ = Cardinality(Held(live))

Counter == 0 .. Modulus - 1

\* size_t arithmetic stays a size_t.
LEMMA Wraps ==
  \A x \in Int : x % Modulus \in Counter
  BY RegionAssumption DEF Counter

\* The invariant implies the properties of the runs.
LEMMA IInvImplies ==
  IInv => TypeOK /\ Disjoint /\ Covered /\ WellFormed /\ Coalesced /\ Accounting
<1> SUFFICES ASSUME IInv
             PROVE  Disjoint /\ Covered /\ WellFormed /\ Coalesced /\ Accounting
  BY DEF IInv
<1>1. Blocks = tree \cup SmallBlocks \cup live /\ FreeBlocks = tree \cup SmallBlocks
  BY DEF Blocks, FreeBlocks
<1>2. Disjoint /\ Covered /\ WellFormed /\ Coalesced
  BY <1>1 DEF IInv, Shape, Tiling, WellSized, Disjoint, Covered, WellFormed, Coalesced
<1>3. Accounting
  <2>1. Tiling(FreeBlocks \cup live) /\ FreeBlocks \cap live = {}
    BY <1>1 DEF IInv, Shape
  <2>2. Size - Cardinality(Held(live)) = Cardinality(Held(FreeBlocks))
    BY <2>1, HeldFree
  <2> QED BY <2>2 DEF IInv, Accounting
<1> QED BY <1>2, <1>3

\* The constructor establishes the invariant.
LEMMA InitIInv == Init => IInv
<1> SUFFICES ASSUME Init PROVE IInv
  OBVIOUS
<1> DEFINE whole == Block(0, Size)
<1>1. Size \in Nat /\ Size % 16 = 0 /\ Size >= 48 /\ Modulus \in Nat /\ Modulus > 1
  BY RegionAssumption DEF kSmallBlockQuantum, kMinBlockSize
<1>2. whole \in AnyBlock /\ whole.off = 0 /\ whole.size = Size /\ End(whole) = Size
  BY <1>1, BlockFields DEF End
<1>3. free_lists_ \in Lists /\ \A idx \in Classes : Len(free_lists_[idx]) = 0
  BY DEF Init, Lists
<1>4. SmallBlocks = {} /\ NoDuplicates(free_lists_)
  BY <1>3, ListedMember DEF SmallBlocks, NoDuplicates
<1>5. live = {} /\ tree = {whole} /\ allocated_ = 0 /\ free_blocks_ = 1
  BY DEF Init
<1> HIDE DEF whole
<1>6. Tiling({whole})
  <2>1. WellSized(whole)
    BY <1>1, <1>2 DEF WellSized, kSmallBlockQuantum
  <2>2. \A x \in 0 .. Size - 1 : x \in Bytes(whole)
    BY <1>1, <1>2 DEF Bytes
  <2> QED BY <1>2, <2>1, <2>2 DEF Tiling
<1>7. Shape(tree, SmallBlocks, live)
  <2>1. tree \cup SmallBlocks \cup live = {whole}
    BY <1>4, <1>5
  <2>2. whole.size >= kMinBlockSize /\ End(whole) # whole.off
    BY <1>1, <1>2 DEF kMinBlockSize
  <2> QED BY <2>1, <2>2, <1>4, <1>5, <1>6 DEF Shape
<1>8. allocated_ = Cardinality(Held(live))
  <2>1. Held(live) = {}
    BY <1>5 DEF Held
  <2> QED BY <2>1, <1>5, FS_EmptySet, Zenon
<1>9. TypeOK
  BY <1>1, <1>2, <1>3, <1>5 DEF TypeOK, AnyBlock, Lists
<1> QED BY <1>4, <1>7, <1>8, <1>9 DEF IInv

\* The step hands out a block of n bytes or more.
Granted(n) ==
  \E g : /\ g \notin live /\ live' = live \cup {g} /\ g.size >= n
         /\ allocated_' = allocated_ + g.size

\* What is left to show of a step that hands block g out ...
LEMMA GrantStep ==
  ASSUME IInv, NEW g, g \notin live, live' = live \cup {g}, allocated_' = allocated_ + g.size,
         Shape(tree', SmallBlocks', live'), NoDuplicates(free_lists_'),
         free_lists_' \in Lists, free_blocks_' \in Counter
  PROVE  IInv'
<1> DEFINE P == tree' \cup SmallBlocks' \cup live'
<1>1. Tiling(P) /\ live \subseteq P /\ g \in P
  BY DEF Shape
<1> HIDE DEF P
<1>2. /\ Cardinality(Held(live)) \in Nat
      /\ Cardinality(Held(live \cup {g})) = Cardinality(Held(live)) + g.size
  BY <1>1, HeldAdd
<1>3. allocated_' = Cardinality(Held(live'))
  BY <1>2 DEF IInv
<1>4. g.size \in Nat /\ tree' \subseteq AnyBlock /\ live' \subseteq AnyBlock
  BY <1>1 DEF Tiling, AnyBlock, P
<1>5. allocated_' \in Nat
  BY <1>4 DEF IInv, TypeOK
<1>6. TypeOK'
  BY <1>4, <1>5 DEF TypeOK, AnyBlock, Lists, Counter
<1> QED BY <1>3, <1>6 DEF IInv, Held, Bytes, End

\* ... or takes block g back.
LEMMA ReturnStep ==
  ASSUME IInv, NEW g \in live, live' = live \ {g}, allocated_' = allocated_ - g.size,
         Shape(tree', SmallBlocks', live'), NoDuplicates(free_lists_'),
         free_lists_' \in Lists, free_blocks_' \in Counter
  PROVE  IInv'
<1> DEFINE P == tree \cup SmallBlocks \cup live
           L == live \ {g}
<1>1. Tiling(P) /\ L \subseteq P /\ g \in P /\ g \notin L /\ L \cup {g} = live
  BY DEF IInv, Shape
<1> HIDE DEF P
<1>2. /\ Cardinality(Held(L)) \in Nat
      /\ Cardinality(Held(L \cup {g})) = Cardinality(Held(L)) + g.size
  BY <1>1, HeldAdd
<1>3. g.size \in Nat
  BY <1>1 DEF Tiling, AnyBlock
<1>4. Cardinality(Held(live)) = Cardinality(Held(L)) + g.size
  BY <1>1, <1>2, Zenon
<1>5. allocated_' = Cardinality(Held(L)) /\ allocated_' \in Nat
  BY <1>2, <1>3, <1>4 DEF IInv
<1>6. tree' \subseteq AnyBlock /\ live' \subseteq AnyBlock
  BY DEF Shape, Tiling
<1>7. TypeOK'
  BY <1>5, <1>6 DEF TypeOK, AnyBlock, Lists, Counter
<1> QED BY <1>5, <1>7 DEF IInv, Held, Bytes, End

\* Popping a small list preserves the invariant.
LEMMA AllocateSmallStep ==
  ASSUME IInv, NEW size \in Requests, NEW alignment, AllocateSmall(size, alignment)
  PROVE  IInv' /\ Granted(InternalSize(size))
<1> DEFINE n == InternalSize(size)
           k == ClassOf(n)
           g == Block(Head(free_lists_[k]), n)
<1>1. n \in Nat /\ n % 16 = 0 /\ n >= 16 /\ n <= 128 /\ free_lists_[k] # <<>>
  BY InternalRange DEF AllocateSmall, SmallHit, kMaxSmallBlockSize, kSmallBlockQuantum, kNumSmallClasses
<1>2. free_lists_ \in Lists /\ NoDuplicates(free_lists_) /\ Shape(tree, SmallBlocks, live)
  BY DEF IInv, TypeOK, Lists
<1>3. /\ free_lists_' = [free_lists_ EXCEPT ![k] = Tail(@)]
      /\ allocated_' = allocated_ + n /\ live' = live \cup {g} /\ tree' = tree
      /\ free_blocks_' = (free_blocks_ - 1) % Modulus
  BY DEF AllocateSmall
<1> HIDE DEF n
<1>4. /\ free_lists_' \in Lists /\ NoDuplicates(free_lists_')
      /\ g \in Listed(free_lists_)
      /\ Listed(free_lists_') = Listed(free_lists_) \ {g}
  BY <1>1, <1>2, <1>3, PopListed, Zenon
<1>5. g \in SmallBlocks /\ SmallBlocks' = SmallBlocks \ {g} /\ g.size = n
  BY <1>4, BlockFields, Zenon DEF SmallBlocks, Listed
<1> HIDE DEF g
<1>6. Shape(tree', SmallBlocks', live') /\ g \notin live
  BY <1>2, <1>3, <1>5, MoveShape, Zenon
<1>7. free_blocks_' \in Counter
  <2>1. free_blocks_ - 1 \in Int
    BY RegionAssumption DEF IInv, TypeOK
  <2> QED BY <2>1, <1>3, Wraps
<1>8. IInv'
  BY <1>3, <1>4, <1>5, <1>6, <1>7, GrantStep, Zenon
<1> QED BY <1>1, <1>3, <1>5, <1>6, <1>8, SMTT(20) DEF Granted, n

\* Pushing a caller's block on a small list preserves the invariant.
LEMMA DeallocateSmallStep ==
  ASSUME IInv, NEW b \in live, DeallocateSmall(b)
  PROVE  IInv'
<1>1. free_lists_ \in Lists /\ NoDuplicates(free_lists_) /\ Shape(tree, SmallBlocks, live)
  BY DEF IInv, TypeOK, Lists
<1>2. b \in AnyBlock /\ b.size % 16 = 0 /\ b.size >= 16 /\ b.size <= 128
  BY <1>1 DEF Shape, Tiling, WellSized, DeallocateSmall, kMaxSmallBlockSize, kSmallBlockQuantum,
              kNumSmallClasses
<1>3. /\ free_lists_' = Push(free_lists_, b)
      /\ allocated_' = allocated_ - b.size /\ live' = live \ {b} /\ tree' = tree
      /\ free_blocks_' = (free_blocks_ + 1) % Modulus
  BY DEF DeallocateSmall
<1>4. Shape(tree, SmallBlocks \cup {b}, live \ {b}) /\ b \notin SmallBlocks
  BY <1>1, MoveShape, Zenon
<1>5. /\ free_lists_' \in Lists /\ NoDuplicates(free_lists_')
      /\ Listed(free_lists_') = Listed(free_lists_) \cup {b}
  BY <1>1, <1>2, <1>3, <1>4, PushListed DEF SmallBlocks
<1>6. Shape(tree', SmallBlocks', live')
  BY <1>3, <1>4, <1>5 DEF SmallBlocks
<1>7. free_blocks_' \in Counter
  <2>1. free_blocks_ + 1 \in Int
    BY RegionAssumption DEF IInv, TypeOK
  <2> QED BY <2>1, <1>3, Wraps
<1> QED BY <1>3, <1>5, <1>6, <1>7, ReturnStep, Zenon

\* Inserting a caller's block into the tree and merging it there preserves
\* the invariant.
LEMMA DeallocateLargeStep ==
  ASSUME IInv, NEW b \in live, DeallocateLarge(b)
  PROVE  IInv'
<1> DEFINE succ  == {c \in tree : c.off = End(b)}
           prev  == {c \in tree : End(c) = b.off}
           first == IF prev = {} THEN b ELSE CHOOSE c \in prev : TRUE
           last  == IF succ = {} THEN b ELSE CHOOSE c \in succ : TRUE
           merges == (IF succ = {} THEN 0 ELSE 1) + (IF prev = {} THEN 0 ELSE 1)
<1>1. free_lists_ \in Lists /\ NoDuplicates(free_lists_) /\ Shape(tree, SmallBlocks, live)
  BY DEF IInv, TypeOK, Lists
<1>2. b.size > 128 /\ b.size \in Nat
  BY DEF DeallocateLarge, IInv, TypeOK, kMaxSmallBlockSize, kSmallBlockQuantum, kNumSmallClasses
<1>3. /\ tree' = (tree \ (succ \cup prev)) \cup {Block(first.off, End(last) - first.off)}
      /\ allocated_' = allocated_ - b.size /\ live' = live \ {b} /\ free_lists_' = free_lists_
      /\ free_blocks_' = (free_blocks_ + 1 - merges) % Modulus
  BY DEF DeallocateLarge
<1>4. b.size >= kMinBlockSize
  BY <1>2 DEF kMinBlockSize
<1>5. Shape((tree \ (succ \cup prev)) \cup {Block(first.off, End(last) - first.off)},
            SmallBlocks, live \ {b})
  BY <1>1, <1>4, MergeShape, ZenonT(60)
<1>6. merges \in Int
  OBVIOUS
<1> HIDE DEF merges
<1>7. free_blocks_' \in Counter
  <2>1. free_blocks_ + 1 - merges \in Int
    BY <1>6, RegionAssumption DEF IInv, TypeOK
  <2> QED BY <2>1, <1>3, Wraps
<1> HIDE DEF succ, prev, first, last
<1>8. Shape(tree', SmallBlocks', live')
  BY <1>3, <1>5 DEF SmallBlocks
<1> QED BY <1>1, <1>3, <1>7, <1>8, ReturnStep, Zenon

\* Splitting a tree block preserves the invariant.
LEMMA CarveStep ==
  ASSUME IInv, NEW b \in tree, NEW n \in Nat, n % 16 = 0, n >= 16,
         NEW align \in Nat \ {0}, align % 16 = 0,
         AlignUp(b.off, align) + n <= End(b), Carve(b, n, align)
  PROVE  IInv' /\ Granted(n)
<1> DEFINE ptr == AlignUp(b.off, align)
           gap == Block(b.off, ptr - b.off)
           rem == Block(ptr + n, End(b) - (ptr + n))
           got == Block(ptr, n)
           gapListed == gap.size \in 16 .. 128
           remListed == rem.size \in 16 .. 47
           G1 == IF gap.size > 128 THEN {gap} ELSE {}
           G2 == IF gapListed THEN {gap} ELSE {}
           R1 == IF rem.size >= 48 THEN {rem} ELSE {}
           R2 == IF remListed THEN {rem} ELSE {}
           listsGap == IF gapListed THEN Push(free_lists_, gap) ELSE free_lists_
<1>1. free_lists_ \in Lists /\ NoDuplicates(free_lists_) /\ Shape(tree, SmallBlocks, live)
  BY DEF IInv, TypeOK, Lists
<1>2. /\ b.off \in Nat /\ b.size \in Nat /\ End(b) = b.off + b.size /\ End(b) \in Nat
      /\ b.off % 16 = 0 /\ b.size % 16 = 0 /\ b \in AnyBlock /\ WellSized(b)
  BY <1>1 DEF Shape, Tiling, WellSized, AnyBlock, End, kSmallBlockQuantum
<1>3. ptr \in Nat /\ ptr >= b.off /\ ptr % 16 = 0 /\ ptr + n <= End(b)
  BY <1>2, AlignUpQuantum, Zenon
<1>4. /\ tree' = (tree \ {b}) \cup G1 \cup R1
      /\ free_lists_' = IF remListed THEN Push(listsGap, rem) ELSE listsGap
      /\ free_blocks_' = IF rem.size < 16 THEN (free_blocks_ - 1) % Modulus ELSE free_blocks_
      /\ allocated_' = allocated_ + (IF rem.size < 16 THEN n + rem.size ELSE n)
      /\ live' = live \cup {Block(ptr, IF rem.size < 16 THEN n + rem.size ELSE n)}
  <2>1. /\ kSmallBlockQuantum = 16 /\ kMaxSmallBlockSize = 128
        /\ kMinBlockSize = 48 /\ kMinBlockSize - 1 = 47
    BY DEF kSmallBlockQuantum, kMaxSmallBlockSize, kNumSmallClasses, kMinBlockSize
  <2>2. tree' = (tree \ {b}) \cup G1 \cup R1
    BY <2>1, Zenon DEF Carve
  <2>3. free_lists_' = IF remListed THEN Push(listsGap, rem) ELSE listsGap
    BY <2>1, ZenonT(30) DEF Carve
  <2>4. free_blocks_' = IF rem.size < 16 THEN (free_blocks_ - 1) % Modulus ELSE free_blocks_
    BY <2>1, Zenon DEF Carve
  <2>5. allocated_' = allocated_ + (IF rem.size < 16 THEN n + rem.size ELSE n)
    BY <2>1, Zenon DEF Carve
  <2>6. live' = live \cup {Block(ptr, IF rem.size < 16 THEN n + rem.size ELSE n)}
    BY <2>1, Zenon DEF Carve
  <2> QED BY <2>2, <2>3, <2>4, <2>5, <2>6, Zenon
<1> HIDE DEF ptr
<1>5. /\ ptr - b.off \in Nat /\ ptr + n \in Nat /\ End(b) - (ptr + n) \in Nat
  BY <1>2, <1>3
<1>6. /\ gap \in AnyBlock /\ gap.off = b.off /\ gap.size = ptr - b.off /\ gap.size \in Nat
      /\ rem \in AnyBlock /\ rem.off = ptr + n /\ rem.size = End(b) - (ptr + n) /\ rem.size \in Nat
      /\ got \in AnyBlock /\ got.off = ptr /\ got.size = n
  BY <1>2, <1>3, <1>5, BlockFields, SMTT(20)
<1>7. gap.size % 16 = 0 /\ rem.size % 16 = 0
  <2>1. /\ ptr \in Int /\ n \in Int /\ b.off \in Int /\ b.size \in Int
        /\ End(b) \in Int /\ ptr + n \in Int
    BY <1>2, <1>3
  <2>2. (ptr - b.off) % 16 = 0 /\ (ptr + n) % 16 = 0 /\ (b.off + b.size) % 16 = 0
    BY <1>2, <1>3, <2>1, QuantumSum, Zenon
  <2>3. End(b) % 16 = 0
    BY <1>2, <2>2
  <2>4. (End(b) - (ptr + n)) % 16 = 0
    BY <2>1, <2>2, <2>3, QuantumSum, Zenon
  <2> QED BY <1>6, <2>2, <2>4
<1> HIDE DEF gap, rem, got
<1>8. /\ gap.size = 0 \/ gap.size >= 16
      /\ rem.size = 0 \/ rem.size >= 16
  BY <1>6, <1>7
<1>9. /\ allocated_' = allocated_ + n /\ live' = live \cup {got}
  <2>1. (IF rem.size < 16 THEN n + rem.size ELSE n) = n
    BY <1>6, <1>8, SMTT(20)
  <2> QED BY <1>4, <2>1 DEF got
<1>10. /\ G1 \cup G2 = IF gap.size > 0 THEN {gap} ELSE {}
       /\ R1 \cup R2 = IF rem.size > 0 THEN {rem} ELSE {}
       /\ G1 \cap G2 = {} /\ R1 \cap R2 = {}
  <2>1. gap.size \in Nat /\ (gap.size = 0 \/ gap.size >= 16)
    BY <1>6, <1>8
  <2>2. rem.size \in Nat /\ (rem.size = 0 \/ rem.size >= 16)
    BY <1>6, <1>8
  <2>3. G1 \cup G2 = (IF gap.size > 0 THEN {gap} ELSE {}) /\ G1 \cap G2 = {}
    BY <2>1
  <2>4. R1 \cup R2 = (IF rem.size > 0 THEN {rem} ELSE {}) /\ R1 \cap R2 = {}
    BY <2>2
  <2> QED BY <2>3, <2>4
<1>11. /\ gap.size > 0 => gap.off < got.off
       /\ gap.size > 0 => gap.off < rem.off
       /\ got.off < rem.off
  BY <1>2, <1>3, <1>6
<1>12. /\ (G1 \cup R1) \cap (G2 \cup R2) = {}
       /\ got \notin (G1 \cup R1) \cup (G2 \cup R2)
       /\ G2 \cap R2 = {}
  <2>1. gap.size > 0 => gap # got /\ gap # rem
    BY <1>2, <1>3, <1>6, <1>11
  <2>2. got # rem
    BY <1>3, <1>6, <1>11
  <2> HIDE DEF G1, G2, R1, R2
  <2> QED BY <2>1, <2>2, <1>10
<1>13. (G1 \cup R1) \cup (G2 \cup R2) \cup {got} = Pieces(b, ptr, n)
  <2>1. \A r : r \in Pieces(b, ptr, n) <=> r \in {gap, got, rem} /\ r.size > 0
    BY DEF Pieces, gap, got, rem
  <2>2. got.size > 0
    BY <1>6
  <2> HIDE DEF G1, G2, R1, R2
  <2> QED BY <2>1, <2>2, <1>10
<1>14. \A r \in G1 \cup R1 : r.size >= kMinBlockSize
  BY <1>6 DEF kMinBlockSize
<1> DEFINE NT == G1 \cup R1
           NS == G2 \cup R2
<1> HIDE DEF NT, NS
<1>15. /\ Shape((tree \ {b}) \cup NT, SmallBlocks \cup NS, live \cup {got})
       /\ NS \cap SmallBlocks = {} /\ got \notin live
  <2>1. Returned(NT, NS, b, ptr, n)
    BY <1>12, <1>13, <1>14, SMTT(20) DEF NT, NS, Returned, got
  <2> QED BY <2>1, <1>1, <1>3, CarveShape, ZenonT(30) DEF got
<1>16. /\ listsGap \in Lists /\ NoDuplicates(listsGap)
       /\ Listed(listsGap) = SmallBlocks \cup G2
  <2>1. G2 \cap Listed(free_lists_) = {}
    BY <1>15, SMTT(20) DEF NS, SmallBlocks
  <2>2. CASE gapListed
    <3>1. gap \notin Listed(free_lists_) /\ gap.size >= 16 /\ gap.size <= 128
      BY <2>1, <2>2, <1>6, SMTT(20)
    <3>2. /\ Push(free_lists_, gap) \in Lists /\ NoDuplicates(Push(free_lists_, gap))
          /\ Listed(Push(free_lists_, gap)) = Listed(free_lists_) \cup {gap}
      BY <3>1, <1>1, <1>6, <1>7, PushListed, SMTT(20)
    <3> QED BY <2>2, <3>2, SMTT(20) DEF SmallBlocks
  <2>3. CASE ~gapListed
    BY <2>3, <1>1 DEF SmallBlocks
  <2> QED BY <2>2, <2>3, SMTT(20)
<1> HIDE DEF listsGap
<1>17. /\ free_lists_' \in Lists /\ NoDuplicates(free_lists_')
       /\ Listed(free_lists_') = Listed(listsGap) \cup R2
  <2>1. R2 \cap Listed(listsGap) = {}
    BY <1>12, <1>15, <1>16, SMTT(20) DEF NS
  <2>2. CASE remListed
    <3>1. rem \notin Listed(listsGap) /\ rem.size >= 16 /\ rem.size <= 128
      BY <2>1, <2>2, <1>6, SMTT(20)
    <3>2. /\ Push(listsGap, rem) \in Lists /\ NoDuplicates(Push(listsGap, rem))
          /\ Listed(Push(listsGap, rem)) = Listed(listsGap) \cup {rem}
      BY <3>1, <1>6, <1>7, <1>16, PushListed, SMTT(20)
    <3> QED BY <2>2, <3>2, <1>4
  <2>3. CASE ~remListed
    BY <2>3, <1>4, <1>16
  <2> QED BY <2>2, <2>3, SMTT(20)
<1> HIDE DEF G1, G2, R1, R2
<1>18. Shape(tree', SmallBlocks', live')
  <2>1. SmallBlocks' = SmallBlocks \cup NS
    BY <1>16, <1>17 DEF SmallBlocks, NS
  <2>2. tree' = (tree \ {b}) \cup NT
    BY <1>4 DEF NT
  <2> QED BY <2>1, <2>2, <1>9, <1>15
<1>19. free_blocks_' \in Counter
  <2>1. free_blocks_ - 1 \in Int /\ free_blocks_ \in Counter
    BY RegionAssumption DEF IInv, TypeOK, Counter
  <2> QED BY <2>1, <1>4, Wraps
<1>20. IInv'
  BY <1>6, <1>9, <1>15, <1>17, <1>18, <1>19, GrantStep, Zenon
<1> QED BY <1>6, <1>9, <1>15, <1>20 DEF Granted

\* allocate, whichever way it ends.
LEMMA AllocateStep ==
  ASSUME IInv, NEW size \in Requests, NEW alignment \in Alignments, allocate(size, alignment)
  PROVE  IInv' /\ (Granted(InternalSize(size)) \/ UNCHANGED vars)
<1>1. CASE AllocateSmall(size, alignment)
  BY <1>1, AllocateSmallStep
<1>2. CASE AllocateTree(size, alignment)
  <2> DEFINE n     == InternalSize(size)
             align == InternalAlign(alignment)
  <2>1. PICK b \in Candidates(n, align) : Carve(b, n, align)
    BY <1>2 DEF AllocateTree
  <2>2. b \in tree /\ AlignUp(b.off, align) + n <= End(b)
    BY <2>1 DEF Candidates
  <2>3. n \in Nat /\ n % 16 = 0 /\ n >= 16 /\ align \in Nat \ {0} /\ align % 16 = 0
    BY InternalRange
  <2> HIDE DEF n, align
  <2>4. IInv' /\ Granted(n)
    BY <2>1, <2>2, <2>3, CarveStep, SMTT(20)
  <2> QED BY <2>4 DEF n
<1>3. CASE AllocateFails(size, alignment)
  <2>1. UNCHANGED vars
    BY <1>3 DEF AllocateFails
  <2> QED BY <2>1 DEF IInv, TypeOK, Shape, Tiling, vars, SmallBlocks, Held
<1> QED BY <1>1, <1>2, <1>3 DEF allocate

\* Every step preserves the inductive invariant.
LEMMA NextIInv == IInv /\ [Next]_vars => IInv'
<1> SUFFICES ASSUME IInv, [Next]_vars PROVE IInv'
  OBVIOUS
<1>1. ASSUME NEW size \in Requests, NEW alignment \in Alignments, allocate(size, alignment)
      PROVE  IInv'
  BY <1>1, AllocateStep
<1>2. ASSUME NEW b \in live, deallocate(b) PROVE IInv'
  BY <1>2, DeallocateSmallStep, DeallocateLargeStep, SMTT(20) DEF deallocate
<1>3. CASE UNCHANGED vars
  BY <1>3 DEF IInv, TypeOK, Shape, Tiling, vars, SmallBlocks, Held
<1> QED BY <1>1, <1>2, <1>3 DEF Next, DeallocateRejected

-----------------------------------------------------------------------------
\* The inductive invariant holds throughout.
THEOREM Inductive == Spec => []IInv
  BY InitIInv, NextIInv, PTL DEF Spec

\* Type correctness; in particular allocated_, a size_t, never goes below
\* zero however callers allocate and free.
THEOREM TypeCorrect == Spec => []TypeOK
  BY Inductive, IInvImplies, PTL

\* No byte is ever in two places: blocks handed out by allocate do not overlap
\* each other, the tree or the small lists.
THEOREM NoOverlap == Spec => []Disjoint
  BY Inductive, IInvImplies, PTL

\* No byte of the region is ever lost by a split or a merge.
THEOREM NothingLost == Spec => []Covered
  BY Inductive, IInvImplies, PTL

\* Every block lies in the region, on the 16-byte quantum, and a tree block is
\* long enough for its FreeBlock header.
THEOREM HeadersFit == Spec => []WellFormed
  BY Inductive, IInvImplies, PTL

\* After every operation no two tree blocks touch.
THEOREM FullyCoalesced == Spec => []Coalesced
  BY Inductive, IInvImplies, PTL

\* allocated_ counts exactly the bytes callers hold, and capacity minus
\* allocated_ exactly the bytes that are free.
THEOREM ExactAccounting == Spec => []Accounting
  BY Inductive, IInvImplies, PTL

\* Every step of the allocator is a step its contract allows.
THEOREM ContractKept == Spec => KeepsContract
<1>1. Init => Contract!Init
  BY DEF Init, Contract!Init
<1>2. ASSUME IInv, IInv', [Next]_vars PROVE [Contract!Next]_(Contract!cvars)
  <2>1. ASSUME NEW n, NEW size \in Requests, n = InternalSize(size), Granted(n)
        PROVE  Contract!Next
    <3>1. PICK g : /\ g \notin live /\ live' = live \cup {g} /\ g.size >= n
                   /\ allocated_' = allocated_ + g.size
      BY <2>1 DEF Granted
    <3>2. /\ g \in AnyBlock /\ WellSized(g)
          /\ \A c \in live : c \in AnyBlock /\ ~Overlap(g, c)
      BY <1>2, <3>1 DEF IInv, Shape, Tiling
    <3>3. /\ g.off \in Nat /\ g.size \in Nat /\ g.size >= 16 /\ g.off + g.size <= Size
          /\ g.off % 16 = 0 /\ g.size % 16 = 0 /\ g = [off |-> g.off, size |-> g.size]
      BY <3>2 DEF AnyBlock, WellSized, End, kSmallBlockQuantum
    <3>4. n \in Nat /\ size \in Nat /\ n >= size
      BY <2>1, InternalRange, RequestAssumption
    <3>5. g.off \in Contract!Granules /\ g.size \in Contract!Granules
      BY <3>3, RegionAssumption DEF Contract!Granules
    <3>6. \A c \in live : Contract!Apart(g, c)
      BY <3>2, <3>3 DEF Contract!Apart, Overlap, End, AnyBlock
    <3>7. g.size > 0 /\ g.size >= size
      BY <3>1, <3>3, <3>4
    <3>8. Contract!Grant(size)
      BY <3>1, <3>3, <3>5, <3>6, <3>7 DEF Contract!Grant
    <3> QED BY <3>8 DEF Contract!Next
  <2>2. ASSUME NEW size \in Requests, NEW alignment \in Alignments, allocate(size, alignment)
        PROVE  [Contract!Next]_(Contract!cvars)
    BY <1>2, <2>1, <2>2, AllocateStep, SMTT(20) DEF vars, Contract!cvars
  <2>3. ASSUME NEW b \in live, deallocate(b) PROVE Contract!Next
    BY <2>3 DEF deallocate, DeallocateSmall, DeallocateLarge, Contract!Next, Contract!Return
  <2>4. CASE UNCHANGED vars
    BY <2>4 DEF vars, Contract!cvars
  <2> QED BY <1>2, <2>2, <2>3, <2>4 DEF Next, DeallocateRejected
<1> QED BY <1>1, <1>2, Inductive, PTL DEF Spec, KeepsContract, Contract!Spec

\* The tree's blocks, when they are all there is, are one block.
LEMMA OneBlock ==
  ASSUME IInv, live = {}, SmallBlocks = {}
  PROVE  tree = {Block(0, Size)}
<1>1. /\ \A b \in tree : b \in AnyBlock /\ WellSized(b)
      /\ \A b, c \in tree : b # c => ~Overlap(b, c)
      /\ \A x \in 0 .. Size - 1 : \E b \in tree : x \in Bytes(b)
      /\ \A b, c \in tree : End(b) # c.off
  BY IInvImplies DEF IInv, Shape, Tiling, Disjoint, Covered, Coalesced, Blocks, FreeBlocks
<1>2. \A b \in tree : /\ b.off \in Nat /\ b.size \in Nat /\ b.size >= 16 /\ b.off + b.size <= Size
                       /\ b = Block(b.off, b.size)
  BY <1>1 DEF AnyBlock, WellSized, End, kSmallBlockQuantum, Block
<1>3. Size \in Nat /\ Size >= 48
  BY RegionAssumption DEF kMinBlockSize
<1>4. PICK b \in tree : 0 \in Bytes(b)
  BY <1>1, <1>3
<1>5. b.off = 0
  BY <1>2, <1>4 DEF Bytes, End
<1>6. End(b) = Size
  <2>1. SUFFICES ASSUME End(b) < Size PROVE FALSE
    BY <1>2, <1>3 DEF End
  <2>2. PICK c \in tree : End(b) \in Bytes(c)
    BY <1>1, <1>2, <1>3, <2>1 DEF End
  <2>3. c.off < End(b)
    BY <1>1, <1>2, <2>2, SMTT(20) DEF Bytes, End
  <2>4. Overlap(b, c) /\ b # c
    BY <1>2, <1>5, <2>2, <2>3 DEF Overlap, Bytes, End
  <2> QED BY <1>1, <2>4
<1>7. ASSUME NEW c \in tree PROVE c = b
  <2>1. Overlap(b, c)
    BY <1>2, <1>5, <1>6, <1>7 DEF Overlap, End
  <2> QED BY <1>1, <2>1
<1>8. b = Block(0, Size)
  BY <1>2, <1>5, <1>6 DEF End
<1> QED BY <1>4, <1>7, <1>8, SMTT(20)

\* A region nobody holds a part of, with empty lists, is one free block again.
THEOREM NoLastingFragments == Spec => []WholeAgain
<1>1. IInv => WholeAgain
  BY OneBlock DEF WholeAgain
<1> QED BY <1>1, Inductive, PTL
=============================================================================

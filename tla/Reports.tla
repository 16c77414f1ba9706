------------------------------ MODULE Reports ------------------------------
(***************************************************************************)
(* The reports made from a list of blocks: CacheAnalyzer::analyze          *)
(* (interface/cache_analyzer.cpp), compute_padding_report and build_layout *)
(* (interface/padding_inspector.hpp).  Ratios are left to their two terms, *)
(* tags are left out.  A block is a record [offset, size, actual_size].    *)
(***************************************************************************)
EXTENDS Integers, Sequences, FiniteSets, FiniteSetsExt

LOCAL Larger(a, b)  == IF a >= b THEN a ELSE b
LOCAL Smaller(a, b) == IF a <= b THEN a ELSE b

BlockEnd(b) == b.offset + b.actual_size

-----------------------------------------------------------------------------
(* CacheAnalyzer                                                           *)

PowersOfTwo == { 2^k : k \in 0 .. 16 }

\* The constructor takes 64 for a line size that is no power of two.
LineSize(size) == IF size \in PowersOfTwo THEN size ELSE 64

FirstLine(b, line) == b.offset \div line

\* Mutant: the byte after the block counted as its last.
LastLineAfter(b, line) == BlockEnd(b) \div line

LastLine(b, line) ==
  IF BlockEnd(b) > 0 THEN (BlockEnd(b) - 1) \div line ELSE FirstLine(b, line)

IsSplit(b, line) == LastLine(b, line) > FirstLine(b, line)

\* Bytes of the block in line number n: both ends clamped to the line.
BytesIn(b, n, line) ==
  Larger(0, Smaller(BlockEnd(b), (n + 1) * line) - Larger(b.offset, n * line))

\* The blocks that have an entry in the accumulator of line n.
InLine(blocks, n, line) ==
  { b \in blocks : /\ n \in FirstLine(b, line) .. LastLine(b, line)
                   /\ BytesIn(b, n, line) > 0 }

LineInfo(blocks, n, line) ==
  LET used == Smaller(MapThenSumSet(LAMBDA b : BytesIn(b, n, line), InLine(blocks, n, line)), line)
  IN  [ line_index |-> n, bytes_used |-> used, bytes_wasted |-> line - used,
        is_split |-> \E b \in InLine(blocks, n, line) : IsSplit(b, line) ]

analyze(blocks, capacity, line) ==
  LET touched == UNION { FirstLine(b, line) .. LastLine(b, line) : b \in blocks }
      lines   == { LineInfo(blocks, n, line) : n \in { m \in touched : InLine(blocks, m, line) # {} } }
      empty   == blocks = {} \/ capacity = 0
  IN  [ total_lines       |-> (capacity + line - 1) \div line,
        lines             |-> IF empty THEN {} ELSE lines,
        active_lines      |-> IF empty THEN 0 ELSE Cardinality(lines),
        fully_utilized    |-> IF empty THEN 0 ELSE Cardinality({ l \in lines : l.bytes_used = line }),
        split_allocations |-> IF empty THEN 0 ELSE Cardinality({ b \in blocks : IsSplit(b, line) }) ]

-----------------------------------------------------------------------------
(* Padding of blocks and of the fields of a struct                         *)

Requested(b) == b.size
Actual(b)    == b.actual_size

PaddingBytes(b) == IF b.actual_size > b.size THEN b.actual_size - b.size ELSE 0

compute_padding_report(blocks) ==
  LET requested == MapThenSumSet(Requested, blocks)
      actual    == MapThenSumSet(Actual, blocks)
  IN  [ total_requested |-> requested,
        total_actual    |-> actual,
        total_wasted    |-> IF actual > requested THEN actual - requested ELSE 0 ]

\* fields: a sequence of [offset, size], in the order the macro was given them.
PrevEnd(fields, i) == IF i = 1 THEN 0 ELSE fields[i - 1].offset + fields[i - 1].size

\* Mutant: the gap is measured from the start of the field before.
PaddingBeforeStart(fields, i) ==
  IF i = 1 THEN fields[i].offset ELSE fields[i].offset - fields[i - 1].offset

PaddingBefore(fields, i) ==
  IF fields[i].offset >= PrevEnd(fields, i) THEN fields[i].offset - PrevEnd(fields, i) ELSE 0

build_layout(total_size, fields) ==
  LET useful == MapThenSumSet(LAMBDA i : fields[i].size, DOMAIN fields)
      ends   == PrevEnd(fields, Len(fields) + 1)
  IN  [ useful_bytes   |-> useful,
        padding_bytes  |-> total_size - useful,
        padding_before |-> [i \in DOMAIN fields |-> PaddingBefore(fields, i)],
        tail_padding   |-> IF total_size >= ends THEN total_size - ends ELSE 0 ]
=============================================================================

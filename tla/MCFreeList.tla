----------------------------- MODULE MCFreeList -----------------------------
(***************************************************************************)
(* Bounded instances of FreeList.  Every bound is a constant of FreeList:  *)
(* the region is finite, so its blocks are too.  The reports are checked   *)
(* on every list of blocks that callers of the allocator can hold.         *)
(***************************************************************************)
EXTENDS FreeList, Reports, SequencesExt

\* What callers may have asked for to get the blocks they hold.
Asked ==
  { asked \in [live -> Requests] : \A b \in live : InternalSize(asked[b]) <= b.size }

Metadata(asked) ==
  { [offset |-> b.off, size |-> asked[b], actual_size |-> b.size] : b \in live }

HeldBytes == UNION { Bytes(b) : b \in live }

LineSizes == { LineSize(n) : n \in {100, 256} }

\* The cache report on the allocator's blocks counts bytes: a line's bytes_used
\* is the number of its bytes callers hold, and all lines together hold
\* allocated_; a line is listed, full or split exactly if the bytes say so, and
\* none lies past the end of the region.
CacheReportRight ==
  \A line \in LineSizes :
    LET report   == analyze(Metadata([b \in live |-> b.size]), Size, line)
        OfLine(n) == (n * line) .. (n * line + line - 1)
        Touched(b) == { x \div line : x \in Bytes(b) }
    IN  /\ MapThenSumSet(LAMBDA l : l.bytes_used, report.lines) = allocated_
        /\ { l.line_index : l \in report.lines } = { x \div line : x \in HeldBytes }
        /\ \A l \in report.lines :
             /\ l.bytes_used = Cardinality(HeldBytes \cap OfLine(l.line_index))
             /\ l.is_split <=> \E b \in live : l.line_index \in Touched(b) /\ Cardinality(Touched(b)) > 1
             /\ l.line_index < report.total_lines
        /\ report.active_lines <= report.total_lines
        /\ report.fully_utilized =
             Cardinality({ n \in 0 .. Size \div line : OfLine(n) \subseteq HeldBytes })
        /\ report.split_allocations = Cardinality({ b \in live : Cardinality(Touched(b)) > 1 })

\* Padding adds up: over blocks, the parts make the total and the total is what
\* the allocator gave beyond what was asked; over a layout (here the region,
\* with the blocks as fields), the gaps and the tail make all that is not in use.
PaddingAdds ==
  /\ \A asked \in Asked :
       LET report == compute_padding_report(Metadata(asked))
       IN  /\ report.total_wasted = MapThenSumSet(PaddingBytes, Metadata(asked))
           /\ report.total_requested + report.total_wasted = allocated_
  /\ LET fields == SetToSortSeq({ [offset |-> b.off, size |-> b.size] : b \in live },
                                LAMBDA f, g : f.offset < g.offset)
         layout == build_layout(Size, fields)
     IN  /\ layout.padding_bytes = Cardinality((0 .. Size - 1) \ HeldBytes)
         /\ layout.padding_bytes = layout.tail_padding
              + MapThenSumSet(LAMBDA i : layout.padding_before[i], DOMAIN fields)
=============================================================================

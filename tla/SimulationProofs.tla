-------------------------- MODULE SimulationProofs --------------------------
(***************************************************************************)
(* Machine-checked proofs about Simulation: for every traffic pattern,     *)
(* number of requests, burst size and set of latencies, and whichever      *)
(* allocations fail.                                                       *)
(***************************************************************************)
EXTENDS Simulation, FiniteSetTheorems, TLAPS

\* Every variable a proof looks at has its type.
SimTypeOK ==
  /\ pattern \in Patterns /\ total_requests \in Nat /\ burst_size \in Nat
  /\ at \in {"start", "loop", "receive", "respond", "cleanup", "done"}
  /\ remaining \in Nat /\ phase \in Nat /\ batch \in Nat
  /\ next_id_ \in Nat /\ payload \in BOOLEAN /\ req_buf \in Nat
  /\ held \subseteq Nat \ {0} /\ IsFiniteSet(held)
  /\ ok_ \in Nat /\ fail_ \in Nat

\* The arena holds the streams' buffers and, between the two allocations of a
\* request, its payload's.
Buffers ==
  /\ at \in {"start", "loop", "receive", "cleanup"} => held = stream_buffers_ /\ req_buf = 0
  /\ at = "respond" => /\ held = stream_buffers_ \cup ({req_buf} \ {0})
                       /\ req_buf \notin stream_buffers_
  /\ at = "done" => held = {}

\* Requests made, to be made in this turn and remaining are all of them; of
\* those made, all but the one being handled have been counted.
Counts ==
  /\ at # "start" => (next_id_ - 1) + batch + remaining = total_requests
  /\ at = "start" => next_id_ = 1 /\ batch = 0
  /\ at \in {"receive", "respond"} => ok_ + fail_ + 1 = next_id_ - 1
  /\ at \notin {"receive", "respond"} => ok_ + fail_ = next_id_ - 1
  /\ at \in {"cleanup", "done"} => batch = 0 /\ remaining = 0

\* The inductive invariant.
SimIInv == SimTypeOK /\ Buffers /\ Counts

-----------------------------------------------------------------------------
\* There is a first free place, and it is free.
LEMMA FirstFreeIsFree ==
  ASSUME NEW used \in SUBSET (Nat \ {0}), IsFiniteSet(used)
  PROVE  FirstFree(used) \in Nat \ {0} /\ FirstFree(used) \notin used
<1> DEFINE n == Cardinality(used)
           open == (1 .. n + 1) \ used
<1>1. n \in Nat
  BY FS_CardinalityType
<1>2. open # {}
  <2> SUFFICES ASSUME 1 .. n + 1 \subseteq used PROVE FALSE
    OBVIOUS
  <2>1. Cardinality(1 .. n + 1) = n + 1
    BY <1>1, FS_Interval
  <2>2. Cardinality(1 .. n + 1) <= n
    BY FS_Subset, Zenon
  <2> QED
    BY <1>1, <2>1, <2>2
<1>3. open \subseteq Nat
  BY <1>1
<1>4. PICK a \in open : \A y \in open : ~(<<y, a>> \in OpToRel(<, Nat))
  BY <1>2, <1>3, NatLessThanWellFounded, WFMin, Zenon
<1>5. a \in 1 .. n + 1 /\ a \notin used
  OBVIOUS
<1>6. \A x \in 1 .. a - 1 : x \in used
  <2> SUFFICES ASSUME NEW x \in 1 .. a - 1, x \notin used PROVE FALSE
    OBVIOUS
  <2>1. x \in open /\ x < a /\ x \in Nat /\ a \in Nat
    BY <1>1, <1>5
  <2>2. <<x, a>> \in OpToRel(<, Nat)
    BY <2>1 DEF OpToRel
  <2> QED
    BY <1>4, <2>1, <2>2, Zenon
<1>7. FirstFree(used) \in 1 .. n + 1 /\ FirstFree(used) \notin used
  BY <1>5, <1>6 DEF FirstFree
<1> QED
  BY <1>1, <1>7

\* A turn of a loop takes no more requests than remain.
LEMMA BatchFits ==
  ASSUME SimTypeOK, remaining > 0
  PROVE  Batch \in Nat /\ Batch <= remaining
<1>1. /\ remaining \div 5 \in Nat /\ remaining \div 5 <= remaining
      /\ remaining \div 10 \in Nat /\ remaining \div 10 <= remaining
  BY DEF SimTypeOK
<1> QED
  BY <1>1 DEF Batch, Min2, Max2, SimTypeOK, Patterns

\* Recording a request counts it once.
LEMMA RecordCounts ==
  ASSUME SimTypeOK, NEW success \in BOOLEAN, RecordOutcome(success)
  PROVE  ok_' \in Nat /\ fail_' \in Nat /\ ok_' + fail_' = ok_ + fail_ + 1
  BY DEF SimTypeOK, RecordOutcome

\* At the start nothing is held and nothing counted.
LEMMA SimInitSound == SimInit => SimIInv
<1> SUFFICES ASSUME SimInit PROVE SimIInv
  OBVIOUS
<1>1. SimTypeOK
  BY SimulationAssumption, FS_EmptySet, Zenon DEF SimInit, SimTypeOK
<1> QED
  BY <1>1 DEF SimInit, SimIInv, Buffers, Counts

\* The generator's steps.
LEMMA GeneratorKeeps ==
  ASSUME SimIInv, Start \/ NextBatch \/ MakeRequest \/ Stop
  PROVE  SimIInv'
<1> USE DEF SimIInv, config, turn, request, buffers, metrics
<1>1. CASE Start
  BY <1>1 DEF Start, SimTypeOK, Buffers, Counts
<1>2. CASE NextBatch
  <2>1. Batch \in Nat /\ Batch <= remaining
    BY <1>2, BatchFits DEF NextBatch
  <2>2. phase' \in Nat
    BY <1>2 DEF NextBatch, SimTypeOK
  <2>3. batch' = Batch /\ remaining' = remaining - Batch
    BY <1>2 DEF NextBatch
  <2>4. SimTypeOK'
    BY <1>2, <2>1, <2>2, <2>3 DEF NextBatch, SimTypeOK
  <2>5. Buffers' /\ Counts'
    BY <1>2, <2>1, <2>3 DEF NextBatch, SimTypeOK, Buffers, Counts
  <2> QED
    BY <2>4, <2>5
<1>3. CASE MakeRequest
  BY <1>3 DEF MakeRequest, SimTypeOK, Buffers, Counts
<1>4. CASE Stop
  BY <1>4 DEF Stop, SimTypeOK, Buffers, Counts
<1> QED
  BY <1>1, <1>2, <1>3, <1>4

\* Step 1 of handle_request.
LEMMA ReceiveKeeps ==
  ASSUME SimIInv, Receive \/ ReceiveFails
  PROVE  SimIInv'
<1> USE DEF SimIInv, config, turn, request, metrics
<1>1. CASE Receive
  <2>1. CASE payload
    <3> DEFINE a == FirstFree(held)
    <3>1. a \in Nat \ {0} /\ a \notin held
      BY FirstFreeIsFree DEF SimTypeOK
    <3>2. req_buf' = a /\ held' = held \cup {a}
      BY <1>1, <2>1 DEF Receive
    <3> HIDE DEF a
    <3>3. IsFiniteSet(held')
      BY <3>2, FS_AddElement DEF SimTypeOK
    <3> QED
      BY <1>1, <3>1, <3>2, <3>3 DEF Receive, SimTypeOK, Buffers, Counts
  <2>2. CASE ~payload
    BY <1>1, <2>2, Zenon DEF Receive, SimTypeOK, Buffers, Counts
  <2> QED
    BY <2>1, <2>2
<1>2. CASE ReceiveFails
  <2>1. ok_' \in Nat /\ fail_' \in Nat /\ ok_' + fail_' = ok_ + fail_ + 1
    BY <1>2, RecordCounts, Zenon DEF ReceiveFails
  <2>2. /\ at = "receive" /\ at' = "loop" /\ req_buf' = 0 /\ payload' = FALSE
        /\ UNCHANGED <<pattern, total_requests, burst_size, remaining, phase, batch, next_id_,
                       held, stream_buffers_>>
    BY <1>2 DEF ReceiveFails, ReturnResponse
  <2>3. SimTypeOK' /\ Buffers'
    BY <2>1, <2>2, Zenon DEF SimTypeOK, Buffers
  <2>4. Counts'
    <3>1. ok_ + fail_ + 1 = next_id_ - 1
      BY <2>2 DEF Counts
    <3>2. ok_ \in Nat /\ fail_ \in Nat /\ next_id_ \in Nat /\ next_id_' = next_id_
      BY <2>2 DEF SimTypeOK
    <3>3. ok_' + fail_' = next_id_' - 1
      BY <2>1, <3>1, <3>2, Zenon
    <3> QED
      BY <2>2, <3>3 DEF Counts
  <2> QED
    BY <2>3, <2>4
<1> QED
  BY <1>1, <1>2

\* The rest of handle_request: the request's buffer goes back on every path.
LEMMA RespondKeeps ==
  ASSUME SimIInv, Respond \/ RespondFails
  PROVE  SimIInv'
<1> DEFINE a == FirstFree(held)
<1>1. a \in Nat \ {0} /\ a \notin held
  BY FirstFreeIsFree DEF SimIInv, SimTypeOK
<1>2. at = "respond"
  BY Zenon DEF Respond, RespondFails
<1>3. held \ {req_buf} = stream_buffers_
  BY <1>2 DEF SimIInv, SimTypeOK, Buffers
<1>4. /\ \/ held' = held \ {req_buf} /\ stream_buffers_' = stream_buffers_
         \/ held' = (held \ {req_buf}) \cup {a} /\ stream_buffers_' = stream_buffers_ \cup {a}
      /\ ReturnResponse
      /\ RecordOutcome(TRUE) \/ RecordOutcome(FALSE)
  BY Zenon DEF Respond, RespondFails
<1> HIDE DEF a
<1>5. ok_' \in Nat /\ fail_' \in Nat /\ ok_' + fail_' = ok_ + fail_ + 1
  BY <1>4, RecordCounts, Zenon DEF SimIInv
<1>6. IsFiniteSet(held')
  <2>1. IsFiniteSet(held \ {req_buf})
    BY FS_RemoveElement DEF SimIInv, SimTypeOK
  <2>2. IsFiniteSet((held \ {req_buf}) \cup {a})
    BY <2>1, FS_AddElement
  <2> QED
    BY <1>4, <2>1, <2>2
<1>7. held' \subseteq Nat \ {0} /\ held' = stream_buffers_'
  BY <1>1, <1>3, <1>4, Zenon DEF SimIInv, SimTypeOK
<1>8. SimTypeOK' /\ Buffers'
  BY <1>4, <1>5, <1>6, <1>7, Zenon DEF ReturnResponse, SimIInv, SimTypeOK, Buffers, config, turn
<1>9. Counts'
  <2>1. at' = "loop" /\ UNCHANGED <<total_requests, remaining, batch, next_id_>>
    BY <1>4 DEF ReturnResponse, config, turn
  <2>2. ok_ + fail_ + 1 = next_id_ - 1
    BY <1>2 DEF SimIInv, Counts
  <2>3. ok_ \in Nat /\ fail_ \in Nat /\ next_id_ \in Nat /\ next_id_' = next_id_
    BY <2>1 DEF SimIInv, SimTypeOK
  <2>4. ok_' + fail_' = next_id_' - 1
    BY <1>5, <2>2, <2>3, Zenon
  <2> QED
    BY <1>2, <2>1, <2>4 DEF SimIInv, Counts
<1> QED
  BY <1>8, <1>9 DEF SimIInv

\* cleanup_streams.
LEMMA CleanupKeeps ==
  ASSUME SimIInv, CleanupStreams
  PROVE  SimIInv'
<1> USE DEF SimIInv, CleanupStreams, config, turn, request, metrics
<1>1. held' = {}
  BY DEF Buffers
<1> QED
  BY <1>1, FS_EmptySet, Zenon DEF SimTypeOK, Buffers, Counts

\* Every step keeps the invariant.
LEMMA SimNextKeeps == SimIInv /\ [SimNext]_simvars => SimIInv'
<1> SUFFICES ASSUME SimIInv, [SimNext]_simvars PROVE SimIInv'
  OBVIOUS
<1>1. CASE UNCHANGED simvars
  BY <1>1 DEF simvars, config, turn, request, buffers, metrics, SimIInv, SimTypeOK, Buffers, Counts
<1> QED
  BY <1>1, GeneratorKeeps, ReceiveKeeps, RespondKeeps, CleanupKeeps DEF SimNext

\* The invariant holds throughout a run of the simulation.
THEOREM SimInvariant == SimSpec => []SimIInv
  BY SimInitSound, SimNextKeeps, PTL DEF SimSpec

\* No path through handle_request, and no end of a run, keeps a buffer that is
\* not an open stream's.
THEOREM SimBuffers == SimSpec => []BuffersReturned
<1>1. SimIInv => BuffersReturned
  BY DEF SimIInv, Buffers, BuffersReturned
<1> QED
  BY <1>1, SimInvariant, PTL

\* The four traffic patterns send total_requests requests, and the metrics
\* count each once.
THEOREM SimCounts == SimSpec => []CountedOnce
<1>1. SimIInv => CountedOnce
  BY DEF SimIInv, SimTypeOK, Counts, CountedOnce
<1> QED
  BY <1>1, SimInvariant, PTL
=============================================================================

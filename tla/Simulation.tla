----------------------------- MODULE Simulation -----------------------------
(***************************************************************************)
(* The server simulation (simulation/): the generator's four traffic       *)
(* patterns, the server's handling of a request with its two buffers, and  *)
(* the counters of the metrics.  One thread does all of it; what is open   *)
(* is which requests come and which calls of alloc_raw fail.               *)
(***************************************************************************)
EXTENDS Integers, FiniteSets, FiniteSetsExt

CONSTANTS
  Totals,       \* values of total_requests
  BurstSizes,   \* values of burst_size
  Latencies     \* latencies a request can have

ASSUME SimulationAssumption ==
  Totals \subseteq Nat /\ BurstSizes \subseteq Nat /\ Latencies \subseteq Nat

Patterns == {"Steady", "Burst", "Ramp", "Mixed"}
Types    == {"STREAM", "other"}   \* the server treats the other types alike

VARIABLES
  pattern, total_requests, burst_size,  \* GeneratorConfig
  at,           \* "start", "loop", "receive", "respond", "cleanup" or "done"
  remaining, phase,
  batch,        \* requests still to come in this turn of the loop
  next_id_,
  type, payload,    \* the request being handled, and whether it has a payload
  req_buf,          \* the payload's buffer, 0 for nullptr
  held,             \* buffers not given back to the arena
  stream_buffers_,
  latencies_,       \* how often each latency was recorded
  ok_, fail_

config  == <<pattern, total_requests, burst_size>>
turn    == <<remaining, phase, batch>>
request == <<next_id_, type, payload>>
buffers == <<req_buf, held, stream_buffers_>>
metrics == <<latencies_, ok_, fail_>>
simvars == <<config, at, turn, request, buffers, metrics>>

SimInit ==
  /\ pattern \in Patterns /\ total_requests \in Totals /\ burst_size \in BurstSizes
  /\ at = "start"
  /\ remaining = 0 /\ phase = 0 /\ batch = 0
  /\ next_id_ = 1 /\ type = "other" /\ payload = FALSE
  /\ req_buf = 0 /\ held = {} /\ stream_buffers_ = {}
  /\ latencies_ = [l \in Latencies |-> 0] /\ ok_ = 0 /\ fail_ = 0

Min2(a, b) == IF a <= b THEN a ELSE b
Max2(a, b) == IF a >= b THEN a ELSE b

-----------------------------------------------------------------------------
\* run: the timer is started and the pattern's loop entered.
Start ==
  /\ at = "start" /\ at' = "loop"
  /\ remaining' = total_requests
  /\ UNCHANGED <<config, phase, batch, request, buffers, metrics>>

\* Mutants: a burst is never cut to what remains; a tenth may be no request.
BatchUncut ==
  CASE pattern = "Steady" -> remaining
    [] pattern = "Burst"  -> burst_size
    [] OTHER              -> 1
BatchTenth ==
  CASE pattern = "Steady" -> remaining
    [] pattern = "Burst"  -> Min2(burst_size, remaining)
    [] pattern = "Ramp"   -> 1
    [] pattern = "Mixed"  -> Min2(Min2(burst_size, remaining), remaining \div 10)

\* The requests of one turn of the loop of run_steady, run_burst, run_ramp and
\* run_mixed.
Batch ==
  CASE pattern = "Steady" -> remaining
    [] pattern = "Burst"  -> Min2(burst_size, remaining)
    [] pattern = "Ramp"   -> 1
    [] pattern = "Mixed"  ->
         IF phase % 3 = 0
         THEN Min2(Min2(burst_size, remaining), Max2(1, remaining \div 5))
         ELSE Min2(Max2(1, remaining \div 10), remaining)

NextBatch ==
  /\ at = "loop" /\ batch = 0 /\ remaining > 0
  /\ batch' = Batch
  /\ remaining' = remaining - Batch
  /\ phase' = IF pattern = "Mixed" THEN (phase + 1) % 3 ELSE phase
  /\ UNCHANGED <<config, at, request, buffers, metrics>>

\* make_request: only GET and DELETE may come without a payload, as min_payload
\* is 32.
MakeRequest ==
  /\ at = "loop" /\ batch > 0
  /\ at' = "receive"
  /\ batch' = batch - 1
  /\ next_id_' = next_id_ + 1
  /\ type' \in Types /\ payload' \in BOOLEAN
  /\ type' = "STREAM" => payload'
  /\ UNCHANGED <<config, remaining, phase, buffers, metrics>>

-----------------------------------------------------------------------------
\* MetricsCollector::record.
RecordOutcome(success) ==
  /\ \E latency \in Latencies : latencies_' = [latencies_ EXCEPT ![latency] = @ + 1]
  /\ ok_' = IF success THEN ok_ + 1 ELSE ok_
  /\ fail_' = IF success THEN fail_ ELSE fail_ + 1

\* handle_request returns, and its locals are gone.
ReturnResponse ==
  /\ at' = "loop"
  /\ type' = "other" /\ payload' = FALSE /\ req_buf' = 0
  /\ UNCHANGED <<config, turn, next_id_>>

\* Where alloc_raw puts a buffer: the first place not in use.
FirstFree(used) == CHOOSE a \in 1 .. Cardinality(used) + 1 :
                     a \notin used /\ \A x \in 1 .. a - 1 : x \in used

\* handle_request, step 1: a buffer for the payload, if there is one.
Receive ==
  /\ at = "receive" /\ at' = "respond"
  /\ IF payload
     THEN req_buf' = FirstFree(held) /\ held' = held \cup {req_buf'}
     ELSE req_buf' = 0 /\ UNCHANGED held
  /\ UNCHANGED <<config, turn, request, stream_buffers_, metrics>>

ReceiveFails ==
  /\ at = "receive" /\ payload
  /\ RecordOutcome(FALSE) /\ ReturnResponse
  /\ UNCHANGED <<held, stream_buffers_>>

\* Steps 2 to 7: the response is allocated, the request's buffer freed, and the
\* response freed too unless it is a stream's.
Respond ==
  /\ at = "respond"
  /\ LET resp_buf == FirstFree(held)
     IN  IF type = "STREAM"
         THEN /\ held' = (held \ {req_buf}) \cup {resp_buf}
              /\ stream_buffers_' = stream_buffers_ \cup {resp_buf}
         ELSE held' = held \ {req_buf} /\ UNCHANGED stream_buffers_
  /\ RecordOutcome(TRUE) /\ ReturnResponse

\* Mutant: the request's buffer is forgotten.
RespondFailsLeaks ==
  /\ at = "respond"
  /\ RecordOutcome(FALSE) /\ ReturnResponse
  /\ UNCHANGED <<held, stream_buffers_>>

RespondFails ==
  /\ at = "respond"
  /\ held' = held \ {req_buf}
  /\ RecordOutcome(FALSE) /\ ReturnResponse
  /\ UNCHANGED stream_buffers_

-----------------------------------------------------------------------------
\* The loop is left, the timer stopped,
Stop ==
  /\ at = "loop" /\ batch = 0 /\ remaining = 0
  /\ at' = "cleanup"
  /\ UNCHANGED <<config, turn, request, buffers, metrics>>

\* and the streams are closed: cleanup_streams.
CleanupStreams ==
  /\ at = "cleanup" /\ at' = "done"
  /\ held' = held \ stream_buffers_
  /\ stream_buffers_' = {}
  /\ UNCHANGED <<config, turn, request, req_buf, metrics>>

\* MetricsCollector::snapshot: the entry of the sorted samples at index
\* p * (n - 1), rounded down, and the ends of the sorted samples.
Samples(l)  == MapThenSumSet(LAMBDA x : latencies_[x], { x \in Latencies : x <= l })
Sorted(idx) == CHOOSE l \in Latencies : Samples(l) > idx /\ (Samples(l) - latencies_[l] <= idx)
Percentile(p) == Sorted((p * (ok_ + fail_ - 1)) \div 100)

SimNext ==
  \/ Start \/ NextBatch \/ MakeRequest
  \/ Receive \/ ReceiveFails \/ Respond \/ RespondFails
  \/ Stop \/ CleanupStreams

SimSpec == SimInit /\ [][SimNext]_simvars

\* One thread, which nothing stops.
SimFair == WF_simvars(SimNext)

-----------------------------------------------------------------------------
\* Between two requests the arena holds the buffers of open streams and no
\* other, whichever allocations failed, and at the end of a run none at all.
BuffersReturned ==
  /\ at = "loop" => held = stream_buffers_
  /\ at = "done" => held = {}

\* No pattern sends a request too many, and at the end of a run the metrics
\* have counted every request once.
CountedOnce ==
  /\ ok_ + fail_ <= total_requests /\ next_id_ - 1 <= total_requests
  /\ at = "done" => ok_ + fail_ = total_requests

\* As many samples were taken, and a percentile is one of them: at most p percent
\* of the others are below it and at least p percent at or below it.
PercentilesRight ==
  /\ MapThenSumSet(LAMBDA l : latencies_[l], Latencies) = ok_ + fail_
  /\ ok_ + fail_ > 0 => \A p \in {50, 95, 99} :
       LET v     == Percentile(p)
           below == MapThenSumSet(LAMBDA l : latencies_[l], { l \in Latencies : l < v })
       IN  /\ latencies_[v] > 0
           /\ 100 * below <= p * (ok_ + fail_ - 1)
           /\ 100 * (below + latencies_[v]) >= p * (ok_ + fail_ - 1)

\* The report of a run is right: it counts every request, and its percentiles
\* are those of the samples.
AllServed == CountedOnce /\ PercentilesRight

\* A run that was started ends, unless it is made of bursts of no requests.
Finishes == at = "loop" /\ (pattern = "Burst" => burst_size > 0) ~> at = "done"
=============================================================================

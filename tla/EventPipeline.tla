---------------------------- MODULE EventPipeline ----------------------------
(***************************************************************************)
(* The way of events from the threads' trackers to the server              *)
(* (interface/visualization_arena.cpp): contexts registered with an arena, *)
(* the batcher thread and event_log_json draining their rings under        *)
(* contexts_mutex, the flush of a batch, and the destructor that stops and *)
(* joins the batcher.  A ring is taken by its contract (EventChannel).     *)
(***************************************************************************)
EXTENDS Integers, Sequences

CONSTANTS
  Threads,
  MaxContexts,  \* bound: contexts made
  RingSize,     \* events a ring holds
  MaxEvents,    \* bound: events a context records
  MaxReads      \* bound: calls of event_log_json

ASSUME PipelineAssumption == MaxContexts \in Nat

Contexts == 1 .. MaxContexts

VARIABLES
  arena,            \* "up", "stopping" (running is false) or "down"
  tls_context_,     \* the context of each thread, 0 for none
  made,             \* contexts made so far: next_shard_idx
  ring, event_id,   \* of each context
  active_contexts,
  contexts_mutex,   \* "free", or who drains: "batcher" or "reader"
  pos,              \* how far the drain has come in active_contexts
  batcher_pc, events,
  log,              \* history: all that was broadcast
  reads

ctxvars   == <<tls_context_, made>>
ringvars  == <<ring, event_id>>
drainvars == <<active_contexts, contexts_mutex, pos, events>>
pipevars  == <<arena, ctxvars, ringvars, drainvars, batcher_pc, log, reads>>

PipeInit ==
  /\ arena = "up"
  /\ tls_context_ = [t \in Threads |-> 0] /\ made = 0
  /\ ring = [c \in Contexts |-> <<>>] /\ event_id = [c \in Contexts |-> 0]
  /\ active_contexts = <<>> /\ contexts_mutex = "free" /\ pos = 1 /\ events = <<>>
  /\ batcher_pc = "loop"
  /\ log = <<>> /\ reads = 0

-----------------------------------------------------------------------------
\* A context lives as long as a thread's tls_context_ points to it.
Owned(c) == \E t \in Threads : tls_context_[t] = c

\* init_tls_context: only the registration can be seen by others.
Attach(t) ==
  /\ arena = "up" /\ tls_context_[t] = 0 /\ made < MaxContexts /\ contexts_mutex = "free"
  /\ made' = made + 1
  /\ tls_context_' = [tls_context_ EXCEPT ![t] = made + 1]
  /\ active_contexts' = Append(active_contexts, made + 1)
  /\ UNCHANGED <<arena, ringvars, contexts_mutex, pos, events, batcher_pc, log, reads>>

\* The thread ends, or allocates from another arena: its context is destroyed
\* with what the ring still holds.
Detach(t) ==
  /\ tls_context_[t] # 0
  /\ tls_context_' = [tls_context_ EXCEPT ![t] = 0]
  /\ ring' = [ring EXCEPT ![tls_context_[t]] = <<>>]
  /\ UNCHANGED <<arena, made, event_id, drainvars, batcher_pc, log, reads>>

\* record_alloc and record_dealloc: a full ring drops the event.
Record(t) ==
  LET c == tls_context_[t]
  IN  /\ c # 0 /\ event_id[c] < MaxEvents
      /\ event_id' = [event_id EXCEPT ![c] = @ + 1]
      /\ ring' = IF Len(ring[c]) = RingSize THEN ring
                 ELSE [ring EXCEPT ![c] = Append(@, [ctx |-> c, id |-> event_id[c] + 1])]
      /\ UNCHANGED <<arena, ctxvars, drainvars, batcher_pc, log, reads>>

-----------------------------------------------------------------------------
\* while (running) { sleep; drain; flush }.  In "loop" the batcher is before
\* the test of running or, after it, asleep.
BatcherDone ==
  /\ batcher_pc = "loop" /\ arena = "stopping"
  /\ batcher_pc' = "done"
  /\ UNCHANGED <<arena, ctxvars, ringvars, drainvars, log, reads>>

BatcherLock ==
  /\ batcher_pc = "loop" /\ contexts_mutex = "free"
  /\ batcher_pc' = "drain"
  /\ contexts_mutex' = "batcher" /\ pos' = 1
  /\ UNCHANGED <<arena, ctxvars, ringvars, active_contexts, events, log, reads>>

\* event_log_json drains into the same vector, and leaves the events there.
ReaderLock ==
  /\ arena = "up" /\ reads < MaxReads /\ contexts_mutex = "free"
  /\ reads' = reads + 1
  /\ contexts_mutex' = "reader" /\ pos' = 1
  /\ UNCHANGED <<arena, ctxvars, ringvars, active_contexts, events, batcher_pc, log>>

\* Mutant: the ring is read and not emptied.
DrainCopies ==
  /\ contexts_mutex # "free" /\ pos <= Len(active_contexts)
  /\ pos' = pos + 1
  /\ events' = events \o ring[active_contexts[pos]]
  /\ UNCHANGED <<arena, ctxvars, ringvars, active_contexts, contexts_mutex, batcher_pc, log, reads>>

\* One ring is emptied into events; the entry of a context that is gone is
\* erased by the batcher and passed over by the reader.
DrainOne ==
  LET c == active_contexts[pos]
  IN  /\ contexts_mutex # "free" /\ pos <= Len(active_contexts)
      /\ events' = IF Owned(c) THEN events \o ring[c] ELSE events
      /\ ring' = IF Owned(c) THEN [ring EXCEPT ![c] = <<>>] ELSE ring
      /\ IF Owned(c) \/ contexts_mutex = "reader"
         THEN pos' = pos + 1 /\ UNCHANGED active_contexts
         ELSE /\ active_contexts' = SubSeq(active_contexts, 1, pos - 1)
                                      \o SubSeq(active_contexts, pos + 1, Len(active_contexts))
              /\ UNCHANGED pos
      /\ UNCHANGED <<arena, ctxvars, event_id, contexts_mutex, batcher_pc, log, reads>>

DrainEnd ==
  /\ contexts_mutex # "free" /\ pos > Len(active_contexts)
  /\ batcher_pc' = IF contexts_mutex = "batcher" THEN "flush" ELSE batcher_pc
  /\ contexts_mutex' = "free"
  /\ pos' = 1
  /\ UNCHANGED <<arena, ctxvars, ringvars, active_contexts, events, log, reads>>

\* Mutant: the batcher ends when there is nothing to send.
FlushEnds ==
  /\ batcher_pc = "flush"
  /\ log' = log \o events
  /\ events' = <<>>
  /\ batcher_pc' = IF arena = "up" /\ events # <<>> THEN "loop" ELSE "done"
  /\ UNCHANGED <<arena, ctxvars, ringvars, active_contexts, contexts_mutex, pos, reads>>

\* The batch is swapped out and broadcast, if there is one; running is tested.
Flush ==
  /\ batcher_pc = "flush"
  /\ log' = log \o events
  /\ events' = <<>>
  /\ batcher_pc' = IF arena = "up" THEN "loop" ELSE "done"
  /\ UNCHANGED <<arena, ctxvars, ringvars, active_contexts, contexts_mutex, pos, reads>>

-----------------------------------------------------------------------------
\* The destructor: running = false, the server is stopped; then the batcher is
\* joined and Impl goes away.
DestroyBegin ==
  /\ arena = "up" /\ contexts_mutex # "reader"
  /\ arena' = "stopping"
  /\ UNCHANGED <<ctxvars, ringvars, drainvars, batcher_pc, log, reads>>

DestroyEnd ==
  /\ arena = "stopping" /\ batcher_pc = "done"
  /\ arena' = "down"
  /\ UNCHANGED <<ctxvars, ringvars, drainvars, batcher_pc, log, reads>>

-----------------------------------------------------------------------------
BatcherStep == BatcherDone \/ BatcherLock \/ Flush
DrainStep   == DrainOne \/ DrainEnd

PipeNext ==
  \/ \E t \in Threads : Attach(t) \/ Detach(t) \/ Record(t)
  \/ BatcherStep \/ DrainStep \/ ReaderLock
  \/ DestroyBegin \/ DestroyEnd

\* The batcher runs while the arena does, and a drain under the lock ends.
PipeFair == WF_pipevars(BatcherStep) /\ WF_pipevars(DrainStep)

PipeSpec == PipeInit /\ [][PipeNext]_pipevars /\ PipeFair

-----------------------------------------------------------------------------
\* Whatever interleaving of batcher and event_log_json drains a context, its
\* events come out once each, in the order they were recorded.
InIdOrder ==
  LET out == log \o events
  IN  \A i, j \in 1 .. Len(out) : i < j /\ out[i].ctx = out[j].ctx => out[i].id < out[j].id

InRing(c, i)    == \E k \in 1 .. Len(ring[c]) : ring[c][k].id = i
Broadcast(c, i) == \E k \in 1 .. Len(log) : log[k].ctx = c /\ log[k].id = i

\* An event in a ring is broadcast, unless first its thread ends or changes
\* arenas, or the destructor is called.
EventuallyBroadcast ==
  \A c \in Contexts, i \in 1 .. MaxEvents :
    InRing(c, i) ~> Broadcast(c, i) \/ ~Owned(c) \/ arena # "up"
=============================================================================

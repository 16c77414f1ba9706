---------------------------- MODULE LocalTracker ----------------------------
(***************************************************************************)
(* LocalTracker and the RingBuffer inside it (tracker/tracker.hpp).  The   *)
(* thread that owns the tracker records events; the batcher thread and     *)
(* callers of event_log_json drain them into batcher->events, one drain at *)
(* a time because both hold contexts_mutex.  Producer and consumer share   *)
(* no lock: each reads the other's index with an acquire load, which may   *)
(* return an old value, and the slots are not atomic.                      *)
(*                                                                         *)
(* Only the owner writes head_ and only the draining thread writes tail_,  *)
(* so a relaxed load of one's own index is not a step of its own.  An      *)
(* event is its event_id.                                                  *)
(***************************************************************************)
EXTENDS Integers, Sequences

CONSTANTS
  N,          \* slots of the ring buffer (4096 in LocalTracker)
  sampling_,
  Consumers,  \* threads that drain
  MaxEvents   \* bound: the owner stops after this many record calls

ASSUME TrackerAssumption ==
  /\ N \in Nat /\ N > 1
  /\ sampling_ \in Nat \ {0}
  /\ MaxEvents \in Nat

VARIABLES
  next_event_id_,
  buffer_, head_, tail_,
  push_pc,     \* where the owner is in push
  pop_pc,      \* where each consumer is in pop
  evt,         \* evt of each consumer's drain_to
  head_seen,   \* number of stores to head_ the consumers can see
  tail_seen,   \* number of stores to tail_ the owner can see
  accepted,    \* history: the events push has stored, in order
  events       \* batcher->events

owner == <<next_event_id_, buffer_, head_, push_pc, accepted>>
drain == <<tail_, pop_pc, evt, events>>
vars  == <<owner, drain, head_seen, tail_seen>>

Init ==
  /\ next_event_id_ = 0
  /\ buffer_ = [i \in 0 .. N - 1 |-> 0]
  /\ head_ = 0 /\ tail_ = 0
  /\ push_pc = "idle"
  /\ pop_pc = [c \in Consumers |-> "idle"]
  /\ evt = [c \in Consumers |-> 0]
  /\ head_seen = 0 /\ tail_seen = 0
  /\ accepted = <<>> /\ events = <<>>

-----------------------------------------------------------------------------
\* The owner.  Both record functions number the event and leave when it is
\* not sampled; push then compares the next head with the tail it can see.
Record ==
  /\ push_pc = "idle" /\ next_event_id_ < MaxEvents
  /\ next_event_id_' = next_event_id_ + 1
  /\ UNCHANGED <<drain, buffer_, head_, accepted, head_seen, tail_seen>>

RecordUnsampled ==
  /\ Record
  /\ next_event_id_' % sampling_ # 0
  /\ UNCHANGED push_pc

\* Mutants: push does not look; one slot more is kept free.
FullUnchecked == FALSE
FullTooEarly  == (head_ + 2) % N = tail_seen % N

Full == (head_ + 1) % N = tail_seen % N

PushDrops ==
  /\ Record
  /\ next_event_id_' % sampling_ = 0
  /\ Full
  /\ UNCHANGED push_pc

PushBegins ==
  /\ Record
  /\ next_event_id_' % sampling_ = 0
  /\ ~Full
  /\ push_pc' = "write"

PushWrite ==
  /\ push_pc = "write"
  /\ buffer_' = [buffer_ EXCEPT ![head_] = next_event_id_]
  /\ push_pc' = "store"
  /\ UNCHANGED <<next_event_id_, head_, accepted, drain, head_seen, tail_seen>>

\* Mutant: the head does not wrap.
PushStoreUnwrapped ==
  /\ push_pc = "store"
  /\ head_' = head_ + 1
  /\ accepted' = Append(accepted, next_event_id_)
  /\ push_pc' = "idle"
  /\ UNCHANGED <<next_event_id_, buffer_, drain, head_seen, tail_seen>>

PushStore ==
  /\ push_pc = "store"
  /\ head_' = (head_ + 1) % N
  /\ accepted' = Append(accepted, next_event_id_)
  /\ push_pc' = "idle"
  /\ UNCHANGED <<next_event_id_, buffer_, drain, head_seen, tail_seen>>

-----------------------------------------------------------------------------
\* Mutant: drain_to without contexts_mutex.
DrainUnlocked(c) ==
  /\ pop_pc[c] = "idle"
  /\ pop_pc' = [pop_pc EXCEPT ![c] = "load"]
  /\ UNCHANGED <<owner, tail_, evt, events, head_seen, tail_seen>>

\* A consumer takes contexts_mutex and enters drain_to.
DrainBegins(c) ==
  /\ \A d \in Consumers : pop_pc[d] = "idle"
  /\ pop_pc' = [pop_pc EXCEPT ![c] = "load"]
  /\ UNCHANGED <<owner, tail_, evt, events, head_seen, tail_seen>>

\* Mutant: a single event counts as none.
PopEmptyEarly(c) ==
  /\ pop_pc[c] = "load"
  /\ tail_ = head_seen % N \/ (tail_ + 1) % N = head_seen % N
  /\ pop_pc' = [pop_pc EXCEPT ![c] = "idle"]
  /\ UNCHANGED <<owner, tail_, evt, events, head_seen, tail_seen>>

\* pop finds nothing: drain_to returns and contexts_mutex is released.
PopEmpty(c) ==
  /\ pop_pc[c] = "load"
  /\ tail_ = head_seen % N
  /\ pop_pc' = [pop_pc EXCEPT ![c] = "idle"]
  /\ UNCHANGED <<owner, tail_, evt, events, head_seen, tail_seen>>

PopBegins(c) ==
  /\ pop_pc[c] = "load"
  /\ tail_ # head_seen % N
  /\ pop_pc' = [pop_pc EXCEPT ![c] = "read"]
  /\ UNCHANGED <<owner, tail_, evt, events, head_seen, tail_seen>>

PopRead(c) ==
  /\ pop_pc[c] = "read"
  /\ evt' = [evt EXCEPT ![c] = buffer_[tail_]]
  /\ pop_pc' = [pop_pc EXCEPT ![c] = "store"]
  /\ UNCHANGED <<owner, tail_, events, head_seen, tail_seen>>

\* The tail is stored, pop returns and drain_to appends the event.
PopStore(c) ==
  /\ pop_pc[c] = "store"
  /\ tail_' = (tail_ + 1) % N
  /\ events' = Append(events, evt[c])
  /\ pop_pc' = [pop_pc EXCEPT ![c] = "load"]
  /\ UNCHANGED <<owner, evt, head_seen, tail_seen>>

\* A store by the one side becomes visible to the other side's loads.
SeeHead ==
  /\ head_seen < Len(accepted)
  /\ head_seen' = head_seen + 1
  /\ UNCHANGED <<owner, drain, tail_seen>>

SeeTail ==
  /\ tail_seen < Len(events)
  /\ tail_seen' = tail_seen + 1
  /\ UNCHANGED <<owner, drain, head_seen>>

-----------------------------------------------------------------------------
OwnerStep == RecordUnsampled \/ PushDrops \/ PushBegins \/ PushWrite \/ PushStore
DrainStep(c) == DrainBegins(c) \/ PopEmpty(c) \/ PopBegins(c) \/ PopRead(c) \/ PopStore(c)

Next ==
  \/ OwnerStep
  \/ \E c \in Consumers : DrainStep(c)
  \/ SeeHead
  \/ SeeTail

Spec == Init /\ [][Next]_vars

\* The batcher drains every 16 ms as long as the arena runs and nobody keeps
\* contexts_mutex; an atomic store becomes visible in finite time.
FairSpec == Spec /\ WF_vars(\E c \in Consumers : DrainStep(c)) /\ WF_vars(SeeHead)

-----------------------------------------------------------------------------
TypeOK ==
  /\ next_event_id_ \in Nat
  /\ buffer_ \in [0 .. N - 1 -> Nat]
  /\ head_ \in 0 .. N - 1 /\ tail_ \in 0 .. N - 1
  /\ push_pc \in {"idle", "write", "store"}
  /\ pop_pc \in [Consumers -> {"idle", "load", "read", "store"}]
  /\ evt \in [Consumers -> Nat]
  /\ head_seen \in Nat /\ tail_seen \in Nat
  /\ accepted \in Seq(Nat) /\ events \in Seq(Nat)

\* The owner never writes the slot a consumer is reading: without a lock, and
\* whatever old index values either side works with.
NoSlotRace ==
  \A c \in Consumers : push_pc = "write" /\ pop_pc[c] = "read" => head_ # tail_

\* push gives an event up only with N - 1 events in the buffer of which it
\* cannot know that they have been drained.
DropsOnlyWhenFull == [][PushDrops => Len(accepted) - tail_seen = N - 1]_vars

Channel == INSTANCE EventChannel
  WITH Capacity <- N - 1, Ids <- 1 .. MaxEvents, sent <- accepted, received <- events

\* The tracker is a channel: drains deliver what push stored, in the order of
\* the event ids, each event once, across wrap-arounds and changes of consumer.
IsChannel == Channel!Spec

\* Every event push stores is drained.
EventuallyDrained ==
  \A k \in 1 .. MaxEvents : Len(accepted) >= k ~> Len(events) >= k
=============================================================================

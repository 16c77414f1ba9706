------------------------- MODULE LocalTrackerProofs -------------------------
(***************************************************************************)
(* LocalTracker is race-free and a channel, for every size of the ring,    *)
(* sampling rate, set of draining threads and number of events.            *)
(*                                                                         *)
(* The argument: count the stores instead of looking at the indices.  The  *)
(* four counts keep the order                                              *)
(*    tail_seen <= stores to tail_ <= head_seen <= stores to head_         *)
(*              <= tail_seen + N - 1,                                      *)
(* so two counts that push or pop compare differ by less than N and are    *)
(* equal exactly when the indices, the counts modulo N, are.               *)
(***************************************************************************)
EXTENDS LocalTracker, TLAPS

\* An index is an index.
LEMMA ModRange == \A x \in Nat : x % N \in 0 .. N - 1
  BY TrackerAssumption

\* No multiple of N but zero is less than N away from zero.
LEMMA SmallMultiple ==
  ASSUME NEW k \in Int, N * k < N, -N < N * k
  PROVE  k = 0
<1>1. CASE k >= 1
  BY <1>1, TrackerAssumption
<1>2. CASE k <= -1
  BY <1>2, TrackerAssumption
<1> QED BY <1>1, <1>2

\* A count has one remainder.
LEMMA Remainder ==
  ASSUME NEW y \in Nat, NEW k \in Int, NEW s \in 0 .. N - 1, y = N * k + s
  PROVE  y % N = s
<1> DEFINE q == y \div N
           r == y % N
<1>1. q \in Int /\ r \in 0 .. N - 1 /\ y = N * q + r
  BY TrackerAssumption
<1> HIDE DEF q, r
<1>2. N * (q - k) = s - r
  BY <1>1, TrackerAssumption
<1>3. q - k = 0
  BY <1>1, <1>2, SmallMultiple, TrackerAssumption
<1>4. r = s
  BY <1>1, <1>2, <1>3, TrackerAssumption
<1> QED BY <1>4 DEF r

\* Adding one to an index modulo N is adding one to the count.
LEMMA ModNext ==
  ASSUME NEW x \in Nat
  PROVE  ((x % N) + 1) % N = (x + 1) % N
<1> DEFINE q == x \div N
           r == x % N
<1>1. q \in Int /\ r \in 0 .. N - 1 /\ x = N * q + r
  BY TrackerAssumption
<1> HIDE DEF q, r
<1>2. CASE r = N - 1
  <2>1. x + 1 = N * (q + 1) + 0 /\ r + 1 = N * 1 + 0
    BY <1>1, <1>2, TrackerAssumption
  <2>2. (x + 1) % N = 0 /\ (r + 1) % N = 0
    BY <1>1, <2>1, Remainder, TrackerAssumption
  <2> QED BY <2>2 DEF r
<1>3. CASE r < N - 1
  <2>1. x + 1 = N * q + (r + 1) /\ r + 1 = N * 0 + (r + 1) /\ r + 1 \in 0 .. N - 1
    BY <1>1, <1>3, TrackerAssumption
  <2>2. (x + 1) % N = r + 1 /\ (r + 1) % N = r + 1
    BY <1>1, <2>1, Remainder, TrackerAssumption
  <2> QED BY <2>2 DEF r
<1> QED BY <1>1, <1>2, <1>3, TrackerAssumption

\* Counts less than N apart with the same index are the same.
LEMMA ModInjective ==
  ASSUME NEW x \in Nat, NEW y \in Nat, x <= y, y - x < N, x % N = y % N
  PROVE  x = y
<1> DEFINE p == x \div N
           q == y \div N
           r == x % N
<1>1. p \in Int /\ q \in Int /\ r \in 0 .. N - 1 /\ x = N * p + r /\ y = N * q + r
  BY TrackerAssumption
<1> HIDE DEF p, q, r
<1>2. N * (q - p) = y - x
  BY <1>1, TrackerAssumption
<1>3. q - p = 0
  BY <1>1, <1>2, SmallMultiple, TrackerAssumption
<1> QED BY <1>2, <1>3, TrackerAssumption

-----------------------------------------------------------------------------
\* The order of the counts; the owner keeps room for the event it is pushing.
Ordered ==
  /\ tail_seen <= Len(events) /\ Len(events) <= head_seen
  /\ head_seen <= Len(accepted) /\ Len(accepted) <= tail_seen + N - 1
  /\ push_pc # "idle" => Len(accepted) < tail_seen + N - 1

\* The indices are the counts modulo N.
Indexed == head_ = Len(accepted) % N /\ tail_ = Len(events) % N

\* A drain holds contexts_mutex, and pops only what it has seen pushed.
Popping ==
  /\ \A c, d \in Consumers : pop_pc[c] # "idle" /\ pop_pc[d] # "idle" => c = d
  /\ \A c \in Consumers : pop_pc[c] \in {"read", "store"} => Len(events) < head_seen

\* Accepted events sit in their slots until they are drained.
Stored ==
  /\ \A i \in 1 .. Len(accepted) : i > Len(events) => buffer_[(i - 1) % N] = accepted[i]
  /\ push_pc = "store" => buffer_[head_] = next_event_id_
  /\ \A c \in Consumers : pop_pc[c] = "store" => evt[c] = accepted[Len(events) + 1]

\* Accepted events are numbered upwards, from 1 to MaxEvents.
Numbered ==
  /\ \A i \in 1 .. Len(accepted) : accepted[i] <= next_event_id_
  /\ push_pc # "idle" => /\ next_event_id_ \in 1 .. MaxEvents
                         /\ \A i \in 1 .. Len(accepted) : accepted[i] < next_event_id_

IInv == TypeOK /\ Ordered /\ Indexed /\ Popping /\ Stored /\ Numbered

LEMMA InitIInv == Init => IInv
<1> SUFFICES ASSUME Init PROVE IInv
  OBVIOUS
<1> USE TrackerAssumption DEF Init
<1>1. TypeOK
  BY DEF TypeOK
<1>2. Ordered
  BY DEF Ordered
<1>3. Indexed
  <2>1. 0 % N = 0
    OBVIOUS
  <2> QED BY <2>1 DEF Indexed
<1>4. Popping /\ Stored /\ Numbered
  BY DEF Popping, Stored, Numbered
<1> QED BY <1>1, <1>2, <1>3, <1>4 DEF IInv

\* push finds the buffer full exactly when N - 1 events are in it that the
\* owner has not seen drained.
LEMMA FullMeans ==
  ASSUME IInv
  PROVE  Full <=> Len(accepted) - tail_seen = N - 1
<1> DEFINE a == Len(accepted)
<1>1. a \in Nat /\ tail_seen \in Nat /\ tail_seen <= a /\ a <= tail_seen + N - 1
  BY TrackerAssumption DEF IInv, TypeOK, Ordered
<1>2. (head_ + 1) % N = (a + 1) % N
  BY <1>1, ModNext DEF IInv, Indexed
<1> HIDE DEF a
<1>3. ASSUME Full PROVE a - tail_seen = N - 1
  <2>1. SUFFICES ASSUME a - tail_seen < N - 1 PROVE FALSE
    BY <1>1, TrackerAssumption
  <2>2. a + 1 \in Nat /\ tail_seen <= a + 1 /\ (a + 1) - tail_seen < N
    BY <1>1, <2>1, TrackerAssumption
  <2>3. tail_seen % N = (a + 1) % N
    BY <1>2, <1>3 DEF Full
  <2>4. tail_seen = a + 1
    BY <1>1, <2>2, <2>3, ModInjective
  <2> QED BY <1>1, <2>4
<1>4. ASSUME a - tail_seen = N - 1 PROVE Full
  <2> DEFINE q == tail_seen \div N
             r == tail_seen % N
  <2>1. q \in Int /\ r \in 0 .. N - 1 /\ tail_seen = N * q + r
    BY <1>1, TrackerAssumption
  <2> HIDE DEF q, r
  <2>2. a + 1 = N * (q + 1) + r
    BY <1>1, <1>4, <2>1, TrackerAssumption
  <2>3. a + 1 \in Nat /\ q + 1 \in Int
    BY <1>1, <2>1
  <2>4. (a + 1) % N = r
    BY <2>1, <2>2, <2>3, Remainder
  <2> QED BY <1>2, <2>4 DEF Full, r
<1> QED BY <1>3, <1>4 DEF a

\* The slots of two undrained counts differ.
LEMMA SlotsDiffer ==
  ASSUME IInv, push_pc # "idle", NEW x \in Nat, Len(events) <= x, x < Len(accepted)
  PROVE  x % N # head_
<1>1. /\ Len(accepted) \in Nat /\ Len(events) \in Nat /\ tail_seen \in Nat
      /\ Len(accepted) < tail_seen + N - 1 /\ tail_seen <= Len(events)
      /\ head_ = Len(accepted) % N
  BY DEF IInv, TypeOK, Ordered, Indexed
<1> QED BY <1>1, ModInjective, TrackerAssumption

-----------------------------------------------------------------------------
\* The owner numbers an event and gives it up.
LEMMA GivenUp ==
  ASSUME IInv, RecordUnsampled \/ PushDrops
  PROVE  IInv'
<1> USE DEF RecordUnsampled, PushDrops, Record, drain, IInv
<1>1. TypeOK'
  BY SMTT(20) DEF TypeOK
<1>2. Ordered' /\ Indexed' /\ Popping'
  BY DEF Ordered, Indexed, Popping
<1>3. Stored'
  BY DEF Stored
<1>4. Numbered'
  <2>1. \A i \in 1 .. Len(accepted) : accepted[i] \in Nat
    BY SMTT(20) DEF TypeOK
  <2> QED BY <2>1 DEF Numbered, TypeOK
<1> QED BY <1>1, <1>2, <1>3, <1>4

LEMMA PushBeginsStep ==
  ASSUME IInv, PushBegins
  PROVE  IInv'
<1> USE DEF PushBegins, Record, drain, IInv
<1>1. TypeOK'
  BY DEF TypeOK
<1>2. Ordered'
  <2>1. Len(accepted) - tail_seen # N - 1
    BY FullMeans
  <2>2. Len(accepted) \in Nat /\ Len(events) \in Nat /\ tail_seen \in Nat /\ head_seen \in Nat
    BY DEF TypeOK
  <2>3. Len(accepted) < tail_seen + N - 1
    BY <2>1, <2>2, TrackerAssumption DEF Ordered
  <2> QED BY <2>3 DEF Ordered
<1>3. Indexed' /\ Popping'
  BY DEF Indexed, Popping
<1>4. Stored'
  BY DEF Stored
<1>5. Numbered'
  <2>1. \A i \in 1 .. Len(accepted) : accepted[i] \in Nat
    BY DEF TypeOK
  <2> QED BY <2>1, TrackerAssumption, SMTT(20) DEF Numbered, TypeOK
<1> QED BY <1>1, <1>2, <1>3, <1>4, <1>5

LEMMA PushWriteStep ==
  ASSUME IInv, PushWrite
  PROVE  IInv'
<1> USE DEF PushWrite, drain, IInv
<1>1. TypeOK'
  BY DEF TypeOK
<1>2. Ordered' /\ Indexed' /\ Popping' /\ Numbered'
  BY DEF Ordered, Indexed, Popping, Numbered
<1>3. Stored'
  <2>1. ASSUME NEW i \in 1 .. Len(accepted), i > Len(events)
        PROVE  buffer_'[(i - 1) % N] = accepted[i]
    <3>1. i - 1 \in Nat /\ Len(events) <= i - 1 /\ i - 1 < Len(accepted)
      BY <2>1 DEF TypeOK
    <3>2. (i - 1) % N # head_ /\ (i - 1) % N \in 0 .. N - 1
      BY <3>1, SlotsDiffer, ModRange
    <3>3. buffer_[(i - 1) % N] = accepted[i]
      BY <2>1 DEF Stored
    <3> QED BY <3>2, <3>3 DEF TypeOK
  <2>2. buffer_'[head_] = next_event_id_
    BY DEF TypeOK
  <2> QED BY <2>1, <2>2 DEF Stored
<1> QED BY <1>1, <1>2, <1>3

LEMMA PushStoreStep ==
  ASSUME IInv, PushStore
  PROVE  IInv'
<1> USE DEF PushStore, drain, IInv
<1>1. /\ Len(accepted) \in Nat /\ Len(events) \in Nat /\ Len(accepted') = Len(accepted) + 1
      /\ accepted'[Len(accepted) + 1] = next_event_id_
      /\ \A i \in 1 .. Len(accepted) : accepted'[i] = accepted[i]
  BY DEF TypeOK
<1>2. head_' = (Len(accepted) + 1) % N /\ head_' \in 0 .. N - 1
  BY <1>1, ModNext, ModRange DEF Indexed
<1>3. TypeOK'
  BY <1>2 DEF TypeOK
<1>4. Ordered'
  BY <1>1, TrackerAssumption DEF Ordered, TypeOK
<1>5. Indexed' /\ Popping'
  BY <1>1, <1>2 DEF Indexed, Popping
<1>6. Stored'
  <2>1. ASSUME NEW i \in 1 .. Len(accepted) + 1, i > Len(events)
        PROVE  buffer_[(i - 1) % N] = accepted'[i]
    <3>1. CASE i = Len(accepted) + 1
      BY <1>1, <3>1 DEF Stored, Indexed
    <3>2. CASE i \in 1 .. Len(accepted)
      BY <1>1, <2>1, <3>2 DEF Stored
    <3> QED BY <1>1, <3>1, <3>2
  <2>2. ASSUME NEW c \in Consumers, pop_pc[c] = "store"
        PROVE  evt[c] = accepted'[Len(events) + 1]
    <3>1. Len(events) + 1 \in 1 .. Len(accepted)
      BY <1>1, <2>2, SMTT(20) DEF Popping, Ordered, TypeOK
    <3> QED BY <1>1, <2>2, <3>1 DEF Stored
  <2> QED BY <1>1, <2>1, <2>2, Zenon DEF Stored
<1>7. Numbered'
  <2>1. ASSUME NEW i \in 1 .. Len(accepted) + 1 PROVE accepted'[i] <= next_event_id_
    <3>1. CASE i = Len(accepted) + 1
      BY <1>1, <3>1 DEF TypeOK
    <3>2. CASE i \in 1 .. Len(accepted)
      BY <1>1, <3>2 DEF Numbered
    <3> QED BY <1>1, <3>1, <3>2
  <2> QED BY <1>1, <2>1 DEF Numbered
<1> QED BY <1>3, <1>4, <1>5, <1>6, <1>7

\* The steps of a drain that only look at the indices.
LEMMA DrainLooks ==
  ASSUME IInv, NEW c \in Consumers, DrainBegins(c) \/ PopEmpty(c) \/ PopBegins(c)
  PROVE  IInv'
<1> USE DEF DrainBegins, PopEmpty, PopBegins, owner, IInv
<1>1. TypeOK'
  BY Zenon DEF TypeOK
<1>2. Ordered' /\ Indexed' /\ Numbered'
  BY DEF Ordered, Indexed, Numbered
<1>3. /\ \A d \in Consumers : d # c => pop_pc'[d] = pop_pc[d]
      /\ pop_pc'[c] \in {"idle", "load", "read"}
      /\ pop_pc'[c] = "read" => Len(events) < head_seen
  BY SMTT(20) DEF TypeOK, Ordered, Indexed
<1>4. Popping'
  BY <1>3, Zenon DEF Popping, TypeOK
<1>5. Stored'
  BY <1>3 DEF Stored
<1> QED BY <1>1, <1>2, <1>4, <1>5

LEMMA PopReadStep ==
  ASSUME IInv, NEW c \in Consumers, PopRead(c)
  PROVE  IInv'
<1> USE DEF PopRead, owner, IInv
<1>1. TypeOK'
  BY Zenon DEF TypeOK
<1>2. Ordered' /\ Indexed' /\ Numbered'
  BY DEF Ordered, Indexed, Numbered
<1>3. Popping'
  BY DEF Popping, TypeOK
<1>4. evt'[c] = accepted[Len(events) + 1]
  <2>1. Len(events) \in Nat /\ Len(events) + 1 \in 1 .. Len(accepted)
    BY DEF Popping, Ordered, TypeOK
  <2>2. buffer_[(Len(events) + 1 - 1) % N] = accepted[Len(events) + 1]
    BY <2>1 DEF Stored
  <2>3. buffer_[tail_] = accepted[Len(events) + 1]
    BY <2>1, <2>2 DEF Indexed
  <2> QED BY <2>3 DEF TypeOK
<1>5. Stored'
  BY <1>4 DEF Stored, TypeOK
<1> QED BY <1>1, <1>2, <1>3, <1>5

LEMMA PopStoreStep ==
  ASSUME IInv, NEW c \in Consumers, PopStore(c)
  PROVE  IInv'
<1> USE DEF PopStore, owner, IInv
<1>1. Len(events) \in Nat /\ Len(events') = Len(events) + 1
  BY DEF TypeOK
<1>2. tail_' = (Len(events) + 1) % N /\ tail_' \in 0 .. N - 1
  BY <1>1, ModNext, ModRange DEF Indexed
<1>3. TypeOK'
  BY <1>2 DEF TypeOK
<1>4. Ordered'
  BY <1>1, SMTT(20) DEF Ordered, Popping, TypeOK
<1>5. Indexed' /\ Numbered'
  BY <1>1, <1>2 DEF Indexed, Numbered
<1>6. \A d \in Consumers : pop_pc'[d] \in {"idle", "load"}
  BY DEF Popping, TypeOK
<1>7. Popping'
  BY <1>6, Zenon DEF Popping, TypeOK
<1>8. Stored'
  BY <1>1, <1>6 DEF Stored
<1> QED BY <1>3, <1>4, <1>5, <1>7, <1>8

LEMMA SeeStep ==
  ASSUME IInv, SeeHead \/ SeeTail
  PROVE  IInv'
<1> USE DEF SeeHead, SeeTail, owner, drain, IInv
<1>1. TypeOK'
  <2>1. head_seen' \in Nat /\ tail_seen' \in Nat
    BY SMTT(30) DEF TypeOK
  <2> QED BY <2>1, SMTT(30) DEF TypeOK
<1>2. Ordered'
  <2>1. /\ Len(accepted) \in Nat /\ Len(events) \in Nat
        /\ head_seen \in Nat /\ tail_seen \in Nat
    BY SMTT(20) DEF TypeOK
  <2>2. CASE SeeHead
    BY <2>1, <2>2 DEF Ordered
  <2>3. CASE SeeTail
    BY <2>1, <2>3, TrackerAssumption DEF Ordered
  <2> QED BY <2>2, <2>3
<1>3. Popping'
  BY SMTT(30) DEF Popping, TypeOK
<1>4. Indexed' /\ Stored' /\ Numbered'
  BY DEF Indexed, Stored, Numbered
<1> QED BY <1>1, <1>2, <1>3, <1>4

LEMMA NextIInv == IInv /\ [Next]_vars => IInv'
<1> SUFFICES ASSUME IInv, [Next]_vars PROVE IInv'
  OBVIOUS
<1>1. CASE UNCHANGED vars
  BY <1>1 DEF IInv, TypeOK, Ordered, Indexed, Popping, Stored, Numbered, vars, owner, drain
<1>2. CASE OwnerStep
  BY <1>2, GivenUp, PushBeginsStep, PushWriteStep, PushStoreStep DEF OwnerStep
<1>3. ASSUME NEW c \in Consumers, DrainStep(c) PROVE IInv'
  BY <1>3, DrainLooks, PopReadStep, PopStoreStep DEF DrainStep
<1> QED BY <1>1, <1>2, <1>3, SeeStep DEF Next

-----------------------------------------------------------------------------
\* The counts keep their order and the slots their events.
THEOREM Inductive == Spec => []IInv
  BY InitIInv, NextIInv, PTL DEF Spec

\* Type correctness; in particular both indices stay inside the buffer.
THEOREM TypeCorrect == Spec => []TypeOK
<1>1. IInv => TypeOK
  BY DEF IInv
<1> QED BY <1>1, Inductive, PTL

\* The slots need no lock: push never writes the slot pop is reading.
THEOREM RaceFree == Spec => []NoSlotRace
<1>1. IInv => NoSlotRace
  <2> SUFFICES ASSUME IInv, NEW c \in Consumers, push_pc = "write", pop_pc[c] = "read"
               PROVE  head_ # tail_
    BY DEF NoSlotRace
  <2>1. Len(events) \in Nat /\ Len(events) < Len(accepted) /\ tail_ = Len(events) % N
    BY SMTT(20) DEF IInv, TypeOK, Ordered, Indexed, Popping
  <2> QED BY <2>1, SlotsDiffer
<1> QED BY <1>1, Inductive, PTL

\* push drops an event only when the buffer is full as far as it can see.
THEOREM DropsJustified == Spec => DropsOnlyWhenFull
<1>1. IInv => (PushDrops => Len(accepted) - tail_seen = N - 1)
  BY FullMeans DEF PushDrops
<1> QED BY <1>1, Inductive, PTL DEF DropsOnlyWhenFull

\* Every step of the tracker is a step of the channel or changes nothing in it.
THEOREM ChannelKept == Spec => IsChannel
<1>1. Init => Channel!Init
  BY DEF Init, Channel!Init
<1>2. ASSUME IInv, [Next]_vars PROVE [Channel!Next]_<<accepted, events>>
  <2>1. CASE PushStore
    <3>1. next_event_id_ \in 1 .. MaxEvents
      BY <1>2, <2>1 DEF IInv, Numbered, PushStore
    <3>2. \A i \in 1 .. Len(accepted) : accepted[i] < next_event_id_
      BY <1>2, <2>1 DEF IInv, Numbered, PushStore
    <3>3. Len(accepted) - Len(events) < N - 1
      BY <1>2, <2>1, TrackerAssumption DEF IInv, Ordered, TypeOK, PushStore
    <3>4. Channel!Send(next_event_id_)
      BY <2>1, <3>2, <3>3 DEF Channel!Send, PushStore, drain
    <3> QED BY <3>1, <3>4 DEF Channel!Next
  <2>2. ASSUME NEW c \in Consumers, PopStore(c) PROVE Channel!Next
    <3>1. Len(events) < Len(accepted) /\ evt[c] = accepted[Len(events) + 1]
      BY <1>2, <2>2 DEF IInv, Ordered, Popping, Stored, TypeOK, PopStore
    <3>2. Channel!Receive
      BY <2>2, <3>1 DEF Channel!Receive, PopStore, owner
    <3> QED BY <3>2 DEF Channel!Next
  <2>3. CASE UNCHANGED <<accepted, events>>
    BY <2>3
  <2>4. ASSUME NEW c \in Consumers, DrainStep(c), ~PopStore(c)
        PROVE  UNCHANGED <<accepted, events>>
    BY <2>4 DEF DrainStep, DrainBegins, PopEmpty, PopBegins, PopRead, owner
  <2>5. ASSUME OwnerStep, ~PushStore PROVE UNCHANGED <<accepted, events>>
    BY <2>5 DEF OwnerStep, RecordUnsampled, PushDrops, PushBegins, Record, PushWrite, drain
  <2>6. ASSUME SeeHead \/ SeeTail \/ UNCHANGED vars PROVE UNCHANGED <<accepted, events>>
    BY <2>6 DEF SeeHead, SeeTail, vars, owner, drain
  <2> QED BY <1>2, <2>1, <2>2, <2>3, <2>4, <2>5, <2>6 DEF Next
<1> QED BY <1>1, <1>2, Inductive, PTL DEF Spec, IsChannel, Channel!Spec
=============================================================================

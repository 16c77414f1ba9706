------------------------ MODULE EventPipelineProofs ------------------------
(***************************************************************************)
(* Machine-checked proofs about EventPipeline: for every number of         *)
(* threads, contexts, events and reads, and every size of a ring.          *)
(***************************************************************************)
EXTENDS EventPipeline, SequenceTheorems, TLAPS

Events == [ctx : Contexts, id : Nat]

\* Every variable a proof looks at has its type.
PipeTypeOK ==
  /\ tls_context_ \in [Threads -> Contexts \cup {0}] /\ made \in Nat
  /\ ring \in [Contexts -> Seq(Events)] /\ event_id \in [Contexts -> Nat]
  /\ active_contexts \in Seq(Contexts) /\ pos \in Nat \ {0}
  /\ events \in Seq(Events) /\ log \in Seq(Events)

\* Of the events of one context, the earlier in s has the smaller id.
Rising(s) ==
  \A i, j \in 1 .. Len(s) : i < j /\ s[i].ctx = s[j].ctx => s[i].id < s[j].id

\* Nothing of s comes after an event of r in its context.
Before(s, r) ==
  \A i \in 1 .. Len(s), k \in 1 .. Len(r) : s[i].ctx = r[k].ctx => s[i].id < r[k].id

\* No event of s has an id its context has not given out.
Issued(s) == \A i \in 1 .. Len(s) : s[i].id <= event_id[s[i].ctx]

\* What has left the rings is in order, and behind it, what is in a ring.
InOrderThroughout ==
  /\ Rising(log \o events) /\ Issued(log \o events)
  /\ \A c \in Contexts :
       /\ \A k \in 1 .. Len(ring[c]) : ring[c][k].ctx = c
       /\ Rising(ring[c]) /\ Issued(ring[c])
       /\ Before(log \o events, ring[c])

\* The inductive invariant.
PipeIInv == PipeTypeOK /\ InOrderThroughout

-----------------------------------------------------------------------------
\* What stands where in two sequences put together.
LEMMA Joined ==
  ASSUME NEW S, NEW s \in Seq(S), NEW r \in Seq(S)
  PROVE  /\ s \o r \in Seq(S) /\ Len(s) \in Nat /\ Len(r) \in Nat
         /\ Len(s \o r) = Len(s) + Len(r)
         /\ \A i \in 1 .. Len(s \o r) :
              \/ i <= Len(s) /\ i \in 1 .. Len(s) /\ (s \o r)[i] = s[i]
              \/ i > Len(s) /\ i - Len(s) \in 1 .. Len(r) /\ (s \o r)[i] = r[i - Len(s)]
  BY ConcatProperties

\* Concatenation is associative.
LEMMA JoinAssociative ==
  \A s, r, q \in Seq(Events) : (s \o r) \o q = s \o (r \o q)
<1> SUFFICES ASSUME NEW s \in Seq(Events), NEW r \in Seq(Events), NEW q \in Seq(Events)
             PROVE  (s \o r) \o q = s \o (r \o q)
  OBVIOUS
<1> QED
  BY ConcatAssociative

\* Two rising sequences, one behind the other.
LEMMA JoinRising ==
  ASSUME NEW s \in Seq(Events), NEW r \in Seq(Events), Rising(s), Rising(r), Before(s, r)
  PROVE  Rising(s \o r)
<1> DEFINE z == s \o r
           n == Len(s)
<1>1. /\ z \in Seq(Events) /\ n \in Nat /\ Len(z) \in Nat
      /\ \A i \in 1 .. Len(z) :
           \/ i <= n /\ i \in 1 .. n /\ z[i] = s[i]
           \/ i > n /\ i - n \in 1 .. Len(r) /\ z[i] = r[i - n]
  BY Joined
<1> HIDE DEF z, n
<1> SUFFICES ASSUME NEW i \in 1 .. Len(z), NEW j \in 1 .. Len(z), i < j, z[i].ctx = z[j].ctx
             PROVE  z[i].id < z[j].id
  BY Zenon DEF Rising, z
<1>l. n = Len(s) /\ Len(r) \in Nat /\ i \in Nat /\ j \in Nat
  BY <1>1 DEF n
<1>2. CASE j <= n
  <2>1. i \in 1 .. Len(s) /\ j \in 1 .. Len(s) /\ z[i] = s[i] /\ z[j] = s[j]
    BY <1>1, <1>l, <1>2
  <2> QED
    BY <2>1 DEF Rising
<1>3. CASE i > n
  <2>1. /\ i - n \in 1 .. Len(r) /\ j - n \in 1 .. Len(r) /\ i - n < j - n
        /\ z[i] = r[i - n] /\ z[j] = r[j - n]
    BY <1>1, <1>l, <1>3
  <2> QED
    BY <2>1 DEF Rising
<1>4. CASE i <= n /\ j > n
  <2>1. i \in 1 .. Len(s) /\ j - n \in 1 .. Len(r) /\ z[i] = s[i] /\ z[j] = r[j - n]
    BY <1>1, <1>l, <1>4, SMTT(20)
  <2> QED
    BY <2>1 DEF Before
<1> QED
  BY <1>1, <1>l, <1>2, <1>3, <1>4

\* Joining keeps ids issued.
LEMMA JoinIssued ==
  ASSUME NEW s \in Seq(Events), NEW r \in Seq(Events), Issued(s), Issued(r)
  PROVE  Issued(s \o r)
  BY Joined DEF Issued

\* What comes before a sequence may be joined.
LEMMA JoinBefore ==
  ASSUME NEW s \in Seq(Events), NEW r \in Seq(Events), NEW q \in Seq(Events),
         Before(s, q), Before(r, q)
  PROVE  Before(s \o r, q)
<1> SUFFICES ASSUME NEW i \in 1 .. Len(s \o r), NEW k \in 1 .. Len(q), (s \o r)[i].ctx = q[k].ctx
             PROVE  (s \o r)[i].id < q[k].id
  BY DEF Before
<1>1. \/ i \in 1 .. Len(s) /\ (s \o r)[i] = s[i]
      \/ i - Len(s) \in 1 .. Len(r) /\ (s \o r)[i] = r[i - Len(s)]
  BY Joined
<1> QED
  BY <1>1, Zenon DEF Before

\* An empty sequence is in order.
LEMMA EmptyRing ==
  /\ <<>> \in Seq(Events) /\ Len(<<>>) = 0 /\ Rising(<<>>) /\ Issued(<<>>)
  /\ \A s : Before(s, <<>>)
  BY DEF Rising, Issued, Before

-----------------------------------------------------------------------------
\* At the start there is no event anywhere.
LEMMA PipeInitSound == PipeInit => PipeIInv
<1> SUFFICES ASSUME PipeInit PROVE PipeIInv
  OBVIOUS
<1>1. PipeTypeOK
  BY PipelineAssumption DEF PipeInit, PipeTypeOK, Contexts
<1>2. log \o events = <<>>
  BY DEF PipeInit
<1>3. \A c \in Contexts : ring[c] = <<>>
  BY DEF PipeInit
<1> QED
  BY <1>1, <1>2, <1>3, EmptyRing DEF PipeIInv, InOrderThroughout

\* What has been drained stays in order when it stays the same.
LEMMA SameOut ==
  ASSUME PipeIInv, UNCHANGED <<events, log>>
  PROVE  /\ Rising(log \o events)'
         /\ event_id' = event_id => Issued(log \o events)'
<1>1. PICK out : out = log \o events
  BY Zenon
<1>2. Rising(out) /\ Issued(out)
  BY <1>1, Zenon DEF PipeIInv, InOrderThroughout
<1>3. (log \o events)' = out
  BY <1>1
<1>4. Rising(log \o events)'
  <2>1. Rising(log' \o events')
    BY <1>2, <1>3, Zenon
  <2> QED
    BY <2>1, Zenon DEF Rising
<1>5. event_id' = event_id => Issued(log \o events)'
  BY <1>2, <1>3, Zenon DEF Issued
<1> QED
  BY <1>4, <1>5

\* Steps that move no event.
LEMMA QuietKeeps ==
  ASSUME PipeIInv, PipeTypeOK', UNCHANGED <<ring, event_id, events, log>>
  PROVE  PipeIInv'
<1>1. Rising(log \o events)' /\ Issued(log \o events)'
  BY SameOut
<1>2. ASSUME NEW c \in Contexts
      PROVE  /\ \A k \in 1 .. Len(ring'[c]) : ring'[c][k].ctx = c
             /\ Rising(ring[c])' /\ Issued(ring[c])' /\ Before(log \o events, ring[c])'
  BY ZenonT(30) DEF PipeIInv, InOrderThroughout, Rising, Issued, Before
<1> QED
  BY <1>1, <1>2 DEF PipeIInv, InOrderThroughout

\* Attaching a context, locking and unlocking, and the destructor.
LEMMA OthersKeep ==
  ASSUME PipeIInv,
         \/ \E t \in Threads : Attach(t)
         \/ BatcherDone \/ BatcherLock \/ ReaderLock \/ DrainEnd
         \/ DestroyBegin \/ DestroyEnd \/ UNCHANGED pipevars
  PROVE  PipeIInv'
<1> USE DEF ctxvars, ringvars, drainvars, PipeIInv
<1>1. CASE \E t \in Threads : Attach(t)
  <2>1. PICK t \in Threads : Attach(t)
    BY <1>1
  <2>2. made + 1 \in Contexts
    BY <2>1, PipelineAssumption DEF Attach, PipeTypeOK, Contexts
  <2>3. /\ tls_context_' = [tls_context_ EXCEPT ![t] = made + 1] /\ made' = made + 1
        /\ active_contexts' = Append(active_contexts, made + 1)
        /\ UNCHANGED <<ring, event_id, pos, events, log>>
    BY <2>1 DEF Attach
  <2>4. active_contexts' \in Seq(Contexts)
    BY <2>2, <2>3 DEF PipeTypeOK
  <2>5. PipeTypeOK'
    BY <2>2, <2>3, <2>4 DEF PipeTypeOK
  <2> QED
    BY <2>3, <2>5, QuietKeeps
<1>2. CASE BatcherDone
  BY <1>2, QuietKeeps DEF BatcherDone, PipeTypeOK
<1>3. CASE BatcherLock
  BY <1>3, QuietKeeps DEF BatcherLock, PipeTypeOK
<1>4. CASE ReaderLock
  BY <1>4, QuietKeeps DEF ReaderLock, PipeTypeOK
<1>5. CASE DrainEnd
  BY <1>5, QuietKeeps DEF DrainEnd, PipeTypeOK
<1>6. CASE DestroyBegin \/ DestroyEnd
  BY <1>6, QuietKeeps DEF DestroyBegin, DestroyEnd, PipeTypeOK
<1>7. CASE UNCHANGED pipevars
  BY <1>7, QuietKeeps DEF pipevars, PipeTypeOK
<1> QED
  BY <1>1, <1>2, <1>3, <1>4, <1>5, <1>6, <1>7

\* A thread that ends takes its ring with it.
LEMMA DetachKeeps ==
  ASSUME PipeIInv, NEW t \in Threads, Detach(t)
  PROVE  PipeIInv'
<1>1. PICK c \in Contexts : c = tls_context_[t]
  BY DEF Detach, PipeIInv, PipeTypeOK
<1>2. /\ ring' = [ring EXCEPT ![c] = <<>>] /\ tls_context_' = [tls_context_ EXCEPT ![t] = 0]
      /\ UNCHANGED <<made, event_id, active_contexts, pos, events, log>>
  BY <1>1 DEF Detach, drainvars
<1>3. PipeTypeOK'
  BY <1>2, EmptyRing DEF PipeIInv, PipeTypeOK
<1>4. ring'[c] = <<>> /\ \A d \in Contexts : d # c => ring'[d] = ring[d]
  BY <1>2 DEF PipeIInv, PipeTypeOK
<1>5. \A s : Issued(s)' <=> Issued(s)
  BY <1>2 DEF Issued
<1>6. (log \o events)' = log \o events
  BY <1>2
<1>7. InOrderThroughout'
  <2>1. Rising(log \o events)' /\ Issued(log \o events)'
    BY <1>2, SameOut
  <2>2. ASSUME NEW d \in Contexts
        PROVE  /\ \A k \in 1 .. Len(ring'[d]) : ring'[d][k].ctx = d
               /\ Rising(ring[d])' /\ Issued(ring[d])' /\ Before(log \o events, ring[d])'
    <3>1. CASE d = c
      BY <1>4, <3>1 DEF Rising, Issued, Before
    <3>2. CASE d # c
      BY <1>2, <1>4, <3>2, SMTT(20) DEF PipeIInv, InOrderThroughout, Rising, Issued, Before
    <3> QED
      BY <3>1, <3>2
  <2> QED
    BY <2>1, <2>2 DEF InOrderThroughout
<1> QED
  BY <1>3, <1>7 DEF PipeIInv

\* Recording: the new id is above all that the context has given out.
LEMMA RecordKeeps ==
  ASSUME PipeIInv, NEW t \in Threads, Record(t)
  PROVE  PipeIInv'
<1>1. PICK c \in Contexts : c = tls_context_[t]
  BY DEF Record, PipeIInv, PipeTypeOK
<1>2. PICK n \in Nat : n = event_id[c]
  BY DEF PipeIInv, PipeTypeOK
<1> DEFINE e == [ctx |-> c, id |-> n + 1]
<1>3. e \in Events /\ e.ctx = c /\ e.id = n + 1
  BY DEF Events
<1>4. /\ event_id' = [event_id EXCEPT ![c] = n + 1]
      /\ ring' = ring \/ ring' = [ring EXCEPT ![c] = Append(ring[c], e)]
      /\ UNCHANGED <<tls_context_, made, active_contexts, pos, events, log>>
  BY <1>1, <1>2 DEF Record, ctxvars, drainvars
<1> HIDE DEF e
<1>5. event_id' \in [Contexts -> Nat] /\ \A d \in Contexts : event_id[d] <= event_id'[d]
  BY <1>2, <1>4 DEF PipeIInv, PipeTypeOK
<1>6. ASSUME NEW s \in Seq(Events), Issued(s) PROVE Issued(s)'
  <2> SUFFICES ASSUME NEW i \in 1 .. Len(s)
               PROVE  s[i].id <= event_id'[s[i].ctx]
    BY DEF Issued
  <2>1. s[i] \in Events
    OBVIOUS
  <2>2. s[i].id \in Nat /\ s[i].ctx \in Contexts
    BY <2>1 DEF Events
  <2>3. s[i].id <= event_id[s[i].ctx] /\ event_id[s[i].ctx] \in Nat /\ event_id'[s[i].ctx] \in Nat
    BY <1>5, <1>6, <2>2 DEF Issued, PipeIInv, PipeTypeOK
  <2> QED
    BY <1>5, <2>2, <2>3
<1>7. log \o events \in Seq(Events)
  BY Joined DEF PipeIInv, PipeTypeOK
<1>8. Rising(log \o events)' /\ Issued(log \o events)'
  <2>1. Issued(log \o events)
    BY DEF PipeIInv, InOrderThroughout
  <2>2. Rising(log \o events)'
    BY <1>4, SameOut
  <2>3. PICK out \in Seq(Events) : out = log \o events
    BY <1>7, Zenon
  <2>4. Issued(out)'
    BY <1>6, <2>1, <2>3, Zenon
  <2>5. (log \o events)' = out
    BY <1>4, <2>3, Zenon
  <2>6. Issued(log \o events)'
    BY <2>4, <2>5, Zenon DEF Issued
  <2> QED
    BY <2>2, <2>6
<1>9. CASE ring' = ring
  <2>1. PipeTypeOK'
    BY <1>4, <1>5, <1>9 DEF PipeIInv, PipeTypeOK
  <2>2. ASSUME NEW d \in Contexts
        PROVE  /\ \A k \in 1 .. Len(ring'[d]) : ring'[d][k].ctx = d
               /\ Rising(ring[d])' /\ Issued(ring[d])' /\ Before(log \o events, ring[d])'
    <3>1. ring[d] \in Seq(Events) /\ Issued(ring[d])
      BY DEF PipeIInv, PipeTypeOK, InOrderThroughout
    <3>2. Issued(ring[d])'
      BY <1>6, <1>9, <3>1 DEF Issued
    <3> QED
      BY <1>4, <1>9, <3>2 DEF PipeIInv, InOrderThroughout, Rising, Before
  <2> QED
    BY <1>8, <2>1, <2>2 DEF PipeIInv, InOrderThroughout
<1>10. CASE ring' = [ring EXCEPT ![c] = Append(ring[c], e)]
  <2>1. PICK r \in Seq(Events) : r = ring[c]
    BY DEF PipeIInv, PipeTypeOK
  <2>2. PICK z \in Seq(Events) : z = Append(r, e)
    BY <1>3, AppendProperties, Zenon
  <2>3. /\ Len(z) = Len(r) + 1 /\ Len(r) \in Nat /\ z[Len(z)] = e
        /\ \A i \in 1 .. Len(r) : z[i] = r[i]
    BY <1>3, <2>2, AppendProperties
  <2>4. /\ ring'[c] = z /\ ring' \in [Contexts -> Seq(Events)]
        /\ \A d \in Contexts : d # c => ring'[d] = ring[d]
    BY <1>10, <2>1, <2>2 DEF PipeIInv, PipeTypeOK
  <2>5. PipeTypeOK'
    BY <1>4, <1>5, <2>4 DEF PipeIInv, PipeTypeOK
  <2>6. /\ \A k \in 1 .. Len(r) : r[k].ctx = c /\ r[k].id \in Nat /\ r[k].id <= n
        /\ Rising(r) /\ Before(log \o events, r) /\ Issued(r)
    <3>1. \A k \in 1 .. Len(r) : r[k] \in Events
      OBVIOUS
    <3> QED
      BY <1>2, <2>1, <3>1 DEF PipeIInv, InOrderThroughout, Issued, Events
  <2>7. \A k \in 1 .. Len(z) : z[k].ctx = c /\ z[k].id \in Nat /\ z[k].id <= n + 1
    BY <1>3, <2>3, <2>6
  <2>8. Rising(z)
    <3> SUFFICES ASSUME NEW i \in 1 .. Len(z), NEW j \in 1 .. Len(z), i < j,
                        z[i].ctx = z[j].ctx
                 PROVE  z[i].id < z[j].id
      BY DEF Rising
    <3>1. CASE j = Len(z)
      BY <1>3, <2>3, <2>6, <3>1
    <3>2. CASE j # Len(z)
      <4>1. i \in 1 .. Len(r) /\ j \in 1 .. Len(r)
        BY <2>3, <3>2
      <4> QED
        BY <2>3, <2>6, <4>1, SMTT(20) DEF Rising
    <3> QED
      BY <3>1, <3>2
  <2>9. Issued(z)'
    BY <1>2, <1>4, <2>7, SMTT(20) DEF Issued, PipeIInv, PipeTypeOK
  <2>10. Before(log \o events, z)
    <3> SUFFICES ASSUME NEW i \in 1 .. Len(log \o events), NEW k \in 1 .. Len(z),
                        (log \o events)[i].ctx = z[k].ctx
                 PROVE  (log \o events)[i].id < z[k].id
      BY DEF Before
    <3>1. CASE k = Len(z)
      <4>1. (log \o events)[i] \in Events
        BY <1>7
      <4>2. (log \o events)[i].id \in Nat /\ (log \o events)[i].id <= n
        BY <1>2, <1>3, <2>3, <3>1, <4>1, Zenon DEF PipeIInv, InOrderThroughout, Issued, Events
      <4> QED
        BY <1>3, <2>3, <3>1, <4>2, SMTT(20)
    <3>2. CASE k # Len(z)
      <4>1. k \in 1 .. Len(r) /\ z[k] = r[k]
        BY <2>3, <3>2
      <4> QED
        BY <2>6, <4>1, Zenon DEF Before
    <3> QED
      BY <3>1, <3>2
  <2>11. ASSUME NEW d \in Contexts
         PROVE  /\ \A k \in 1 .. Len(ring'[d]) : ring'[d][k].ctx = d
                /\ Rising(ring[d])' /\ Issued(ring[d])' /\ Before(log \o events, ring[d])'
    <3>1. CASE d = c
      BY <1>4, <2>4, <2>7, <2>8, <2>9, <2>10, <3>1, SMTT(20) DEF Rising, Issued, Before
    <3>2. CASE d # c
      <4>1. ring[d] \in Seq(Events) /\ Issued(ring[d])
        BY DEF PipeIInv, PipeTypeOK, InOrderThroughout
      <4>2. Issued(ring[d])'
        BY <1>6, <2>4, <3>2, <4>1 DEF Issued
      <4>3. /\ \A k \in 1 .. Len(ring[d]) : ring[d][k].ctx = d
            /\ Rising(ring[d]) /\ Before(log \o events, ring[d])
        BY DEF PipeIInv, InOrderThroughout
      <4>4. ring'[d] = ring[d] /\ log' \o events' = log \o events
        BY <1>4, <2>4, <3>2
      <4>5. Rising(ring[d])' /\ Before(log \o events, ring[d])'
        BY <4>3, <4>4, SMTT(20) DEF Rising, Before
      <4> QED
        BY <4>2, <4>3, <4>4, <4>5
    <3> QED
      BY <3>1, <3>2
  <2> QED
    BY <1>8, <2>5, <2>11 DEF PipeIInv, InOrderThroughout
<1> QED
  BY <1>4, <1>9, <1>10

\* A drain under contexts_mutex appends a whole ring and empties it.
LEMMA DrainOneKeeps ==
  ASSUME PipeIInv, DrainOne
  PROVE  PipeIInv'
<1>1. pos \in 1 .. Len(active_contexts)
  BY DEF DrainOne, PipeIInv, PipeTypeOK
<1>2. PICK c \in Contexts : c = active_contexts[pos]
  BY <1>1 DEF PipeIInv, PipeTypeOK
<1>3. /\ active_contexts' \in Seq(Contexts) /\ pos' \in Nat \ {0}
      /\ UNCHANGED <<tls_context_, made, event_id, log>>
  <2>1. pos' = pos + 1 \/ pos' = pos
    BY DEF DrainOne
  <2>2. \/ active_contexts' = active_contexts
        \/ active_contexts' = SubSeq(active_contexts, 1, pos - 1)
                                \o SubSeq(active_contexts, pos + 1, Len(active_contexts))
    BY Zenon DEF DrainOne
  <2>3. /\ SubSeq(active_contexts, 1, pos - 1) \in Seq(Contexts)
        /\ SubSeq(active_contexts, pos + 1, Len(active_contexts)) \in Seq(Contexts)
    <3>1. active_contexts \in Seq(Contexts) /\ pos \in 1 .. Len(active_contexts)
      BY <1>1 DEF PipeIInv, PipeTypeOK
    <3>2. \A k \in 1 .. Len(active_contexts) : active_contexts[k] \in Contexts
      BY <3>1, ElementOfSeq
    <3>3. /\ Len(active_contexts) \in Int /\ pos - 1 \in Int /\ pos + 1 \in Int
          /\ \A k \in 1 .. pos - 1 : active_contexts[k] \in Contexts
          /\ \A k \in pos + 1 .. Len(active_contexts) : active_contexts[k] \in Contexts
      BY <3>1, <3>2
    <3>4. SubSeq(active_contexts, 1, pos - 1) \in Seq(Contexts)
      BY <3>3, SubSeqProperties
    <3>5. SubSeq(active_contexts, pos + 1, Len(active_contexts)) \in Seq(Contexts)
      BY <3>3, SubSeqProperties
    <3> QED
      BY <3>4, <3>5
  <2>4. SubSeq(active_contexts, 1, pos - 1)
          \o SubSeq(active_contexts, pos + 1, Len(active_contexts)) \in Seq(Contexts)
    BY <2>3, ConcatProperties
  <2>5. active_contexts' \in Seq(Contexts)
    BY <2>2, <2>4, Zenon DEF PipeIInv, PipeTypeOK
  <2>6. pos' \in Nat \ {0}
    BY <2>1 DEF PipeIInv, PipeTypeOK
  <2>7. UNCHANGED <<tls_context_, made, event_id, log>>
    BY DEF DrainOne, ctxvars
  <2> QED
    BY <2>5, <2>6, <2>7
<1>4. CASE ~Owned(c)
  <2>1. ring' = ring /\ events' = events
    BY <1>2, <1>4 DEF DrainOne
  <2>2. PipeTypeOK'
    BY <1>3, <2>1 DEF PipeIInv, PipeTypeOK
  <2> QED
    BY <1>3, <2>1, <2>2, QuietKeeps
<1>5. CASE Owned(c)
  <2>1. ring' = [ring EXCEPT ![c] = <<>>] /\ events' = events \o ring[c]
    BY <1>2, <1>5, SMTT(20) DEF DrainOne
  <2>2. PICK r \in Seq(Events) : r = ring[c]
    BY DEF PipeIInv, PipeTypeOK
  <2>3. PICK out \in Seq(Events) : out = log \o events
    BY Joined, Zenon DEF PipeIInv, PipeTypeOK
  <2>4. /\ ring' \in [Contexts -> Seq(Events)] /\ ring'[c] = <<>>
        /\ \A d \in Contexts : d # c => ring'[d] = ring[d]
    BY <2>1, EmptyRing DEF PipeIInv, PipeTypeOK
  <2>5. PipeTypeOK'
    <3>1. events' \in Seq(Events)
      BY <2>1, <2>2, Joined DEF PipeIInv, PipeTypeOK
    <3> QED
      BY <1>3, <2>4, <3>1 DEF PipeIInv, PipeTypeOK
  <2>6. log' \o events' = out \o r
    <3>1. PICK l \in Seq(Events), e \in Seq(Events) : l = log /\ e = events
      BY DEF PipeIInv, PipeTypeOK
    <3>2. (l \o e) \o r = l \o (e \o r)
      BY JoinAssociative, ZenonT(30)
    <3>3. events' = e \o r /\ log' = l /\ out = l \o e
      BY <1>3, <2>1, <2>2, <2>3, <3>1
    <3> QED
      BY <3>2, <3>3, Zenon
  <2>7. /\ Rising(out) /\ Issued(out) /\ Rising(r) /\ Issued(r) /\ Before(out, r)
        /\ \A k \in 1 .. Len(r) : r[k].ctx = c
    BY <2>2, <2>3 DEF PipeIInv, InOrderThroughout
  <2>8. Rising(out \o r) /\ Issued(out \o r)
    BY <2>7, JoinRising, JoinIssued
  <2>9. Rising(log \o events)' /\ Issued(log \o events)'
    <3>1. PICK z : z = out \o r
      BY Zenon
    <3>2. log' \o events' = z /\ Rising(z) /\ Issued(z)
      BY <2>6, <2>8, <3>1
    <3>3. Issued(z)'
      BY <1>3, <3>2 DEF Issued
    <3>4. Rising(z)'
      BY <3>2 DEF Rising
    <3> QED
      BY <3>2, <3>3, <3>4 DEF Rising, Issued
  <2>10. ASSUME NEW d \in Contexts
         PROVE  /\ \A k \in 1 .. Len(ring'[d]) : ring'[d][k].ctx = d
                /\ Rising(ring[d])' /\ Issued(ring[d])' /\ Before(log \o events, ring[d])'
    <3>1. CASE d = c
      BY <2>4, <3>1 DEF Rising, Issued, Before
    <3>2. CASE d # c
      <4>1. PICK q \in Seq(Events) : q = ring[d]
        BY DEF PipeIInv, PipeTypeOK
      <4>2. /\ \A k \in 1 .. Len(q) : q[k].ctx = d
            /\ Rising(q) /\ Issued(q) /\ Before(out, q)
        BY <2>3, <4>1 DEF PipeIInv, InOrderThroughout
      <4>3. Before(r, q)
        BY <2>7, <3>2, <4>2 DEF Before
      <4>4. Before(out \o r, q)
        BY <4>2, <4>3, JoinBefore
      <4>5. ring'[d] = q
        BY <2>4, <3>2, <4>1
      <4>6. PICK z : z = out \o r
        BY Zenon
      <4>7. (log \o events)' = z /\ Before(z, q)
        BY <2>6, <4>4, <4>6, Zenon
      <4>8. Before(log \o events, ring[d])'
        BY <4>5, <4>7, Zenon DEF Before
      <4>9. Issued(ring[d])'
        BY <1>3, <4>2, <4>5, Zenon DEF Issued
      <4>10. Rising(ring[d])'
        BY <4>2, <4>5, Zenon DEF Rising
      <4> QED
        BY <4>2, <4>5, <4>8, <4>9, <4>10
    <3> QED
      BY <3>1, <3>2
  <2> QED
    BY <2>5, <2>9, <2>10 DEF PipeIInv, InOrderThroughout
<1> QED
  BY <1>4, <1>5

\* A flush moves the batch to the end of what was broadcast.
LEMMA FlushKeeps ==
  ASSUME PipeIInv, Flush
  PROVE  PipeIInv'
<1>1. /\ log' = log \o events /\ events' = <<>>
      /\ UNCHANGED <<tls_context_, made, ring, event_id, active_contexts, pos>>
  BY DEF Flush, ctxvars, ringvars
<1>2. PICK out \in Seq(Events) : out = log \o events
  BY Joined, Zenon DEF PipeIInv, PipeTypeOK
<1>3. log' \o events' = out
  BY <1>1, <1>2, ConcatEmptySeq
<1>4. PipeTypeOK'
  BY <1>1, <1>2, EmptyRing DEF PipeIInv, PipeTypeOK
<1>5. InOrderThroughout'
  <2>1. Rising(out) /\ Issued(out) /\ \A c \in Contexts : Before(out, ring[c])
    BY <1>2 DEF PipeIInv, InOrderThroughout
  <2>2. Rising(log \o events)' /\ Issued(log \o events)'
    <3>1. Issued(out)' /\ Rising(out)'
      BY <1>1, <2>1 DEF Issued, Rising
    <3> QED
      BY <1>3, <3>1 DEF Rising, Issued
  <2>3. ASSUME NEW c \in Contexts
        PROVE  /\ \A k \in 1 .. Len(ring'[c]) : ring'[c][k].ctx = c
               /\ Rising(ring[c])' /\ Issued(ring[c])' /\ Before(log \o events, ring[c])'
    <3>1. Before(log \o events, ring[c])'
      BY <1>1, <1>3, <2>1, ZenonT(30) DEF Before
    <3>2. /\ \A k \in 1 .. Len(ring[c]) : ring[c][k].ctx = c
          /\ Rising(ring[c]) /\ Issued(ring[c])
      BY DEF PipeIInv, InOrderThroughout
    <3>3. Rising(ring[c])' /\ Issued(ring[c])'
      BY <1>1, <3>2, Zenon DEF Rising, Issued
    <3> QED
      BY <1>1, <3>1, <3>2, <3>3
  <2> QED
    BY <2>2, <2>3 DEF InOrderThroughout
<1> QED
  BY <1>4, <1>5 DEF PipeIInv

\* Every step keeps the invariant.
LEMMA PipeNextKeeps == PipeIInv /\ [PipeNext]_pipevars => PipeIInv'
  BY OthersKeep, DetachKeeps, RecordKeeps, DrainOneKeeps, FlushKeeps
     DEF PipeNext, BatcherStep, DrainStep

\* The invariant holds throughout.
THEOREM PipeInvariant == PipeSpec => []PipeIInv
  BY PipeInitSound, PipeNextKeeps, PTL DEF PipeSpec

\* However batcher and event_log_json take turns at the rings, the events of a
\* context are broadcast once each, in the order they were recorded.
THEOREM PipeInOrder == PipeSpec => []InIdOrder
<1>1. PipeIInv => InIdOrder
  BY DEF PipeIInv, InOrderThroughout, Rising, InIdOrder
<1> QED
  BY <1>1, PipeInvariant, PTL
=============================================================================

--------------------------- MODULE WsQueueProofs ---------------------------
(***************************************************************************)
(* The inductive invariant of WsServer, and that a session's own steps,    *)
(* from its accept to the end of on_accept, keep it.  Posting says what    *)
(* messages put on the queue change.                                       *)
(***************************************************************************)
EXTENDS WsServer, FiniteSetTheorems, SequenceTheorems, TLAPS

Msgs   == [kind : {"batch", "snapshot"}, n : Nat]
Phases == {"absent", "reading", "upgrading", "greeting", "snapped", "open", "closed", "ended"}
Quiet  == {"absent", "reading", "upgrading", "ended"}

WsTypeOK ==
  /\ phase \in [Clients -> Phases]
  /\ sessions_ \in SUBSET Clients /\ IsFiniteSet(sessions_)
  /\ posted \in Seq(Clients \X Msgs)
  /\ received \in [Clients -> Seq(Msgs)]
  /\ batches \in Nat /\ taken \in Nat /\ taken <= batches

\* The order in which one client may get x and later y: rising batches, and no
\* second snapshot.
Precedes(x, y) == x.kind = y.kind => x.kind = "batch" /\ x.n < y.n

\* What has been written, and what is queued behind it, is in order.
Ordered ==
  /\ \A c \in Clients : \A i, j \in 1 .. Len(received[c]) :
       i < j => Precedes(received[c][i], received[c][j])
  /\ \A c \in Clients, x, y \in Msgs : Written(c, x) /\ Queued(c, y) => Precedes(x, y)
  /\ \A i, j \in 1 .. Len(posted) :
       i < j /\ posted[i][1] = posted[j][1] => Precedes(posted[i][2], posted[j][2])

\* Nothing is sent that has not been broadcast or taken.
Issued == \A c \in Clients, m \in Msgs : Sent(c, m) => m.n <= batches

\* A session is sent nothing before its handshake and no snapshot before the
\* end of on_accept.
NotYet ==
  /\ \A c \in Clients, m \in Msgs : phase[c] \in Quiet => ~Sent(c, m)
  /\ \A c \in Clients, n \in Nat : Busy(c) => ~Sent(c, Snapshot(n))

\* The batches sent to a client that has not gone have no gap, and if it is
\* listed they reach up to the last one.
NoGap ==
  \A c \in Clients : phase[c] # "closed" =>
    \A k, n \in Nat : Sent(c, Batch(k)) =>
      /\ Sent(c, Batch(n)) => \A m \in k .. n : Sent(c, Batch(m))
      /\ c \in sessions_ => Sent(c, Batch(batches))

\* Between the taking of its snapshot and its posting, a listed session is
\* sent all the batches the snapshot does not reflect.
SnapshotCurrent ==
  \A c \in sessions_ : phase[c] = "snapped" =>
    \A n \in taken + 1 .. batches : Sent(c, Batch(n))

OneBusy == \A c, d \in Clients : Busy(c) /\ Busy(d) => c = d

NoGapWritten ==
  \A c \in Clients, k, n \in Nat : Written(c, Batch(k)) /\ Written(c, Batch(n)) =>
    \A m \in k .. n : Written(c, Batch(m))

WsIInv ==
  /\ WsTypeOK /\ Ordered /\ Issued /\ NotYet /\ NoGap /\ SnapshotCurrent
  /\ OneBusy /\ NoGapWritten /\ NothingMissed

-----------------------------------------------------------------------------
\* Messages are told apart by kind and number.
LEMMA Messages ==
  /\ \A n \in Nat : Batch(n) \in Msgs /\ Batch(n).kind = "batch" /\ Batch(n).n = n
  /\ \A n \in Nat : Snapshot(n) \in Msgs /\ Snapshot(n).kind = "snapshot" /\ Snapshot(n).n = n
  /\ \A m \in Msgs : m.n \in Nat /\ m.kind \in {"batch", "snapshot"}
  /\ \A m \in Msgs : m.kind = "batch" => m = Batch(m.n)
  /\ \A m \in Msgs : m.kind = "snapshot" => m = Snapshot(m.n)
  /\ \A k, n \in Nat : Batch(k) # Snapshot(n)
BY DEF Msgs, Batch, Snapshot

\* What is written or queued is a message to a client.
LEMMA Positions ==
  ASSUME WsTypeOK
  PROVE  /\ Len(posted) \in Nat
         /\ \A i \in 1 .. Len(posted) :
              /\ posted[i][1] \in Clients /\ posted[i][2] \in Msgs
              /\ posted[i] = <<posted[i][1], posted[i][2]>>
              /\ Queued(posted[i][1], posted[i][2])
         /\ \A c \in Clients : Len(received[c]) \in Nat
         /\ \A c \in Clients : \A i \in 1 .. Len(received[c]) :
              received[c][i] \in Msgs /\ Written(c, received[c][i])
<1>1. \A i \in 1 .. Len(posted) : posted[i] \in Clients \X Msgs
  BY ElementOfSeq DEF WsTypeOK
<1>2. \A c \in Clients : received[c] \in Seq(Msgs)
  BY DEF WsTypeOK
<1>3. \A c \in Clients : \A i \in 1 .. Len(received[c]) : received[c][i] \in Msgs
  BY <1>2, ElementOfSeq
<1>4. Len(posted) \in Nat /\ \A c \in Clients : Len(received[c]) \in Nat
  BY <1>2 DEF WsTypeOK
<1>5. \A i \in 1 .. Len(posted) :
        /\ posted[i][1] \in Clients /\ posted[i][2] \in Msgs
        /\ posted[i] = <<posted[i][1], posted[i][2]>>
  BY <1>1
<1> QED BY <1>3, <1>4, <1>5 DEF Queued, Written

\* At the start nothing has been sent.
LEMMA WsInitSound == Init => WsIInv
<1> SUFFICES ASSUME Init PROVE WsIInv
  OBVIOUS
<1>1. WsTypeOK
  BY FS_EmptySet DEF Init, WsTypeOK, Phases
<1>2. \A c \in Clients : \A m : ~Sent(c, m) /\ ~Written(c, m) /\ ~Queued(c, m)
  BY DEF Init, Sent, Written, Queued
<1>3. Ordered
  BY <1>2 DEF Init, Ordered
<1>4. Issued /\ NotYet /\ NoGap /\ NoGapWritten
  BY <1>2 DEF Issued, NotYet, NoGap, NoGapWritten
<1>5. SnapshotCurrent /\ NothingMissed /\ OneBusy
  BY DEF Init, SnapshotCurrent, NothingMissed, OneBusy, Busy
<1> QED BY <1>1, <1>3, <1>4, <1>5 DEF WsIInv

-----------------------------------------------------------------------------
\* A step that neither posts nor writes nor counts a batch.
LEMMA SameBoxes ==
  ASSUME UNCHANGED io
  PROVE  \A c, m : /\ Sent(c, m)' <=> Sent(c, m)
                   /\ Written(c, m)' <=> Written(c, m)
                   /\ Queued(c, m)' <=> Queued(c, m)
BY DEF io, Sent, Written, Queued

\* Such a step keeps what is said of messages alone.
LEMMA QuietKeeps ==
  ASSUME WsIInv, UNCHANGED <<io, batches>>
  PROVE  Ordered' /\ Issued' /\ NoGapWritten'
<1>1. Ordered'
  BY SameBoxes DEF WsIInv, Ordered, io
<1>2. Issued'
  BY SameBoxes DEF WsIInv, Issued
<1>3. NoGapWritten'
  BY SameBoxes DEF WsIInv, NoGapWritten
<1> QED BY <1>1, <1>2, <1>3

\* The accept handler lists a session that has been sent nothing.
LEMMA AcceptKeeps ==
  ASSUME WsIInv, NEW c \in Clients, Accept(c)
  PROVE  WsIInv'
<1> USE DEF WsIInv
<1>1. /\ phase[c] = "absent" /\ phase' = [phase EXCEPT ![c] = "reading"]
      /\ sessions_' = sessions_ \cup {c} /\ UNCHANGED <<io, batches, taken>>
  BY DEF Accept, Starts, Moves
<1>2. \A d \in Clients : phase'[d] = IF d = c THEN "reading" ELSE phase[d]
  BY <1>1 DEF WsTypeOK
<1>3. WsTypeOK'
  BY <1>1, FS_AddElement, Zenon DEF WsTypeOK, Phases, io
<1>4. NotYet'
  BY <1>1, <1>2, SameBoxes DEF NotYet, Quiet, Busy
<1>5. \A m \in Msgs : ~Sent(c, m)
  BY <1>1 DEF NotYet, Quiet
<1>6. NoGap'
  BY <1>1, <1>2, <1>5, SameBoxes, Messages DEF NoGap
<1>7. SnapshotCurrent' /\ NothingMissed'
  BY <1>1, <1>2, SameBoxes DEF SnapshotCurrent, NothingMissed, WsTypeOK
<1>8. OneBusy'
  BY <1>2 DEF OneBusy, Busy
<1> QED BY <1>1, <1>3, <1>4, <1>6, <1>7, <1>8, QuietKeeps, SMTT(20)

\* The other handlers of a session that only move it on.
LEMMA MoveKeeps ==
  ASSUME WsIInv, NEW c \in Clients, NEW from, NEW to \in Phases,
         Moves(c, from, to),
         <<from, to>> \in {<<"reading", "upgrading">>, <<"reading", "ended">>,
                           <<"upgrading", "ended">>, <<"upgrading", "greeting">>,
                           <<"open", "closed">>},
         \A d \in Clients \ {c} : ~Busy(d),
         UNCHANGED <<sessions_, io, batches, taken>>
  PROVE  WsIInv'
<1> USE DEF WsIInv
<1>0. /\ from \in Quiet \/ from = "open"
      /\ from = "open" <=> to = "closed"
      /\ to \in Quiet \cup {"greeting", "closed"}
      /\ to \in Quiet => from \in Quiet
  BY DEF Quiet
<1>1. \A d \in Clients : phase'[d] = IF d = c THEN to ELSE phase[d]
  BY DEF Moves, WsTypeOK
<1>2. WsTypeOK'
  BY DEF Moves, WsTypeOK, io
<1>3. phase[c] = from
  BY DEF Moves
<1>4. NotYet'
  <2>1. \A d \in Clients, m \in Msgs : phase'[d] \in Quiet => ~Sent(d, m)
    BY <1>0, <1>1, <1>3 DEF NotYet
  <2>2. \A n \in Nat : from \in Quiet => ~Sent(c, Snapshot(n))
    BY <1>3, Messages DEF NotYet
  <2>3. \A d \in Clients : Busy(d)' => d = c /\ from \in Quiet
    BY <1>0, <1>1 DEF Busy, Quiet
  <2> QED BY <2>1, <2>2, <2>3, SameBoxes DEF NotYet
<1>5. NoGap'
  <2>1. \A d \in Clients : phase'[d] # "closed" => phase[d] # "closed"
    BY <1>0, <1>1, <1>3 DEF Quiet
  <2> QED BY <2>1, SameBoxes DEF NoGap
<1>6. SnapshotCurrent' /\ NothingMissed'
  <2>1. \A d \in Clients : phase'[d] \in {"snapped", "open"} => phase'[d] = phase[d]
    BY <1>0, <1>1 DEF Quiet
  <2> QED BY <2>1, SameBoxes DEF SnapshotCurrent, NothingMissed, WsTypeOK
<1>7. OneBusy'
  BY <1>1 DEF OneBusy, Busy
<1> QED BY <1>2, <1>4, <1>5, <1>6, <1>7, QuietKeeps

\* The snapshot is taken: it reflects all batches so far.
LEMMA TakeSnapshotKeeps ==
  ASSUME WsIInv, NEW c \in Clients, TakeSnapshot(c), \A d \in Clients \ {c} : ~Busy(d)
  PROVE  WsIInv'
<1> USE DEF WsIInv
<1>1. \A d \in Clients : phase'[d] = IF d = c THEN "snapped" ELSE phase[d]
  BY DEF TakeSnapshot, Moves, WsTypeOK
<1>2. phase[c] = "greeting" /\ taken' = batches /\ UNCHANGED <<sessions_, io, batches>>
  BY DEF TakeSnapshot, Moves
<1>3. WsTypeOK'
  BY <1>2 DEF TakeSnapshot, Moves, WsTypeOK, io, Phases
<1>4. NotYet'
  BY <1>1, <1>2, SameBoxes DEF NotYet, Quiet, Busy
<1>5. NoGap'
  BY <1>1, <1>2, SameBoxes DEF NoGap
<1>6. SnapshotCurrent'
  BY <1>1, <1>2 DEF SnapshotCurrent, Busy, WsTypeOK
<1>7. NothingMissed'
  BY <1>1, <1>2, SameBoxes, Zenon DEF NothingMissed, WsTypeOK
<1>8. OneBusy'
  BY <1>1 DEF OneBusy, Busy
<1> QED BY <1>2, <1>3, <1>4, <1>5, <1>6, <1>7, <1>8, QuietKeeps, SMTT(20)

-----------------------------------------------------------------------------
\* Posting more: what a queue holds once more handlers are behind it.
LEMMA Posting ==
  ASSUME WsTypeOK, NEW more \in Seq(Clients \X Msgs),
         posted' = posted \o more, UNCHANGED received
  PROVE  /\ posted' \in Seq(Clients \X Msgs)
         /\ Len(posted') = Len(posted) + Len(more)
         /\ \A i \in 1 .. Len(posted) : posted'[i] = posted[i]
         /\ \A i \in 1 .. Len(more) : posted'[Len(posted) + i] = more[i]
         /\ \A c, m : Written(c, m)' <=> Written(c, m)
         /\ \A c, m : Queued(c, m)' <=> Queued(c, m) \/ \E i \in 1 .. Len(more) : more[i] = <<c, m>>
<1>1. Len(posted) \in Nat /\ Len(more) \in Nat
  BY DEF WsTypeOK
<1>2. /\ posted' \in Seq(Clients \X Msgs)
      /\ Len(posted') = Len(posted) + Len(more)
      /\ \A i \in 1 .. Len(posted) + Len(more) :
           posted'[i] = IF i <= Len(posted) THEN posted[i] ELSE more[i - Len(posted)]
  BY ConcatProperties DEF WsTypeOK
<1>3. \A i \in 1 .. Len(posted) : posted'[i] = posted[i]
  BY <1>1, <1>2
<1>4. \A i \in 1 .. Len(more) : posted'[Len(posted) + i] = more[i]
  BY <1>1, <1>2
<1>5. \A c, m : Written(c, m)' <=> Written(c, m)
  BY DEF Written
<1>6. ASSUME NEW c, NEW m
      PROVE  Queued(c, m)' <=> Queued(c, m) \/ \E i \in 1 .. Len(more) : more[i] = <<c, m>>
  <2>1. Queued(c, m) => Queued(c, m)'
    <3>1. 1 .. Len(posted) \subseteq 1 .. Len(posted')
      BY <1>1, <1>2
    <3> QED BY <3>1, <1>3, Zenon DEF Queued
  <2>2. (\E i \in 1 .. Len(more) : more[i] = <<c, m>>) => Queued(c, m)'
    <3> SUFFICES ASSUME NEW i \in 1 .. Len(more), more[i] = <<c, m>> PROVE Queued(c, m)'
      OBVIOUS
    <3>1. Len(posted) + i \in 1 .. Len(posted')
      BY <1>1, <1>2
    <3> QED BY <3>1, <1>4, SMTT(20) DEF Queued
  <2>3. ASSUME NEW i \in 1 .. Len(posted'), posted'[i] = <<c, m>>, ~Queued(c, m)
        PROVE  \E j \in 1 .. Len(more) : more[j] = <<c, m>>
    <3>1. i > Len(posted)
      BY <2>3, <1>1, <1>2, <1>3 DEF Queued
    <3>2. i - Len(posted) \in 1 .. Len(more) /\ posted'[i] = more[i - Len(posted)]
      BY <3>1, <1>1, <1>2
    <3> QED BY <3>2, <2>3
  <2> QED BY <2>1, <2>2, <2>3, Zenon DEF Queued
<1> QED BY <1>2, <1>3, <1>4, <1>5, <1>6, ZenonT(30)

\* New messages for different clients, each after all that its client has been
\* sent, keep the order.
LEMMA PostingOrdered ==
  ASSUME WsTypeOK, Ordered, NEW more \in Seq(Clients \X Msgs),
         posted' = posted \o more, UNCHANGED received,
         \A i, j \in 1 .. Len(more) : more[i][1] = more[j][1] => i = j,
         \A i \in 1 .. Len(more) : \A x \in Msgs :
           Sent(more[i][1], x) => Precedes(x, more[i][2])
  PROVE  Ordered'
<1>0. /\ Len(posted) \in Nat /\ Len(more) \in Nat
      /\ \A i \in 1 .. Len(more) : more[i][1] \in Clients /\ more[i][2] \in Msgs
  <2>1. \A i \in 1 .. Len(more) : more[i] \in Clients \X Msgs
    BY ElementOfSeq
  <2> QED BY <2>1 DEF WsTypeOK
<1>1. \A c \in Clients : \A i, j \in 1 .. Len(received'[c]) :
        i < j => Precedes(received'[c][i], received'[c][j])
  BY DEF Ordered
<1>2. \A c \in Clients, x, y \in Msgs : Written(c, x)' /\ Queued(c, y)' => Precedes(x, y)
  <2> SUFFICES ASSUME NEW c \in Clients, NEW x \in Msgs, NEW y \in Msgs,
                      Written(c, x), Queued(c, y)'
               PROVE  Precedes(x, y)
    BY Posting, SMTT(20)
  <2>1. CASE Queued(c, y)
    BY <2>1 DEF Ordered
  <2>2. CASE ~Queued(c, y)
    <3>1. \A d, m : Queued(d, m)' <=> Queued(d, m) \/ \E i \in 1 .. Len(more) : more[i] = <<d, m>>
      BY Posting, Zenon
    <3>2. PICK i \in 1 .. Len(more) : more[i] = <<c, y>>
      BY <2>2, <3>1, Zenon
    <3>3. more[i][1] = c /\ more[i][2] = y
      BY <3>2
    <3> QED BY <3>3 DEF Sent
  <2> QED BY <2>1, <2>2
<1>3. \A i, j \in 1 .. Len(posted') :
        i < j /\ posted'[i][1] = posted'[j][1] => Precedes(posted'[i][2], posted'[j][2])
  <2> SUFFICES ASSUME NEW i \in 1 .. Len(posted'), NEW j \in 1 .. Len(posted'), i < j,
                      posted'[i][1] = posted'[j][1]
               PROVE  Precedes(posted'[i][2], posted'[j][2])
    BY SMTT(20)
  <2>0. Len(posted') = Len(posted) + Len(more)
    BY Posting
  <2>1. CASE j <= Len(posted)
    <3>1. i \in 1 .. Len(posted) /\ j \in 1 .. Len(posted)
      BY <2>1, <1>0
    <3>2. posted'[i] = posted[i] /\ posted'[j] = posted[j]
      BY <3>1, Posting
    <3> QED BY <3>1, <3>2, Zenon DEF Ordered
  <2>2. CASE j > Len(posted)
    <3>1. PICK b \in 1 .. Len(more) : j = Len(posted) + b
      <4>1. j - Len(posted) \in 1 .. Len(more) /\ j = Len(posted) + (j - Len(posted))
        BY <2>0, <2>2, <1>0
      <4> QED BY <4>1
    <3>2. posted'[j] = more[b]
      BY <3>1, Posting
    <3>3. CASE i <= Len(posted)
      <4>1. i \in 1 .. Len(posted) /\ posted'[i] = posted[i]
        BY <3>3, <1>0, Posting
      <4>2. posted[i][2] \in Msgs /\ Queued(posted[i][1], posted[i][2])
        BY <4>1, Positions
      <4> QED BY <4>1, <4>2, <3>2, SMTT(20) DEF Sent
    <3>4. CASE i > Len(posted)
      <4>1. PICK a \in 1 .. Len(more) : i = Len(posted) + a
        <5>1. i - Len(posted) \in 1 .. Len(more) /\ i = Len(posted) + (i - Len(posted))
          BY <2>0, <3>4, <1>0
        <5> QED BY <5>1
      <4>2. posted'[i] = more[a]
        BY <4>1, Posting
      <4>3. a = b
        BY <4>2, <3>2, SMTT(20)
      <4> QED BY <4>1, <4>3, <3>1, <1>0, SMTT(20)
    <3> QED BY <3>3, <3>4, <1>0
  <2> QED BY <2>1, <2>2, <1>0, SMTT(20)
<1> QED BY <1>1, <1>2, <1>3, Zenon DEF Ordered

\* on_accept posts the snapshot: together with the batches sent meanwhile it
\* covers everything.
LEMMA GreetKeeps ==
  ASSUME WsIInv, NEW c \in Clients, Greet(c), \A d \in Clients \ {c} : ~Busy(d)
  PROVE  WsIInv'
<1> USE DEF WsIInv
<1> DEFINE more == << <<c, Snapshot(taken)>> >>
<1>0. /\ taken \in Nat /\ batches \in Nat /\ taken <= batches /\ Snapshot(taken) \in Msgs
      /\ phase[c] = "snapped" /\ UNCHANGED <<sessions_, received, batches, taken>>
  BY Messages DEF WsTypeOK, Greet, Moves
<1>1. more \in Seq(Clients \X Msgs) /\ Len(more) = 1 /\ more[1] = <<c, Snapshot(taken)>>
  BY <1>0
<1>2. posted' = posted \o more
  <2>1. <<c, Snapshot(taken)>> \in Clients \X Msgs /\ posted \in Seq(Clients \X Msgs)
    BY <1>0 DEF WsTypeOK
  <2>2. Append(posted, <<c, Snapshot(taken)>>) = posted \o << <<c, Snapshot(taken)>> >>
    BY <2>1, AppendIsConcat
  <2> QED BY <2>2, Zenon DEF Greet
<1> HIDE DEF more
<1>3. \A d \in Clients : phase'[d] = IF d = c THEN "open" ELSE phase[d]
  BY DEF Greet, Moves, WsTypeOK
<1>4. \A d, m : Sent(d, m)' <=> Sent(d, m) \/ (d = c /\ m = Snapshot(taken))
  <2>1. \A d, m : (\E i \in 1 .. Len(more) : more[i] = <<d, m>>)
                    <=> (d = c /\ m = Snapshot(taken))
    BY <1>1
  <2>2. WsTypeOK /\ more \in Seq(Clients \X Msgs) /\ UNCHANGED received
    BY <1>0, <1>1
  <2>3. /\ \A d, m : Written(d, m)' <=> Written(d, m)
        /\ \A d, m : Queued(d, m)'
                      <=> Queued(d, m) \/ \E i \in 1 .. Len(more) : more[i] = <<d, m>>
    BY <2>2, <1>2, Posting, Zenon
  <2> QED BY <2>1, <2>3, Zenon DEF Sent
<1>5. \A m \in Msgs : Sent(c, m) => m.kind = "batch"
  BY <1>0, Messages DEF NotYet, Busy
<1>6. WsTypeOK'
  <2>1. posted' \in Seq(Clients \X Msgs)
    BY <1>0, <1>1, <1>2, Posting, ZenonT(30)
  <2> QED BY <2>1, <1>0, SMTT(20) DEF WsTypeOK, Greet, Moves, Phases
<1>7. Ordered'
  <2>1. \A x \in Msgs : Sent(c, x) => Precedes(x, Snapshot(taken))
    BY <1>0, <1>5, Messages DEF Precedes
  <2>2. \A i \in 1 .. Len(more) : i = 1 /\ more[i][1] = c /\ more[i][2] = Snapshot(taken)
    BY <1>1
  <2>3. \A i, j \in 1 .. Len(more) : more[i][1] = more[j][1] => i = j
    BY <2>2, Zenon
  <2>4. \A i \in 1 .. Len(more) : \A x \in Msgs : Sent(more[i][1], x) => Precedes(x, more[i][2])
    BY <2>1, <2>2, Zenon
  <2>5. WsTypeOK /\ Ordered /\ more \in Seq(Clients \X Msgs) /\ UNCHANGED received
    BY <1>0, <1>1
  <2> QED BY <2>3, <2>4, <2>5, <1>2, PostingOrdered, ZenonT(30)
<1>8. Issued'
  BY <1>0, <1>4, Messages DEF Issued
<1>9. NotYet'
  BY <1>0, <1>3, <1>4, SMTT(20) DEF NotYet, Quiet, Busy
<1>10. NoGap'
  <2>1. \A d \in Clients, k \in Nat : Sent(d, Batch(k))' <=> Sent(d, Batch(k))
    BY <1>0, <1>4, Messages
  <2> QED BY <2>1, <1>0, <1>3 DEF NoGap
<1>11. SnapshotCurrent'
  BY <1>0, <1>3, <1>4, ZenonT(30) DEF SnapshotCurrent, WsTypeOK
<1>12. NothingMissed'
  <2> SUFFICES ASSUME NEW d \in sessions_, phase'[d] = "open", NEW n \in 1 .. batches
               PROVE  Sent(d, Batch(n))' \/ \E k \in n .. batches : Sent(d, Snapshot(k))'
    BY <1>0 DEF NothingMissed
  <2>1. d \in Clients
    BY DEF WsTypeOK
  <2>2. CASE d # c
    BY <2>1, <2>2, <1>3, <1>4 DEF NothingMissed
  <2>3. CASE d = c /\ n <= taken
    <3>1. PICK k \in n .. batches : k = taken
      BY <2>3, <1>0
    <3>2. Sent(d, Snapshot(k))'
      BY <3>1, <2>3, <1>4, SMTT(20)
    <3> QED BY <3>2
  <2>4. CASE d = c /\ n > taken
    <3>1. n \in taken + 1 .. batches
      BY <2>4, <1>0
    <3> QED BY <3>1, <2>4, <1>0, <1>4 DEF SnapshotCurrent
  <2> QED BY <2>2, <2>3, <2>4, <1>0, SMTT(20)
<1>13. OneBusy'
  BY <1>3 DEF OneBusy, Busy
<1>14. NoGapWritten'
  BY <1>0, <1>1, <1>2, Posting, ZenonT(30) DEF NoGapWritten
<1> QED BY <1>6, <1>7, <1>8, <1>9, <1>10, <1>11, <1>12, <1>13, <1>14

\* An order of a finite set of sessions names each of them once.
LEMMA Orders ==
  ASSUME NEW S, IsFiniteSet(S), NEW order \in SetToSeqs(S)
  PROVE  /\ order \in Seq(S) /\ Len(order) \in Nat
         /\ \A i \in 1 .. Len(order) : order[i] \in S
         /\ \A i, j \in 1 .. Len(order) : order[i] = order[j] => i = j
         /\ \A c \in S : \E i \in 1 .. Len(order) : order[i] = c
<1> DEFINE D == 1 .. Cardinality(S)
<1>1. Cardinality(S) \in Nat
  BY FS_CardinalityType
<1>2. order \in [D -> S] /\ \A i, j \in D : i # j => order[i] # order[j]
  BY DEF SetToSeqs
<1>3. order \in Seq(S) /\ Len(order) = Cardinality(S)
  BY <1>1, <1>2
<1>4. Cardinality(D) = Cardinality(S)
  BY <1>1, FS_Interval
<1>5. order \in Injection(D, S)
  BY <1>2 DEF Injection, IsInjective
<1>6. order \in Surjection(D, S)
  BY <1>4, <1>5, FS_Injection
<1>7. \A c \in S : \E i \in D : order[i] = c
  BY <1>6 DEF Surjection
<1> QED BY <1>1, <1>2, <1>3, <1>7
============================================================================

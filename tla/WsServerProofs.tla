-------------------------- MODULE WsServerProofs --------------------------
(***************************************************************************)
(* For every set of clients and every number of batches: a listed client   *)
(* misses nothing, and every client gets its batches in order without a    *)
(* gap.  The clients may be infinitely many; sessions_ is always finite,   *)
(* as it grows by one session at a time.                                   *)
(***************************************************************************)
EXTENDS WsQueueProofs

\* A broadcast: every session that stays listed is sent the next batch.
LEMMA BroadcastKeeps ==
  ASSUME WsIInv, broadcast
  PROVE  WsIInv'
<1> USE DEF WsIInv
<1>0. /\ batches \in Nat /\ taken \in Nat /\ taken <= batches
      /\ batches' = batches + 1 /\ UNCHANGED <<phase, received, taken>>
  BY DEF WsTypeOK, broadcast
<1>1. PICK seen \in Readings : sessions_' = sessions_ \cap seen
  BY DEF broadcast
<1>2. /\ sessions_' \subseteq sessions_ /\ sessions_ \subseteq Clients
      /\ \A c \in sessions_' : phase[c] \notin Quiet
  BY <1>1, Zenon DEF Readings, Open, Quiet, WsTypeOK
<1>3. IsFiniteSet(sessions_')
  BY <1>2, FS_Subset DEF WsTypeOK
<1>4. PICK stay : stay = sessions_'
  OBVIOUS
<1>5. PICK b \in Nat : b = batches + 1
  BY <1>0
<1>6. PICK order \in SetToSeqs(stay) :
        posted' = posted \o [i \in 1 .. Len(order) |-> <<order[i], Batch(b)>>]
  BY <1>0, <1>4, <1>5, Zenon DEF broadcast
<1>7. /\ stay \in SUBSET Clients /\ Len(order) \in Nat
      /\ \A i \in 1 .. Len(order) : order[i] \in stay
      /\ \A i, j \in 1 .. Len(order) : order[i] = order[j] => i = j
      /\ \A c \in stay : \E i \in 1 .. Len(order) : order[i] = c
  BY <1>2, <1>3, <1>4, Orders
<1> DEFINE more == [i \in 1 .. Len(order) |-> <<order[i], Batch(b)>>]
<1>8. /\ more \in Seq(Clients \X Msgs) /\ Len(more) = Len(order)
      /\ \A i \in 1 .. Len(more) : more[i] = <<order[i], Batch(b)>>
  <2>1. \A i \in 1 .. Len(order) : <<order[i], Batch(b)>> \in Clients \X Msgs
    BY <1>7, Messages
  <2> QED BY <2>1, <1>7
<1>9. posted' = posted \o more
  BY <1>6
<1> HIDE DEF more
<1>10. \A c, m : (\E i \in 1 .. Len(more) : more[i] = <<c, m>>) <=> c \in stay /\ m = Batch(b)
  <2> SUFFICES ASSUME NEW c, NEW m
               PROVE  (\E i \in 1 .. Len(more) : more[i] = <<c, m>>) <=> c \in stay /\ m = Batch(b)
    BY Zenon
  <2>1. ASSUME c \in stay, m = Batch(b) PROVE \E i \in 1 .. Len(more) : more[i] = <<c, m>>
    BY <2>1, <1>7, <1>8
  <2>2. ASSUME NEW i \in 1 .. Len(more), more[i] = <<c, m>> PROVE c \in stay /\ m = Batch(b)
    BY <2>2, <1>7, <1>8
  <2> QED BY <2>1, <2>2
<1>11. /\ posted' \in Seq(Clients \X Msgs)
       /\ \A c, m : Written(c, m)' <=> Written(c, m)
       /\ \A c, m : Queued(c, m)' <=> Queued(c, m) \/ \E i \in 1 .. Len(more) : more[i] = <<c, m>>
  BY <1>0, <1>8, <1>9, Posting, Zenon
<1>12. \A c, m : Sent(c, m)' <=> Sent(c, m) \/ (c \in stay /\ m = Batch(b))
  BY <1>10, <1>11, Zenon DEF Sent
<1>13. \A c \in Clients, k \in Nat : Sent(c, Batch(k)) => k <= batches
  BY Messages DEF Issued
<1>14. WsTypeOK'
  BY <1>0, <1>2, <1>3, <1>11 DEF WsTypeOK
<1>15. Ordered'
  <2>1. \A c \in Clients, x \in Msgs : Sent(c, x) => Precedes(x, Batch(b))
    BY <1>0, <1>5, <1>13, Messages DEF Precedes
  <2>2. \A i \in 1 .. Len(more) : more[i][1] = order[i] /\ more[i][2] = Batch(b)
    BY <1>8
  <2>3. \A i, j \in 1 .. Len(more) : more[i][1] = more[j][1] => i = j
    BY <2>2, <1>7, <1>8
  <2>4. \A i \in 1 .. Len(more) : \A x \in Msgs : Sent(more[i][1], x) => Precedes(x, more[i][2])
    BY <2>1, <2>2, <1>7, <1>8
  <2> QED BY <2>3, <2>4, <1>0, <1>8, <1>9, PostingOrdered, ZenonT(30)
<1>16. Issued'
  BY <1>0, <1>5, <1>12, Messages DEF Issued
<1>17. NotYet'
  <2>1. \A c \in Clients, n \in Nat : Sent(c, Snapshot(n))' <=> Sent(c, Snapshot(n))
    BY <1>12, Messages
  <2> QED BY <2>1, <1>0, <1>2, <1>4, <1>12, SMTT(20) DEF NotYet, Busy
<1>18. NoGap'
  <2> SUFFICES ASSUME NEW c \in Clients, phase[c] # "closed", NEW k \in Nat, NEW n \in Nat,
                      Sent(c, Batch(k))'
               PROVE  /\ Sent(c, Batch(n))' => \A m \in k .. n : Sent(c, Batch(m))'
                      /\ c \in sessions_' => Sent(c, Batch(batches))'
    BY <1>0 DEF NoGap
  <2>1. \A m \in Nat : Sent(c, Batch(m))' <=> Sent(c, Batch(m)) \/ (c \in stay /\ m = b)
    BY <1>12, Messages
  <2>2. c \in sessions_' => Sent(c, Batch(batches))'
    BY <1>0, <1>4, <1>5, <1>12
  <2>3. ASSUME Sent(c, Batch(n))', NEW m \in k .. n PROVE Sent(c, Batch(m))'
    <3>0. m \in Nat /\ k <= m /\ m <= n
      OBVIOUS
    <3>1. CASE Sent(c, Batch(n))
      <4>1. n <= batches
        BY <3>1, <1>13
      <4>2. Sent(c, Batch(k))
        BY <4>1, <3>0, <2>1, <1>0, <1>5, SMTT(20)
      <4> QED BY <4>2, <3>0, <3>1, <2>1 DEF NoGap
    <3>2. CASE ~Sent(c, Batch(n))
      <4>1. c \in stay /\ n = b
        BY <3>2, <2>1, <2>3
      <4>2. CASE m = b
        BY <4>1, <4>2, <2>1, <3>0, SMTT(20)
      <4>3. CASE m # b
        <5>1. Sent(c, Batch(k)) /\ m \in k .. batches
          BY <4>1, <4>3, <3>0, <2>1, <1>0, <1>5, SMTT(20)
        <5>2. Sent(c, Batch(batches))
          BY <5>1, <4>1, <1>2, <1>4, SMTT(20) DEF NoGap
        <5>3. Sent(c, Batch(m))
          BY <5>1, <5>2, <1>0 DEF NoGap
        <5> QED BY <5>3, <3>0, <2>1
      <4> QED BY <4>2, <4>3
    <3> QED BY <3>1, <3>2
  <2> QED BY <2>2, <2>3
<1>19. SnapshotCurrent'
  <2> SUFFICES ASSUME NEW c \in stay, phase[c] = "snapped", NEW n \in taken + 1 .. b
               PROVE  Sent(c, Batch(n))'
    BY <1>0, <1>4, <1>5 DEF SnapshotCurrent
  <2>1. n = b \/ n \in taken + 1 .. batches
    BY <1>0, <1>5
  <2> QED BY <2>1, <1>2, <1>4, <1>12, SMTT(20) DEF SnapshotCurrent
<1>20. NothingMissed'
  <2> SUFFICES ASSUME NEW c \in stay, phase[c] = "open", NEW n \in 1 .. b
               PROVE  Sent(c, Batch(n))' \/ \E k \in n .. b : Sent(c, Snapshot(k))'
    BY <1>0, <1>4, <1>5 DEF NothingMissed
  <2>1. CASE n = b
    BY <2>1, <1>12
  <2>2. CASE n \in 1 .. batches
    <3>1. Sent(c, Batch(n)) \/ \E k \in n .. batches : Sent(c, Snapshot(k))
      BY <2>2, <1>2, <1>4 DEF NothingMissed
    <3>2. \A k \in n .. batches : k \in n .. b
      BY <1>0, <1>5
    <3> QED BY <3>1, <3>2, <1>12
  <2> QED BY <2>1, <2>2, <1>0, <1>5, SMTT(20)
<1>21. OneBusy' /\ NoGapWritten'
  BY <1>0, <1>11 DEF OneBusy, Busy, NoGapWritten
<1> QED BY <1>14, <1>15, <1>16, <1>17, <1>18, <1>19, <1>20, <1>21, SMTT(20)

\* A posted handler runs: the message moves from the queue to the socket, or is
\* dropped when its client has gone.
LEMMA RunPostedKeeps ==
  ASSUME WsIInv, RunPosted
  PROVE  WsIInv'
<1> USE DEF WsIInv
<1>0. /\ posted \in Seq(Clients \X Msgs) /\ posted # <<>> /\ posted' = Tail(posted)
      /\ received \in [Clients -> Seq(Msgs)]
      /\ UNCHANGED <<phase, sessions_, batches, taken>>
      /\ \A c \in Clients : ~Busy(c)
  BY DEF WsTypeOK, RunPosted
<1>1. /\ Head(posted) \in Clients \X Msgs /\ Head(posted) = posted[1]
      /\ posted' \in Seq(Clients \X Msgs) /\ Len(posted) \in Nat \ {0}
      /\ Len(posted') = Len(posted) - 1
      /\ \A i \in 1 .. Len(posted') : posted'[i] = posted[i + 1]
  BY <1>0, HeadTailProperties, EmptySeq, SMTT(20)
<1>2. PICK c \in Clients : \E y \in Msgs : posted[1] = <<c, y>>
  BY <1>1
<1>3. PICK x \in Msgs : posted[1] = <<c, x>>
  BY <1>2
<1>4. received' = IF c \in Open THEN [received EXCEPT ![c] = Append(@, x)] ELSE received
  <2>1. Head(posted)[1] = c /\ Head(posted)[2] = x
    BY <1>1, <1>3
  <2> QED BY <2>1, Zenon DEF RunPosted
<1>5. \A d, m : Queued(d, m) <=> Queued(d, m)' \/ (d = c /\ m = x)
  <2> SUFFICES ASSUME NEW d, NEW m PROVE Queued(d, m) <=> Queued(d, m)' \/ (d = c /\ m = x)
    OBVIOUS
  <2>1. ASSUME Queued(d, m), ~(d = c /\ m = x) PROVE Queued(d, m)'
    <3>1. PICK i \in 1 .. Len(posted) : posted[i] = <<d, m>>
      BY <2>1 DEF Queued
    <3>2. i # 1
      BY <3>1, <2>1, <1>3
    <3>3. PICK j \in 1 .. Len(posted') : j + 1 = i
      <4>1. i - 1 \in 1 .. Len(posted') /\ (i - 1) + 1 = i
        BY <3>2, <1>1
      <4> QED BY <4>1
    <3> QED BY <3>1, <3>3, <1>1, Zenon DEF Queued
  <2>2. ASSUME Queued(d, m)' PROVE Queued(d, m)
    <3>1. PICK j \in 1 .. Len(posted') : posted'[j] = <<d, m>>
      BY <2>2 DEF Queued
    <3>2. j + 1 \in 1 .. Len(posted) /\ posted[j + 1] = <<d, m>>
      BY <3>1, <1>1
    <3> QED BY <3>2 DEF Queued
  <2>3. 1 \in 1 .. Len(posted)
    BY <1>1
  <2>4. Queued(c, x)
    BY <2>3, <1>3 DEF Queued
  <2> QED BY <2>1, <2>2, <2>4
<1>6. received' \in [Clients -> Seq(Msgs)]
  BY <1>0, <1>3, <1>4, AppendProperties, SMTT(20)
<1>7. \A d \in Clients : d # c \/ c \notin Open => received'[d] = received[d]
  BY <1>0, <1>4
<1>8. c \in Open => /\ Len(received[c]) \in Nat
                    /\ Len(received'[c]) = Len(received[c]) + 1
                    /\ \A i \in 1 .. Len(received[c]) : received'[c][i] = received[c][i]
                    /\ received'[c][Len(received[c]) + 1] = x
  <2>1. c \in Open => received'[c] = Append(received[c], x)
    BY <1>0, <1>4
  <2>2. received[c] \in Seq(Msgs)
    BY <1>0
  <2>3. /\ Len(received[c]) \in Nat
        /\ Len(Append(received[c], x)) = Len(received[c]) + 1
        /\ \A i \in 1 .. Len(received[c]) : Append(received[c], x)[i] = received[c][i]
        /\ Append(received[c], x)[Len(received[c]) + 1] = x
    BY <2>2, AppendProperties
  <2> QED BY <2>1, <2>3
<1>9. \A d \in Clients : \A m : Written(d, m)' <=> Written(d, m) \/ (c \in Open /\ d = c /\ m = x)
  <2> SUFFICES ASSUME NEW d \in Clients, NEW m
               PROVE  Written(d, m)' <=> Written(d, m) \/ (c \in Open /\ d = c /\ m = x)
    OBVIOUS
  <2>1. CASE d # c \/ c \notin Open
    BY <2>1, <1>7 DEF Written
  <2>2. CASE d = c /\ c \in Open
    <3>1. Written(c, m) => Written(c, m)'
      BY <2>2, <1>8, SMTT(20) DEF Written
    <3>2. Len(received[c]) + 1 \in 1 .. Len(received'[c])
      BY <2>2, <1>8
    <3>3. Written(c, x)'
      BY <3>2, <2>2, <1>8 DEF Written
    <3>4. ASSUME NEW i \in 1 .. Len(received'[c]), received'[c][i] = m, m # x PROVE Written(c, m)
      <4>1. i \in 1 .. Len(received[c])
        BY <3>4, <2>2, <1>8, SMTT(20)
      <4> QED BY <4>1, <3>4, <2>2, <1>8, SMTT(20) DEF Written
    <3>5. Written(c, m)' => Written(c, m) \/ m = x
      BY <3>4 DEF Written
    <3> QED BY <3>1, <3>3, <3>5, <2>2, SMTT(20)
  <2> QED BY <2>1, <2>2
<1>10. \A d \in Clients, m \in Msgs : Sent(d, m)' => Sent(d, m)
  BY <1>5, <1>9 DEF Sent
<1>11. \A d \in Clients, m \in Msgs : phase[d] # "closed" => (Sent(d, m)' <=> Sent(d, m))
  <2>1. Sent(c, x)
    BY <1>5 DEF Sent
  <2>2. phase[c] # "closed" => c \in Open
    BY <2>1, <1>0 DEF NotYet, Quiet, Open, WsTypeOK, Phases
  <2> QED BY <2>2, <1>5, <1>9, SMTT(20) DEF Sent
<1>12. WsTypeOK'
  BY <1>0, <1>1, <1>6, SMTT(20) DEF WsTypeOK
<1>13. Ordered'
  <2>1. \A d \in Clients : \A i, j \in 1 .. Len(received'[d]) :
          i < j => Precedes(received'[d][i], received'[d][j])
    <3> SUFFICES ASSUME NEW d \in Clients, NEW i \in 1 .. Len(received'[d]),
                        NEW j \in 1 .. Len(received'[d]), i < j
                 PROVE  Precedes(received'[d][i], received'[d][j])
      OBVIOUS
    <3>1. CASE d # c \/ c \notin Open
      BY <3>1, <1>7 DEF Ordered
    <3>2. CASE d = c /\ c \in Open
      <4>1. i \in 1 .. Len(received[c]) /\ received'[c][i] = received[c][i]
        BY <3>2, <1>8, SMTT(20)
      <4>2. CASE j \in 1 .. Len(received[c])
        BY <4>1, <4>2, <3>2, <1>8, SMTT(20) DEF Ordered
      <4>3. CASE j \notin 1 .. Len(received[c])
        <5>1. received'[c][j] = x
          BY <4>3, <3>2, <1>8, SMTT(20)
        <5>2. received[c][i] \in Msgs /\ Written(c, received[c][i]) /\ Queued(c, x)
          BY <4>1, <1>5, Positions, SMTT(20)
        <5> QED BY <5>1, <5>2, <4>1, <3>2, SMTT(20) DEF Ordered
      <4> QED BY <4>2, <4>3
    <3> QED BY <3>1, <3>2, SMTT(20)
  <2>2. \A i \in 2 .. Len(posted) : posted[i][1] = c => Precedes(x, posted[i][2])
    <3>1. 1 \in 1 .. Len(posted) /\ \A i \in 2 .. Len(posted) : i \in 1 .. Len(posted) /\ 1 < i
      BY <1>1
    <3>2. posted[1][1] = c /\ posted[1][2] = x
      BY <1>3
    <3> QED BY <3>1, <3>2 DEF Ordered
  <2>3. \A d \in Clients, u, v \in Msgs : Written(d, u)' /\ Queued(d, v)' => Precedes(u, v)
    <3> SUFFICES ASSUME NEW d \in Clients, NEW u \in Msgs, NEW v \in Msgs,
                        Written(d, u)', Queued(d, v)'
                 PROVE  Precedes(u, v)
      OBVIOUS
    <3>1. CASE Written(d, u)
      BY <3>1, <1>5 DEF Ordered
    <3>2. CASE ~Written(d, u)
      <4>1. d = c /\ u = x
        BY <3>2, <1>9
      <4>2. PICK j \in 1 .. Len(posted') : posted'[j] = <<d, v>>
        BY DEF Queued
      <4>3. PICK i \in 2 .. Len(posted) : posted[i] = <<c, v>>
        <5>1. j + 1 \in 2 .. Len(posted) /\ posted[j + 1] = <<c, v>>
          BY <4>1, <4>2, <1>1, SMTT(20)
        <5> QED BY <5>1
      <4> QED BY <4>1, <4>3, <2>2
    <3> QED BY <3>1, <3>2
  <2>4. \A i, j \in 1 .. Len(posted') :
          i < j /\ posted'[i][1] = posted'[j][1] => Precedes(posted'[i][2], posted'[j][2])
    <3> SUFFICES ASSUME NEW i \in 1 .. Len(posted'), NEW j \in 1 .. Len(posted'), i < j,
                        posted'[i][1] = posted'[j][1]
                 PROVE  Precedes(posted'[i][2], posted'[j][2])
      OBVIOUS
    <3>1. PICK a \in 1 .. Len(posted) : a = i + 1
      BY <1>1
    <3>2. PICK b \in 1 .. Len(posted) : b = j + 1
      BY <1>1
    <3>3. a < b /\ posted'[i] = posted[a] /\ posted'[j] = posted[b]
      BY <3>1, <3>2, <1>1, SMTT(20)
    <3> QED BY <3>3 DEF Ordered
  <2> QED BY <2>1, <2>3, <2>4, SMTT(20) DEF Ordered
<1>14. Issued'
  BY <1>0, <1>10 DEF Issued
<1>15. NotYet'
  BY <1>0, <1>10, Messages, SMTT(20) DEF NotYet, Busy
<1>16. NoGap'
  <2>1. \A d \in Clients, k \in Nat :
          phase[d] # "closed" => (Sent(d, Batch(k))' <=> Sent(d, Batch(k)))
    BY <1>11, Messages
  <2>2. \A k, n \in Nat : \A m \in k .. n : m \in Nat
    OBVIOUS
  <2>3. \A d \in Clients : phase[d] # "closed" =>
          (Sent(d, Batch(batches))' <=> Sent(d, Batch(batches)))
    <3>1. PICK last \in Nat : last = batches
      BY DEF WsTypeOK
    <3>2. \A d \in Clients : Sent(d, Batch(batches))' <=> Sent(d, Batch(last))'
      BY <3>1, <1>0
    <3> QED BY <3>1, <3>2, <2>1, SMTT(20)
  <2> QED BY <2>1, <2>2, <2>3, <1>0, SMTT(20) DEF NoGap
<1>17. SnapshotCurrent'
  BY <1>0 DEF SnapshotCurrent, Busy, WsTypeOK
<1>18. NothingMissed'
  <2> SUFFICES ASSUME NEW d \in sessions_, phase[d] = "open", NEW n \in 1 .. batches
               PROVE  Sent(d, Batch(n))' \/ \E k \in n .. batches : Sent(d, Snapshot(k))'
    BY <1>0 DEF NothingMissed
  <2>1. d \in Clients /\ batches \in Nat
    BY DEF WsTypeOK
  <2>2. \A k \in n .. batches : k \in Nat
    BY <2>1
  <2>3. Sent(d, Batch(n)) \/ \E k \in n .. batches : Sent(d, Snapshot(k))
    BY DEF NothingMissed
  <2> QED BY <2>1, <2>2, <2>3, <1>11, Messages, SMTT(20)
<1>19. OneBusy'
  BY <1>0 DEF OneBusy, Busy
<1>20. NoGapWritten'
  <2> SUFFICES ASSUME NEW d \in Clients, NEW k \in Nat, NEW n \in Nat,
                      Written(d, Batch(k))', Written(d, Batch(n))', NEW m \in k .. n
               PROVE  Written(d, Batch(m))'
    BY DEF NoGapWritten
  <2>0. m \in Nat /\ k <= m /\ m <= n
    OBVIOUS
  <2>1. CASE Written(d, Batch(k)) /\ Written(d, Batch(n))
    BY <2>1, <1>9 DEF NoGapWritten
  <2>2. CASE ~(Written(d, Batch(k)) /\ Written(d, Batch(n)))
    <3>1. c \in Open /\ d = c /\ Queued(c, x) /\ (x = Batch(k) \/ x = Batch(n))
      BY <2>2, <1>5, <1>9, SMTT(20)
    <3>2. phase[c] # "closed" /\ Sent(c, Batch(k)) /\ Sent(c, Batch(n))
      BY <3>1, <1>9 DEF Open, Sent
    <3>3. Sent(c, Batch(m))
      BY <3>2 DEF NoGap
    <3>4. CASE Written(c, Batch(m))
      BY <3>4, <3>1, <1>9
    <3>5. CASE m = k \/ m = n
      BY <3>5
    <3>6. CASE ~Written(c, Batch(m)) /\ m # k /\ m # n
      <4>1. Batch(m) # x
        BY <3>1, <3>6, <2>0, Messages, SMTT(20)
      <4>2. Queued(c, Batch(m)) /\ Queued(c, Batch(m))'
        BY <4>1, <3>3, <3>6, <1>5, SMTT(20) DEF Sent
      <4>3. PICK j \in 1 .. Len(posted') : posted'[j] = <<c, Batch(m)>>
        BY <4>2 DEF Queued
      <4>4. PICK i \in 2 .. Len(posted) : posted[i] = <<c, Batch(m)>>
        <5>1. j + 1 \in 2 .. Len(posted) /\ posted[j + 1] = <<c, Batch(m)>>
          BY <4>3, <1>1
        <5> QED BY <5>1
      <4>5. Precedes(x, Batch(m))
        <5>1. 1 \in 1 .. Len(posted) /\ i \in 1 .. Len(posted) /\ 1 < i
          BY <1>1
        <5>2. posted[1][1] = c /\ posted[1][2] = x /\ posted[i][1] = c /\ posted[i][2] = Batch(m)
          BY <4>4, <1>3, SMTT(20)
        <5>3. Precedes(posted[1][2], posted[i][2])
          BY <5>1, <5>2 DEF Ordered
        <5> QED BY <5>2, <5>3, Zenon
      <4>6. x = Batch(k)
        BY <4>5, <3>1, <2>0, Messages, SMTT(20) DEF Precedes
      <4>7. x # Batch(n)
        BY <4>6, <3>6, <2>0, Messages, SMTT(20)
      <4>8. Written(c, Batch(n))
        BY <4>7, <3>1, <1>9, SMTT(20)
      <4>9. Precedes(Batch(n), x)
        BY <4>8, <3>1, <2>0, Messages, SMTT(20) DEF Ordered
      <4> QED BY <4>6, <4>9, <2>0, Messages, SMTT(20) DEF Precedes
    <3> QED BY <3>4, <3>5, <3>6, <3>1, SMTT(20)
  <2> QED BY <2>1, <2>2
<1> QED BY <1>12, <1>13, <1>14, <1>15, <1>16, <1>17, <1>18, <1>19, <1>20, SMTT(20)

-----------------------------------------------------------------------------
\* Every step keeps the invariant.
LEMMA WsNextKeeps == WsIInv /\ [Next]_vars => WsIInv'
<1> SUFFICES ASSUME WsIInv, [Next]_vars PROVE WsIInv'
  OBVIOUS
<1>1. ASSUME NEW c \in Clients, Session(c) PROVE WsIInv'
  <2>0. \A d \in Clients \ {c} : ~Busy(d)
    BY <1>1 DEF Session
  <2>1. CASE Accept(c)
    BY <2>1, AcceptKeeps
  <2>2. CASE Upgrade(c)
    BY <2>2, <2>0, MoveKeeps DEF Upgrade, Starts, Phases
  <2>3. CASE ServeFile(c)
    BY <2>3, <2>0, MoveKeeps DEF ServeFile, Starts, Phases
  <2>4. CASE Fail(c)
    BY <2>4, <2>0, MoveKeeps, SMTT(20) DEF Fail, Starts, Phases
  <2>5. CASE OnAccept(c)
    BY <2>5, <2>0, MoveKeeps DEF OnAccept, Starts, Phases
  <2>6. CASE TakeSnapshot(c)
    BY <2>6, <2>0, TakeSnapshotKeeps
  <2>7. CASE Greet(c)
    BY <2>7, <2>0, GreetKeeps
  <2>8. CASE OnReadFails(c)
    BY <2>8, <2>0, MoveKeeps DEF OnReadFails, Starts, Phases
  <2> QED BY <1>1, <2>1, <2>2, <2>3, <2>4, <2>5, <2>6, <2>7, <2>8, SMTT(20) DEF Session
<1>2. ASSUME UNCHANGED <<phase, sessions_, io, batches, taken>> PROVE WsIInv'
  <2>1. \A c : Busy(c)' <=> Busy(c)
    BY <1>2 DEF Busy
  <2>2. WsTypeOK' /\ OneBusy'
    BY <1>2, <2>1 DEF WsIInv, WsTypeOK, OneBusy, io
  <2>3. NotYet'
    BY <1>2, <2>1, SameBoxes, SMTT(20) DEF WsIInv, NotYet
  <2>4. NoGap'
    BY <1>2, SameBoxes DEF WsIInv, NoGap
  <2>5. SnapshotCurrent' /\ NothingMissed'
    BY <1>2, SameBoxes DEF WsIInv, SnapshotCurrent, NothingMissed
  <2> QED BY <1>2, <2>2, <2>3, <2>4, <2>5, QuietKeeps, SMTT(20) DEF WsIInv
<1>3. CASE AcceptFails \/ stop \/ UNCHANGED vars
  BY <1>2, <1>3 DEF AcceptFails, stop, vars
<1> QED BY <1>1, <1>3, RunPostedKeeps, BroadcastKeeps, SMTT(20) DEF Next

\* The invariant holds throughout.
THEOREM WsInvariant == Spec => []WsIInv
BY WsInitSound, WsNextKeeps, PTL DEF Spec

\* A session that is listed and greeted misses no batch, whenever broadcast
\* falls into its on_accept.
THEOREM WsNothingMissed == Spec => []NothingMissed
<1>1. WsIInv => NothingMissed
  BY DEF WsIInv
<1> QED BY <1>1, WsInvariant, PTL

\* The handlers send posts write the batches in order, each once, without a
\* gap, and one snapshot at most.
THEOREM WsInOrder == Spec => []InOrder
<1>1. ASSUME WsIInv PROVE InOrder
  <2> SUFFICES ASSUME NEW c \in Clients, NEW i \in 1 .. Len(received[c]),
                      NEW j \in 1 .. Len(received[c]), i < j,
                      received[c][i].kind = received[c][j].kind
               PROVE  /\ received[c][i].kind = "batch"
                      /\ received[c][i].n < received[c][j].n
                      /\ \A n \in received[c][i].n .. received[c][j].n : Written(c, Batch(n))
    BY DEF InOrder
  <2>1. received[c][i].kind = "batch" /\ received[c][i].n < received[c][j].n
    BY <1>1 DEF WsIInv, Ordered, Precedes
  <2>2. /\ received[c][i] \in Msgs /\ Written(c, received[c][i])
        /\ received[c][j] \in Msgs /\ Written(c, received[c][j])
    BY <1>1, Positions DEF WsIInv
  <2>3. PICK k \in Nat : k = received[c][i].n /\ received[c][i] = Batch(k)
    BY <2>1, <2>2, Messages
  <2>4. PICK n \in Nat : n = received[c][j].n /\ received[c][j] = Batch(n)
    BY <2>1, <2>2, Messages, ZenonT(30)
  <2>5. \A m \in k .. n : Written(c, Batch(m))
    BY <1>1, <2>2, <2>3, <2>4 DEF WsIInv, NoGapWritten
  <2> QED BY <2>1, <2>3, <2>4, <2>5, SMTT(20)
<1> QED BY <1>1, WsInvariant, PTL

=============================================================================

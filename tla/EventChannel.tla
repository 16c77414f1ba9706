---------------------------- MODULE EventChannel ----------------------------
(***************************************************************************)
(* What a LocalTracker promises about the events it takes: they come out   *)
(* in the order they went in, each once, and no more than Capacity of them *)
(* are under way.                                                          *)
(***************************************************************************)
EXTENDS Integers, Sequences

CONSTANTS Capacity, Ids

VARIABLES sent, received

Init == sent = <<>> /\ received = <<>>

Send(id) ==
  /\ Len(sent) - Len(received) < Capacity
  /\ \A i \in 1 .. Len(sent) : sent[i] < id
  /\ sent' = Append(sent, id)
  /\ UNCHANGED received

Receive ==
  /\ Len(received) < Len(sent)
  /\ received' = Append(received, sent[Len(received) + 1])
  /\ UNCHANGED sent

Next == (\E id \in Ids : Send(id)) \/ Receive

Spec == Init /\ [][Next]_<<sent, received>>
=============================================================================

------------------------------ MODULE WsServer ------------------------------
(***************************************************************************)
(* WsServer and its WsSessions (server/ws_server.cpp).  The server thread  *)
(* runs io_context: it accepts connections, upgrades them and runs posted  *)
(* handlers, one handler at a time.  The batcher thread calls broadcast,   *)
(* which shares sessions_mutex_ with the accept handler and nothing else   *)
(* with the rest, so it falls between any two steps of a session.          *)
(*                                                                         *)
(* A batch of events is its number; a snapshot is the number of batches    *)
(* broadcast before it was taken, all of whose events it reflects.         *)
(***************************************************************************)
EXTENDS Integers, Sequences, SequencesExt

CONSTANTS
  Clients,       \* connections, each used once
  MaxBatches,    \* bound: number of broadcast calls
  StaleReads     \* whether the batcher thread may read old values

ASSUME ServerAssumption == MaxBatches \in Nat /\ StaleReads \in BOOLEAN

VARIABLES
  phase,      \* where the session of each client is
  sessions_,  \* the sessions WsServer holds
  posted,     \* handlers in io_context: <<client, message>>
  received,   \* messages written to each client's socket
  batches,    \* number of broadcast calls so far
  taken,      \* what the snapshot on_accept has just taken reflects
  accepting,  \* an async_accept is pending
  stopped     \* ioc_.stop() has been called

io   == <<posted, received>>
vars == <<phase, sessions_, io, batches, taken, accepting, stopped>>

Batch(n)    == [kind |-> "batch", n |-> n]
Snapshot(n) == [kind |-> "snapshot", n |-> n]

\* is_open(): the handshake is done, is_websocket_ set, the socket not closed.
Open == {c \in Clients : phase[c] \in {"greeting", "snapped", "open"}}

\* What is_open() may return on the batcher thread.  is_websocket_ and the
\* state of the socket are plain variables of the server thread: until
\* on_accept has returned the old value may still be read, and so may that of
\* a socket that has been closed.
Readings ==
  {seen \in SUBSET {c \in Clients : c \in Open \/ phase[c] = "closed"} :
     /\ {c \in Clients : phase[c] = "open"} \subseteq seen
     /\ StaleReads \/ seen = Open}

\* on_accept of c is at work on the server thread.
Busy(c) == phase[c] \in {"greeting", "snapped"}

Init ==
  /\ phase = [c \in Clients |-> "absent"]
  /\ sessions_ = {}
  /\ posted = <<>>
  /\ received = [c \in Clients |-> <<>>]
  /\ batches = 0 /\ taken = 0
  /\ accepting = TRUE
  /\ stopped = FALSE

-----------------------------------------------------------------------------
\* The handler at work for session c moves it on, also after a stop, which
\* lets it finish.
Moves(c, from, to) ==
  /\ phase[c] = from
  /\ phase' = [phase EXCEPT ![c] = to]

\* A handler that io_context starts for session c.
Starts(c, from, to) == ~stopped /\ Moves(c, from, to)

\* The accept handler: a session is made, listed and run, and the next
\* accept is started.
Accept(c) ==
  /\ accepting
  /\ Starts(c, "absent", "reading")
  /\ sessions_' = sessions_ \cup {c}
  /\ UNCHANGED <<io, batches, taken, accepting, stopped>>

\* The accept handler with an error returns without starting another accept.
AcceptFails ==
  /\ ~stopped /\ accepting
  /\ \A c \in Clients : ~Busy(c)
  /\ accepting' = FALSE
  /\ UNCHANGED <<phase, sessions_, io, batches, taken, stopped>>

\* run: the first request asks for an upgrade, or for a file, which is
\* written before the session ends.
Upgrade(c) ==
  /\ Starts(c, "reading", "upgrading")
  /\ UNCHANGED <<sessions_, io, batches, taken, accepting, stopped>>

ServeFile(c) ==
  /\ Starts(c, "reading", "ended")
  /\ UNCHANGED <<sessions_, io, batches, taken, accepting, stopped>>

\* Reading the request or the handshake fails.
Fail(c) ==
  /\ Starts(c, "reading", "ended") \/ Starts(c, "upgrading", "ended")
  /\ UNCHANGED <<sessions_, io, batches, taken, accepting, stopped>>

\* on_accept: is_websocket_ is set; the provider walks the shards; what it
\* returns is posted and reading starts.
OnAccept(c) ==
  /\ Starts(c, "upgrading", "greeting")
  /\ UNCHANGED <<sessions_, io, batches, taken, accepting, stopped>>

TakeSnapshot(c) ==
  /\ Moves(c, "greeting", "snapped")
  /\ taken' = batches
  /\ UNCHANGED <<sessions_, io, batches, accepting, stopped>>

Greet(c) ==
  /\ Moves(c, "snapped", "open")
  /\ posted' = Append(posted, <<c, Snapshot(taken)>>)
  /\ UNCHANGED <<sessions_, received, batches, taken, accepting, stopped>>

\* on_read with an error: the client has gone.
OnReadFails(c) ==
  /\ Starts(c, "open", "closed")
  /\ UNCHANGED <<sessions_, io, batches, taken, accepting, stopped>>

\* Mutants: the newest handler first; a failed write ends the handler loop.
RunPostedNewest ==
  /\ ~stopped /\ posted # <<>>
  /\ \A c \in Clients : ~Busy(c)
  /\ LET h == Last(posted)
     IN  received' = IF h[1] \in Open THEN [received EXCEPT ![h[1]] = Append(@, h[2])] ELSE received
  /\ posted' = Front(posted)
  /\ UNCHANGED <<phase, sessions_, batches, taken, accepting, stopped>>

RunPostedOpenOnly ==
  /\ ~stopped /\ posted # <<>>
  /\ \A c \in Clients : ~Busy(c)
  /\ LET h == Head(posted)
     IN  /\ h[1] \in Open
         /\ received' = [received EXCEPT ![h[1]] = Append(@, h[2])]
  /\ posted' = Tail(posted)
  /\ UNCHANGED <<phase, sessions_, batches, taken, accepting, stopped>>

\* A handler posted by send: write the message; the error of a closed socket
\* is dropped.  Not while on_accept is at work, on the same thread.
RunPosted ==
  /\ ~stopped /\ posted # <<>>
  /\ \A c \in Clients : ~Busy(c)
  /\ LET h == Head(posted)
     IN  received' = IF h[1] \in Open THEN [received EXCEPT ![h[1]] = Append(@, h[2])] ELSE received
  /\ posted' = Tail(posted)
  /\ UNCHANGED <<phase, sessions_, batches, taken, accepting, stopped>>

\* Mutant: the batch goes to sessions that have been greeted.
BroadcastGreeted ==
  /\ batches < MaxBatches
  /\ batches' = batches + 1
  /\ \E seen \in Readings : sessions_' = sessions_ \cap seen
  /\ \E order \in SetToSeqs({c \in sessions_' : phase[c] = "open"}) :
       posted' = posted \o [i \in 1 .. Len(order) |-> <<order[i], Batch(batches')>>]
  /\ UNCHANGED <<phase, received, taken, accepting, stopped>>

\* broadcast: sessions that are not open are erased, the others are sent the
\* message, which posts it.
broadcast ==
  /\ batches < MaxBatches
  /\ batches' = batches + 1
  /\ \E seen \in Readings : sessions_' = sessions_ \cap seen
  /\ \E order \in SetToSeqs(sessions_') :
       posted' = posted \o [i \in 1 .. Len(order) |-> <<order[i], Batch(batches')>>]
  /\ UNCHANGED <<phase, received, taken, accepting, stopped>>

stop ==
  /\ ~stopped /\ stopped' = TRUE
  /\ UNCHANGED <<phase, sessions_, io, batches, taken, accepting>>

-----------------------------------------------------------------------------
Session(c) ==
  /\ \A d \in Clients \ {c} : ~Busy(d)
  /\ \/ Accept(c) \/ Upgrade(c) \/ ServeFile(c) \/ Fail(c)
     \/ OnAccept(c) \/ TakeSnapshot(c) \/ Greet(c) \/ OnReadFails(c)

Next == (\E c \in Clients : Session(c)) \/ AcceptFails \/ RunPosted \/ broadcast \/ stop

Spec == Init /\ [][Next]_vars

\* The server thread runs what is ready: on_accept returns, and a posted
\* handler gets its turn, as clients read what is written to them.
FairSpec ==
  /\ Spec
  /\ WF_vars(RunPosted)
  /\ \A c \in Clients : WF_vars(TakeSnapshot(c) \/ Greet(c))

-----------------------------------------------------------------------------
\* Message m has been written to client c, or is on its way.
Written(c, m) == \E i \in 1 .. Len(received[c]) : received[c][i] = m
Queued(c, m)  == \E i \in 1 .. Len(posted) : posted[i] = <<c, m>>
Sent(c, m)    == Written(c, m) \/ Queued(c, m)

\* A listed client misses nothing: its snapshot and the batches on their way
\* to it cover all batches so far, whatever the batcher did while on_accept
\* was at work.
NothingMissed ==
  \A c \in sessions_ : phase[c] = "open" =>
    \A n \in 1 .. batches :
      Sent(c, Batch(n)) \/ \E k \in n .. batches : Sent(c, Snapshot(k))

\* Every client gets its batches as they were sent: in order, each once, and
\* from the first one on without a gap; and it gets one snapshot at most.
InOrder ==
  \A c \in Clients : \A i, j \in 1 .. Len(received[c]) :
    i < j /\ received[c][i].kind = received[c][j].kind =>
      /\ received[c][i].kind = "batch"
      /\ received[c][i].n < received[c][j].n
      /\ \A n \in received[c][i].n .. received[c][j].n : Written(c, Batch(n))

\* The snapshot is sent immediately after the handshake: it is the first
\* message of every client, so that no older state replaces newer events.
SnapshotFirst ==
  \A c \in Clients : received[c] # <<>> => received[c][1].kind = "snapshot"

\* ws_server.hpp: "Broadcast a JSON message to all connected WebSocket clients."
\* None that has been greeted is missing from the sessions a broadcast goes to.
AllConnectedListed == \A c \in Clients : phase[c] = "open" => c \in sessions_

\* A batch sent to a client arrives, unless the client leaves or the server
\* is stopped; a client that has gone holds nobody else up.
Delivered ==
  \A c \in Clients, n \in 1 .. MaxBatches :
    (\E i \in 1 .. Len(posted) : posted[i] = <<c, Batch(n)>>)
      ~> \/ \E i \in 1 .. Len(received[c]) : received[c][i] = Batch(n)
         \/ phase[c] = "closed" \/ stopped
=============================================================================

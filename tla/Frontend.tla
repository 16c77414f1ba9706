------------------------------ MODULE Frontend ------------------------------
(***************************************************************************)
(* The browser (web/app.js): the map of blocks, kept by offset, the list   *)
(* of events behind the timeline, and export, import and replay.           *)
(* JavaScript runs one handler at a time; replay awaits between events,    *)
(* so that messages are handled in between.                                *)
(***************************************************************************)
EXTENDS Integers, Sequences

CONSTANT MAX_TIMELINE_EVENTS

VARIABLES
  map,              \* the keys of state.blocks
  timeline,         \* state.events
  eventCount,
  importedEvents,
  replaying, events, replay_i   \* the replay: its own events, and the next one

replay == <<replaying, events, replay_i>>
uivars == <<map, timeline, eventCount, importedEvents, replay>>

UiInit ==
  /\ map = {} /\ timeline = <<>> /\ eventCount = 0
  /\ importedEvents = <<>> /\ replaying = FALSE /\ events = <<>> /\ replay_i = 0

addTimelineEvent(list, e) ==
  IF Len(list) = MAX_TIMELINE_EVENTS THEN Append(Tail(list), e) ELSE Append(list, e)

\* Mutant: a deallocation leaves its block on display.
processEventKeeps(ui, e) ==
  [map   |-> IF e.kind = "allocate" THEN ui.map \cup {e.off} ELSE ui.map,
   list  |-> addTimelineEvent(ui.list, e),
   count |-> ui.count + 1]

\* handleAllocate and handleDeallocate.
processEvent(ui, e) ==
  [map   |-> IF e.kind = "allocate" THEN ui.map \cup {e.off} ELSE ui.map \ {e.off},
   list  |-> addTimelineEvent(ui.list, e),
   count |-> ui.count + 1]

\* handleMessage of an array: its events one by one.
handleArray(ui, es) ==
  LET f[i \in 0 .. Len(es)] == IF i = 0 THEN ui ELSE processEvent(f[i - 1], es[i])
  IN  f[Len(es)]

Ui == [map |-> map, list |-> timeline, count |-> eventCount]
Show(ui) == map' = ui.map /\ timeline' = ui.list /\ eventCount' = ui.count

\* A message from the server: a snapshot or an array of events.
handleMessage(msg) ==
  /\ IF msg.type = "snapshot"
     THEN map' = msg.blocks /\ UNCHANGED <<timeline, eventCount>>
     ELSE Show(handleArray(Ui, msg.list))
  /\ UNCHANGED <<importedEvents, replay>>

\* The Clear button.
Clear == timeline' = <<>> /\ UNCHANGED <<map, eventCount, importedEvents, replay>>

\* What was exported is imported again.
Import ==
  /\ timeline # <<>>
  /\ importedEvents' = timeline
  /\ UNCHANGED <<map, timeline, eventCount, replay>>

\* Mutant: replay starts from what is on display.
ReplayOver ==
  /\ importedEvents # <<>> /\ ~replaying
  /\ replaying' = TRUE /\ events' = importedEvents /\ replay_i' = 2
  /\ Show(processEvent([map |-> map, list |-> <<>>, count |-> 0], importedEvents[1]))
  /\ UNCHANGED importedEvents

\* The button: everything is reset and the first event handled.
ReplayStart ==
  /\ importedEvents # <<>> /\ ~replaying
  /\ replaying' = TRUE /\ events' = importedEvents /\ replay_i' = 2
  /\ Show(processEvent([map |-> {}, list |-> <<>>, count |-> 0], importedEvents[1]))
  /\ UNCHANGED importedEvents

\* The loop is left.
ReplayEnds ==
  /\ replaying' = FALSE /\ events' = <<>> /\ replay_i' = 0
  /\ UNCHANGED <<map, timeline, eventCount>>

\* The timer has run out: the next event, or the end.
ReplayStep ==
  /\ replaying
  /\ IF replay_i <= Len(events)
     THEN /\ Show(processEvent(Ui, events[replay_i]))
          /\ replay_i' = replay_i + 1 /\ UNCHANGED <<replaying, events>>
     ELSE ReplayEnds
  /\ UNCHANGED importedEvents

\* The button again.
ReplayAbort == replaying /\ ReplayEnds /\ UNCHANGED importedEvents
=============================================================================

---------------------------- MODULE StressControl ----------------------------
(***************************************************************************)
(* The command handler of the demo program (main.cpp) and the detached     *)
(* threads it starts: g_stress_running is at once the order to run, the    *)
(* sign that a test runs, and the order to stop.                           *)
(***************************************************************************)
EXTENDS Integers

CONSTANTS
  Stressers,    \* bound: stress threads started
  Iterations,   \* 100 in the code
  MaxCommands   \* bound: commands sent

VARIABLES
  g_stress_running,
  doing,        \* "new", "test" (of the loop's condition), "alloc", "sleep",
                \* "end" (before the last store) or "gone"
  i,            \* the loop's counter
  p,            \* whether the thread holds a block
  commands,
  stopped,      \* history: a stop was the last order, no test was started since
  since         \* history: blocks each thread has asked for since the last stop

stressvars == <<g_stress_running, doing, i, p, commands, stopped, since>>

StressInit ==
  /\ g_stress_running = FALSE
  /\ doing = [t \in Stressers |-> "new"]
  /\ i = [t \in Stressers |-> 0] /\ p = [t \in Stressers |-> FALSE]
  /\ commands = 0 /\ stopped = FALSE /\ since = [t \in Stressers |-> 0]

-----------------------------------------------------------------------------
\* {"command": "stress_test"}: ignored while the flag is set.  Threads that have
\* not seen an earlier stop find the flag set again.
StressTest ==
  /\ commands < MaxCommands /\ commands' = commands + 1
  /\ IF g_stress_running THEN UNCHANGED <<g_stress_running, doing, stopped>>
     ELSE \E t \in Stressers :
            /\ doing[t] = "new"
            /\ g_stress_running' = TRUE
            /\ doing' = [doing EXCEPT ![t] = "test"]
            /\ stopped' = FALSE
  /\ UNCHANGED <<i, p, since>>

\* {"command": "stop"}.
StressStop ==
  /\ commands < MaxCommands /\ commands' = commands + 1
  /\ g_stress_running' = FALSE
  /\ stopped' = TRUE /\ since' = [t \in Stressers |-> 0]
  /\ UNCHANGED <<doing, i, p>>

-----------------------------------------------------------------------------
\* Mutant: the loop does not look at the flag.
LoopTestBlind(t) ==
  /\ doing[t] = "test"
  /\ doing' = [doing EXCEPT ![t] = IF i[t] < Iterations THEN "alloc" ELSE "end"]
  /\ UNCHANGED <<g_stress_running, i, p, commands, stopped, since>>

LoopTest(t) ==
  /\ doing[t] = "test"
  /\ doing' = [doing EXCEPT ![t] =
       IF i[t] < Iterations /\ g_stress_running THEN "alloc" ELSE "end"]
  /\ UNCHANGED <<g_stress_running, i, p, commands, stopped, since>>

\* alloc_raw may fail; the thread sleeps all the same.
LoopAlloc(t) ==
  /\ doing[t] = "alloc"
  /\ \E answer \in BOOLEAN : p' = [p EXCEPT ![t] = answer]
  /\ since' = [since EXCEPT ![t] = @ + 1]
  /\ doing' = [doing EXCEPT ![t] = "sleep"]
  /\ UNCHANGED <<g_stress_running, i, commands, stopped>>

\* After the sleep: dealloc_raw, which takes a null pointer too.
LoopFree(t) ==
  /\ doing[t] = "sleep"
  /\ p' = [p EXCEPT ![t] = FALSE]
  /\ i' = [i EXCEPT ![t] = @ + 1]
  /\ doing' = [doing EXCEPT ![t] = "test"]
  /\ UNCHANGED <<g_stress_running, commands, stopped, since>>

\* The last store, which also ends a test started since.
LoopEnd(t) ==
  /\ doing[t] = "end"
  /\ g_stress_running' = FALSE
  /\ doing' = [doing EXCEPT ![t] = "gone"]
  /\ UNCHANGED <<i, p, commands, stopped, since>>

StressStep(t) == LoopTest(t) \/ LoopAlloc(t) \/ LoopFree(t) \/ LoopEnd(t)

StressNext == StressTest \/ StressStop \/ \E t \in Stressers : StressStep(t)

StressSpec == StressInit /\ [][StressNext]_stressvars

\* A thread that has been started runs.
StressFair == \A t \in Stressers : WF_stressvars(StressStep(t))

-----------------------------------------------------------------------------
\* What the one flag gives: from a stop until the next test is started no
\* thread, of however many earlier tests, asks for more than the one block for
\* which it had looked at the flag; a test that is over holds no block; and the
\* flag never stays set, which would refuse every later test.  Nothing is said
\* of a test started before the threads of an earlier one have seen the stop:
\* they go on with it, and the first of them to finish ends it.
FlagObeyed ==
  /\ [](stopped => \A t \in Stressers : since[t] <= 1)
  /\ [](\A t \in Stressers : doing[t] \in {"end", "gone"} => ~p[t])
  /\ g_stress_running ~> ~g_stress_running
=============================================================================

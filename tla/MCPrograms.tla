----------------------------- MODULE MCPrograms -----------------------------
(***************************************************************************)
(* Three uses of an arena, one per behaviour: threads that allocate while  *)
(* the batcher drains (EventPipeline), the demo program with its commands  *)
(* (StressControl) and the server simulation (Simulation).                 *)
(***************************************************************************)
EXTENDS EventPipeline, StressControl, Simulation

VARIABLE program

allvars == <<pipevars, stressvars, simvars, program>>

Init ==
  /\ program \in {"threads", "demo", "simulation"}
  /\ PipeInit /\ StressInit /\ SimInit
  /\ program # "simulation" =>
       pattern = "Steady" /\ total_requests = CHOOSE n \in Totals : TRUE
  /\ pattern \in {"Steady", "Ramp"} =>   \* they do not read burst_size
       burst_size = CHOOSE b \in BurstSizes : TRUE

RunThreads    == program = "threads" /\ PipeNext /\ UNCHANGED <<stressvars, simvars, program>>
RunDemo       == program = "demo" /\ StressNext /\ UNCHANGED <<pipevars, simvars, program>>
RunSimulation == program = "simulation" /\ SimNext /\ UNCHANGED <<pipevars, stressvars, program>>

Next == RunThreads \/ RunDemo \/ RunSimulation

Fairness ==
  /\ WF_allvars(RunThreads /\ BatcherStep) /\ WF_allvars(RunThreads /\ DrainStep)
  /\ \A t \in Stressers : WF_allvars(RunDemo /\ StressStep(t))
  /\ WF_allvars(RunSimulation)

Spec == Init /\ [][Next]_allvars /\ Fairness
=============================================================================

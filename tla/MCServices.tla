----------------------------- MODULE MCServices -----------------------------
(***************************************************************************)
(* What the services of a supervisor owe to durable state: leases that are *)
(* reclaimed, parents whose child has ended, external gates that are       *)
(* polled, and loops and teams whose success must be earned.  The four     *)
(* share no variable here, so a behaviour moves one of them, chosen at the *)
(* start, and only that one varies in its initial states.                  *)
(***************************************************************************)
EXTENDS MCWorkflowKernel, WorkflowComposition, ControllerPolls, PhaseRunners

VARIABLE focus

serviceVars == <<focus, vars, wcVars, cpVars, prVars>>

ServiceInit ==
  /\ focus \in {"leases", "children", "polls", "phases"}
  /\ Init /\ WcInit /\ CpInit /\ PrInit
  /\ focus # "phases" => runner = "loop"

InLeases(A) == focus = "leases" /\ A /\ UNCHANGED <<focus, wcVars, cpVars, prVars>>
InChildren(A) == focus = "children" /\ A /\ UNCHANGED <<focus, vars, cpVars, prVars>>
InPolls(A) == focus = "polls" /\ A /\ UNCHANGED <<focus, vars, wcVars, prVars>>
InPhases(A) == focus = "phases" /\ A /\ UNCHANGED <<focus, vars, wcVars, cpVars>>

ServiceNext ==
  InLeases(Next) \/ InChildren(WcNext) \/ InPolls(CpNext) \/ InPhases(PrNext)

\* The fairness of the first three: see the modules.  The runners of the phases
\* run, and a provider whose context is dead returns: some step of theirs is
\* taken, which is less than the code guarantees.
ServiceFairness ==
  /\ WF_serviceVars(InLeases(Tick)) /\ WF_serviceVars(InLeases(SweepStaleLeases))
  /\ \A s \in Servers : WF_serviceVars(InChildren(StartServer(s)))
  /\ \A s \in Servers, a \in Attempts : WF_serviceVars(InChildren(Executes(s, a)))
  /\ \A s \in Leaders : WF_serviceVars(InPolls(LoopWork(s)))
  /\ \A s \in Leaders, g \in PollGates : WF_serviceVars(InPolls(PollStep(s, g)))
  /\ \A g \in PollGates : WF_serviceVars(InPolls(PollTimer(g)))
  /\ WF_serviceVars(InPolls(Orphaned))
  /\ WF_serviceVars(InPhases(\/ RunnerStep
                             \/ \E g \in Goroutines : \/ PhaseStep(g)
                                                      \/ Dead(g) /\ ProviderReturns(g)))

ServiceSpec == ServiceInit /\ [][ServiceNext]_serviceVars /\ ServiceFairness
=============================================================================

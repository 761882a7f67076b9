------------------------------- MODULE MCRuns --------------------------------
(* Runs in production and by the reference orchestrator.  A behaviour is about one of   *)
(* three instances that share nothing: a run in production under handlers that overlap, *)
(* one with a second attempt under handlers that do not, and the reference's run.       *)
EXTENDS ProductionRuns, RunOrchestrator, TLC

CONSTANTS SerialNodes, SerialHandlers, SerialAttempts, SerialCrashes

VARIABLES
  about,
  serialRisky, serialRun, serialApproval, serialSteps, serialJobs, serialRevoked,
  serialHandlers, serialCrashes

serialVars == <<serialRisky, serialRun, serialApproval, serialSteps, serialJobs,
                serialRevoked, serialHandlers, serialCrashes>>

Serial == INSTANCE ProductionRuns WITH
  Nodes <- SerialNodes, Handlers <- SerialHandlers, MaxAttempts <- SerialAttempts,
  MaxCrashes <- SerialCrashes, risky <- serialRisky, run <- serialRun,
  approval <- serialApproval, steps <- serialSteps, jobs <- serialJobs,
  revoked <- serialRevoked, handlers <- serialHandlers, crashes <- serialCrashes

RunsInit ==
  /\ about \in {"overlapping", "serial", "reference"}
  /\ Init /\ (about # "overlapping" => ~ risky)
  /\ Serial!Init /\ (about # "serial" => ~ serialRisky)
  /\ OrchestratorInit

RunsNext ==
  \/ about = "overlapping" /\ Next /\ UNCHANGED <<about, serialVars, runVars>>
  \/ about = "serial" /\ Serial!Next /\ UNCHANGED <<about, vars, runVars>>
  \/ about = "reference" /\ OrchestratorNext /\ UNCHANGED <<about, vars, serialVars>>

\* The fairness of FairSpec in each of the two modules.
RunsFairness ==
  /\ \A h \in Handlers : WF_vars(about = "overlapping" /\ handlers[h] # None /\ HandlerNext(h))
  /\ WF_vars(about = "overlapping" /\ RunLate)
  /\ SF_vars(about = "overlapping" /\ \E h \in Handlers : SweepRead(h))
  /\ WF_runVars(about = "reference" /\ PortNext)
  /\ WF_runVars(about = "reference" /\ ResumeNext)
  /\ WF_runVars(about = "reference" /\ Tick)
  /\ SF_runVars(about = "reference" /\ \E c \in Slots : SweepExpired(c))

RunsSpec ==
  RunsInit /\ [][RunsNext]_<<about, vars, serialVars, runVars>> /\ RunsFairness

ASSUME SerialConstants == Serial!BoundsAssumption

\* The handlers that do not overlap, through a retry; RunSound itself is about those that do.
SerialSound == Serial!RunSound

=============================================================================

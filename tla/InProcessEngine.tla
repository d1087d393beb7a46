-------------------------- MODULE InProcessEngine --------------------------
(***************************************************************************)
(* Trino and DuckDB (crates/engine/src/adapters.rs, trino_child.rs,        *)
(* trino_process.rs): the harness itself runs the program and collects the *)
(* events; every statement is a command-line client with a timeout.        *)
(* Trino's statements go through a server that the harness starts, probes  *)
(* until it answers and stops.                                             *)
(***************************************************************************)
EXTENDS EngineWorkflow

CONSTANT MaxProbes   \* how often the server is probed within the startup timeout

ASSUME ProbesAssumption == MaxProbes \in Nat \ {0}

VARIABLES
  runner,   \* the step the runner is at
  server,   \* the Trino server
  probes    \* how often it has been probed

runnerVars == <<runner, server, probes>>
vars == <<programVars, workflowVars, runnerVars>>

Init ==
  /\ engine \in Engines
  /\ \E before \in Before : catalog = InitialCatalog(before)
  /\ request = "none" /\ out = <<>> /\ fault = "none"
  /\ child = [state |-> "unborn", stage |-> 1, phase |-> PhaseOf(1), code |-> NoCode]
  /\ WorkflowInit
  /\ runner = "prepare" /\ server = "none" /\ probes = 0

----------------------------------------------------------------------------
(* The runner up to the program (execute, RunningTrinoServer::start) *)

Gives(outcome) == Return(BeforeProcess(outcome)) /\ runner' = "returned"

\* Verification, rendering, credentials and staging.
Prepare ==
  /\ runner = "prepare"
  /\ \/ \E outcome \in {"RuntimeRejected", "PreparationFailed", "CredentialRejected"} :
          Gives(outcome)
     \/ /\ runner' = IF engine = "trino" THEN "start" ELSE "connect"
        /\ UNCHANGED workflowVars
  /\ UNCHANGED <<programVars, server, probes>>

StartServer ==
  /\ runner = "start"
  /\ \/ Gives("SpawnFailed") /\ UNCHANGED server
     \/ runner' = "probe" /\ server' = "running" /\ UNCHANGED workflowVars
  /\ UNCHANGED <<programVars, probes>>

\* A probe finds the server gone, answers, or fails; after the last one the
\* server is stopped.
StopsServer == IF server = "running" THEN "stopped" ELSE server

ProbeWithoutDeadline ==
  /\ runner = "probe"
  /\ \/ server = "running" /\ runner' = "connect" /\ UNCHANGED probes
     \/ probes' = 1 - probes /\ UNCHANGED runner
  /\ UNCHANGED <<programVars, workflowVars, server>>
Probe ==
  /\ runner = "probe"
  /\ \/ /\ server # "running" /\ Gives("SpawnFailed")
        /\ UNCHANGED <<server, probes>>
     \/ /\ server = "running" /\ runner' = "connect"
        /\ UNCHANGED <<workflowVars, server, probes>>
     \/ /\ probes < MaxProbes /\ probes' = probes + 1
        /\ UNCHANGED <<workflowVars, runner, server>>
     \/ /\ probes = MaxProbes /\ Gives("SpawnFailed")
        /\ server' = StopsServer /\ UNCHANGED probes
  /\ UNCHANGED programVars

\* connect_observation_catalog and ObjectStoreAuditor::from_connection.
ConnectObservers ==
  /\ runner = "connect"
  /\ \/ Gives("PreparationFailed") /\ server' = StopsServer /\ UNCHANGED child
     \/ /\ runner' = "program" /\ child' = [child EXCEPT !.state = "running"]
        /\ UNCHANGED <<workflowVars, server>>
  /\ UNCHANGED <<engine, catalog, request, out, fault, probes>>

ServerDies ==
  /\ server = "running" /\ server' = "stopped"
  /\ UNCHANGED <<programVars, workflowVars, runner, probes>>

----------------------------------------------------------------------------
(* The program (run_trino_child, run_duckdb_program) *)

Reachable == engine = "duckdb" \/ server = "running"

\* The catalog is taken to be ready once the server runs, and the table is
\* observed without the server: the harness loads it itself.
AsksServer ==
  /\ child.stage <= Len(Stages)
  /\ Current \notin {"InitializeCatalog", "CreateTable", "EvolveSchema", "ObserveFinalTable"}

Sends == Reachable /\ ChildSends

\* A statement that timed out has failed, though the server may still run it.
Writes ==
  /\ \E w \in (IF Reachable \/ ~AsksServer THEN Reports ELSE {}) \cup Failures :
       /\ out' = Append(out, w.event)
       /\ child' = w.next /\ fault' = w.fault
  /\ UNCHANGED <<engine, catalog, request>>

ProgramActs == runner = "program" /\ (Sends \/ Writes) /\ UNCHANGED <<workflowVars, runnerVars>>

\* from_in_process_events, after the server has been stopped.
CollectedOnSuccess ==
  LET p == [outcome |-> "none", events |-> IF child.code = 0 THEN out ELSE <<>>,
            failure |-> "none", code |-> child.code]
  IN  [p EXCEPT !.outcome = FromTerminal(p)]
Collected ==
  LET p == [outcome |-> "none", events |-> out, failure |-> "none", code |-> child.code]
  IN  [p EXCEPT !.outcome = FromTerminal(p)]

ProgramEnds ==
  /\ runner = "program" /\ child.phase = "stopping"
  /\ Return(Collected)
  /\ runner' = "returned" /\ server' = StopsServer
  /\ child' = [child EXCEPT !.state = "exited"] /\ out' = <<>>
  /\ UNCHANGED <<engine, catalog, request, fault, probes>>

\* The blocking task panics: its events are lost, dropping the server kills it.
ProgramPanics ==
  /\ runner = "program" /\ engine = "trino"
  /\ Gives("WaitFailed")
  /\ server' = StopsServer
  /\ child' = [child EXCEPT !.state = "exited"] /\ out' = <<>>
  /\ UNCHANGED <<engine, catalog, request, fault, probes>>

RunnerActs == Prepare \/ StartServer \/ Probe \/ ConnectObservers \/ ProgramEnds

\* The answer to a statement of Trino comes through its server.
CatalogAnswers == CatalogActs /\ (child' # child => Reachable)

Done == Finished /\ UNCHANGED vars

Next ==
  \/ RunnerActs \/ ProgramActs \/ ProgramPanics \/ ServerDies
  \/ CatalogAnswers /\ UNCHANGED <<workflowVars, runnerVars>>
  \/ WorkflowActs /\ UNCHANGED runnerVars
  \/ Done

Spec == Init /\ [][Next]_vars
\* The harness keeps taking its own steps; it need not panic.  Every statement
\* and every request has a timeout, so a stage ends at the latest as a failure.
FairSpec ==
  /\ Spec /\ WF_vars(RunnerActs) /\ WF_vars(ProgramActs)
  /\ WF_vars(WorkflowActs /\ UNCHANGED runnerVars)

----------------------------------------------------------------------------
(* Properties *)

TypeOK ==
  /\ engine \in {"trino", "duckdb"} /\ fault \in Faults \cup {"none"}
  /\ catalog \in [namespace : Owners, table : Owners, history : Seq(TableMutations)]
  /\ request \in Mutations \cup {"none"}
  /\ child \in [state : {"unborn", "running", "exited"}, stage : 1..(Len(Stages) + 1),
                phase : {"work", "waiting", "ready", "stopping"}, code : {NoCode} \cup 0..3]
  /\ out \in Seq(Event) /\ process \in Process /\ execution \in Execution
  /\ runner \in {"prepare", "start", "probe", "connect", "program", "returned"}
  /\ server \in {"none", "running", "stopped"} /\ probes \in 0..MaxProbes

\* Whichever way the runner returns, it leaves no server behind (start,
\* shutdown, Drop for RunningTrinoServer).
NoServerLeft == Returned => server # "running"

\* What the program did to the catalog is covered by the authority to clean
\* up, unless the task that ran it panicked (from_in_process_events).
MutationsAreReported ==
  Returned /\ (catalog.namespace = "owned" \/ request # "none") =>
    CleanupAuthorized \/ process.outcome = "WaitFailed"

\* What an in-process runner hands over when it returns: no running server, and
\* the authority to clean up what its program did (shutdown, cleanup_authorized).
RunnerHandsOver == NoServerLeft /\ MutationsAreReported

\* The run ends with a classification (the timeouts of the probes, of the
\* statements and of the requests).
Terminates == <>Finished

=============================================================================

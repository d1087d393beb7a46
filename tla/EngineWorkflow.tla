--------------------------- MODULE EngineWorkflow ---------------------------
(***************************************************************************)
(* run_engine_workflow (crates/engine/src/workflow.rs, reconcile.rs,       *)
(* execution.rs, catalog.rs): once the runner has returned what the engine *)
(* reported, the harness loads the table, audits its objects, removes the  *)
(* fixture and classifies the run.  It touches the catalog only if the     *)
(* engine reported the fixture absent.  How the runner comes to return is  *)
(* for the modules that extend this one.                                   *)
(***************************************************************************)
EXTENDS EngineProgram

VARIABLES
  process,    \* EngineProcessExecution: what the runner returned
  execution   \* EngineExecution: the evidence, and the step it has come to

workflowVars == <<process, execution>>

Outcomes == {"RuntimeRejected", "PreparationFailed", "CredentialRejected", "SpawnFailed",
             "StdoutFailed", "WaitFailed", "TimedOut", "ProtocolRejected",
             "ExitProtocolMismatch", "EngineFailed", "FixtureCollision", "Completed"}
ProtocolFailures == {"none", "StdoutTooLarge", "EventLineTooLarge", "MalformedEvent",
              "OutOfOrder", "PostTerminal", "MissingTerminal"}
NoCode == -1

Process == [outcome : Outcomes \cup {"none"}, events : Seq(Event), failure : ProtocolFailures,
            code : {NoCode} \cup 0..3]
NoProcess == [outcome |-> "none", events |-> <<>>, failure |-> "none", code |-> NoCode]
BeforeProcess(outcome) == [NoProcess EXCEPT !.outcome = outcome]

Steps == {"runner", "connect", "load", "audit", "drop_table", "verify_table",
          "drop_namespace", "verify_namespace", "done"}
Statuses == {"skipped", "failed", "absent", "present", "ok"}
Execution == [at : Steps, connection : Statuses, state : Statuses, loaded : Seq(TableMutations),
              audit : Statuses, drop_table : Statuses, verify_table : Statuses,
              drop_namespace : Statuses, verify_namespace : Statuses,
              classification : {"none", "Pass", "Fail", "FixtureCollision"}]
Pending == [at |-> "runner", connection |-> "skipped", state |-> "skipped", loaded |-> <<>>,
            audit |-> "skipped", drop_table |-> "skipped", verify_table |-> "skipped",
            drop_namespace |-> "skipped", verify_namespace |-> "skipped",
            classification |-> "none"]

----------------------------------------------------------------------------
(* What the capture says (protocol.rs, execution.rs) *)

LastEvent(p) == p.events[Len(p.events)]
EndsWith(p, kind) == p.failure = "none" /\ p.events # <<>> /\ LastEvent(p).kind = kind

CaptureCompleted(p) == EndsWith(p, "completed")
CaptureFailed(p) == EndsWith(p, "failed")
CaptureCollision(p) ==
  /\ EndsWith(p, "ready")
  /\ LastEvent(p).stage = "PreflightFixture" /\ ~LastEvent(p).ok

\* from_terminal: the exit code and the last event have to agree.
FromTerminal(p) ==
  CASE p.code = 0 /\ CaptureCompleted(p) -> "Completed"
    [] p.code = 3 /\ CaptureCollision(p) -> "FixtureCollision"
    [] p.code = 2 /\ CaptureFailed(p) -> "EngineFailed"
    [] OTHER -> "ExitProtocolMismatch"

ProcessPassed == process.outcome = "Completed" /\ process.code = 0 /\ CaptureCompleted(process)
ProcessCollided ==
  process.outcome = "FixtureCollision" /\ process.code = 3 /\ CaptureCollision(process)
AuthorizedByCleanStream ==
  process.failure = "none" /\ \E i \in DOMAIN process.events :
    process.events[i].stage = "PreflightFixture" /\ process.events[i].ok
CleanupAuthorized ==
  /\ process.outcome # "FixtureCollision"
  /\ \E i \in DOMAIN process.events :
        LET e == process.events[i]
        IN  e.kind = "ready" /\ e.stage = "PreflightFixture" /\ e.ok

----------------------------------------------------------------------------
(* evaluate_checks (reconcile.rs) *)

Reported(stage) ==
  \E i \in DOMAIN process.events :
     LET e == process.events[i] IN e.kind = "ready" /\ e.stage = stage /\ e.ok
Seen(stage) ==
  LET i == CHOOSE i \in DOMAIN process.events :
             process.events[i].kind = "ready" /\ process.events[i].stage = stage
  IN  process.events[i].seen
Snapshots(stage) == Cardinality(Commits(Seen(stage)))

InitialCommitted ==
  Reported("AppendInitial") /\ Snapshots("AppendInitial") = Snapshots("CreateTable") + 1
SchemaEvolved ==
  /\ Reported("EvolveSchema") /\ Evolved(Seen("EvolveSchema"))
  /\ Snapshots("EvolveSchema") = Snapshots("CreateTable") + 1
  /\ Seen("EvolveSchema") # Seen("CreateTable")
EvolvedCommitted ==
  Reported("AppendEvolved") /\ Snapshots("AppendEvolved") = Snapshots("CreateTable") + 2
FinalTableMatches ==
  /\ Reported("ObserveFinalTable") /\ Evolved(Seen("ObserveFinalTable"))
  /\ Snapshots("ObserveFinalTable") = Snapshots("CreateTable") + 2
  /\ Seen("ObserveFinalTable") # Seen("EvolveSchema")

LoadedUncompared(e) == FinalTableMatches /\ e.state = "present"
CatalogStateCorrelated(e) ==
  FinalTableMatches /\ e.state = "present" /\ e.loaded = Seen("ObserveFinalTable")

CleanupPassed(e) ==
  /\ e.drop_table = "ok" /\ e.verify_table = "absent"
  /\ e.drop_namespace = "ok" /\ e.verify_namespace = "absent"

AllPassed(e) ==
  /\ Reported("VerifyRuntime")
  /\ Reported("InitializeCatalog") /\ e.connection = "ok"
  /\ Reported("PreflightFixture") /\ Reported("CreateNamespace")
  /\ Reported("CreateTable") /\ ~Evolved(Seen("CreateTable"))
  /\ InitialCommitted /\ Reported("ReadInitial")
  /\ SchemaEvolved /\ EvolvedCommitted /\ Reported("ReadEvolved")
  /\ CatalogStateCorrelated(e) /\ e.audit = "ok"
  /\ CleanupPassed(e)

\* finalize
Classification(e) ==
  IF ProcessCollided THEN "FixtureCollision"
  ELSE IF ProcessPassed /\ AllPassed(e) THEN "Pass" ELSE "Fail"
Finalize(e) == [e EXCEPT !.at = "done", !.classification = Classification(e)]

----------------------------------------------------------------------------
(* The steps after the runner has returned (workflow.rs) *)

WorkflowInit == process = NoProcess /\ execution = Pending

Returned == execution.at # "runner"
Finished == execution.at = "done"

\* A call of the harness to the catalog or to the object store may fail.
Calls == {TRUE} \cup (IF MayErr("call") THEN {FALSE} ELSE {})
Called(ok, next) == execution' = next /\ fault' = IF ok THEN fault ELSE "call"

\* The runner hands over what it has.
Return(p) ==
  process' = p /\ execution' = [execution EXCEPT !.at = "connect"]

Unauthorized ==
  /\ execution.at = "connect" /\ ~CleanupAuthorized
  /\ Called(TRUE, Finalize(execution))
  /\ UNCHANGED catalog

Connect ==
  /\ execution.at = "connect" /\ CleanupAuthorized
  /\ \E ok \in Calls :
       Called(ok, IF ok THEN [execution EXCEPT !.connection = "ok", !.at = "load"]
                        ELSE Finalize([execution EXCEPT !.connection = "failed"]))
  /\ UNCHANGED catalog

Presence(resource, ok) ==
  IF ~ok THEN "failed" ELSE IF catalog[resource] = "absent" THEN "absent" ELSE "present"

LoadTable ==
  /\ execution.at = "load"
  /\ \E ok \in Calls :
       LET state == Presence("table", ok)
       IN  Called(ok, [execution EXCEPT !.at = "audit", !.state = state,
                         !.loaded = IF state = "present" THEN catalog.history ELSE <<>>])
  /\ UNCHANGED catalog

AuditObjectState ==
  /\ execution.at = "audit"
  /\ \E ok \in (IF execution.state = "present" THEN Calls ELSE {TRUE}) :
       LET audit == IF ~ok THEN "failed" ELSE IF execution.state = "present" THEN "ok" ELSE "skipped"
       IN  Called(ok, [execution EXCEPT !.at = "drop_table", !.audit = audit])
  /\ UNCHANGED catalog

\* A drop is executed and answered, executed and its answer lost, or refused.
Dropped(resource) ==
  IF resource = "table" THEN [catalog EXCEPT !.table = "absent", !.history = <<>>]
                        ELSE [catalog EXCEPT !.namespace = "absent"]
Drop(step, resource, allowed, next) ==
  /\ execution.at = step
  /\ \E ok \in Calls :
       /\ Called(ok, [execution EXCEPT ![step] = IF ok /\ allowed THEN "ok" ELSE "failed",
                                       !.at = next])
       /\ \/ allowed /\ catalog' = Dropped(resource)
          \/ ~(ok /\ allowed) /\ UNCHANGED catalog

DropTable == Drop("drop_table", "table", TRUE, "verify_table")
DropNamespace ==
  Drop("drop_namespace", "namespace", catalog.table = "absent", "verify_namespace")

VerifyTable ==
  /\ execution.at = "verify_table"
  /\ \E ok \in Calls :
       Called(ok, [execution EXCEPT !.at = "drop_namespace", !.verify_table = Presence("table", ok)])
  /\ UNCHANGED catalog

VerifyNamespace ==
  /\ execution.at = "verify_namespace"
  /\ \E ok \in Calls :
       Called(ok, Finalize([execution EXCEPT !.verify_namespace = Presence("namespace", ok)]))
  /\ UNCHANGED catalog

WorkflowActs ==
  /\ \/ Unauthorized \/ Connect \/ LoadTable \/ AuditObjectState
     \/ DropTable \/ VerifyTable \/ DropNamespace \/ VerifyNamespace
  /\ UNCHANGED <<engine, request, child, out, process>>

----------------------------------------------------------------------------
(* Properties of a run, whichever way the engine is supervised *)

\* A run that passes did every mutation once, in order, and the catalog holds
\* nothing of it: no table, no namespace, and no request that could bring one
\* back (finalize, evaluate_checks, cleanup_fixture).
PassIsEarned ==
  Finished /\ execution.classification = "Pass" =>
    /\ execution.loaded = <<"CreateTable", "AppendInitial", "EvolveSchema", "AppendEvolved">>
    /\ catalog.namespace = "absent" /\ catalog.table = "absent" /\ request = "none"

\* A run is reported as a fixture collision only if the fixture was there
\* before it, and then nothing has been sent to the catalog
\* (fixture_collision, cleanup_authorized).
CollisionIsReal ==
  Finished /\ execution.classification = "FixtureCollision" =>
    catalog.namespace = "foreign" /\ request = "none" /\ catalog.history = <<>>

\* A namespace that existed before the run, and a table in it, stay as they
\* are: the engine finds them and neither it nor the cleanup touches them
\* (the preflight stage, cleanup_authorized, cleanup_fixture).
ForeignKept == [][catalog.namespace = "foreign" => UNCHANGED catalog]_catalog

=============================================================================

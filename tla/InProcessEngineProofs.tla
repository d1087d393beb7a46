----------------------- MODULE InProcessEngineProofs -----------------------
(***************************************************************************)
(* What an in-process runner hands over, and what a pass of a run means,   *)
(* for every engine, every content of the catalog before the run, every    *)
(* set of faults and every number of probes.                               *)
(***************************************************************************)
EXTENDS InProcessEngine, TLAPS

\* The stages up to the preflight, and those whose events tell of the table.
Preflight == 3
TableCreated == 5
InitialRead == 7
EvolvedRead == 10
Observed == 11

Children == [state : {"unborn", "running", "exited"}, stage : 1..(Len(Stages) + 1),
             phase : {"work", "waiting", "ready", "stopping"}, code : {NoCode} \cup 0..3]

\* The types that the other invariants rest on.
Typed ==
  /\ catalog \in [namespace : Owners, table : Owners, history : Seq(TableMutations)]
  /\ request \in Mutations \cup {"none"}
  /\ child \in Children
  /\ out \in Seq(Event)
  /\ execution \in Execution
  /\ runner \in {"prepare", "start", "probe", "connect", "program", "returned"}
  /\ server \in {"none", "running", "stopped"}

----------------------------------------------------------------------------
(* The runner *)

\* Where the runner is, the process and the server with it.
RunnerInv ==
  /\ Returned <=> runner = "returned"
  /\ runner = "program" <=> child.state = "running"
  /\ runner \notin {"program", "returned"} =>
       child.state = "unborn" /\ child.stage = 1 /\ out = <<>>
  /\ runner \in {"prepare", "start", "returned"} => server # "running"
  /\ execution.at = "runner" => execution = Pending

\* A request is under way only from a stage that mutates, and the program does
\* not get past that stage before the request is answered.
RequestInv ==
  /\ child.phase # "stopping" => child.code = NoCode
  /\ child.phase \in {"work", "waiting"} => child.stage <= Observed /\ Stages[child.stage] \in Mutations
  /\ request # "none" =>
       /\ child.phase \in {"waiting", "stopping"} /\ child.code # 0
       /\ child.stage <= Observed /\ request = Stages[child.stage]
  /\ child.code = 3 => child.stage <= Preflight

\* Before the preflight has been reported nothing is sent to the catalog.
Untouched ==
  child.stage <= Preflight => request = "none" /\ catalog.namespace # "owned"

Authorizes(e) == e.kind = "ready" /\ e.stage = "PreflightFixture" /\ e.ok

\* A program past the preflight has reported the fixture absent, and what it
\* reported is what the runner returns.
CoveredInv ==
  child.stage > Preflight =>
    /\ runner = "program" => \E i \in DOMAIN out : Authorizes(out[i])
    /\ runner = "returned" => CleanupAuthorized \/ process.outcome = "WaitFailed"

HandsOverInv == Typed /\ RunnerInv /\ RequestInv /\ Untouched /\ CoveredInv

----------------------------------------------------------------------------
(* The table *)

\* A table has a history from its creation on, unless it was there before.
TableInv ==
  /\ catalog.table = "absent" => catalog.history = <<>>
  /\ catalog.table = "owned" => Len(catalog.history) > 0
  /\ runner # "returned" /\ child.stage <= Preflight =>
       catalog.history = <<>> /\ (catalog.namespace = "absent" => catalog.table = "absent")
  /\ child.stage > Preflight => catalog.table # "foreign"

CT == "CreateTable"
AI == "AppendInitial"
ES == "EvolveSchema"
AE == "AppendEvolved"
Full == <<CT, AI, ES, AE>>

\* What a table can have been through once the initial rows have been sent,
\* once they have been read, and once the program has been read back.  The
\* catalog may lose, double or take back a commit.
Created == {<<>>, <<CT>>}
Appended == {<<CT>>, <<CT, AI>>, <<CT, AI, AI>>}
ReadBack == {<<CT>>, <<CT, AI>>}
Changed == ReadBack \cup {<<CT, ES>>, <<CT, AI, ES>>}
Extended == Changed \cup {Append(h, AE) : h \in Changed} \cup {Append(Append(h, AE), AE) : h \in Changed}
Versions == {<<CT>>, <<CT, AI>>, <<CT, AI, ES>>, Full}

\* The request of the stage is still to be sent, or on its way.
Unsettled == child.phase = "work" \/ request # "none"

Histories(stage, unsettled) ==
  CASE stage < TableCreated -> {<<>>}
    [] stage = TableCreated -> Created
    [] stage = 6 -> IF unsettled THEN {<<CT>>} ELSE Appended
    [] stage = InitialRead -> Appended
    [] stage = 8 -> IF unsettled THEN ReadBack ELSE Changed
    [] stage = 9 -> IF unsettled THEN Changed ELSE Extended
    [] stage = EvolvedRead -> Extended
    [] OTHER -> Versions

HistoryInv ==
  runner = "program" => catalog.history \in Histories(child.stage, Unsettled)

\* The events are in the order of the stages.  When the table was reported as
\* created it had no commit; when it was observed in the end it was the table
\* that had been read back, or an older version of it.
InSequence(events) ==
  \A i \in DOMAIN events : events[i].kind = "ready" =>
    /\ i \in 1..Observed /\ events[i].stage = Stages[i]
    /\ i = TableCreated => events[i].seen = <<CT>>
    /\ i = Observed => events[i].seen \in Versions

EventsInv ==
  /\ runner = "program" => InSequence(out)
  /\ runner = "program" /\ child.phase # "stopping" => Len(out) = child.stage - 1
  /\ runner = "returned" => InSequence(process.events)

\* After a program that completed, the cleanup is alone with the catalog.
CleanupInv ==
  runner = "returned" =>
    /\ execution.at = "connect" => execution.drop_table = "skipped"
    /\ process.code = 0 => request = "none"
    /\ process.code = 0 /\ execution.verify_table = "absent" => catalog.table = "absent"

\* What a pass says: the program completed, its table went through all of it,
\* and what the cleanup left was verified to be absent.
EarnedInv ==
  Finished /\ execution.classification = "Pass" =>
    /\ process.code = 0 /\ execution.loaded = Full
    /\ catalog.namespace = "absent" /\ catalog.table = "absent"

PassInv == HandsOverInv /\ TableInv /\ HistoryInv /\ EventsInv /\ CleanupInv /\ EarnedInv

----------------------------------------------------------------------------
(* The stages and the writes of the program *)

\* The eleven stages of the program, by name and number (EngineStage).
LEMMA StageFacts ==
  /\ Len(Stages) = 11 /\ DOMAIN Stages = 1..11
  /\ Stages[1] = "VerifyRuntime" /\ Stages[2] = "InitializeCatalog"
  /\ Stages[3] = "PreflightFixture" /\ Stages[4] = "CreateNamespace"
  /\ Stages[5] = "CreateTable" /\ Stages[6] = "AppendInitial" /\ Stages[7] = "ReadInitial"
  /\ Stages[8] = "EvolveSchema" /\ Stages[9] = "AppendEvolved" /\ Stages[10] = "ReadEvolved"
  /\ Stages[11] = "ObserveFinalTable"
BY DEF Stages

\* A stage has one number.
LEMMA StageNumbers ==
  \A n \in 1..11 :
    /\ Stages[n] = "PreflightFixture" => n = 3
    /\ Stages[n] = "CreateTable" => n = 5
    /\ Stages[n] = "ObserveFinalTable" => n = 11
<1> TAKE n \in 1..11
<1>1. n = 1 \/ n = 2 \/ n = 3 \/ n = 4 \/ n = 5 \/ n = 6 \/ n = 7 \/ n = 8 \/ n = 9 \/ n = 10 \/ n = 11
  OBVIOUS
<1> QED BY <1>1, StageFacts, SMTT(60)

\* Five of them mutate the catalog, and the program waits for an answer there.
LEMMA PhaseFacts ==
  /\ \A n \in 1..11 : Stages[n] \in Mutations <=> n \in {4, 5, 6, 8, 9}
  /\ \A n \in 1..11 : Stages[n] \in StageNames
  /\ \A n \in 1..12 : PhaseOf(n) = IF n \in {4, 5, 6, 8, 9} THEN "work" ELSE "ready"
  /\ Mutations \subseteq StageNames
<1>1. \A n \in 1..11 : Stages[n] \in Mutations <=> n \in {4, 5, 6, 8, 9}
  BY StageFacts DEF Mutations
<1>2. \A n \in 1..11 : Stages[n] \in StageNames
  BY StageFacts DEF StageNames
<1>3. \A n \in 1..12 : PhaseOf(n) = IF n \in {4, 5, 6, 8, 9} THEN "work" ELSE "ready"
  BY <1>1, StageFacts DEF PhaseOf
<1>4. Mutations \subseteq StageNames
  BY StageFacts DEF StageNames, Mutations
<1> QED BY <1>1, <1>2, <1>3, <1>4

\* The event of a stage that has been passed: the preflight found the fixture
\* absent, and every later stage saw what it has to see.
Passes(w) ==
  /\ child.phase = "ready" /\ child.stage \in 1..11 /\ w.next = Advances
  /\ w.event.kind = "ready" /\ w.event.stage = Stages[child.stage]
  /\ w.event.seen = catalog.history
  /\ child.stage = 3 => w.event.ok /\ FixtureAbsent
  /\ child.stage \notin {1, 3} => Holds(Stages[child.stage])

\* The last event of a program, with the exit code it leaves with.
Ends(w) ==
  \/ /\ child.phase = "ready" /\ child.stage = 12
     /\ w.next = Leaves(0) /\ w.event.kind = "completed"
  \/ /\ child.stage = 3 /\ w.next = Leaves(3)
     /\ w.event.kind = "ready" /\ w.event.stage = Stages[3] /\ ~w.event.ok
  \/ /\ child.stage \in 1..11 /\ w.next = Leaves(2) /\ w.event.kind = "failed"

\* Whatever the program writes reports its stage as passed or is its last event
\* (run_trino_child, run_duckdb_program).
LEMMA WriteCases ==
  ASSUME Typed, NEW w \in Reports \cup Failures
  PROVE  /\ child.state = "running" /\ child.phase # "stopping"
         /\ w.event \in Event
         /\ Passes(w) \/ Ends(w)
<1>t. child.stage \in 1..12 /\ catalog.history \in Seq(TableMutations)
  BY StageFacts DEF Typed, Children
<1>s. child.stage <= 11 => Current = Stages[child.stage]
  BY <1>t, StageFacts DEF Current
<1>n. Current \in StageNames
  BY <1>t, StageFacts, PhaseFacts DEF Current
<1>e. /\ \A ok \in BOOLEAN : Ready(ok) \in Event
      /\ Completed \in Event /\ Failed \in Event
  <2>1. <<>> \in Seq(TableMutations)
    OBVIOUS
  <2>2. ASSUME NEW k \in {"ready", "completed", "failed"}, NEW s \in StageNames, NEW ok \in BOOLEAN,
               NEW h \in Seq(TableMutations)
        PROVE  [kind |-> k, stage |-> s, ok |-> ok, seen |-> h] \in Event
    BY <2>2 DEF Event
  <2> QED BY <2>1, <2>2, <1>t, <1>n, Zenon DEF Ready, Completed, Failed
<1>b. FixtureAbsent \in BOOLEAN
  BY Zenon DEF FixtureAbsent, TableAbsent
<1>w. ASSUME NEW e, NEW n, NEW f, w = Write(e, n, f)
      PROVE  w.event = e /\ w.next = n
  BY <1>w DEF Write
<1>r. ASSUME NEW ok
      PROVE  /\ Ready(ok).kind = "ready" /\ Ready(ok).stage = Current
             /\ Ready(ok).ok = ok /\ Ready(ok).seen = catalog.history
  BY DEF Ready
<1>1. CASE w \in Reports
  <2>1. Running /\ child.phase = "ready"
    BY <1>1, Zenon DEF Reports
  <2>2. CASE child.stage > 11
    <3>1. w = Write(Completed, Leaves(0), fault)
      BY <1>1, <2>1, <2>2, StageFacts, Zenon DEF Reports
    <3>2. child.stage = 12 /\ Completed.kind = "completed"
      BY <2>2, <1>t DEF Completed
    <3> QED BY <3>1, <3>2, <2>1, <1>w, <1>e, Zenon DEF Ends, Running
  <2>3. CASE child.stage <= 11
    <3>0. Current = Stages[child.stage] /\ child.stage \in 1..11 /\ ~(child.stage > Len(Stages))
      BY <1>s, <1>t, <2>3, StageFacts
    <3>1. CASE child.stage = 1
      <4>1. Current = "VerifyRuntime"
        BY <3>0, <3>1, StageFacts
      <4>2. \/ w = Write(Ready(TRUE), Advances, fault)
            \/ w = Write(Ready(FALSE), Advances, "runtime")
        BY <1>1, <2>1, <3>0, <4>1, ZenonT(60) DEF Reports
      <4>3. child.stage # 3
        BY <3>1
      <4>4. PICK ok \in BOOLEAN : w.event = Ready(ok) /\ w.next = Advances
        BY <4>2, <1>w, Zenon
      <4>5. /\ w.event \in Event /\ w.event.kind = "ready" /\ w.event.stage = Current
            /\ w.event.seen = catalog.history
        BY <4>4, <1>e, <1>r, Zenon
      <4>6. child.stage \in {1, 3}
        BY <3>1
      <4> QED BY <4>3, <4>4, <4>5, <4>6, <2>1, <3>0, Zenon DEF Passes, Running
    <3>2. CASE child.stage = 3
      <4>1. Current = "PreflightFixture" /\ Current # "VerifyRuntime"
        BY <3>0, <3>2, StageFacts
      <4>2. w = Write(Ready(FixtureAbsent), IF FixtureAbsent THEN Advances ELSE Leaves(3), fault)
        BY <1>1, <2>1, <3>0, <4>1, ZenonT(60) DEF Reports
      <4>3. CASE FixtureAbsent
        <5>1. w.event = Ready(FixtureAbsent) /\ w.next = Advances
          BY <4>2, <4>3, <1>w, Zenon
        <5>2. w.event.ok /\ w.event \in Event
          BY <4>3, <5>1, <1>r, <1>b, <1>e, Zenon
        <5>3. child.stage \in {1, 3}
          BY <3>2
        <5>4. /\ w.event.kind = "ready" /\ w.event.stage = Current
              /\ w.event.seen = catalog.history
          BY <5>1, <1>r, Zenon
        <5> QED BY <4>3, <5>1, <5>2, <5>3, <5>4, <2>1, <3>0, Zenon DEF Passes, Running
      <4>4. CASE ~FixtureAbsent
        <5>1. w.event = Ready(FixtureAbsent) /\ w.next = Leaves(3)
          BY <4>2, <4>4, <1>w, Zenon
        <5>2. ~w.event.ok /\ w.event \in Event
          BY <4>4, <5>1, <1>r, <1>b, <1>e, Zenon
        <5>0. Current = Stages[3]
          BY <3>0, <3>2
        <5>k. w.event.kind = "ready" /\ w.event.stage = Current
          BY <5>1, <1>r, Zenon
        <5>3. w.event.kind = "ready" /\ w.event.stage = Stages[3]
          BY <5>0, <5>k, SMTT(60)
        <5>4. Ends(w)
          BY <3>2, <5>1, <5>2, <5>3, SMTT(60) DEF Ends
        <5>5. child.phase # "stopping"
          BY <2>1
        <5> QED BY <5>2, <5>4, <5>5, <2>1, Zenon DEF Running
      <4> QED BY <4>3, <4>4
    <3>3. CASE child.stage \notin {1, 3}
      <4>1. Current # "VerifyRuntime" /\ Current # "PreflightFixture"
        BY <3>3, <3>0, StageFacts
      <4>2. Holds(Current) /\ w = Write(Ready(TRUE), Advances, fault)
        BY <1>1, <2>1, <3>0, <4>1, ZenonT(60) DEF Reports
      <4>3. child.stage # 3
        BY <3>3
      <4>4. w.event = Ready(TRUE) /\ w.next = Advances
        BY <4>2, <1>w, Zenon
      <4>5. /\ w.event \in Event /\ w.event.kind = "ready" /\ w.event.stage = Current
            /\ w.event.seen = catalog.history
        BY <4>4, <1>e, <1>r, Zenon
      <4> QED BY <4>2, <4>3, <4>4, <4>5, <2>1, <3>0, Zenon DEF Passes, Running
    <3> QED BY <3>1, <3>2, <3>3
  <2> QED BY <2>2, <2>3, <1>t
<1>2. CASE w \in Failures
  <2>1. Running /\ child.phase # "stopping" /\ ~(child.stage > Len(Stages))
    BY <1>2, Zenon DEF Failures
  <2>2. child.stage \in 1..11 /\ Current = Stages[child.stage]
    BY <2>1, <1>t, <1>s, StageFacts
  <2>3. Current = "PreflightFixture" => child.stage = 3
    BY <2>2, StageNumbers, Zenon
  <2>4. \/ w = Write(Ready(FALSE), Leaves(3), fault) /\ Current = "PreflightFixture"
        \/ w = Write(Failed, Leaves(2), fault)
    BY <1>2, <2>1, ZenonT(60) DEF Failures
  <2>5. Failed.kind = "failed"
    BY DEF Failed
  <2>6. CASE w = Write(Ready(FALSE), Leaves(3), fault) /\ Current = "PreflightFixture"
    <3>1. w.event = Ready(FALSE) /\ w.next = Leaves(3)
      BY <2>6, <1>w, Zenon
    <3>2. /\ w.event \in Event /\ w.event.kind = "ready" /\ w.event.stage = Current
          /\ ~w.event.ok
      BY <3>1, <1>e, <1>r, Zenon
    <3>3. Ends(w)
      BY <2>2, <2>3, <2>6, <3>1, <3>2, Zenon DEF Ends
    <3> QED BY <3>2, <3>3, <2>1, Zenon DEF Running
  <2>7. CASE w = Write(Failed, Leaves(2), fault)
    <3>1. w.event = Failed /\ w.next = Leaves(2)
      BY <2>7, <1>w, Zenon
    <3>2. Ends(w)
      BY <2>2, <2>5, <3>1, Zenon DEF Ends
    <3> QED BY <3>1, <3>2, <2>1, <1>e, Zenon DEF Running
  <2> QED BY <2>4, <2>6, <2>7, ZenonT(60)
<1> QED BY <1>1, <1>2

----------------------------------------------------------------------------
(* The steps *)

\* A return before the program was started, and a step towards it.
GivesUp ==
  /\ runner' = "returned" /\ child' = child
  /\ \E outcome : Return(BeforeProcess(outcome))
GoesOn ==
  /\ UNCHANGED workflowVars
  /\ \/ runner' \in {"start", "probe", "connect"} /\ child' = child
     \/ runner' = "program" /\ child' = [child EXCEPT !.state = "running"]
Starting ==
  /\ runner \in {"prepare", "start", "probe", "connect"}
  /\ UNCHANGED <<catalog, request, out>>
  /\ GivesUp \/ GoesOn

\* The steps that lead up to the program touch neither the catalog nor the
\* events (execute, RunningTrinoServer::start).
LEMMA StartingSteps ==
  ASSUME Prepare \/ StartServer \/ Probe \/ ConnectObservers
  PROVE  Starting
<1>1. CASE Prepare
  BY <1>1, SMTT(60) DEF Prepare, Gives, Starting, GivesUp, GoesOn, programVars
<1>2. CASE StartServer
  BY <1>2, SMTT(60) DEF StartServer, Gives, Starting, GivesUp, GoesOn, programVars
<1>3. CASE Probe
  BY <1>3, SMTT(60) DEF Probe, Gives, Starting, GivesUp, GoesOn, programVars
<1>4. CASE ConnectObservers
  BY <1>4, SMTT(60) DEF ConnectObservers, Gives, Starting, GivesUp, GoesOn, programVars
<1> QED BY <1>1, <1>2, <1>3, <1>4

\* What becomes of a request: the catalog leaves the table and the namespace
\* as they are, executes the request, or commits it twice; a child that waits
\* may learn of it.
Executed ==
  /\ request # "none" /\ request' = "none"
  /\ child' \in {child, Answered}
  /\ \/ UNCHANGED catalog
     \/ Accepts(request) /\ catalog' = After(request)
     \/ /\ request \in Appends /\ catalog.table # "absent"
        /\ catalog' = [catalog EXCEPT !.history = @ \o <<request, request>>]
Forgotten ==
  /\ UNCHANGED <<request, child>>
  /\ Len(catalog.history) > 1
  /\ catalog' = [catalog EXCEPT !.history = SubSeq(@, 1, Len(@) - 1)]

\* A step of the catalog is one of these, with the program's events untouched.
LEMMA CatalogSteps ==
  ASSUME CatalogAnswers
  PROVE  (Executed \/ Forgotten) /\ out' = out
<1>1. CASE CatalogExecutes \/ CatalogDrops
  BY <1>1, Zenon DEF CatalogExecutes, CatalogDrops, Executed
<1>2. CASE CatalogErrs
  BY <1>2, SMTT(60) DEF CatalogErrs, Executed
<1>3. CASE CatalogForgets
  BY <1>3, SMTT(60) DEF CatalogForgets, Forgotten
<1> QED BY <1>1, <1>2, <1>3 DEF CatalogAnswers, CatalogActs

\* The steps of the workflow: what they do to the table and the namespace.
Cleaning ==
  /\ Returned
  /\ UNCHANGED <<request, child, out, process>>
  /\ \/ UNCHANGED catalog
     \/ execution.at = "drop_table" /\ catalog' = Dropped("table")
     \/ /\ execution.at = "drop_namespace" /\ catalog.table = "absent"
        /\ catalog' = Dropped("namespace")
  /\ execution'.at # "runner"

\* Every step of a run, by what it does to the state of the program.
LEMMA StepCases ==
  ASSUME [Next]_vars
  PROVE  \/ Starting /\ (Prepare \/ StartServer \/ Probe \/ ConnectObservers)
         \/ ProgramEnds \/ ProgramPanics \/ ServerDies
         \/ runner = "program" /\ Sends /\ UNCHANGED <<workflowVars, runnerVars>>
         \/ runner = "program" /\ Writes /\ UNCHANGED <<workflowVars, runnerVars>>
         \/ (Executed \/ Forgotten) /\ out' = out /\ UNCHANGED <<workflowVars, runnerVars>>
         \/ WorkflowActs /\ UNCHANGED runnerVars
         \/ UNCHANGED vars
BY StartingSteps, CatalogSteps, ZenonT(60) DEF Next, RunnerActs, ProgramActs, Done

\* A step of the workflow follows the runner's return; it drops what the
\* fixture's names stand for and keeps the shape of the evidence.
LEMMA WorkflowSteps ==
  ASSUME Typed, WorkflowActs
  PROVE  Cleaning /\ execution' \in Execution
<1>c. ASSUME NEW e \in Execution PROVE Finalize(e) \in Execution /\ Finalize(e).at = "done"
  <2>1. Classification(e) \in {"Pass", "Fail", "FixtureCollision"}
    BY Zenon DEF Classification
  <2>2. Finalize(e) \in Execution
    BY <1>c, <2>1, ZenonT(60) DEF Finalize, Execution, Steps
  <2>3. Finalize(e).at = "done"
    BY <1>c, SMTT(60) DEF Finalize, Execution
  <2> QED BY <2>2, <2>3
<1>t. /\ execution \in Execution /\ catalog.history \in Seq(TableMutations)
      /\ <<>> \in Seq(TableMutations)
  BY DEF Typed
<1>p. ASSUME NEW r, NEW ok PROVE Presence(r, ok) \in Statuses
  BY Zenon DEF Presence, Statuses
<1>u. UNCHANGED <<request, child, out, process>>
  BY DEF WorkflowActs
<1>1. CASE Unauthorized
  BY <1>1, <1>c, <1>t, <1>u, SMTT(60) DEF Unauthorized, Called, Cleaning, Returned
<1>2. CASE Connect
  <2>1. [execution EXCEPT !.connection = "ok", !.at = "load"] \in Execution
    BY <1>t, ZenonT(60) DEF Execution, Steps, Statuses
  <2>2. [execution EXCEPT !.connection = "failed"] \in Execution
    BY <1>t, SMTT(60) DEF Execution, Statuses
  <2>3. [execution EXCEPT !.connection = "ok", !.at = "load"].at = "load"
    BY <1>t, SMTT(60) DEF Execution
  <2> QED BY <1>2, <2>1, <2>2, <2>3, <1>c, <1>u, SMTT(60) DEF Connect, Called, Cleaning, Returned
<1>3. CASE LoadTable
  <2>1. PICK s \in Statuses, h \in Seq(TableMutations) :
          execution' = [execution EXCEPT !.at = "audit", !.state = s, !.loaded = h]
    BY <1>3, <1>t, <1>p, ZenonT(60) DEF LoadTable, Called
  <2>2. execution' \in Execution /\ execution'.at = "audit"
    <3>1. execution' \in Execution
      BY <2>1, <1>t, ZenonT(60) DEF Execution, Steps
    <3>2. execution'.at = "audit"
      BY <2>1, <1>t, SMTT(60) DEF Execution
    <3> QED BY <3>1, <3>2
  <2> QED BY <1>3, <2>2, <1>u, SMTT(60) DEF LoadTable, Cleaning, Returned
<1>4. CASE AuditObjectState
  <2>1. PICK s \in Statuses : execution' = [execution EXCEPT !.at = "drop_table", !.audit = s]
    BY <1>4, ZenonT(60) DEF AuditObjectState, Called, Statuses
  <2>2. execution' \in Execution /\ execution'.at = "drop_table"
    <3>1. execution' \in Execution
      BY <2>1, <1>t, ZenonT(60) DEF Execution, Steps
    <3>2. execution'.at = "drop_table"
      BY <2>1, <1>t, SMTT(60) DEF Execution
    <3> QED BY <3>1, <3>2
  <2> QED BY <1>4, <2>2, <1>u, SMTT(60) DEF AuditObjectState, Cleaning, Returned
<1>5. CASE DropTable
  <2>1. PICK s \in Statuses :
          execution' = [execution EXCEPT !["drop_table"] = s, !.at = "verify_table"]
    BY <1>5, ZenonT(60) DEF DropTable, Drop, Called, Statuses
  <2>2. execution' \in Execution /\ execution'.at = "verify_table"
    <3>1. execution' \in Execution
      BY <2>1, <1>t, ZenonT(60) DEF Execution, Steps
    <3>2. execution'.at = "verify_table"
      BY <2>1, <1>t, ZenonT(60) DEF Execution
    <3> QED BY <3>1, <3>2
  <2>3. execution.at = "drop_table" /\ (UNCHANGED catalog \/ catalog' = Dropped("table"))
    BY <1>5, Zenon DEF DropTable, Drop
  <2> QED BY <2>2, <2>3, <1>u, SMTT(60) DEF Cleaning, Returned
<1>6. CASE VerifyTable
  <2>1. PICK s \in Statuses :
          execution' = [execution EXCEPT !.at = "drop_namespace", !.verify_table = s]
    BY <1>6, <1>p, ZenonT(60) DEF VerifyTable, Called
  <2>2. execution' \in Execution /\ execution'.at = "drop_namespace"
    <3>1. execution' \in Execution
      BY <2>1, <1>t, ZenonT(60) DEF Execution, Steps
    <3>2. execution'.at = "drop_namespace"
      BY <2>1, <1>t, SMTT(60) DEF Execution
    <3> QED BY <3>1, <3>2
  <2> QED BY <1>6, <2>2, <1>u, SMTT(60) DEF VerifyTable, Cleaning, Returned
<1>7. CASE DropNamespace
  <2>1. PICK s \in Statuses :
          execution' = [execution EXCEPT !["drop_namespace"] = s, !.at = "verify_namespace"]
    BY <1>7, ZenonT(60) DEF DropNamespace, Drop, Called, Statuses
  <2>2. execution' \in Execution /\ execution'.at = "verify_namespace"
    <3>1. execution' \in Execution
      BY <2>1, <1>t, ZenonT(60) DEF Execution, Steps
    <3>2. execution'.at = "verify_namespace"
      BY <2>1, <1>t, ZenonT(60) DEF Execution
    <3> QED BY <3>1, <3>2
  <2>3. /\ execution.at = "drop_namespace"
        /\ UNCHANGED catalog \/ (catalog.table = "absent" /\ catalog' = Dropped("namespace"))
    BY <1>7, Zenon DEF DropNamespace, Drop
  <2> QED BY <2>2, <2>3, <1>u, SMTT(60) DEF Cleaning, Returned
<1>8. CASE VerifyNamespace
  <2>1. PICK s \in Statuses :
          execution' = Finalize([execution EXCEPT !.verify_namespace = s])
    BY <1>8, <1>p, ZenonT(60) DEF VerifyNamespace, Called
  <2>2. [execution EXCEPT !.verify_namespace = s] \in Execution
    BY <1>t, SMTT(60) DEF Execution
  <2> QED BY <1>8, <2>1, <2>2, <1>c, <1>u, SMTT(60) DEF VerifyNamespace, Cleaning, Returned
<1> QED BY <1>1, <1>2, <1>3, <1>4, <1>5, <1>6, <1>7, <1>8, Zenon DEF WorkflowActs

\* What a request does when it is executed, by the request.
LEMMA AfterCases ==
  /\ After("CreateNamespace") =
       IF catalog.namespace = "absent" THEN [catalog EXCEPT !.namespace = "owned"] ELSE catalog
  /\ After("CreateTable") =
       [catalog EXCEPT !.table = "owned", !.history = <<"CreateTable">>]
  /\ \A m : m # "CreateNamespace" /\ m # "CreateTable" =>
       After(m) = [catalog EXCEPT !.history = Append(catalog.history, m)]
<1>1. "CreateTable" # "CreateNamespace"
  OBVIOUS
<1> QED BY <1>1, ZenonT(60) DEF After

\* Every step keeps the types.
LEMMA TypedNext ==
  ASSUME Typed, RunnerInv, RequestInv, [Next]_vars
  PROVE  Typed'
<1>t. /\ catalog \in [namespace : Owners, table : Owners, history : Seq(TableMutations)]
      /\ request \in Mutations \cup {"none"} /\ child \in Children /\ out \in Seq(Event)
      /\ execution \in Execution
      /\ runner \in {"prepare", "start", "probe", "connect", "program", "returned"}
      /\ server \in {"none", "running", "stopped"}
  BY DEF Typed
<1>r. [execution EXCEPT !.at = "connect"] \in Execution
  BY <1>t, SMTT(60) DEF Execution, Steps
<1>x. ASSUME NEW s \in {"running", "exited"} PROVE [child EXCEPT !.state = s] \in Children
  BY <1>t, SMTT(60) DEF Children
<1>e. StopsServer \in {"none", "running", "stopped"}
  BY <1>t, Zenon DEF StopsServer
<1>1. CASE Starting /\ (Prepare \/ StartServer \/ Probe \/ ConnectObservers)
  <2>1. server' \in {"none", "running", "stopped"}
    BY <1>1, <1>t, <1>e, SMTT(60) DEF Prepare, StartServer, Probe, ConnectObservers
  <2>2. runner' \in {"start", "probe", "connect", "program", "returned"}
    BY <1>1, SMTT(60) DEF Starting, GivesUp, GoesOn
  <2>3. child' \in Children
    BY <1>1, <1>t, <1>x, SMTT(60) DEF Starting, GivesUp, GoesOn
  <2>4. execution' \in Execution
    BY <1>1, <1>t, <1>r, SMTT(60) DEF Starting, GivesUp, GoesOn, Return, workflowVars
  <2> QED BY <1>1, <1>t, <2>1, <2>2, <2>3, <2>4, SMTT(60) DEF Starting, Typed
<1>2. CASE ProgramEnds \/ ProgramPanics
  <2>1. /\ child' \in Children /\ execution' \in Execution /\ out' = <<>>
        /\ runner' = "returned" /\ server' = StopsServer /\ UNCHANGED <<catalog, request>>
    BY <1>2, <1>r, <1>x, SMTT(60) DEF ProgramEnds, ProgramPanics, Gives, Return
  <2> QED BY <2>1, <1>t, <1>e, SMTT(60) DEF Typed
<1>3. CASE ServerDies
  BY <1>3, <1>t, SMTT(60) DEF ServerDies, programVars, workflowVars, Typed
<1>4. CASE runner = "program" /\ Sends /\ UNCHANGED <<workflowVars, runnerVars>>
  <2>1. Current \in Mutations
    BY <1>4, <1>t, StageFacts DEF Sends, ChildSends, RequestInv, Current, Observed, Children
  <2>2. [child EXCEPT !.phase = "waiting"] \in Children
    BY <1>t, SMTT(60) DEF Children
  <2> QED BY <1>4, <2>1, <2>2, <1>t, SMTT(60) DEF Sends, ChildSends, workflowVars, runnerVars, Typed
<1>5. CASE runner = "program" /\ Writes /\ UNCHANGED <<workflowVars, runnerVars>>
  <2>1. PICK w \in Reports \cup Failures : out' = Append(out, w.event) /\ child' = w.next
    BY <1>5, Zenon DEF Writes
  <2>2. w.event \in Event /\ (Passes(w) \/ Ends(w))
    BY <2>1, WriteCases
  <2>3. out' \in Seq(Event)
    BY <2>1, <2>2, <1>t
  <2>4. CASE Passes(w)
    <3>1. child.stage + 1 \in 1..12 /\ PhaseOf(child.stage + 1) \in {"work", "ready"}
      BY <2>4, PhaseFacts DEF Passes
    <3>2. child' = [child EXCEPT !.stage = child.stage + 1, !.phase = PhaseOf(child.stage + 1)]
      BY <2>1, <2>4 DEF Passes, Advances
    <3>3. child.stage + 1 \in 1..(Len(Stages) + 1)
      BY <3>1, StageFacts
    <3>4. PhaseOf(child.stage + 1) \in {"work", "waiting", "ready", "stopping"}
      BY <3>1
    <3>5. child' \in Children
      BY <3>2, <3>3, <3>4, <1>t, ZenonT(60) DEF Children
    <3> QED BY <1>5, <2>3, <3>5, <1>t, SMTT(60) DEF Writes, workflowVars, runnerVars, Typed
  <2>5. CASE Ends(w)
    <3>1. \E code \in {0, 2, 3} : child' = Leaves(code)
      BY <2>1, <2>5, SMTT(60) DEF Ends
    <3>2. PICK code \in {NoCode} \cup 0..3 : child' = Leaves(code)
      <4>1. {0, 2, 3} \subseteq {NoCode} \cup 0..3
        OBVIOUS
      <4> QED BY <3>1, <4>1, Zenon
    <3>3. child' \in Children
      BY <3>2, <1>t, ZenonT(60) DEF Leaves, Children
    <3> QED BY <1>5, <2>3, <3>3, <1>t, SMTT(60) DEF Writes, workflowVars, runnerVars, Typed
  <2> QED BY <2>2, <2>4, <2>5
<1>6. CASE (Executed \/ Forgotten) /\ out' = out /\ UNCHANGED <<workflowVars, runnerVars>>
  <2>1. child' \in Children
    <3>1. Answered \in Children
      BY <1>t, SMTT(60) DEF Answered, Children
    <3> QED BY <1>6, <3>1, <1>t, SMTT(60) DEF Executed, Forgotten
  <2>2. request' \in Mutations \cup {"none"}
    BY <1>6, <1>t, SMTT(60) DEF Executed, Forgotten
  <2>3. catalog' \in [namespace : Owners, table : Owners, history : Seq(TableMutations)]
    <3>1. CASE UNCHANGED catalog
      BY <3>1, <1>t
    <3>2. CASE request # "none" /\ Accepts(request) /\ catalog' = After(request)
      <4>1. CASE request = "CreateNamespace"
        BY <3>2, <4>1, <1>t, AfterCases, ZenonT(60) DEF Owners
      <4>2. CASE request # "CreateNamespace"
        <5>1. request \in TableMutations
          BY <3>2, <4>2, <1>t DEF TableMutations
        <5>2. <<request>> \in Seq(TableMutations) /\ Append(catalog.history, request) \in Seq(TableMutations)
          BY <5>1, <1>t
        <5>3. CASE request = "CreateTable"
          <6>1. catalog' = [catalog EXCEPT !.table = "owned", !.history = <<request>>]
            BY <3>2, <5>3, AfterCases
          <6> QED BY <6>1, <5>2, <1>t, ZenonT(60) DEF Owners
        <5>4. CASE request # "CreateTable"
          <6>1. catalog' = [catalog EXCEPT !.history = Append(catalog.history, request)]
            BY <3>2, <4>2, <5>4, AfterCases
          <6> QED BY <6>1, <5>2, <1>t, ZenonT(60)
        <5> QED BY <5>3, <5>4
      <4> QED BY <4>1, <4>2
    <3>3. CASE /\ request \in Appends
               /\ catalog' = [catalog EXCEPT !.history = @ \o <<request, request>>]
      <4>1. request \in TableMutations
        BY <3>3 DEF Appends, TableMutations, Mutations
      <4>2. catalog.history \o <<request, request>> \in Seq(TableMutations)
        BY <4>1, <1>t
      <4> QED BY <3>3, <4>2, <1>t, ZenonT(60)
    <3>4. CASE Forgotten
      <4>1. SubSeq(catalog.history, 1, Len(catalog.history) - 1) \in Seq(TableMutations)
        BY <3>4, <1>t DEF Forgotten
      <4>2. catalog' = [catalog EXCEPT !.history = SubSeq(catalog.history, 1, Len(catalog.history) - 1)]
        BY <3>4, Zenon DEF Forgotten
      <4> QED BY <4>1, <4>2, <1>t, ZenonT(60)
    <3> QED BY <1>6, <3>1, <3>2, <3>3, <3>4, Zenon DEF Executed
  <2> QED BY <1>6, <2>1, <2>2, <2>3, <1>t, SMTT(60) DEF workflowVars, runnerVars, Typed
<1>7. CASE WorkflowActs /\ UNCHANGED runnerVars
  <2>1. Cleaning /\ execution' \in Execution
    BY <1>7, WorkflowSteps
  <2>2. Dropped("table") \in [namespace : Owners, table : Owners, history : Seq(TableMutations)]
    <3>1. <<>> \in Seq(TableMutations)
      OBVIOUS
    <3> QED BY <3>1, <1>t, ZenonT(60) DEF Dropped, Owners
  <2>3. Dropped("namespace") \in [namespace : Owners, table : Owners, history : Seq(TableMutations)]
    BY <1>t, SMTT(60) DEF Dropped, Owners
  <2>4. catalog' \in [namespace : Owners, table : Owners, history : Seq(TableMutations)]
    BY <2>1, <2>2, <2>3, <1>t, Zenon DEF Cleaning
  <2> QED BY <1>7, <2>1, <2>4, <1>t, SMTT(60) DEF Cleaning, runnerVars, Typed
<1>8. CASE UNCHANGED vars
  BY <1>8, <1>t, SMTT(60) DEF vars, programVars, workflowVars, runnerVars, Typed
<1> QED BY StepCases, <1>1, <1>2, <1>3, <1>4, <1>5, <1>6, <1>7, <1>8, Zenon

----------------------------------------------------------------------------
(* What the runner hands over *)

\* What a write does to the child: it goes on to the next stage, or leaves.
LEMMA WriteMoves ==
  ASSUME Typed, NEW w \in Reports \cup Failures
  PROVE  /\ Passes(w) => /\ w.next.state = child.state /\ w.next.code = child.code
                         /\ w.next.stage = child.stage + 1
                         /\ w.next.phase = IF w.next.stage \in {4, 5, 6, 8, 9} THEN "work" ELSE "ready"
         /\ Ends(w) => /\ w.next.state = child.state /\ w.next.stage = child.stage
                       /\ w.next.phase = "stopping" /\ w.next.code \in {0, 2, 3}
                       /\ w.next.code = 0 => child.stage = 12 /\ child.phase = "ready"
                       /\ w.next.code = 3 => child.stage = 3
<1>t. child \in Children
  BY DEF Typed
<1>1. ASSUME Passes(w)
      PROVE  /\ w.next.state = child.state /\ w.next.code = child.code
             /\ w.next.stage = child.stage + 1
             /\ w.next.phase = IF w.next.stage \in {4, 5, 6, 8, 9} THEN "work" ELSE "ready"
  <2>1. child.stage + 1 \in 1..12
    BY <1>1 DEF Passes
  <2>2. PhaseOf(child.stage + 1) = IF child.stage + 1 \in {4, 5, 6, 8, 9} THEN "work" ELSE "ready"
    BY <2>1, PhaseFacts, Zenon
  <2> QED BY <1>1, <2>2, <1>t, SMTT(60) DEF Passes, Advances, Children
<1>2. ASSUME Ends(w)
      PROVE  /\ w.next.state = child.state /\ w.next.stage = child.stage
             /\ w.next.phase = "stopping" /\ w.next.code \in {0, 2, 3}
             /\ w.next.code = 0 => child.stage = 12 /\ child.phase = "ready"
             /\ w.next.code = 3 => child.stage = 3
  <2>1. \E code \in {0, 2, 3} :
          /\ w.next = Leaves(code)
          /\ code = 0 => child.stage = 12 /\ child.phase = "ready"
          /\ code = 3 => child.stage = 3
    BY <1>2, SMTT(60) DEF Ends
  <2>2. PICK code \in {0, 2, 3} :
          /\ w.next = Leaves(code)
          /\ code = 0 => child.stage = 12 /\ child.phase = "ready"
          /\ code = 3 => child.stage = 3
    BY <2>1
  <2>3. /\ Leaves(code).state = child.state /\ Leaves(code).stage = child.stage
        /\ Leaves(code).phase = "stopping" /\ Leaves(code).code = code
    BY <1>t, SMTT(60) DEF Leaves, Children
  <2> QED BY <2>2, <2>3, SMTT(60)
<1> QED BY <1>1, <1>2, Zenon

\* A child that is answered stays at its stage.
LEMMA AnsweredChild ==
  ASSUME Typed
  PROVE  /\ Answered.state = child.state /\ Answered.stage = child.stage
         /\ Answered.code = child.code
         /\ Answered.phase = IF child.state = "running" /\ child.phase = "waiting"
                               THEN "ready" ELSE child.phase
BY SMTT(60) DEF Typed, Answered, Running, Children

\* The runner, the process and the server stay in step.
LEMMA RunnerInvNext ==
  ASSUME Typed, RunnerInv, [Next]_vars
  PROVE  RunnerInv'
<1>t. /\ child \in Children /\ execution \in Execution
      /\ runner \in {"prepare", "start", "probe", "connect", "program", "returned"}
  BY DEF Typed
<1>r. [execution EXCEPT !.at = "connect"].at = "connect"
  BY <1>t, SMTT(60) DEF Execution
<1>x. ASSUME NEW s
      PROVE  [child EXCEPT !.state = s].state = s /\ [child EXCEPT !.state = s].stage = child.stage
  BY <1>t, SMTT(60) DEF Children
<1>e. StopsServer # "running"
  BY DEF StopsServer
<1>1. CASE Starting /\ (Prepare \/ StartServer \/ Probe \/ ConnectObservers)
  <2>1. runner' \in {"start", "returned"} => server' # "running"
    BY <1>1, <1>e, SMTT(60) DEF Prepare, StartServer, Probe, ConnectObservers, RunnerInv
  <2>2. CASE GivesUp
    <3>1. execution'.at = "connect" /\ runner' = "returned" /\ child' = child
      BY <2>2, <1>r DEF GivesUp, Return
    <3>2. runner \notin {"program", "returned"}
      BY <1>1 DEF Starting
    <3> QED BY <1>1, <2>1, <3>1, <3>2, SMTT(60) DEF RunnerInv, Returned
  <2>3. CASE GoesOn
    <3>1. runner \notin {"program", "returned"} /\ out' = out /\ UNCHANGED execution
      BY <1>1, <2>3 DEF Starting, GoesOn, workflowVars
    <3>2. \/ runner' \in {"start", "probe", "connect"} /\ child' = child
          \/ runner' = "program" /\ child'.state = "running"
      BY <2>3, <1>x, ZenonT(60) DEF GoesOn
    <3> QED BY <2>1, <3>1, <3>2, SMTT(60) DEF RunnerInv, Returned
  <2> QED BY <1>1, <2>2, <2>3 DEF Starting
<1>2. CASE ProgramEnds \/ ProgramPanics
  <2>1. /\ execution'.at = "connect" /\ runner' = "returned" /\ child'.state = "exited"
        /\ server' # "running"
    BY <1>2, <1>e, <1>r, <1>x, ZenonT(60) DEF ProgramEnds, ProgramPanics, Gives, Return
  <2> QED BY <2>1, SMTT(60) DEF RunnerInv, Returned
<1>3. CASE ServerDies
  BY <1>3, SMTT(60) DEF ServerDies, programVars, workflowVars, RunnerInv, Returned
<1>4. CASE runner = "program" /\ Sends /\ UNCHANGED <<workflowVars, runnerVars>>
  <2>1. child'.state = child.state
    BY <1>4, <1>t, SMTT(60) DEF Sends, ChildSends, Children
  <2> QED BY <1>4, <2>1, SMTT(60) DEF workflowVars, runnerVars, RunnerInv, Returned
<1>5. CASE runner = "program" /\ Writes /\ UNCHANGED <<workflowVars, runnerVars>>
  <2>1. PICK w \in Reports \cup Failures : child' = w.next
    BY <1>5, Zenon DEF Writes
  <2>2. child'.state = child.state
    BY <2>1, WriteCases, WriteMoves
  <2> QED BY <1>5, <2>2, SMTT(60) DEF workflowVars, runnerVars, RunnerInv, Returned
<1>6. CASE (Executed \/ Forgotten) /\ out' = out /\ UNCHANGED <<workflowVars, runnerVars>>
  <2>1. child'.state = child.state /\ child'.stage = child.stage
    BY <1>6, AnsweredChild, SMTT(60) DEF Executed, Forgotten
  <2> QED BY <1>6, <2>1, SMTT(60) DEF workflowVars, runnerVars, RunnerInv, Returned
<1>7. CASE WorkflowActs /\ UNCHANGED runnerVars
  <2>1. Cleaning
    BY <1>7, WorkflowSteps
  <2> QED BY <1>7, <2>1, SMTT(60) DEF Cleaning, runnerVars, RunnerInv, Returned
<1>8. CASE UNCHANGED vars
  BY <1>8, SMTT(60) DEF vars, programVars, workflowVars, runnerVars, RunnerInv, Returned
<1> QED BY StepCases, <1>1, <1>2, <1>3, <1>4, <1>5, <1>6, <1>7, <1>8, Zenon

\* Requests are sent from the stages that mutate, one at a time, and no program
\* completes with one under way.
LEMMA RequestInvNext ==
  ASSUME Typed, RunnerInv, RequestInv, [Next]_vars
  PROVE  RequestInv'
<1>t. child \in Children /\ child.stage \in 1..12
  BY StageFacts DEF Typed, Children
<1>x. ASSUME NEW s
      PROVE  /\ [child EXCEPT !.state = s].phase = child.phase /\ [child EXCEPT !.state = s].stage = child.stage
             /\ [child EXCEPT !.state = s].code = child.code
  BY <1>t, SMTT(60) DEF Children
<1>k. ASSUME request' = request, child'.phase = child.phase, child'.stage = child.stage,
             child'.code = child.code
      PROVE  RequestInv'
  BY <1>k, Zenon DEF RequestInv
<1>1. CASE Starting /\ (Prepare \/ StartServer \/ Probe \/ ConnectObservers)
  BY <1>1, <1>k, <1>x, Zenon DEF Starting, GivesUp, GoesOn
<1>2. CASE ProgramEnds \/ ProgramPanics
  BY <1>2, <1>k, <1>x, Zenon DEF ProgramEnds, ProgramPanics
<1>3. CASE ServerDies
  BY <1>3, <1>k, Zenon DEF ServerDies, programVars
<1>4. CASE runner = "program" /\ Sends /\ UNCHANGED <<workflowVars, runnerVars>>
  <2>1. /\ child.phase = "work" /\ request' = Current
        /\ child'.phase = "waiting" /\ child'.stage = child.stage /\ child'.code = child.code
    BY <1>4, <1>t, SMTT(60) DEF Sends, ChildSends, Children
  <2>2. child.stage <= 11 /\ Stages[child.stage] \in Mutations
    BY <2>1 DEF RequestInv, Observed
  <2>3. Current = Stages[child.stage]
    BY <2>2, <1>t, StageFacts DEF Current
  <2> QED BY <2>1, <2>2, <2>3, SMTT(60) DEF RequestInv, Observed, NoCode
<1>5. CASE runner = "program" /\ Writes /\ UNCHANGED <<workflowVars, runnerVars>>
  <2>1. PICK w \in Reports \cup Failures : child' = w.next
    BY <1>5, Zenon DEF Writes
  <2>0. request' = request
    BY <1>5 DEF Writes
  <2>2. child.phase # "stopping" /\ (Passes(w) \/ Ends(w))
    BY WriteCases, SMTT(60)
  <2>3. CASE Passes(w)
    <3>1. request = "none" /\ child.code = NoCode
      BY <2>3, SMTT(60) DEF Passes, RequestInv
    <3>2. /\ child'.code = NoCode /\ child'.stage \in 1..12
          /\ child'.phase = IF child'.stage \in {4, 5, 6, 8, 9} THEN "work" ELSE "ready"
      BY <2>1, <2>3, <3>1, WriteMoves, SMTT(60) DEF Passes
    <3>3. child'.phase \in {"work", "waiting"} => child'.stage \in 1..11 /\ child'.stage \in {4, 5, 6, 8, 9}
      BY <3>2
    <3>4. child'.phase \in {"work", "waiting"} => child'.stage <= 11 /\ Stages[child'.stage] \in Mutations
      BY <3>3, PhaseFacts
    <3> QED BY <2>0, <3>1, <3>2, <3>4, SMTT(60) DEF RequestInv, Observed, NoCode
  <2>4. CASE Ends(w)
    <3>1. /\ child'.stage = child.stage /\ child'.phase = "stopping" /\ child'.code \in {0, 2, 3}
          /\ child'.code = 0 => child.phase = "ready"
          /\ child'.code = 3 => child.stage = 3
      BY <2>1, <2>4, WriteMoves
    <3> QED BY <2>0, <3>1, SMTT(60) DEF RequestInv, Preflight
  <2> QED BY <2>2, <2>3, <2>4
<1>6. CASE (Executed \/ Forgotten) /\ out' = out /\ UNCHANGED <<workflowVars, runnerVars>>
  <2>1. CASE Forgotten
    BY <2>1, <1>k, Zenon DEF Forgotten
  <2>2. CASE Executed
    <3>1. /\ request' = "none" /\ child'.stage = child.stage /\ child'.code = child.code
          /\ child'.phase = child.phase \/ (child'.phase = "ready" /\ child.phase = "waiting")
      BY <2>2, AnsweredChild, SMTT(60) DEF Executed
    <3> QED BY <3>1, SMTT(60) DEF RequestInv
  <2> QED BY <1>6, <2>1, <2>2
<1>7. CASE WorkflowActs /\ UNCHANGED runnerVars
  <2>1. Cleaning
    BY <1>7, WorkflowSteps
  <2> QED BY <2>1, <1>k, Zenon DEF Cleaning
<1>8. CASE UNCHANGED vars
  BY <1>8, <1>k, Zenon DEF vars, programVars
<1> QED BY StepCases, <1>1, <1>2, <1>3, <1>4, <1>5, <1>6, <1>7, <1>8, Zenon

\* Before the preflight is reported, no step sends anything to the catalog.
LEMMA UntouchedNext ==
  ASSUME Typed, RunnerInv, RequestInv, Untouched, [Next]_vars
  PROVE  Untouched'
<1>t. /\ child \in Children /\ child.stage \in 1..12
      /\ catalog \in [namespace : Owners, table : Owners, history : Seq(TableMutations)]
  BY StageFacts DEF Typed, Children
<1>x. ASSUME NEW s PROVE [child EXCEPT !.state = s].stage = child.stage
  BY <1>t, SMTT(60) DEF Children
<1>k. ASSUME request' = request, catalog' = catalog, child'.stage = child.stage PROVE Untouched'
  BY <1>k, Zenon DEF Untouched
<1>1. CASE Starting /\ (Prepare \/ StartServer \/ Probe \/ ConnectObservers)
  BY <1>1, <1>k, <1>x, Zenon DEF Starting, GivesUp, GoesOn
<1>2. CASE ProgramEnds \/ ProgramPanics
  BY <1>2, <1>k, <1>x, Zenon DEF ProgramEnds, ProgramPanics
<1>3. CASE ServerDies
  BY <1>3, <1>k, Zenon DEF ServerDies, programVars
<1>4. CASE runner = "program" /\ Sends /\ UNCHANGED <<workflowVars, runnerVars>>
  <2>1. child.phase = "work" /\ child'.stage = child.stage
    BY <1>4, <1>t, SMTT(60) DEF Sends, ChildSends, Children
  <2>2. child.stage \in 1..11 /\ child.stage \in {4, 5, 6, 8, 9}
    BY <2>1, <1>t, PhaseFacts DEF RequestInv, Observed
  <2> QED BY <2>1, <2>2, SMTT(60) DEF Untouched, Preflight
<1>5. CASE runner = "program" /\ Writes /\ UNCHANGED <<workflowVars, runnerVars>>
  <2>1. PICK w \in Reports \cup Failures : child' = w.next
    BY <1>5, Zenon DEF Writes
  <2>2. child'.stage = child.stage \/ child'.stage = child.stage + 1
    BY <2>1, WriteCases, WriteMoves, SMTT(60)
  <2> QED BY <1>5, <2>2, <1>t, SMTT(60) DEF Writes, Untouched, Preflight
<1>6. CASE (Executed \/ Forgotten) /\ out' = out /\ UNCHANGED <<workflowVars, runnerVars>>
  <2>1. CASE Executed
    <3>1. request # "none" /\ child'.stage = child.stage
      BY <2>1, AnsweredChild, SMTT(60) DEF Executed
    <3> QED BY <3>1, SMTT(60) DEF Untouched
  <2>2. CASE Forgotten
    <3>1. catalog'.namespace = catalog.namespace
      BY <2>2, <1>t, SMTT(60) DEF Forgotten
    <3> QED BY <2>2, <3>1, SMTT(60) DEF Forgotten, Untouched
  <2> QED BY <1>6, <2>1, <2>2
<1>7. CASE WorkflowActs /\ UNCHANGED runnerVars
  <2>1. Cleaning
    BY <1>7, WorkflowSteps
  <2>2. /\ Dropped("table").namespace = catalog.namespace
        /\ Dropped("namespace").namespace = "absent"
    BY <1>t, SMTT(60) DEF Dropped
  <2>3. catalog'.namespace \in {catalog.namespace, "absent"}
    BY <2>1, <2>2, SMTT(60) DEF Cleaning
  <2> QED BY <2>1, <2>3, SMTT(60) DEF Cleaning, Untouched
<1>8. CASE UNCHANGED vars
  BY <1>8, <1>k, Zenon DEF vars, programVars
<1> QED BY StepCases, <1>1, <1>2, <1>3, <1>4, <1>5, <1>6, <1>7, <1>8, Zenon

\* The report of the preflight stays with the events, and the runner hands the
\* events over unless the task panicked.
LEMMA CoveredInvNext ==
  ASSUME Typed, RunnerInv, RequestInv, CoveredInv, [Next]_vars
  PROVE  CoveredInv'
<1>t. child \in Children /\ child.stage \in 1..12 /\ out \in Seq(Event)
  BY StageFacts DEF Typed, Children
<1>x. ASSUME NEW s PROVE [child EXCEPT !.state = s].stage = child.stage
  BY <1>t, SMTT(60) DEF Children
<1>k. ASSUME child'.stage = child.stage, out' = out, runner' = runner, process' = process
      PROVE  CoveredInv'
  BY <1>k, Zenon DEF CoveredInv, CleanupAuthorized
<1>1. CASE Starting /\ (Prepare \/ StartServer \/ Probe \/ ConnectObservers)
  <2>1. child'.stage = child.stage
    BY <1>1, <1>x, Zenon DEF Starting, GivesUp, GoesOn
  <2>2. child.stage = 1
    BY <1>1, SMTT(60) DEF Starting, RunnerInv
  <2> QED BY <2>1, <2>2, SMTT(60) DEF CoveredInv, Preflight
<1>2. CASE ProgramEnds
  <2>1. child'.stage = child.stage /\ runner' = "returned" /\ runner = "program" /\ process' = Collected
    BY <1>2, <1>x, Zenon DEF ProgramEnds, Return
  <2>2. SUFFICES ASSUME child.stage > Preflight PROVE CleanupAuthorized'
    BY <2>1, SMTT(60) DEF CoveredInv
  <2>3. PICK i \in DOMAIN out : Authorizes(out[i])
    BY <2>1, <2>2, Zenon DEF CoveredInv
  <2>4. child.code # 3
    BY <2>2, <1>t, SMTT(60) DEF RequestInv, Preflight
  <2> DEFINE p == [outcome |-> "none", events |-> out, failure |-> "none", code |-> child.code]
  <2>5. FromTerminal(p) # "FixtureCollision"
    <3>1. p.code # 3
      BY <2>4
    <3> QED BY <3>1, SMTT(60) DEF FromTerminal
  <2>6. process'.outcome # "FixtureCollision" /\ process'.events = out
    <3>1. Collected = [p EXCEPT !.outcome = FromTerminal(p)]
      BY DEF Collected
    <3>2. [p EXCEPT !.outcome = FromTerminal(p)].outcome = FromTerminal(p)
      OBVIOUS
    <3>3. [p EXCEPT !.outcome = FromTerminal(p)].events = out
      OBVIOUS
    <3> HIDE DEF p
    <3> QED BY <2>1, <2>5, <3>1, <3>2, <3>3, Zenon
  <2> QED BY <2>3, <2>6, Zenon DEF CleanupAuthorized, Authorizes
<1>3. CASE ProgramPanics
  <2>1. runner' = "returned" /\ process' = BeforeProcess("WaitFailed")
    BY <1>3, Zenon DEF ProgramPanics, Gives, Return
  <2>2. process'.outcome = "WaitFailed"
    BY <2>1 DEF BeforeProcess, NoProcess
  <2> QED BY <2>1, <2>2, SMTT(60) DEF CoveredInv
<1>4. CASE ServerDies
  BY <1>4, <1>k, Zenon DEF ServerDies, programVars, workflowVars
<1>5. CASE runner = "program" /\ Sends /\ UNCHANGED <<workflowVars, runnerVars>>
  <2>1. child'.stage = child.stage /\ out' = out
    BY <1>5, <1>t, SMTT(60) DEF Sends, ChildSends, Children
  <2> QED BY <1>5, <2>1, <1>k, Zenon DEF workflowVars, runnerVars
<1>6. CASE runner = "program" /\ Writes /\ UNCHANGED <<workflowVars, runnerVars>>
  <2>1. PICK w \in Reports \cup Failures : out' = Append(out, w.event) /\ child' = w.next
    BY <1>6, Zenon DEF Writes
  <2>2. w.event \in Event /\ (Passes(w) \/ Ends(w)) /\ runner' = "program"
    BY <1>6, WriteCases DEF runnerVars
  <2>3. SUFFICES ASSUME child'.stage > Preflight PROVE \E i \in DOMAIN out' : Authorizes(out'[i])
    BY <2>2, SMTT(60) DEF CoveredInv, Authorizes
  <2>4. CASE child.stage > Preflight
    <3>1. PICK i \in DOMAIN out : Authorizes(out[i])
      BY <1>6, <2>4, Zenon DEF CoveredInv
    <3>2. i \in DOMAIN out' /\ out'[i] = out[i]
      BY <2>1, <2>2, <3>1, <1>t, SMTT(60)
    <3> QED BY <3>1, <3>2, Zenon
  <2>5. CASE ~(child.stage > Preflight)
    <3>1. Passes(w) /\ child.stage = 3
      BY <2>1, <2>2, <2>3, <2>5, <1>t, WriteMoves, SMTT(60) DEF Preflight
    <3>2. Authorizes(w.event)
      BY <3>1, StageFacts DEF Passes, Authorizes
    <3>3. Len(out) + 1 \in DOMAIN out' /\ out'[Len(out) + 1] = w.event
      BY <2>1, <2>2, <1>t, SMTT(60)
    <3> QED BY <3>2, <3>3, Zenon
  <2> QED BY <2>4, <2>5
<1>7. CASE (Executed \/ Forgotten) /\ out' = out /\ UNCHANGED <<workflowVars, runnerVars>>
  <2>1. child'.stage = child.stage
    BY <1>7, AnsweredChild, SMTT(60) DEF Executed, Forgotten
  <2> QED BY <1>7, <2>1, <1>k, Zenon DEF workflowVars, runnerVars
<1>8. CASE WorkflowActs /\ UNCHANGED runnerVars
  <2>1. Cleaning
    BY <1>8, WorkflowSteps
  <2> QED BY <1>8, <2>1, <1>k, Zenon DEF Cleaning, runnerVars
<1>9. CASE UNCHANGED vars
  BY <1>9, <1>k, Zenon DEF vars, programVars, workflowVars, runnerVars
<1> QED BY StepCases, <1>1, <1>2, <1>3, <1>4, <1>5, <1>6, <1>7, <1>8, <1>9, Zenon

\* A run starts with nothing sent, nothing reported and nothing running.
LEMMA HandsOverInit ==
  ASSUME Init
  PROVE  HandsOverInv
<1>1. PICK before \in Before : catalog = InitialCatalog(before)
  BY Zenon DEF Init
<1>2. catalog \in [namespace : Owners, table : Owners, history : Seq(TableMutations)]
  BY <1>1, SMTT(60) DEF InitialCatalog, Owners
<1>3. catalog.namespace # "owned"
  BY <1>1, SMTT(60) DEF InitialCatalog
<1>4. PhaseOf(1) = "ready"
  BY PhaseFacts, SMTT(60)
<1>5. child \in Children /\ child.stage = 1 /\ child.phase = "ready" /\ child.code = NoCode /\ child.state = "unborn"
  BY <1>4, StageFacts, SMTT(60) DEF Init, Children
<1>6. execution \in Execution /\ execution = Pending /\ Pending.at = "runner"
  BY SMTT(60) DEF Init, WorkflowInit, Execution, Pending, Steps, Statuses
<1>7. Typed
  BY <1>2, <1>5, <1>6, SMTT(60) DEF Typed, Init
<1>8. RunnerInv
  BY <1>5, <1>6, SMTT(60) DEF RunnerInv, Init, Returned
<1>9. RequestInv /\ Untouched /\ CoveredInv
  BY <1>3, <1>5, SMTT(60) DEF RequestInv, Untouched, CoveredInv, Init, Preflight, NoCode
<1> QED BY <1>7, <1>8, <1>9 DEF HandsOverInv

\* HandsOverInv holds throughout a run.
LEMMA HandsOverAlways == Spec => []HandsOverInv
<1>1. Init => HandsOverInv
  BY HandsOverInit
<1>2. HandsOverInv /\ [Next]_vars => HandsOverInv'
  <2> SUFFICES ASSUME HandsOverInv, [Next]_vars PROVE HandsOverInv'
    OBVIOUS
  <2>i. Typed /\ RunnerInv /\ RequestInv /\ Untouched /\ CoveredInv
    BY DEF HandsOverInv
  <2> QED BY <2>i, TypedNext, RunnerInvNext, RequestInvNext, UntouchedNext, CoveredInvNext DEF HandsOverInv
<1> QED BY <1>1, <1>2, PTL DEF Spec

\* Whichever way an in-process runner returns, its server does not run any more,
\* and what its program did to the catalog is covered by the authority to clean
\* up, unless the task that ran it panicked (shutdown, from_in_process_events,
\* cleanup_authorized).
THEOREM ProgramIsReported == Spec => []RunnerHandsOver
<1>1. HandsOverInv => RunnerHandsOver
  <2> SUFFICES ASSUME HandsOverInv PROVE RunnerHandsOver
    OBVIOUS
  <2>i. Typed /\ RunnerInv /\ Untouched /\ CoveredInv
    BY DEF HandsOverInv
  <2>1. NoServerLeft
    BY <2>i, SMTT(60) DEF RunnerInv, NoServerLeft
  <2>2. MutationsAreReported
    <3> SUFFICES ASSUME Returned, catalog.namespace = "owned" \/ request # "none"
                 PROVE  CleanupAuthorized \/ process.outcome = "WaitFailed"
      BY DEF MutationsAreReported
    <3>1. child.stage > Preflight /\ runner = "returned"
      BY <2>i, StageFacts, SMTT(60) DEF Untouched, RunnerInv, Typed, Children, Preflight
    <3> QED BY <3>1, <2>i, Zenon DEF CoveredInv
  <2> QED BY <2>1, <2>2 DEF RunnerHandsOver
<1> QED BY <1>1, HandsOverAlways, PTL

----------------------------------------------------------------------------
(* What a pass means *)

\* What is left of a set when one member has been counted, and how the members
\* are counted.
Uncounted(T) == T \ {CHOOSE x : x \in T}

Counts(size, S) == \A T \in SUBSET S : size[T] = IF T = {} THEN 0 ELSE 1 + size[Uncounted(T)]

\* A set is counted member by member.
LEMMA CountSteps ==
  ASSUME NEW S, NEW size, Counts(size, S)
  PROVE  \E g : Cardinality(S) = g[S] /\ Counts(g, S)
<1> DEFINE Is(f) == f = [T \in SUBSET S |-> IF T = {} THEN 0 ELSE 1 + f[Uncounted(T)]]
           g == CHOOSE f : Is(f)
           h == [T \in SUBSET S |-> size[T]]
<1>1. Cardinality(S) = g[S]
  BY Zenon DEF Cardinality, Uncounted
<1>2. \A T \in SUBSET S : Uncounted(T) \in SUBSET S
  BY DEF Uncounted
<1>3. \A T \in SUBSET S : h[T] = IF T = {} THEN 0 ELSE 1 + h[Uncounted(T)]
  BY <1>2, Zenon DEF Counts
<1>4. Is(h)
  BY <1>3, Zenon
<1> HIDE DEF h
<1>5. Is(g)
  BY <1>4, Zenon
<1> HIDE DEF g
<1>6. Counts(g, S)
  BY <1>5, Zenon DEF Counts
<1> QED BY <1>1, <1>6, Zenon

\* The counts of the sets of commits that the histories give: nothing is counted
\* in the empty set.
LEMMA CountOfNone == Cardinality({}) = 0
<1> DEFINE size == [T \in SUBSET {} |-> 0]
<1>1. Counts(size, {})
  BY DEF Counts
<1> HIDE DEF size
<1>2. PICK g : Cardinality({}) = g[{}] /\ Counts(g, {})
  BY <1>1, CountSteps, Zenon
<1> QED BY <1>2, Zenon DEF Counts

\* The same for a set of one.
LEMMA CountOfOne ==
  ASSUME NEW x
  PROVE  Cardinality({x}) = 1
<1> DEFINE S == {x}
           size == [T \in SUBSET S |-> IF T = {} THEN 0 ELSE 1]
<1>s. {} \in SUBSET S /\ S \in SUBSET S /\ S # {} /\ \A T \in SUBSET S : T = {} \/ T = S
  OBVIOUS
<1>u. Uncounted(S) = {}
  BY DEF Uncounted
<1> HIDE DEF S
<1>1. Counts(size, S)
  BY <1>s, <1>u DEF Counts
<1> HIDE DEF size
<1>2. PICK g : Cardinality(S) = g[S] /\ Counts(g, S)
  BY <1>1, CountSteps, Zenon
<1>4. g[{}] = 0 /\ g[S] = 1 + g[{}]
  BY <1>2, <1>s, <1>u, Zenon DEF Counts
<1> QED BY <1>2, <1>4 DEF S

\* The same for a set of two.
LEMMA CountOfTwo ==
  ASSUME NEW x, NEW y, x # y
  PROVE  Cardinality({x, y}) = 2
<1> DEFINE S == {x, y}
           size == [T \in SUBSET S |-> IF T = {} THEN 0 ELSE IF T = S THEN 2 ELSE 1]
<1>s. /\ {x} # {} /\ {y} # {} /\ S # {} /\ {x} # S /\ {y} # S
      /\ {x} \in SUBSET S /\ {y} \in SUBSET S /\ {} \in SUBSET S /\ S \in SUBSET S
      /\ \A T \in SUBSET S : T = {} \/ T = {x} \/ T = {y} \/ T = S
  OBVIOUS
<1>u. Uncounted({x}) = {} /\ Uncounted({y}) = {} /\ (Uncounted(S) = {x} \/ Uncounted(S) = {y})
  <2>1. (CHOOSE z : z \in S) \in S
    BY x \in S, Zenon
  <2> QED BY <2>1, Zenon DEF Uncounted
<1> HIDE DEF S
<1>1. Counts(size, S)
  <2>1. size[{}] = 0 /\ size[{x}] = 1 /\ size[{y}] = 1 /\ size[S] = 2
    BY <1>s
  <2> HIDE DEF size
  <2>2. size[{x}] = 1 + size[Uncounted({x})] /\ size[{y}] = 1 + size[Uncounted({y})]
    BY <1>u, <2>1
  <2>3. size[S] = 1 + size[Uncounted(S)]
    BY <1>u, <2>1
  <2> QED BY <1>s, <2>1, <2>2, <2>3, Zenon DEF Counts
<1> HIDE DEF size
<1>2. PICK g : Cardinality(S) = g[S] /\ Counts(g, S)
  BY <1>1, CountSteps, Zenon
<1>4. g[{}] = 0 /\ g[{x}] = 1 + g[{}] /\ g[{y}] = 1 + g[{}]
  BY <1>2, <1>s, <1>u, Zenon DEF Counts
<1>5. g[S] = 1 + g[Uncounted(S)]
  BY <1>2, <1>s, Zenon DEF Counts
<1>6. g[Uncounted(S)] = 1 + g[{}]
  BY <1>4, <1>u, Zenon
<1>7. g[S] = 2
  <2> HIDE DEF S
  <2> DEFINE a == g[S]
             b == g[Uncounted(S)]
             c == g[{}]
  <2>1. c = 0 /\ b = 1 + c /\ a = 1 + b
    BY <1>4, <1>5, <1>6, Zenon
  <2> HIDE DEF a, b, c
  <2>2. a = 2
    BY <2>1
  <2> QED BY <2>2, Zenon DEF a
<1> QED BY <1>2, <1>7, Zenon DEF S

\* Two sequences with the same entries are the same.
LEMMA SameEntries ==
  ASSUME NEW S, NEW s \in Seq(S), NEW t \in Seq(S), Len(s) = Len(t),
         \A i \in 1..Len(s) : s[i] = t[i]
  PROVE  s = t
BY SMTT(60)

\* Histories are written as tuples and grow by appending.
LEMMA AppendToOne ==
  ASSUME NEW a, NEW b
  PROVE  Append(<<a>>, b) = <<a, b>>
<1> DEFINE S == {a, b}
           s == Append(<<a>>, b)
           t == <<a, b>>
<1>1. s \in Seq(S) /\ t \in Seq(S) /\ Len(s) = 2 /\ Len(t) = 2
  OBVIOUS
<1>2. s[1] = t[1] /\ s[2] = t[2]
  OBVIOUS
<1> HIDE DEF S, s, t
<1>3. Len(s) = Len(t) /\ \A i \in 1..Len(s) : s[i] = t[i]
  BY <1>1, <1>2
<1>4. s = t
  BY <1>1, <1>3, SameEntries, Zenon
<1> QED BY <1>4 DEF s, t

\* The same for a history of two mutations.
LEMMA AppendToTwo ==
  ASSUME NEW a, NEW b, NEW c
  PROVE  Append(<<a, b>>, c) = <<a, b, c>>
<1> DEFINE S == {a, b, c}
           s == Append(<<a, b>>, c)
           t == <<a, b, c>>
<1>1. s \in Seq(S) /\ t \in Seq(S) /\ Len(s) = 3 /\ Len(t) = 3
  OBVIOUS
<1>2. s[1] = t[1] /\ s[2] = t[2] /\ s[3] = t[3]
  OBVIOUS
<1> HIDE DEF S, s, t
<1>3. Len(s) = Len(t) /\ \A i \in 1..Len(s) : s[i] = t[i]
  BY <1>1, <1>2
<1>4. s = t
  BY <1>1, <1>3, SameEntries, Zenon
<1> QED BY <1>4 DEF s, t

\* The same for a history of three.
LEMMA AppendToThree ==
  ASSUME NEW a, NEW b, NEW c, NEW d
  PROVE  Append(<<a, b, c>>, d) = <<a, b, c, d>>
<1> DEFINE S == {a, b, c, d}
           s == Append(<<a, b, c>>, d)
           t == <<a, b, c, d>>
<1>1. s \in Seq(S) /\ t \in Seq(S) /\ Len(s) = 4 /\ Len(t) = 4
  OBVIOUS
<1>2. s[1] = t[1] /\ s[2] = t[2] /\ s[3] = t[3] /\ s[4] = t[4]
  OBVIOUS
<1> HIDE DEF S, s, t
<1>3. Len(s) = Len(t) /\ \A i \in 1..Len(s) : s[i] = t[i]
  BY <1>1, <1>2
<1>4. s = t
  BY <1>1, <1>3, SameEntries, Zenon
<1> QED BY <1>4 DEF s, t

\* Going back to the version before undoes the last append.
LEMMA FrontAppend ==
  ASSUME NEW S, NEW h \in Seq(S), NEW e \in S
  PROVE  SubSeq(Append(h, e), 1, Len(Append(h, e)) - 1) = h
OBVIOUS

\* A commit done twice is two appends.
LEMMA DoubleAppend ==
  ASSUME NEW S, NEW h \in Seq(S), NEW e \in S
  PROVE  h \o <<e, e>> = Append(Append(h, e), e)
OBVIOUS

\* How many commits each version of the table counts.
LEMMA CommitCounts ==
  /\ Cardinality(Commits(<<CT>>)) = 0
  /\ Cardinality(Commits(<<CT, AI>>)) = 1
  /\ Cardinality(Commits(<<CT, AI, ES>>)) = 1
<1>1. Commits(<<CT>>) = {}
  BY SMTT(60) DEF Commits, Appends, CT
<1>2. Commits(<<CT, AI>>) = {2}
  BY SMTT(60) DEF Commits, Appends, CT, AI
<1>3. Commits(<<CT, AI, ES>>) = {2}
  BY SMTT(60) DEF Commits, Appends, CT, AI, ES
<1> QED BY <1>1, <1>2, <1>3, CountOfNone, CountOfOne, Zenon

\* The initial rows are read only from a table with exactly one initial append
\* (read_rows, expected_initial_read).
LEMMA InitialReadBack ==
  ASSUME NEW h \in Appended, Rows(h) = InitialRows
  PROVE  h = <<CT, AI>>
<1>1. Cardinality({i \in DOMAIN h : h[i] = "AppendInitial"}) = 1
  <2>1. Rows(h)["AppendInitial"] = Cardinality({i \in DOMAIN h : h[i] = "AppendInitial"})
    BY DEF Rows, Appends
  <2>2. InitialRows["AppendInitial"] = 1
    BY DEF InitialRows, Appends
  <2> QED BY <2>1, <2>2
<1>2. CASE h = <<CT>>
  <2>1. {i \in DOMAIN h : h[i] = "AppendInitial"} = {}
    BY <1>2, SMTT(60) DEF CT
  <2> QED BY <1>1, <2>1, CountOfNone
<1>3. CASE h = <<CT, AI, AI>>
  <2>1. {i \in DOMAIN h : h[i] = "AppendInitial"} = {2, 3}
    BY <1>3, SMTT(60) DEF CT, AI
  <2>2. Cardinality({2, 3}) = 2
    <3>1. 2 # 3
      OBVIOUS
    <3> QED BY <3>1, CountOfTwo, Zenon
  <2> QED BY <1>1, <2>1, <2>2
<1> QED BY <1>2, <1>3 DEF Appended

\* Histories are made of mutations of the table.
LEMMA ChangedTypes ==
  /\ CT \in TableMutations /\ AI \in TableMutations /\ ES \in TableMutations /\ AE \in TableMutations
  /\ \A h \in Changed : h \in Seq(TableMutations)
<1>1. /\ CT \in TableMutations /\ AI \in TableMutations /\ ES \in TableMutations
      /\ AE \in TableMutations
  BY DEF CT, AI, ES, AE, TableMutations, Mutations
<1>2. /\ <<CT>> \in Seq(TableMutations) /\ <<CT, AI>> \in Seq(TableMutations)
      /\ <<CT, ES>> \in Seq(TableMutations) /\ <<CT, AI, ES>> \in Seq(TableMutations)
  BY <1>1
<1> QED BY <1>1, <1>2, Zenon DEF Changed, ReadBack

\* The evolved rows are read only from a table that went through the whole
\* program in order (read_rows, expected_evolved_read).
LEMMA EvolvedReadBack ==
  ASSUME NEW h \in Extended, Evolved(h), Rows(h) = EvolvedRows
  PROVE  h = Full
<1>r. ASSUME NEW a \in Appends PROVE Cardinality({i \in DOMAIN h : h[i] = a}) = 1
  <2>1. Rows(h)[a] = Cardinality({i \in DOMAIN h : h[i] = a})
    BY <1>r DEF Rows
  <2>2. EvolvedRows[a] = 1
    BY <1>r DEF EvolvedRows
  <2> QED BY <2>1, <2>2
<1>i. \E i \in DOMAIN h : h[i] = "AppendInitial"
  <2>1. SUFFICES ASSUME {i \in DOMAIN h : h[i] = "AppendInitial"} = {} PROVE FALSE
    OBVIOUS
  <2> QED BY <1>r, <2>1, CountOfNone DEF Appends
<1>a. \E i \in DOMAIN h : h[i] = "AppendEvolved"
  <2>1. SUFFICES ASSUME {i \in DOMAIN h : h[i] = "AppendEvolved"} = {} PROVE FALSE
    OBVIOUS
  <2> QED BY <1>r, <2>1, CountOfNone DEF Appends
<1>1. CASE h \in Changed
  BY <1>1, <1>a, SMTT(60) DEF Changed, ReadBack, CT, AI, ES
<1>2. CASE \E g \in Changed : h = Append(g, AE)
  <2>1. PICK g \in Changed : h = Append(g, AE)
    BY <1>2
  <2>2. CASE g = <<CT, AI, ES>>
    <3>1. Append(<<CT, AI, ES>>, AE) = <<CT, AI, ES, AE>>
      BY AppendToThree, Zenon
    <3> QED BY <2>1, <2>2, <3>1, Zenon DEF Full
  <2>3. CASE g \in {<<CT>>, <<CT, AI>>}
    BY <2>1, <2>3, SMTT(60) DEF Evolved, CT, AI, AE
  <2>4. CASE g = <<CT, ES>>
    BY <2>1, <2>4, <1>i, SMTT(60) DEF CT, ES, AE
  <2> QED BY <2>1, <2>2, <2>3, <2>4 DEF Changed, ReadBack
<1>3. CASE \E g \in Changed : h = Append(Append(g, AE), AE)
  <2>1. PICK g \in Changed : h = Append(Append(g, AE), AE)
    BY <1>3
  <2>2. g \in Seq(TableMutations) /\ AE \in TableMutations
    BY ChangedTypes
  <2> DEFINE f == Append(g, AE)
  <2>f. /\ f \in Seq(TableMutations) /\ Len(f) = Len(g) + 1 /\ f[Len(g) + 1] = AE
        /\ Len(g) \in Nat
    BY <2>2, SMTT(60)
  <2>h. h = Append(f, AE)
    BY <2>1
  <2> HIDE DEF f
  <2>3. /\ h[Len(g) + 1] = AE /\ h[Len(g) + 2] = AE /\ DOMAIN h = 1..(Len(g) + 2)
        /\ Len(g) \in Nat
    BY <2>2, <2>f, <2>h, SMTT(60)
  <2>4. \A i \in 1..Len(g) : h[i] # "AppendEvolved"
    <3>1. \A i \in 1..Len(g) : h[i] = g[i]
      <4>1. \A i \in 1..Len(g) : f[i] = g[i]
        BY <2>2, SMTT(60) DEF f
      <4> QED BY <2>f, <2>2, <2>h, <4>1, SMTT(60)
    <3>2. \A i \in 1..Len(g) : g[i] \in {CT, AI, ES}
      BY SMTT(60) DEF Changed, ReadBack
    <3> QED BY <3>1, <3>2 DEF CT, AI, ES
  <2>5. {i \in DOMAIN h : h[i] = "AppendEvolved"} = {Len(g) + 1, Len(g) + 2}
    BY <2>3, <2>4, SMTT(60) DEF AE
  <2>6. Cardinality({Len(g) + 1, Len(g) + 2}) = 2
    <3>1. Len(g) + 1 # Len(g) + 2
      BY <2>3
    <3> QED BY <3>1, CountOfTwo, Zenon
  <2>7. Cardinality({i \in DOMAIN h : h[i] = "AppendEvolved"}) = 1
    BY <1>r DEF Appends
  <2>8. 1 = 2
    BY <2>5, <2>6, <2>7, Zenon
  <2> QED BY <2>8
<1> QED BY <1>1, <1>2, <1>3 DEF Extended

\* The histories, stage by stage.
LEMMA HistoriesOf ==
  /\ \A n \in 1..4, u \in BOOLEAN : Histories(n, u) = {<<>>}
  /\ \A u \in BOOLEAN : Histories(5, u) = Created
  /\ Histories(6, TRUE) = {<<CT>>} /\ Histories(6, FALSE) = Appended
  /\ \A u \in BOOLEAN : Histories(7, u) = Appended
  /\ Histories(8, TRUE) = ReadBack /\ Histories(8, FALSE) = Changed
  /\ Histories(9, TRUE) = Changed /\ Histories(9, FALSE) = Extended
  /\ \A u \in BOOLEAN : Histories(10, u) = Extended
  /\ \A u \in BOOLEAN : Histories(11, u) = Versions
  /\ \A u \in BOOLEAN : Histories(12, u) = Versions
<1> USE DEF TableCreated, InitialRead, EvolvedRead
<1>1. \A n \in 1..4, u \in BOOLEAN : Histories(n, u) = {<<>>}
  BY SMTT(60) DEF Histories
<1>2. \A u \in BOOLEAN : Histories(5, u) = Created
  BY SMTT(60) DEF Histories
<1>3. Histories(6, TRUE) = {<<CT>>} /\ Histories(6, FALSE) = Appended
  BY SMTT(60) DEF Histories
<1>4. \A u \in BOOLEAN : Histories(7, u) = Appended
  BY SMTT(60) DEF Histories
<1>5. Histories(8, TRUE) = ReadBack /\ Histories(8, FALSE) = Changed
  BY SMTT(60) DEF Histories
<1>6. Histories(9, TRUE) = Changed /\ Histories(9, FALSE) = Extended
  BY SMTT(60) DEF Histories
<1>7. \A u \in BOOLEAN : Histories(10, u) = Extended
  BY SMTT(60) DEF Histories
<1>8. \A u \in BOOLEAN : Histories(11, u) = Versions
  BY SMTT(60) DEF Histories
<1>9. \A u \in BOOLEAN : Histories(12, u) = Versions
  BY SMTT(60) DEF Histories
<1> QED BY <1>1, <1>2, <1>3, <1>4, <1>5, <1>6, <1>7, <1>8, <1>9, Zenon

\* A stage number, by cases.
LEMMA StageCases ==
  \A n \in 1..12 : n \in 1..4 \/ n = 5 \/ n = 6 \/ n = 7 \/ n = 8 \/ n = 9 \/ n = 10 \/ n = 11 \/ n = 12
OBVIOUS

\* Once its request is settled a stage allows what it allowed before.
LEMMA HistoriesSettle ==
  ASSUME NEW n \in 1..12, NEW u \in BOOLEAN, NEW v \in BOOLEAN, v => u
  PROVE  Histories(n, u) \subseteq Histories(n, v)
<1>1. {<<CT>>} \subseteq Appended /\ ReadBack \subseteq Changed /\ Changed \subseteq Extended
  BY Zenon DEF Appended, ReadBack, Changed, Extended
<1>2. u = v \/ (u = TRUE /\ v = FALSE)
  OBVIOUS
<1>3. CASE u = v
  BY <1>3, Zenon
<1>4. CASE u = TRUE /\ v = FALSE
  <2>1. CASE n \in 1..4
    BY <2>1, HistoriesOf, ZenonT(60)
  <2>2. CASE n = 5 \/ n = 7 \/ n = 10
    BY <2>2, HistoriesOf, ZenonT(60)
  <2>3. CASE n = 6 \/ n = 8 \/ n = 9
    BY <1>1, <1>4, <2>3, HistoriesOf, ZenonT(60)
  <2>4. CASE n = 11 \/ n = 12
    BY <2>4, HistoriesOf, ZenonT(60)
  <2> QED BY <2>1, <2>2, <2>3, <2>4, StageCases, ZenonT(60)
<1> QED BY <1>2, <1>3, <1>4, ZenonT(60)

\* A catalog that takes back a commit goes back to a history the stage allows.
LEMMA HistoriesForget ==
  ASSUME NEW n \in 1..12, NEW u \in BOOLEAN, NEW h \in Histories(n, u), Len(h) > 1
  PROVE  SubSeq(h, 1, Len(h) - 1) \in Histories(n, u)
<1> DEFINE Closed(S) == \A g \in S : Len(g) > 1 => SubSeq(g, 1, Len(g) - 1) \in S
<1>t. /\ CT \in TableMutations /\ AI \in TableMutations /\ ES \in TableMutations
      /\ AE \in TableMutations
  BY ChangedTypes
<1>f. /\ SubSeq(<<CT, AI>>, 1, Len(<<CT, AI>>) - 1) = <<CT>>
      /\ SubSeq(<<CT, ES>>, 1, Len(<<CT, ES>>) - 1) = <<CT>>
      /\ SubSeq(<<CT, AI, AI>>, 1, Len(<<CT, AI, AI>>) - 1) = <<CT, AI>>
      /\ SubSeq(<<CT, AI, ES>>, 1, Len(<<CT, AI, ES>>) - 1) = <<CT, AI>>
      /\ SubSeq(Full, 1, Len(Full) - 1) = <<CT, AI, ES>>
  <2>1. /\ <<CT>> \in Seq(TableMutations) /\ <<CT, AI>> \in Seq(TableMutations)
        /\ <<CT, AI, ES>> \in Seq(TableMutations)
    BY <1>t
  <2>2. /\ <<CT, AI>> = Append(<<CT>>, AI) /\ <<CT, ES>> = Append(<<CT>>, ES)
    BY AppendToOne
  <2>3. <<CT, AI, AI>> = Append(<<CT, AI>>, AI) /\ <<CT, AI, ES>> = Append(<<CT, AI>>, ES)
    BY AppendToTwo
  <2>4. Full = Append(<<CT, AI, ES>>, AE)
    BY AppendToThree, Zenon DEF Full
  <2>5. ASSUME NEW g \in Seq(TableMutations), NEW e \in TableMutations, NEW f, f = Append(g, e)
        PROVE  SubSeq(f, 1, Len(f) - 1) = g
    BY <2>5, FrontAppend
  <2> QED BY <2>1, <2>2, <2>3, <2>4, <2>5, <1>t, ZenonT(60)
<1>l. ~(Len(<<>>) > 1) /\ ~(Len(<<CT>>) > 1)
  OBVIOUS
<1>1. Closed({<<>>}) /\ Closed(Created) /\ Closed({<<CT>>})
  BY <1>l, ZenonT(60) DEF Created
<1>2. Closed(Appended) /\ Closed(ReadBack)
  BY <1>l, <1>f, ZenonT(60) DEF Appended, ReadBack
<1>3. Closed(Changed)
  BY <1>l, <1>f, ZenonT(60) DEF Changed, ReadBack
<1>4. Closed(Extended)
  <2> SUFFICES ASSUME NEW g \in Extended, Len(g) > 1
               PROVE  SubSeq(g, 1, Len(g) - 1) \in Extended
    OBVIOUS
  <2>1. CASE g \in Changed
    BY <2>1, <1>3 DEF Extended
  <2>2. ASSUME NEW k \in Changed, g = Append(k, AE) PROVE SubSeq(g, 1, Len(g) - 1) \in Extended
    <3>1. SubSeq(g, 1, Len(g) - 1) = k
      BY <2>2, ChangedTypes, FrontAppend
    <3> QED BY <3>1, ZenonT(60) DEF Extended
  <2>3. ASSUME NEW k \in Changed, g = Append(Append(k, AE), AE)
        PROVE  SubSeq(g, 1, Len(g) - 1) \in Extended
    <3>1. Append(k, AE) \in Seq(TableMutations) /\ AE \in TableMutations
      BY ChangedTypes
    <3>2. SubSeq(g, 1, Len(g) - 1) = Append(k, AE)
      BY <2>3, <3>1, FrontAppend
    <3> QED BY <3>2 DEF Extended
  <2> QED BY <2>1, <2>2, <2>3, ZenonT(60) DEF Extended
<1>5. Closed(Versions)
  BY <1>l, <1>f, ZenonT(60) DEF Versions
<1> HIDE DEF Closed
<1>6. u = TRUE \/ u = FALSE
  OBVIOUS
<1>7. Closed(Histories(n, u))
  BY <1>1, <1>2, <1>3, <1>4, <1>5, <1>6, HistoriesOf, StageCases, ZenonT(60)
<1> QED BY <1>7 DEF Closed

\* A table that the program finds absent is its own, with a history from then on.
LEMMA TableInvNext ==
  ASSUME Typed, RunnerInv, RequestInv, Untouched, TableInv, [Next]_vars
  PROVE  TableInv'
<1>t. /\ child \in Children /\ child.stage \in 1..12
      /\ catalog \in [namespace : Owners, table : Owners, history : Seq(TableMutations)]
  BY StageFacts DEF Typed, Children
<1>x. ASSUME NEW s PROVE [child EXCEPT !.state = s].stage = child.stage
  BY <1>t, SMTT(60) DEF Children
<1>k. ASSUME catalog' = catalog, child'.stage = child.stage, runner' # "returned" => runner # "returned"
      PROVE  TableInv'
  BY <1>k, SMTT(60) DEF TableInv
<1>1. CASE Starting /\ (Prepare \/ StartServer \/ Probe \/ ConnectObservers)
  <2>1. child'.stage = child.stage /\ catalog' = catalog
    BY <1>1, <1>x, Zenon DEF Starting, GivesUp, GoesOn
  <2>2. runner # "returned"
    BY <1>1 DEF Starting
  <2> QED BY <2>1, <2>2, <1>k
<1>2. CASE ProgramEnds \/ ProgramPanics
  <2>1. child'.stage = child.stage /\ catalog' = catalog /\ runner' = "returned"
    BY <1>2, <1>x, Zenon DEF ProgramEnds, ProgramPanics, Gives
  <2> QED BY <2>1, <1>k
<1>3. CASE ServerDies
  BY <1>3, <1>k, Zenon DEF ServerDies, programVars
<1>4. CASE runner = "program" /\ Sends /\ UNCHANGED <<workflowVars, runnerVars>>
  <2>1. child'.stage = child.stage /\ catalog' = catalog /\ runner' = runner
    BY <1>4, <1>t, SMTT(60) DEF Sends, ChildSends, Children, runnerVars
  <2> QED BY <2>1, <1>k, Zenon
<1>5. CASE runner = "program" /\ Writes /\ UNCHANGED <<workflowVars, runnerVars>>
  <2>1. PICK w \in Reports \cup Failures : child' = w.next
    BY <1>5, Zenon DEF Writes
  <2>2. catalog' = catalog /\ runner' = runner /\ runner # "returned"
    BY <1>5, SMTT(60) DEF Writes, runnerVars
  <2>3. CASE Ends(w)
    <3>1. child'.stage = child.stage
      BY <2>1, <2>3, WriteMoves, SMTT(60)
    <3> QED BY <2>2, <3>1, <1>k, SMTT(60)
  <2>4. CASE Passes(w)
    <3>1. child'.stage = child.stage + 1
      BY <2>1, <2>4, WriteMoves, SMTT(60)
    <3>2. child.stage = 3 => catalog.table = "absent"
      BY <2>2, <2>4, SMTT(60) DEF Passes, FixtureAbsent, TableAbsent, TableInv, Preflight
    <3> QED BY <2>2, <3>1, <3>2, <1>t, SMTT(60) DEF TableInv, Preflight
  <2> QED BY <2>3, <2>4, WriteCases
<1>6. CASE (Executed \/ Forgotten) /\ out' = out /\ UNCHANGED <<workflowVars, runnerVars>>
  <2>r. runner' = runner
    BY <1>6 DEF runnerVars
  <2>1. CASE Forgotten
    <3>1. catalog'.table = catalog.table /\ child' = child
      BY <2>1, <1>t, SMTT(60) DEF Forgotten
    <3>2. catalog'.history = SubSeq(catalog.history, 1, Len(catalog.history) - 1)
      BY <2>1, <1>t, SMTT(60) DEF Forgotten
    <3>3. Len(catalog'.history) > 0 /\ Len(catalog.history) > 1 /\ catalog.history # <<>>
      BY <2>1, <3>2, <1>t, SMTT(60) DEF Forgotten
    <3> QED BY <2>r, <3>1, <3>3, SMTT(60) DEF TableInv
  <2>2. CASE Executed
    <3>0. child.stage > Preflight /\ child'.stage = child.stage
      BY <2>2, <1>t, AnsweredChild, SMTT(60) DEF Executed, Untouched, Preflight
    <3>1. CASE UNCHANGED catalog
      BY <3>0, <3>1, <2>r, <1>k, Zenon
    <3>2. CASE Accepts(request) /\ catalog' = After(request) /\ request = "CreateNamespace"
      <4>1. catalog'.table = catalog.table /\ catalog'.history = catalog.history
        BY <3>2, <1>t, AfterCases, SMTT(60)
      <4> QED BY <3>0, <4>1, <1>t, SMTT(60) DEF TableInv, Preflight
    <3>3. CASE Accepts(request) /\ catalog' = After(request) /\ request = "CreateTable"
      <4>1. catalog' = [catalog EXCEPT !.table = "owned", !.history = <<"CreateTable">>]
        BY <3>3, AfterCases, SMTT(60)
      <4>2. catalog'.table = "owned" /\ catalog'.history = <<"CreateTable">>
        BY <4>1, <1>t, SMTT(60)
      <4> QED BY <3>0, <4>2, <1>t, SMTT(60) DEF TableInv, Preflight
    <3>4. CASE /\ Accepts(request) /\ catalog' = After(request)
               /\ request # "CreateNamespace" /\ request # "CreateTable"
      <4>1. catalog.table # "absent"
        BY <3>4, SMTT(60) DEF Accepts
      <4>2. catalog' = [catalog EXCEPT !.history = Append(catalog.history, request)]
        BY <3>4, AfterCases
      <4>3. catalog'.table = catalog.table /\ catalog'.history = Append(catalog.history, request)
        BY <4>2, <1>t, SMTT(60)
      <4>4. Len(catalog'.history) > 0
        BY <4>3, <1>t, SMTT(60)
      <4> QED BY <3>0, <4>1, <4>3, <4>4, <1>t, SMTT(60) DEF TableInv, Preflight
    <3>5. CASE /\ request \in Appends /\ catalog.table # "absent"
               /\ catalog' = [catalog EXCEPT !.history = @ \o <<request, request>>]
      <4>1. /\ catalog'.table = catalog.table
            /\ catalog'.history = catalog.history \o <<request, request>>
        BY <3>5, <1>t, SMTT(60)
      <4>2. Len(catalog'.history) > 0
        BY <4>1, <1>t, SMTT(60)
      <4> QED BY <3>0, <3>5, <4>1, <4>2, <1>t, SMTT(60) DEF TableInv, Preflight
    <3> QED BY <2>2, <3>1, <3>2, <3>3, <3>4, <3>5, Zenon DEF Executed
  <2> QED BY <1>6, <2>1, <2>2, SMTT(60)
<1>7. CASE WorkflowActs /\ UNCHANGED runnerVars
  <2>1. Cleaning /\ runner' = runner
    BY <1>7, WorkflowSteps DEF runnerVars
  <2>2. runner = "returned" /\ child' = child
    BY <2>1, SMTT(60) DEF Cleaning, RunnerInv
  <2>3. /\ Dropped("table").table = "absent" /\ Dropped("table").history = <<>>
        /\ Dropped("namespace").table = catalog.table
        /\ Dropped("namespace").history = catalog.history
    BY <1>t, SMTT(60) DEF Dropped
  <2>4. \/ catalog'.table = catalog.table /\ catalog'.history = catalog.history
        \/ catalog'.table = "absent" /\ catalog'.history = <<>>
    BY <2>1, <2>3, SMTT(60) DEF Cleaning
  <2> QED BY <2>1, <2>2, <2>4, SMTT(60) DEF TableInv
<1>8. CASE UNCHANGED vars
  BY <1>8, <1>k, Zenon DEF vars, programVars, runnerVars
<1> QED BY StepCases, <1>1, <1>2, <1>3, <1>4, <1>5, <1>6, <1>7, <1>8, Zenon

\* What an execution makes of a history that its stage allows.
LEMMA HistoriesGrow ==
  ASSUME Typed, RequestInv, Executed, catalog.history \in Histories(child.stage, TRUE)
  PROVE  catalog'.history \in Histories(child.stage, FALSE)
<1>t. /\ child.stage \in 1..11 /\ child.stage \in 1..12
      /\ catalog \in [namespace : Owners, table : Owners, history : Seq(TableMutations)]
      /\ request = Stages[child.stage] /\ request \in Mutations
  BY StageFacts, SMTT(60) DEF Typed, Children, RequestInv, Executed, Observed
<1>n. \/ child.stage = 4 /\ request = "CreateNamespace"
      \/ child.stage = 5 /\ request = "CreateTable"
      \/ child.stage = 6 /\ request = AI
      \/ child.stage = 8 /\ request = ES
      \/ child.stage = 9 /\ request = AE
  <2>1. child.stage \in {4, 5, 6, 8, 9}
    BY <1>t, PhaseFacts
  <2> QED BY <2>1, <1>t, StageFacts, SMTT(60) DEF AI, ES, AE
<1>1. CASE UNCHANGED catalog
  BY <1>1, <1>t, HistoriesSettle, ZenonT(60)
<1>2. CASE Accepts(request) /\ catalog' = After(request)
  <2>1. CASE child.stage = 4
    <3>1. request = "CreateNamespace"
      BY <2>1, <1>n
    <3>2. catalog'.history = catalog.history
      BY <1>2, <3>1, <1>t, AfterCases, SMTT(60)
    <3> QED BY <3>2, <1>t, HistoriesSettle, ZenonT(60)
  <2>2. CASE child.stage = 5
    <3>1. request = "CreateTable"
      BY <2>2, <1>n
    <3>2. catalog' = [catalog EXCEPT !.table = "owned", !.history = <<"CreateTable">>]
      BY <1>2, <3>1, AfterCases
    <3>3. catalog'.history = <<CT>>
      BY <3>2, <1>t, SMTT(60) DEF CT
    <3> QED BY <2>2, <3>3, HistoriesOf, Zenon DEF Created
  <2>3. CASE child.stage \in {6, 8, 9}
    <3>1. request \in {AI, ES, AE} /\ request # "CreateNamespace" /\ request # "CreateTable"
      BY <2>3, <1>n, SMTT(60) DEF AI, ES, AE
    <3>2. catalog' = [catalog EXCEPT !.history = Append(catalog.history, request)]
      BY <1>2, <3>1, AfterCases
    <3>3. catalog'.history = Append(catalog.history, request)
      BY <3>2, <1>t, SMTT(60)
    <3>4. CASE child.stage = 6
      <4>r. request = AI
        BY <3>4, <1>n, SMTT(60)
      <4>h. catalog.history \in {<<CT>>}
        BY <3>4, HistoriesOf, Zenon
      <4>1. catalog.history = <<CT>> /\ request = AI
        BY <4>r, <4>h, Zenon
      <4>2. catalog'.history = <<CT, AI>>
        BY <3>3, <4>1, AppendToOne, Zenon
      <4> QED BY <3>4, <4>2, HistoriesOf, Zenon DEF Appended
    <3>5. CASE child.stage = 8
      <4>r. request = ES
        BY <3>5, <1>n, SMTT(60)
      <4>h. catalog.history \in ReadBack
        BY <3>5, HistoriesOf, Zenon
      <4>1. catalog.history \in {<<CT>>, <<CT, AI>>} /\ request = ES
        BY <4>r, <4>h, Zenon DEF ReadBack
      <4>2. Append(<<CT>>, ES) = <<CT, ES>> /\ Append(<<CT, AI>>, ES) = <<CT, AI, ES>>
        BY AppendToOne, AppendToTwo, Zenon
      <4>3. catalog'.history \in {<<CT, ES>>, <<CT, AI, ES>>}
        BY <3>3, <4>1, <4>2, Zenon
      <4> QED BY <3>5, <4>3, HistoriesOf, Zenon DEF Changed
    <3>6. CASE child.stage = 9
      <4>r. request = AE
        BY <3>6, <1>n, SMTT(60)
      <4>h. catalog.history \in Changed
        BY <3>6, HistoriesOf, Zenon
      <4>1. catalog.history \in Changed /\ request = AE
        BY <4>r, <4>h, Zenon
      <4>2. catalog'.history \in Extended
        BY <3>3, <4>1, Zenon DEF Extended
      <4> QED BY <3>6, <4>2, HistoriesOf, Zenon
    <3> QED BY <2>3, <3>4, <3>5, <3>6, ZenonT(60)
  <2> QED BY <1>n, <2>1, <2>2, <2>3, ZenonT(60)
<1>3. CASE /\ request \in Appends
           /\ catalog' = [catalog EXCEPT !.history = @ \o <<request, request>>]
  <2>1. catalog'.history = catalog.history \o <<request, request>>
    BY <1>3, <1>t, SMTT(60)
  <2>2. request \in TableMutations
    BY <1>3 DEF Appends, TableMutations, Mutations
  <2>3. catalog'.history = Append(Append(catalog.history, request), request)
    BY <2>1, <2>2, <1>t, DoubleAppend
  <2>4. (child.stage = 6 /\ request = AI) \/ (child.stage = 9 /\ request = AE)
    BY <1>3, <1>n, SMTT(60) DEF Appends, AI, ES, AE
  <2>5. CASE child.stage = 6 /\ request = AI
    <3>1. catalog.history = <<CT>>
      BY <2>5, HistoriesOf, ZenonT(60)
    <3>2. Append(<<CT>>, AI) = <<CT, AI>> /\ Append(<<CT, AI>>, AI) = <<CT, AI, AI>>
      BY AppendToOne, AppendToTwo, Zenon
    <3>3. catalog'.history = <<CT, AI, AI>>
      BY <2>3, <2>5, <3>1, <3>2, ZenonT(60)
    <3> QED BY <2>5, <3>3, HistoriesOf, Zenon DEF Appended
  <2>6. CASE child.stage = 9 /\ request = AE
    <3>1. catalog.history \in Changed
      BY <2>6, HistoriesOf, ZenonT(60)
    <3>2. catalog'.history \in Extended
      BY <2>3, <2>6, <3>1, Zenon DEF Extended
    <3> QED BY <2>6, <3>2, HistoriesOf, Zenon
  <2> QED BY <2>4, <2>5, <2>6, ZenonT(60)
<1> QED BY <1>1, <1>2, <1>3, Zenon DEF Executed

\* Passing a stage leads from the histories it allows to those of the next.
LEMMA HistoriesAdvance ==
  ASSUME Typed, RequestInv, TableInv, NEW w, Passes(w),
         catalog.history \in Histories(child.stage, FALSE), NEW u \in BOOLEAN,
         u <=> child.stage + 1 \in {4, 5, 6, 8, 9}
  PROVE  /\ catalog.history \in Histories(child.stage + 1, u)
         /\ child.stage = 5 => catalog.history = <<CT>>
         /\ child.stage = 11 => catalog.history \in Versions
<1>t. child.stage \in 1..11 /\ child.stage \in 1..12
  BY DEF Passes
<1>1. CASE child.stage \in 1..3
  <2>1. child.stage \in 1..4 /\ child.stage + 1 \in 1..4 /\ child.stage # 5 /\ child.stage # 11
    BY <1>1
  <2>2. Histories(child.stage, FALSE) = {<<>>} /\ Histories(child.stage + 1, u) = {<<>>}
    BY <2>1, HistoriesOf, Zenon
  <2> QED BY <2>1, <2>2, Zenon
<1>2. CASE child.stage = 4
  <2>1. child.stage + 1 = 5 /\ child.stage \in 1..4 /\ child.stage # 5 /\ child.stage # 11
    BY <1>2
  <2>2. catalog.history \in {<<>>}
    BY <2>1, HistoriesOf, Zenon
  <2>3. Histories(child.stage + 1, u) = Created
    BY <2>1, HistoriesOf, Zenon
  <2> QED BY <2>1, <2>2, <2>3, Zenon DEF Created
<1>3. CASE child.stage = 5
  <2>1. catalog.history \in {<<>>, <<CT>>}
    BY <1>3, HistoriesOf, Zenon DEF Created
  <2>2. Holds("CreateTable")
    <3>1. child.stage \notin {1, 3} /\ Stages[child.stage] = "CreateTable"
      BY <1>3, StageFacts, SMTT(60)
    <3> QED BY <3>1, Zenon DEF Passes
  <2>3. catalog.table # "absent"
    BY <2>2, StageFacts, SMTT(60) DEF Holds, StageNames
  <2>4. catalog.table = "owned"
    BY <1>3, <2>3, SMTT(60) DEF TableInv, Typed, Owners, Preflight
  <2>5. catalog.history # <<>>
    BY <2>4, SMTT(60) DEF TableInv
  <2>6. catalog.history = <<CT>>
    BY <2>1, <2>5, Zenon
  <2>7. u = TRUE /\ child.stage + 1 = 6 /\ child.stage # 11
    BY <1>3
  <2>8. Histories(child.stage + 1, u) = {<<CT>>}
    BY <2>7, HistoriesOf, Zenon
  <2> QED BY <2>6, <2>7, <2>8, Zenon
<1>4. CASE child.stage = 6
  <2>1. child.stage + 1 = 7 /\ child.stage # 5 /\ child.stage # 11
    BY <1>4
  <2> QED BY <1>4, <2>1, HistoriesOf, Zenon
<1>5. CASE child.stage = 7
  <2>1. catalog.history \in Appended
    BY <1>5, HistoriesOf, Zenon
  <2>2. Holds("ReadInitial")
    <3>1. child.stage \notin {1, 3} /\ Stages[child.stage] = "ReadInitial"
      BY <1>5, StageFacts
    <3> QED BY <3>1, Zenon DEF Passes
  <2>3. Rows(catalog.history) = InitialRows
    BY <2>2, Zenon DEF Holds
  <2>4. catalog.history = <<CT, AI>>
    BY <2>1, <2>3, InitialReadBack, Zenon
  <2>5. u = TRUE /\ child.stage + 1 = 8 /\ child.stage # 5 /\ child.stage # 11
    BY <1>5
  <2>6. Histories(child.stage + 1, u) = ReadBack
    BY <2>5, HistoriesOf, Zenon
  <2> QED BY <2>4, <2>5, <2>6, Zenon DEF ReadBack
<1>6. CASE child.stage = 8
  <2>1. catalog.history \in Changed
    BY <1>6, HistoriesOf, Zenon
  <2>2. u = TRUE /\ child.stage + 1 = 9 /\ child.stage # 5 /\ child.stage # 11
    BY <1>6
  <2>3. Histories(child.stage + 1, u) = Changed
    BY <2>2, HistoriesOf, Zenon
  <2> QED BY <2>1, <2>2, <2>3, Zenon
<1>7. CASE child.stage = 9
  <2>1. child.stage + 1 = 10 /\ child.stage # 5 /\ child.stage # 11
    BY <1>7
  <2> QED BY <1>7, <2>1, HistoriesOf, Zenon
<1>8. CASE child.stage = 10
  <2>1. catalog.history \in Extended
    BY <1>8, HistoriesOf, Zenon
  <2>2. Holds("ReadEvolved")
    <3>1. child.stage \notin {1, 3} /\ Stages[child.stage] = "ReadEvolved"
      BY <1>8, StageFacts
    <3> QED BY <3>1, Zenon DEF Passes
  <2>3. Evolved(catalog.history) /\ Rows(catalog.history) = EvolvedRows
    BY <2>2, Zenon DEF Holds
  <2>4. catalog.history = Full
    BY <2>1, <2>3, EvolvedReadBack, Zenon
  <2>5. child.stage + 1 = 11 /\ child.stage # 5 /\ child.stage # 11
    BY <1>8
  <2>6. Histories(child.stage + 1, u) = Versions
    BY <2>5, HistoriesOf, Zenon
  <2> QED BY <2>4, <2>5, <2>6, Zenon DEF Versions
<1>9. CASE child.stage = 11
  <2>1. child.stage + 1 = 12 /\ child.stage # 5
    BY <1>9
  <2> QED BY <1>9, <2>1, HistoriesOf, Zenon
<1>10. child.stage \in 1..3 \/ child.stage \in {4, 5, 6, 7, 8, 9, 10, 11}
  BY <1>t, SMTT(60)
<1> QED BY <1>1, <1>2, <1>3, <1>4, <1>5, <1>6, <1>7, <1>8, <1>9, <1>10, Zenon

\* While the program runs its table has a history that the stage allows,
\* whatever the catalog loses, doubles or takes back.
LEMMA HistoryInvNext ==
  ASSUME Typed, RunnerInv, RequestInv, TableInv, HistoryInv, [Next]_vars
  PROVE  HistoryInv'
<1>t. child \in Children /\ child.stage \in 1..12
  BY StageFacts DEF Typed, Children
<1>b. Unsettled \in BOOLEAN /\ Unsettled' \in BOOLEAN
  BY Zenon DEF Unsettled
<1>s. ASSUME runner = "program", catalog'.history = catalog.history, child'.stage = child.stage,
             Unsettled' => Unsettled
      PROVE  HistoryInv'
  <2>1. catalog.history \in Histories(child.stage, Unsettled)
    BY <1>s DEF HistoryInv
  <2>2. catalog.history \in Histories(child.stage, Unsettled')
    BY <1>b, <1>s, <1>t, <2>1, HistoriesSettle, Zenon
  <2> QED BY <1>s, <2>2, Zenon DEF HistoryInv
<1>1. CASE Starting /\ (Prepare \/ StartServer \/ Probe \/ ConnectObservers)
  <2>1. catalog' = catalog /\ child.stage = 1 /\ runner # "returned"
    BY <1>1, SMTT(60) DEF Starting, RunnerInv
  <2>2. child'.stage = 1
    <3>1. [child EXCEPT !.state = "running"].stage = child.stage
      BY <1>t, SMTT(60) DEF Children
    <3> QED BY <1>1, <2>1, <3>1, Zenon DEF Starting, GivesUp, GoesOn
  <2>3. catalog'.history = <<>>
    BY <2>1, SMTT(60) DEF TableInv, Preflight
  <2>4. 1 \in 1..4
    OBVIOUS
  <2>5. Histories(child'.stage, Unsettled') = {<<>>}
    BY <1>b, <2>2, <2>4, HistoriesOf, Zenon
  <2> QED BY <2>3, <2>5, Zenon DEF HistoryInv
<1>2. CASE ProgramEnds \/ ProgramPanics
  <2>1. runner' = "returned"
    BY <1>2, Zenon DEF ProgramEnds, ProgramPanics, Gives
  <2> QED BY <2>1 DEF HistoryInv
<1>k. ASSUME runner' = "program" => runner = "program", catalog' = catalog, child'.stage = child.stage,
             Unsettled' => Unsettled
      PROVE  HistoryInv'
  <2>1. CASE runner = "program"
    BY <1>k, <1>s, <2>1, Zenon
  <2>2. CASE runner # "program"
    BY <1>k, <2>2, Zenon DEF HistoryInv
  <2> QED BY <2>1, <2>2
<1>3. CASE ServerDies
  BY <1>3, <1>k, Zenon DEF ServerDies, programVars, Unsettled
<1>4. CASE runner = "program" /\ Sends /\ UNCHANGED <<workflowVars, runnerVars>>
  <2>1. child'.stage = child.stage /\ catalog' = catalog /\ Unsettled
    BY <1>4, <1>t, SMTT(60) DEF Sends, ChildSends, Children, Unsettled
  <2> QED BY <1>4, <2>1, <1>s, Zenon
<1>5. CASE runner = "program" /\ Writes /\ UNCHANGED <<workflowVars, runnerVars>>
  <2>1. PICK w \in Reports \cup Failures : child' = w.next
    BY <1>5, Zenon DEF Writes
  <2>2. catalog' = catalog /\ request' = request
    BY <1>5 DEF Writes
  <2>3. CASE Ends(w)
    <3>1. child'.stage = child.stage /\ child'.phase = "stopping"
      BY <2>1, <2>3, WriteMoves
    <3>2. Unsettled' => Unsettled
      BY <2>2, <3>1, SMTT(60) DEF Unsettled
    <3> QED BY <1>5, <2>2, <3>1, <3>2, <1>s, Zenon
  <2>4. CASE Passes(w)
    <3>1. /\ child'.stage = child.stage + 1
          /\ child'.phase = IF child'.stage \in {4, 5, 6, 8, 9} THEN "work" ELSE "ready"
      BY <2>1, <2>4, WriteMoves, SMTT(60)
    <3>2. request = "none" /\ child.phase = "ready"
      BY <2>4, SMTT(60) DEF Passes, RequestInv
    <3>3. Unsettled = FALSE
      BY <3>2, SMTT(60) DEF Unsettled
    <3>4. Unsettled' <=> child.stage + 1 \in {4, 5, 6, 8, 9}
      BY <2>2, <3>1, <3>2, SMTT(60) DEF Unsettled
    <3>5. catalog.history \in Histories(child.stage, FALSE)
      BY <1>5, <3>3, Zenon DEF HistoryInv
    <3>6. catalog.history \in Histories(child.stage + 1, Unsettled')
      BY <1>b, <2>4, <3>4, <3>5, HistoriesAdvance, Zenon
    <3> QED BY <2>2, <3>1, <3>6, Zenon DEF HistoryInv
  <2> QED BY <2>3, <2>4, WriteCases
<1>6. CASE (Executed \/ Forgotten) /\ out' = out /\ UNCHANGED <<workflowVars, runnerVars>>
  <2>r. runner' = runner
    BY <1>6 DEF runnerVars
  <2> SUFFICES ASSUME runner = "program" PROVE HistoryInv'
    BY <2>r, Zenon DEF HistoryInv
  <2>1. CASE Forgotten
    <3>1. child' = child /\ Unsettled' = Unsettled
      BY <2>1, Zenon DEF Forgotten, Unsettled
    <3>2. catalog'.history = SubSeq(catalog.history, 1, Len(catalog.history) - 1)
      BY <2>1, SMTT(60) DEF Forgotten, Typed
    <3>3. catalog.history \in Histories(child.stage, Unsettled) /\ Len(catalog.history) > 1
      BY <2>1 DEF HistoryInv, Forgotten
    <3>4. catalog'.history \in Histories(child.stage, Unsettled)
      BY <1>b, <1>t, <3>2, <3>3, HistoriesForget, Zenon
    <3> QED BY <3>1, <3>4, Zenon DEF HistoryInv
  <2>2. CASE Executed
    <3>1. Unsettled = TRUE
      BY <2>2 DEF Executed, Unsettled
    <3>2. child'.stage = child.stage /\ Unsettled' = FALSE
      BY <2>2, AnsweredChild, SMTT(60) DEF Executed, Unsettled, RequestInv
    <3>3. catalog.history \in Histories(child.stage, TRUE)
      BY <3>1, Zenon DEF HistoryInv
    <3>4. catalog'.history \in Histories(child.stage, FALSE)
      BY <2>2, <3>3, HistoriesGrow, ZenonT(60)
    <3> QED BY <3>2, <3>4, Zenon DEF HistoryInv
  <2> QED BY <1>6, <2>1, <2>2
<1>7. CASE WorkflowActs /\ UNCHANGED runnerVars
  <2>1. runner' = runner /\ runner = "returned"
    BY <1>7, WorkflowSteps DEF Cleaning, runnerVars, RunnerInv
  <2> QED BY <2>1 DEF HistoryInv
<1>8. CASE UNCHANGED vars
  BY <1>8, <1>k, Zenon DEF vars, programVars, runnerVars, Unsettled
<1> QED BY StepCases, <1>1, <1>2, <1>3, <1>4, <1>5, <1>6, <1>7, <1>8, Zenon

\* The program reports its stages in order, and the runner returns the events
\* as they were written (from_in_process_events).
LEMMA EventsInvNext ==
  ASSUME Typed, RunnerInv, RequestInv, TableInv, HistoryInv, EventsInv, [Next]_vars
  PROVE  EventsInv'
<1>t. child \in Children /\ child.stage \in 1..12 /\ out \in Seq(Event)
  BY StageFacts DEF Typed, Children
<1>x. ASSUME NEW s
      PROVE  [child EXCEPT !.state = s].stage = child.stage /\ [child EXCEPT !.state = s].phase = child.phase
  BY <1>t, SMTT(60) DEF Children
<1>e. InSequence(<<>>)
  BY SMTT(60) DEF InSequence
<1>k. ASSUME out' = out, process' = process, runner' = runner, child'.stage = child.stage,
             child'.phase # "stopping" => child.phase # "stopping"
      PROVE  EventsInv'
  BY <1>k, Zenon DEF EventsInv
<1>l. ASSUME runner' = "returned", process'.events = <<>>
      PROVE  EventsInv'
  BY <1>l, <1>e, Zenon DEF EventsInv
<1>b. ASSUME NEW o PROVE BeforeProcess(o).events = <<>>
  BY SMTT(60) DEF BeforeProcess, NoProcess
<1>1. CASE Starting /\ (Prepare \/ StartServer \/ Probe \/ ConnectObservers)
  <2>1. CASE GivesUp
    <3>1. process'.events = <<>> /\ runner' = "returned"
      BY <2>1, <1>b, Zenon DEF GivesUp, Return
    <3> QED BY <3>1, <1>l, Zenon
  <2>2. CASE GoesOn
    <3>1. out' = <<>> /\ child.stage = 1
      BY <1>1, SMTT(60) DEF Starting, RunnerInv
    <3>2. child'.stage = 1 /\ runner' # "returned"
      <4>1. child'.stage = 1
        BY <2>2, <3>1, <1>x, Zenon DEF GoesOn
      <4>2. runner' # "returned"
        BY <2>2, SMTT(60) DEF GoesOn
      <4> QED BY <4>1, <4>2
    <3>3. Len(out') = child'.stage - 1
      BY <3>1, <3>2, SMTT(60)
    <3> QED BY <3>1, <3>2, <3>3, <1>e, Zenon DEF EventsInv
  <2> QED BY <1>1, <2>1, <2>2 DEF Starting
<1>2. CASE ProgramPanics
  <2>1. process'.events = <<>> /\ runner' = "returned"
    BY <1>2, <1>b, Zenon DEF ProgramPanics, Gives, Return
  <2> QED BY <2>1, <1>l, Zenon
<1>3. CASE ProgramEnds
  <2>1. Collected.events = out
    BY SMTT(60) DEF Collected
  <2>2. runner' = "returned" /\ process'.events = out /\ runner = "program"
    BY <1>3, <2>1, Zenon DEF ProgramEnds, Return
  <2> QED BY <2>2, Zenon DEF EventsInv
<1>4. CASE ServerDies
  BY <1>4, <1>k, Zenon DEF ServerDies, programVars, workflowVars
<1>5. CASE runner = "program" /\ Sends /\ UNCHANGED <<workflowVars, runnerVars>>
  <2>1. child'.stage = child.stage /\ out' = out /\ process' = process /\ runner' = runner /\ child.phase # "stopping"
    BY <1>5, <1>t, SMTT(60) DEF Sends, ChildSends, Children, runnerVars, workflowVars
  <2> QED BY <2>1, <1>k, Zenon
<1>6. CASE runner = "program" /\ Writes /\ UNCHANGED <<workflowVars, runnerVars>>
  <2>1. PICK w \in Reports \cup Failures : child' = w.next /\ out' = Append(out, w.event)
    BY <1>6, Zenon DEF Writes
  <2>2. runner' = "program"
    BY <1>6 DEF runnerVars
  <2>3. child.phase # "stopping" /\ w.event \in Event
    BY WriteCases, SMTT(60)
  <2>4. Len(out) = child.stage - 1 /\ InSequence(out)
    BY <1>6, <2>3, Zenon DEF EventsInv
  <2>5. ASSUME w.event.kind = "ready" =>
                 /\ child.stage \in 1..Observed /\ w.event.stage = Stages[child.stage]
                 /\ child.stage = TableCreated => w.event.seen = <<CT>>
                 /\ child.stage = Observed => w.event.seen \in Versions
        PROVE  InSequence(out')
    <3> SUFFICES ASSUME NEW i \in DOMAIN Append(out, w.event), Append(out, w.event)[i].kind = "ready"
                 PROVE  /\ i \in 1..Observed /\ Append(out, w.event)[i].stage = Stages[i]
                        /\ i = TableCreated => Append(out, w.event)[i].seen = <<CT>>
                        /\ i = Observed => Append(out, w.event)[i].seen \in Versions
      BY <2>1, Zenon DEF InSequence
    <3>1. CASE i \in DOMAIN out
      <4>1. Append(out, w.event)[i] = out[i]
        BY <1>t, <2>3, <3>1, SMTT(60)
      <4> QED BY <2>4, <3>1, <4>1, Zenon DEF InSequence
    <3>2. CASE i \notin DOMAIN out
      <4>1. i = child.stage /\ Append(out, w.event)[i] = w.event
        BY <1>t, <2>3, <2>4, <3>2, SMTT(60)
      <4> QED BY <2>5, <4>1, Zenon
    <3> QED BY <3>1, <3>2
  <2>6. CASE Ends(w)
    <3>1. child'.phase = "stopping"
      BY <2>1, <2>6, WriteMoves, SMTT(60)
    <3>2. w.event.kind = "ready" => child.stage = 3 /\ w.event.stage = Stages[3]
      BY <2>6, SMTT(60) DEF Ends
    <3>3. InSequence(out')
      BY <2>5, <3>2, SMTT(60) DEF Observed, TableCreated
    <3> QED BY <2>2, <3>1, <3>3, SMTT(60) DEF EventsInv
  <2>7. CASE Passes(w)
    <3>1. child'.stage = child.stage + 1
      BY <2>1, <2>7, WriteMoves, SMTT(60)
    <3>2. request = "none" /\ child.phase = "ready" /\ child.stage \in 1..11 /\ w.event.stage = Stages[child.stage]
      BY <2>7, SMTT(60) DEF Passes, RequestInv
    <3>3. Unsettled = FALSE
      BY <3>2, SMTT(60) DEF Unsettled
    <3>4. catalog.history \in Histories(child.stage, FALSE)
      BY <1>6, <3>3, Zenon DEF HistoryInv
    <3>5. w.event.seen = catalog.history
      BY <2>7 DEF Passes
    <3>6. /\ child.stage = 5 => w.event.seen = <<CT>>
          /\ child.stage = 11 => w.event.seen \in Versions
      <4>1. PICK u \in BOOLEAN : u <=> child.stage + 1 \in {4, 5, 6, 8, 9}
        BY ZenonT(60)
      <4>2. /\ child.stage = 5 => catalog.history = <<CT>>
            /\ child.stage = 11 => catalog.history \in Versions
        BY <2>7, <3>4, <4>1, HistoriesAdvance, Zenon
      <4> QED BY <3>5, <4>2, Zenon
    <3>7. InSequence(out')
      BY <2>5, <3>2, <3>6, Zenon DEF Observed, TableCreated
    <3>8. Len(out') = child'.stage - 1
      BY <1>t, <2>1, <2>3, <2>4, <3>1, SMTT(60)
    <3> QED BY <2>2, <3>7, <3>8, SMTT(60) DEF EventsInv
  <2> QED BY <2>6, <2>7, WriteCases, SMTT(60)
<1>7. CASE (Executed \/ Forgotten) /\ out' = out /\ UNCHANGED <<workflowVars, runnerVars>>
  <2>1. child'.stage = child.stage /\ (child'.phase # "stopping" => child.phase # "stopping")
    BY <1>7, AnsweredChild, SMTT(60) DEF Executed, Forgotten
  <2>2. process' = process /\ runner' = runner
    BY <1>7 DEF workflowVars, runnerVars
  <2> QED BY <1>7, <2>1, <2>2, <1>k, Zenon
<1>8. CASE WorkflowActs /\ UNCHANGED runnerVars
  <2>1. UNCHANGED <<child, out, process, runner>>
    BY <1>8, WorkflowSteps DEF Cleaning, runnerVars
  <2> QED BY <2>1, <1>k, Zenon
<1>9. CASE UNCHANGED vars
  BY <1>9, <1>k, Zenon DEF vars, programVars, runnerVars, workflowVars
<1> QED BY StepCases, <1>1, <1>2, <1>3, <1>4, <1>5, <1>6, <1>7, <1>8, <1>9, Zenon

----------------------------------------------------------------------------
(* The cleanup and the classification *)

\* Finalizing changes nothing but the step and the classification.
LEMMA FinalFields ==
  ASSUME NEW e \in Execution
  PROVE  /\ Finalize(e).at = "done" /\ Finalize(e).classification = Classification(e)
         /\ Finalize(e).loaded = e.loaded /\ Finalize(e).drop_table = e.drop_table
         /\ Finalize(e).verify_table = e.verify_table
<1> DEFINE c == Classification(e)
<1> HIDE DEF c
<1>1. LET f == [e EXCEPT !.at = "done", !.classification = c]
      IN  /\ f.at = "done" /\ f.classification = c
          /\ f.loaded = e.loaded /\ f.drop_table = e.drop_table
          /\ f.verify_table = e.verify_table
  BY SMTT(60) DEF Execution
<1> QED BY <1>1, Zenon DEF Finalize, c

\* What a step of the workflow puts into the evidence: a table is verified as
\* absent only if it is, and only the verification of the namespace finalizes
\* a run whose table has been dropped (cleanup_fixture).
LEMMA CleaningEvidence ==
  ASSUME Typed, WorkflowActs
  PROVE  /\ execution.at # "done" /\ execution'.at # "connect"
         /\ \/ execution'.verify_table = execution.verify_table
            \/ execution'.verify_table = "absent" => catalog.table = "absent" /\ catalog' = catalog
         /\ execution'.at = "done" =>
              \/ /\ execution.at = "connect"
                 /\ \E e \in Execution : execution' = Finalize(e) /\ e.drop_table = execution.drop_table
              \/ /\ catalog' = catalog
                 /\ \E s \in Statuses :
                      /\ execution' = Finalize([execution EXCEPT !.verify_namespace = s])
                      /\ s = "absent" => catalog.namespace = "absent"
<1> DEFINE Evidence ==
         /\ execution.at # "done" /\ execution'.at # "connect"
         /\ \/ execution'.verify_table = execution.verify_table
            \/ execution'.verify_table = "absent" => catalog.table = "absent" /\ catalog' = catalog
         /\ execution'.at = "done" =>
              \/ /\ execution.at = "connect"
                 /\ \E e \in Execution : execution' = Finalize(e) /\ e.drop_table = execution.drop_table
              \/ /\ catalog' = catalog
                 /\ \E s \in Statuses :
                      /\ execution' = Finalize([execution EXCEPT !.verify_namespace = s])
                      /\ s = "absent" => catalog.namespace = "absent"
<1>t. execution \in Execution
  BY DEF Typed
<1>p. ASSUME NEW r, NEW ok
      PROVE  Presence(r, ok) \in Statuses /\ (Presence(r, ok) = "absent" => catalog[r] = "absent")
  <2>1. "failed" # "absent" /\ "present" # "absent"
    OBVIOUS
  <2> QED BY <2>1, Zenon DEF Presence, Statuses
<1>k. ASSUME execution.at # "done", execution'.at \notin {"connect", "done"},
             execution'.verify_table = execution.verify_table
      PROVE  Evidence
  BY <1>k, SMTT(60)
<1>f. ASSUME execution.at = "connect", NEW e \in Execution, execution' = Finalize(e),
             e.drop_table = execution.drop_table, e.verify_table = execution.verify_table
      PROVE  Evidence
  <2>1. execution'.at = "done" /\ execution'.verify_table = e.verify_table
    BY <1>f, FinalFields, SMTT(60)
  <2> QED BY <1>f, <2>1, SMTT(60)
<1>1. CASE Unauthorized
  BY <1>1, <1>f, <1>t, Zenon DEF Unauthorized, Called
<1>2. CASE Connect
  <2>1. \/ execution' = [execution EXCEPT !.connection = "ok", !.at = "load"]
        \/ execution' = Finalize([execution EXCEPT !.connection = "failed"])
    BY <1>2, Zenon DEF Connect, Called
  <2>2. execution.at = "connect"
    BY <1>2 DEF Connect
  <2>3. CASE execution' = [execution EXCEPT !.connection = "ok", !.at = "load"]
    <3>1. execution'.at = "load" /\ execution'.verify_table = execution.verify_table
      BY <1>t, <2>3, SMTT(60) DEF Execution
    <3> QED BY <2>2, <3>1, <1>k
  <2>4. CASE execution' = Finalize([execution EXCEPT !.connection = "failed"])
    <3>1. [execution EXCEPT !.connection = "failed"] \in Execution
      BY <1>t, SMTT(60) DEF Execution, Statuses
    <3>2. /\ [execution EXCEPT !.connection = "failed"].drop_table = execution.drop_table
          /\ [execution EXCEPT !.connection = "failed"].verify_table = execution.verify_table
      BY <1>t, SMTT(60) DEF Execution
    <3> QED BY <2>2, <2>4, <3>1, <3>2, <1>f, Zenon
  <2> QED BY <2>1, <2>3, <2>4
<1>3. CASE LoadTable
  <2>1. PICK s, h : execution' = [execution EXCEPT !.at = "audit", !.state = s, !.loaded = h]
    BY <1>3, Zenon DEF LoadTable, Called
  <2>2. execution'.at = "audit" /\ execution'.verify_table = execution.verify_table
    BY <1>t, <2>1, SMTT(60) DEF Execution
  <2>3. execution.at = "load"
    BY <1>3 DEF LoadTable
  <2> QED BY <2>2, <2>3, <1>k
<1>4. CASE AuditObjectState
  <2>1. PICK s : execution' = [execution EXCEPT !.at = "drop_table", !.audit = s]
    BY <1>4, Zenon DEF AuditObjectState, Called
  <2>2. execution'.at = "drop_table" /\ execution'.verify_table = execution.verify_table
    BY <1>t, <2>1, SMTT(60) DEF Execution
  <2>3. execution.at = "audit"
    BY <1>4 DEF AuditObjectState
  <2> QED BY <2>2, <2>3, <1>k
<1>5. CASE DropTable
  <2>1. PICK s : execution' = [execution EXCEPT !["drop_table"] = s, !.at = "verify_table"]
    BY <1>5, Zenon DEF DropTable, Drop, Called
  <2>2. execution'.at = "verify_table" /\ execution'.verify_table = execution.verify_table
    BY <1>t, <2>1, ZenonT(60) DEF Execution
  <2>3. execution.at = "drop_table"
    BY <1>5 DEF DropTable, Drop
  <2> QED BY <2>2, <2>3, <1>k, SMTT(60)
<1>6. CASE VerifyTable
  <2>1. PICK ok : execution' = [execution EXCEPT !.at = "drop_namespace", !.verify_table = Presence("table", ok)]
    BY <1>6, Zenon DEF VerifyTable, Called
  <2>p. Presence("table", ok) = "absent" => catalog.table = "absent"
    BY <1>p
  <2> DEFINE s == Presence("table", ok)
  <2> HIDE DEF s
  <2>2. /\ [execution EXCEPT !.at = "drop_namespace", !.verify_table = s].at = "drop_namespace"
        /\ [execution EXCEPT !.at = "drop_namespace", !.verify_table = s].verify_table = s
    BY <1>t, SMTT(60) DEF Execution
  <2>3. execution.at = "verify_table" /\ catalog' = catalog
    BY <1>6 DEF VerifyTable
  <2>4. execution'.at = "drop_namespace" /\ execution'.verify_table = s
    BY <2>1, <2>2, Zenon DEF s
  <2>5. execution'.verify_table = "absent" => catalog.table = "absent" /\ catalog' = catalog
    BY <2>p, <2>3, <2>4, Zenon DEF s
  <2>6. execution.at # "done" /\ execution'.at # "connect" /\ execution'.at # "done"
    BY <2>3, <2>4
  <2> QED BY <2>5, <2>6, Zenon
<1>7. CASE DropNamespace
  <2>1. PICK s : execution' = [execution EXCEPT !["drop_namespace"] = s, !.at = "verify_namespace"]
    BY <1>7, Zenon DEF DropNamespace, Drop, Called
  <2>2. execution'.at = "verify_namespace" /\ execution'.verify_table = execution.verify_table
    BY <1>t, <2>1, ZenonT(60) DEF Execution
  <2>3. execution.at = "drop_namespace"
    BY <1>7 DEF DropNamespace, Drop
  <2> QED BY <2>2, <2>3, <1>k, SMTT(60)
<1>8. CASE VerifyNamespace
  <2>1. PICK ok : execution' = Finalize([execution EXCEPT !.verify_namespace = Presence("namespace", ok)])
    BY <1>8, Zenon DEF VerifyNamespace, Called
  <2>p. Presence("namespace", ok) \in Statuses /\ (Presence("namespace", ok) = "absent" => catalog.namespace = "absent")
    BY <1>p, SMTT(60)
  <2>2. PICK s \in Statuses : /\ execution' = Finalize([execution EXCEPT !.verify_namespace = s])
                              /\ s = "absent" => catalog.namespace = "absent"
    BY <2>1, <2>p, Zenon
  <2>3. /\ [execution EXCEPT !.verify_namespace = s] \in Execution
        /\ [execution EXCEPT !.verify_namespace = s].verify_table = execution.verify_table
    BY <1>t, SMTT(60) DEF Execution
  <2>4. execution'.at = "done" /\ execution'.verify_table = execution.verify_table
    BY <2>2, <2>3, FinalFields, Zenon
  <2>5. execution.at = "verify_namespace" /\ catalog' = catalog
    BY <1>8, SMTT(60) DEF VerifyNamespace
  <2>6. execution.at # "done" /\ execution'.at # "connect"
    BY <2>4, <2>5, SMTT(60)
  <2> QED BY <2>2, <2>4, <2>5, <2>6, Zenon
<1> QED BY <1>1, <1>2, <1>3, <1>4, <1>5, <1>6, <1>7, <1>8, Zenon DEF WorkflowActs

\* After a program that completed no request is on its way, so that what the
\* cleanup verified as absent stays absent.
LEMMA CleanupInvNext ==
  ASSUME Typed, RunnerInv, RequestInv, CleanupInv, [Next]_vars
  PROVE  CleanupInv'
<1>t. execution \in Execution /\ catalog \in [namespace : Owners, table : Owners, history : Seq(TableMutations)]
  BY DEF Typed
<1>k. ASSUME runner' = runner, UNCHANGED <<process, execution, request>>, catalog'.table = catalog.table
      PROVE  CleanupInv'
  BY <1>k, Zenon DEF CleanupInv
<1>b. ASSUME NEW o PROVE BeforeProcess(o).code = NoCode
  BY SMTT(60) DEF BeforeProcess, NoProcess
<1>r. ASSUME runner # "returned", NEW p, Return(p), p.code = 0 => request' = "none"
      PROVE  CleanupInv'
  <2>1. execution = Pending
    BY <1>r, SMTT(60) DEF RunnerInv, Returned
  <2>2. /\ [Pending EXCEPT !.at = "connect"].drop_table = "skipped"
        /\ [Pending EXCEPT !.at = "connect"].verify_table = "skipped"
    BY SMTT(60) DEF Pending
  <2>3. execution'.drop_table = "skipped" /\ execution'.verify_table # "absent" /\ process' = p
    BY <1>r, <2>1, <2>2 DEF Return
  <2> QED BY <1>r, <2>3, Zenon DEF CleanupInv
<1>1. CASE Starting /\ (Prepare \/ StartServer \/ Probe \/ ConnectObservers)
  <2>0. runner # "returned"
    BY <1>1, SMTT(60) DEF Starting
  <2>1. CASE GivesUp
    <3>1. PICK o : Return(BeforeProcess(o))
      BY <2>1, Zenon DEF GivesUp
    <3>2. BeforeProcess(o).code # 0
      BY <1>b, SMTT(60) DEF NoCode
    <3> QED BY <2>0, <3>1, <3>2, <1>r, Zenon
  <2>2. CASE GoesOn
    <3>1. runner' # "returned"
      BY <2>2, SMTT(60) DEF GoesOn
    <3> QED BY <3>1 DEF CleanupInv
  <2> QED BY <1>1, <2>1, <2>2 DEF Starting
<1>2. CASE ProgramPanics
  <2>1. Return(BeforeProcess("WaitFailed")) /\ runner = "program"
    BY <1>2 DEF ProgramPanics, Gives
  <2>2. BeforeProcess("WaitFailed").code # 0
    BY <1>b, SMTT(60) DEF NoCode
  <2>3. runner # "returned"
    BY <2>1
  <2> QED BY <2>1, <2>2, <2>3, <1>r, Zenon
<1>3. CASE ProgramEnds
  <2>1. Collected.code = child.code
    BY SMTT(60) DEF Collected
  <2>2. runner # "returned" /\ Return(Collected) /\ request' = request
    BY <1>3 DEF ProgramEnds
  <2>3. Collected.code = 0 => request' = "none"
    BY <2>1, <2>2, SMTT(60) DEF RequestInv
  <2> QED BY <2>2, <2>3, <1>r, Zenon
<1>4. CASE ServerDies
  BY <1>4, <1>k, Zenon DEF ServerDies, programVars, workflowVars
<1>5. CASE runner = "program" /\ (Sends \/ Writes) /\ UNCHANGED <<workflowVars, runnerVars>>
  <2>1. runner' # "returned"
    BY <1>5, SMTT(60) DEF runnerVars
  <2> QED BY <2>1 DEF CleanupInv
<1>6. CASE (Executed \/ Forgotten) /\ out' = out /\ UNCHANGED <<workflowVars, runnerVars>>
  <2>1. runner' = runner /\ UNCHANGED <<process, execution>>
    BY <1>6 DEF workflowVars, runnerVars
  <2>2. CASE Executed
    <3>1. request # "none" /\ request' = "none"
      BY <2>2 DEF Executed
    <3> QED BY <2>1, <3>1, SMTT(60) DEF CleanupInv
  <2>3. CASE Forgotten
    <3>1. request' = request /\ catalog'.table = catalog.table
      BY <1>t, <2>3, SMTT(60) DEF Forgotten
    <3> QED BY <2>1, <3>1, <1>k, Zenon
  <2> QED BY <1>6, <2>2, <2>3
<1>7. CASE WorkflowActs /\ UNCHANGED runnerVars
  <2>1. runner' = runner /\ UNCHANGED <<process, request>>
    BY <1>7, WorkflowSteps DEF Cleaning, runnerVars
  <2>2. catalog.table = "absent" => catalog'.table = "absent"
    <3>1. Dropped("table").table = "absent" /\ Dropped("namespace").table = catalog.table
      BY <1>t, SMTT(60) DEF Dropped
    <3>2. catalog' = catalog \/ catalog' = Dropped("table") \/ catalog' = Dropped("namespace")
      BY <1>7, WorkflowSteps DEF Cleaning
    <3> QED BY <3>1, <3>2, Zenon
  <2>3. /\ execution'.at # "connect"
        /\ \/ execution'.verify_table = execution.verify_table
           \/ execution'.verify_table = "absent" => catalog.table = "absent" /\ catalog' = catalog
    BY <1>7, CleaningEvidence
  <2> QED BY <2>1, <2>2, <2>3, Zenon DEF CleanupInv
<1>8. CASE UNCHANGED vars
  BY <1>8, <1>k, Zenon DEF vars, programVars, runnerVars, workflowVars
<1> QED BY StepCases, <1>1, <1>2, <1>3, <1>4, <1>5, <1>6, <1>7, <1>8, Zenon

\* The events of a run whose final table has two commits more than the table
\* it created show a table that went through the whole program
\* (final_table_matches).
LEMMA FinalTableIsFull ==
  ASSUME InSequence(process.events), Reported("CreateTable"), FinalTableMatches
  PROVE  Seen("ObserveFinalTable") = Full
<1>1. ASSUME NEW stage, Reported(stage)
      PROVE  \E i \in DOMAIN process.events :
               /\ process.events[i].kind = "ready" /\ process.events[i].stage = stage
               /\ Seen(stage) = process.events[i].seen
  BY <1>1, Zenon DEF Reported, Seen
<1>2. Seen("CreateTable") = <<CT>>
  <2>1. PICK i \in DOMAIN process.events :
          /\ process.events[i].kind = "ready" /\ process.events[i].stage = "CreateTable"
          /\ Seen("CreateTable") = process.events[i].seen
    BY <1>1, Zenon
  <2>2. i \in 1..11 /\ Stages[i] = "CreateTable"
    BY <2>1, Zenon DEF InSequence, Observed
  <2>3. i = TableCreated
    BY <2>2, StageNumbers DEF TableCreated
  <2> QED BY <2>1, <2>3, Zenon DEF InSequence
<1>3. Seen("ObserveFinalTable") \in Versions
  <2>0. Reported("ObserveFinalTable")
    BY Zenon DEF FinalTableMatches
  <2>1. PICK i \in DOMAIN process.events :
          /\ process.events[i].kind = "ready" /\ process.events[i].stage = "ObserveFinalTable"
          /\ Seen("ObserveFinalTable") = process.events[i].seen
    BY <1>1, <2>0, Zenon
  <2>2. i \in 1..11 /\ Stages[i] = "ObserveFinalTable"
    BY <2>1, Zenon DEF InSequence, Observed
  <2>3. i = Observed
    BY <2>2, StageNumbers, SMTT(60) DEF Observed
  <2> QED BY <2>1, <2>3, Zenon DEF InSequence
<1>4. Cardinality(Commits(Seen("ObserveFinalTable"))) = Cardinality(Commits(<<CT>>)) + 1 + 1
  <2>1. Snapshots("ObserveFinalTable") = Snapshots("CreateTable") + 2
    BY Zenon DEF FinalTableMatches
  <2>2. /\ Snapshots("ObserveFinalTable") = Cardinality(Commits(Seen("ObserveFinalTable")))
        /\ Snapshots("CreateTable") = Cardinality(Commits(<<CT>>))
    BY <1>2, Zenon DEF Snapshots
  <2> QED BY <2>1, <2>2, CommitCounts
<1>5. Cardinality(Commits(Seen("ObserveFinalTable"))) = 2
  BY <1>4, CommitCounts
<1>6. /\ Seen("ObserveFinalTable") # <<CT>>
      /\ Seen("ObserveFinalTable") # <<CT, AI>>
      /\ Seen("ObserveFinalTable") # <<CT, AI, ES>>
  BY <1>5, CommitCounts, SMTT(60)
<1> QED BY <1>3, <1>6, Zenon DEF Versions

\* A run is finalized as passed only with the whole program behind it and the
\* fixture gone, and nothing changes the catalog after that.
LEMMA EarnedInvNext ==
  ASSUME Typed, RunnerInv, EventsInv, CleanupInv, EarnedInv, [Next]_vars
  PROVE  EarnedInv'
<1>t. execution \in Execution /\ catalog \in [namespace : Owners, table : Owners, history : Seq(TableMutations)]
  BY DEF Typed
<1>k. ASSUME UNCHANGED <<process, execution>>, catalog'.table = catalog.table, catalog'.namespace = catalog.namespace
      PROVE  EarnedInv'
  BY <1>k, Zenon DEF EarnedInv, Finished
<1>n. ASSUME ~Finished' PROVE EarnedInv'
  BY <1>n DEF EarnedInv
<1>r. ASSUME NEW p, Return(p) PROVE EarnedInv'
  <2>1. execution'.at = "connect"
    BY <1>r, <1>t, SMTT(60) DEF Return, Execution
  <2> QED BY <2>1, <1>n DEF Finished
<1>p. ASSUME runner # "returned", execution' = execution PROVE EarnedInv'
  <2>1. execution'.at = "runner"
    BY <1>p, SMTT(60) DEF RunnerInv, Returned
  <2> QED BY <2>1, <1>n DEF Finished
<1>1. CASE Starting /\ (Prepare \/ StartServer \/ Probe \/ ConnectObservers)
  <2>1. runner # "returned"
    BY <1>1, SMTT(60) DEF Starting
  <2> QED BY <1>1, <2>1, <1>r, <1>p, Zenon DEF Starting, GivesUp, GoesOn, workflowVars
<1>2. CASE ProgramEnds \/ ProgramPanics
  BY <1>2, <1>r, Zenon DEF ProgramEnds, ProgramPanics, Gives
<1>3. CASE ServerDies
  BY <1>3, <1>k, Zenon DEF ServerDies, programVars, workflowVars
<1>4. CASE runner = "program" /\ (Sends \/ Writes) /\ UNCHANGED <<workflowVars, runnerVars>>
  <2>1. runner # "returned" /\ execution' = execution
    BY <1>4, SMTT(60) DEF workflowVars
  <2> QED BY <2>1, <1>p, SMTT(60)
<1>5. CASE (Executed \/ Forgotten) /\ out' = out /\ UNCHANGED <<workflowVars, runnerVars>>
  <2>1. UNCHANGED <<process, execution>>
    BY <1>5, SMTT(60) DEF workflowVars
  <2>2. CASE Executed
    <3> SUFFICES ASSUME Finished', execution'.classification = "Pass" PROVE FALSE
      BY DEF EarnedInv
    <3>1. process.code = 0 /\ execution.at = "done"
      BY <2>1 DEF EarnedInv, Finished
    <3>2. runner = "returned"
      BY <3>1 DEF RunnerInv, Returned
    <3> QED BY <2>2, <3>1, <3>2, SMTT(60) DEF CleanupInv, Executed
  <2>3. CASE Forgotten
    <3>1. catalog'.table = catalog.table /\ catalog'.namespace = catalog.namespace
      BY <1>t, <2>3, SMTT(60) DEF Forgotten
    <3> QED BY <2>1, <3>1, <1>k, Zenon
  <2> QED BY <1>5, <2>2, <2>3
<1>6. CASE WorkflowActs /\ UNCHANGED runnerVars
  <2> SUFFICES ASSUME execution'.at = "done", execution'.classification = "Pass"
               PROVE  /\ process'.code = 0 /\ execution'.loaded = Full
                      /\ catalog'.namespace = "absent" /\ catalog'.table = "absent"
    BY Zenon DEF EarnedInv, Finished
  <2>0. process' = process /\ runner = "returned"
    BY <1>6, WorkflowSteps, SMTT(60) DEF Cleaning, RunnerInv
  <2>p. ASSUME NEW e \in Execution, execution' = Finalize(e)
        PROVE  ProcessPassed /\ AllPassed(e)
    <3>1. Classification(e) = "Pass"
      BY <2>p, FinalFields
    <3>2. "FixtureCollision" # "Pass" /\ "Fail" # "Pass"
      OBVIOUS
    <3> QED BY <3>1, <3>2, Zenon DEF Classification
  <2>1. CASE /\ execution.at = "connect"
             /\ \E e \in Execution : execution' = Finalize(e) /\ e.drop_table = execution.drop_table
    <3>1. PICK e \in Execution : execution' = Finalize(e) /\ e.drop_table = execution.drop_table
      BY <2>1, Zenon
    <3>2. e.drop_table = "ok"
      BY <2>p, <3>1, Zenon DEF AllPassed, CleanupPassed
    <3>3. execution.drop_table = "skipped"
      BY <2>0, <2>1, Zenon DEF CleanupInv
    <3> QED BY <3>1, <3>2, <3>3, ZenonT(60)
  <2>2. CASE /\ catalog' = catalog
             /\ \E s \in Statuses :
                  /\ execution' = Finalize([execution EXCEPT !.verify_namespace = s])
                  /\ s = "absent" => catalog.namespace = "absent"
    <3>1. PICK s \in Statuses : /\ execution' = Finalize([execution EXCEPT !.verify_namespace = s])
                                /\ s = "absent" => catalog.namespace = "absent"
      BY <2>2, Zenon
    <3> DEFINE e == [execution EXCEPT !.verify_namespace = s]
    <3>2. /\ e \in Execution /\ e.verify_namespace = s /\ e.verify_table = execution.verify_table
          /\ e.loaded = execution.loaded
      BY <1>t, SMTT(60) DEF Execution
    <3> HIDE DEF e
    <3>3. execution' = Finalize(e)
      BY <3>1, Zenon DEF e
    <3>4. ProcessPassed /\ AllPassed(e)
      BY <2>p, <3>2, <3>3, Zenon
    <3>5. process.code = 0
      BY <3>4, Zenon DEF ProcessPassed
    <3>6. e.verify_table = "absent" /\ e.verify_namespace = "absent"
      BY <3>4, Zenon DEF AllPassed, CleanupPassed
    <3>7. catalog.namespace = "absent" /\ catalog.table = "absent"
      BY <2>0, <3>1, <3>2, <3>5, <3>6, Zenon DEF CleanupInv
    <3>8. e.loaded = Full
      <4>1. Reported("CreateTable") /\ FinalTableMatches /\ e.loaded = Seen("ObserveFinalTable")
        BY <3>4, Zenon DEF AllPassed, CatalogStateCorrelated
      <4>2. InSequence(process.events)
        BY <2>0, Zenon DEF EventsInv
      <4> QED BY <4>1, <4>2, FinalTableIsFull, Zenon
    <3>9. execution'.loaded = e.loaded
      BY <3>2, <3>3, FinalFields, Zenon
    <3> QED BY <2>0, <2>2, <3>5, <3>7, <3>8, <3>9, Zenon
  <2> QED BY <1>6, <2>1, <2>2, CleaningEvidence, Zenon
<1>7. CASE UNCHANGED vars
  BY <1>7, <1>k, Zenon DEF vars, programVars, workflowVars
<1> QED BY StepCases, <1>1, <1>2, <1>3, <1>4, <1>5, <1>6, <1>7, Zenon

----------------------------------------------------------------------------
(* What a pass means *)

\* The run begins with the table that was there, without a history, and with
\* nothing in the evidence.
LEMMA PassInit ==
  ASSUME Init
  PROVE  PassInv
<1>1. PICK before \in Before : catalog = InitialCatalog(before)
  BY Zenon DEF Init
<1>2. catalog.history = <<>> /\ catalog.table # "owned" /\ (catalog.namespace = "absent" => catalog.table = "absent")
  BY <1>1, SMTT(60) DEF InitialCatalog
<1>3. runner = "prepare" /\ child.stage = 1
  BY SMTT(60) DEF Init
<1>4. ~Finished
  BY SMTT(60) DEF Init, WorkflowInit, Pending, Finished
<1>5. TableInv
  BY <1>2, <1>3, SMTT(60) DEF TableInv, Preflight
<1>6. HistoryInv /\ EventsInv /\ CleanupInv /\ EarnedInv
  BY <1>3, <1>4, SMTT(60) DEF HistoryInv, EventsInv, CleanupInv, EarnedInv
<1> QED BY <1>5, <1>6, HandsOverInit, SMTT(60) DEF PassInv

\* PassInv holds throughout a run.
LEMMA PassAlways == Spec => []PassInv
<1>1. Init => PassInv
  BY PassInit
<1>2. PassInv /\ [Next]_vars => PassInv'
  <2> SUFFICES ASSUME PassInv, [Next]_vars PROVE PassInv'
    OBVIOUS
  <2>i. /\ Typed /\ RunnerInv /\ RequestInv /\ Untouched /\ CoveredInv
        /\ TableInv /\ HistoryInv /\ EventsInv /\ CleanupInv /\ EarnedInv
    BY SMTT(60) DEF PassInv, HandsOverInv
  <2>1. HandsOverInv'
    BY <2>i, TypedNext, RunnerInvNext, RequestInvNext, UntouchedNext, CoveredInvNext, SMTT(60) DEF HandsOverInv
  <2>2. TableInv' /\ HistoryInv' /\ EventsInv' /\ CleanupInv' /\ EarnedInv'
    BY <2>i, TableInvNext, HistoryInvNext, EventsInvNext, CleanupInvNext, EarnedInvNext, SMTT(60)
  <2> QED BY <2>1, <2>2 DEF PassInv
<1> QED BY <1>1, <1>2, PTL DEF Spec

\* A run of an in-process engine that is reported as passed did every mutation
\* once and in order, and the catalog holds nothing of it: no table, no
\* namespace, and no request that could bring one back (finalize,
\* evaluate_checks, cleanup_fixture).
THEOREM PassMeansDone == Spec => []PassIsEarned
<1>1. PassInv => PassIsEarned
  <2> SUFFICES ASSUME PassInv, Finished, execution.classification = "Pass"
               PROVE  /\ execution.loaded = <<"CreateTable", "AppendInitial", "EvolveSchema", "AppendEvolved">>
                      /\ catalog.namespace = "absent" /\ catalog.table = "absent" /\ request = "none"
    BY Zenon DEF PassIsEarned
  <2>i. RunnerInv /\ CleanupInv /\ EarnedInv
    BY DEF PassInv, HandsOverInv
  <2>1. /\ process.code = 0 /\ execution.loaded = Full
        /\ catalog.namespace = "absent" /\ catalog.table = "absent"
    BY <2>i DEF EarnedInv
  <2>2. runner = "returned"
    BY <2>i DEF RunnerInv, Returned, Finished
  <2>3. request = "none"
    BY <2>i, <2>1, <2>2 DEF CleanupInv
  <2> QED BY <2>1, <2>3, Zenon DEF Full, CT, AI, ES, AE
<1> QED BY <1>1, PassAlways, PTL

=============================================================================

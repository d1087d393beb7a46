--------------------------- MODULE EngineProgram ---------------------------
(***************************************************************************)
(* The program a stock engine runs against one catalog (crates/engine:     *)
(* spark/runner.py, ProgramRunner.java, trino_child.rs, adapters.rs):      *)
(* eleven stages, five of which mutate the catalog, each reported by an    *)
(* event.  The four engines differ in how they look for an existing        *)
(* fixture, in how they create the namespace, and in what an error of that *)
(* look becomes.  A request outlives the process that sent it.             *)
(***************************************************************************)
EXTENDS Integers, Sequences, FiniteSets, TLC

CONSTANTS
  Engines,   \* the engines of the instance
  Before,    \* what the catalog may hold under the fixture's names
  Faults     \* what may go wrong, once in a run

AllEngines == {"spark", "flink", "trino", "duckdb"}
CatalogFaults == {"phantom", "doubled", "rollback"}
LineFaults == {"noise", "malformed", "long", "flood"}
FaultKinds == CatalogFaults \cup LineFaults \cup {"runtime", "read", "call"}
Owners == {"absent", "foreign", "owned"}

ASSUME EngineAssumption ==
  /\ Engines \subseteq AllEngines
  /\ Before \subseteq {"nothing", "namespace", "table"}
  /\ Faults \subseteq FaultKinds

VARIABLES
  engine,    \* the engine that runs
  catalog,   \* who owns the namespace and the table, and the table's history
  request,   \* the mutation under way to the catalog, or "none"
  child,     \* the process that runs the program
  out,       \* the events it has written and nobody has read
  fault      \* what has gone wrong, or "none"

programVars == <<engine, catalog, request, child, out, fault>>

----------------------------------------------------------------------------
(* The program (protocol.rs) *)

Stages == <<"VerifyRuntime", "InitializeCatalog", "PreflightFixture", "CreateNamespace",
            "CreateTable", "AppendInitial", "ReadInitial", "EvolveSchema",
            "AppendEvolved", "ReadEvolved", "ObserveFinalTable">>
StageNames == {Stages[i] : i \in DOMAIN Stages}
Mutations == {"CreateNamespace", "CreateTable", "AppendInitial", "EvolveSchema", "AppendEvolved"}
TableMutations == Mutations \ {"CreateNamespace"}

Event == [kind : {"ready", "completed", "failed"}, stage : StageNames,
          ok : BOOLEAN, seen : Seq(TableMutations)]

\* The stage the child is in; after the last one it only completes.
Current == Stages[IF child.stage > Len(Stages) THEN Len(Stages) ELSE child.stage]
PhaseOf(n) == IF n <= Len(Stages) /\ Stages[n] \in Mutations THEN "work" ELSE "ready"

Running == child.state = "running"

\* At most one thing goes wrong in a run.
MayErr(kind) == kind \in Faults /\ fault = "none"

----------------------------------------------------------------------------
(* The catalog *)

\* An append adds a snapshot and the rows of its batch.  Rows are read in the
\* order of their ids: what a read tells is how often each batch is there.
Appends == {"AppendInitial", "AppendEvolved"}
Commits(history) == {i \in DOMAIN history : history[i] \in Appends}
Rows(history) ==
  [batch \in Appends |-> Cardinality({i \in DOMAIN history : history[i] = batch})]
InitialRows == [batch \in Appends |-> IF batch = "AppendInitial" THEN 1 ELSE 0]
EvolvedRows == [batch \in Appends |-> 1]
Evolved(history) == \E i \in DOMAIN history : history[i] = "EvolveSchema"

InitialCatalog(before) ==
  [namespace |-> IF before = "nothing" THEN "absent" ELSE "foreign",
   table     |-> IF before = "table" THEN "foreign" ELSE "absent",
   history   |-> <<>>]

\* CREATE NAMESPACE of Spark refuses an existing namespace; the statements of
\* the other engines say IF NOT EXISTS.
CreatesIfNotExists == engine # "spark"

Accepts(mutation) ==
  \/ mutation = "CreateNamespace" /\ (catalog.namespace = "absent" \/ CreatesIfNotExists)
  \/ mutation = "CreateTable" /\ catalog.namespace # "absent" /\ catalog.table = "absent"
  \/ mutation \in TableMutations \ {"CreateTable"} /\ catalog.table # "absent"

After(mutation) ==
  CASE mutation = "CreateNamespace" ->
         IF catalog.namespace = "absent" THEN [catalog EXCEPT !.namespace = "owned"] ELSE catalog
    [] mutation = "CreateTable" -> [catalog EXCEPT !.table = "owned", !.history = <<mutation>>]
    [] OTHER -> [catalog EXCEPT !.history = Append(@, mutation)]

\* A child that still waits learns that its request succeeded.
Answered == IF Running /\ child.phase = "waiting" THEN [child EXCEPT !.phase = "ready"] ELSE child

\* The catalog executes the request: the answer arrives, or it is lost.
CatalogExecutes ==
  /\ request # "none" /\ Accepts(request)
  /\ catalog' = After(request)
  /\ child' \in {Answered, child}
  /\ request' = "none"
  /\ UNCHANGED <<engine, out, fault>>

\* The request is refused, or never arrives.
CatalogDrops ==
  /\ request # "none"
  /\ request' = "none"
  /\ UNCHANGED <<engine, catalog, child, out, fault>>

\* The catalog acknowledges what it did not do, or commits a retried write twice.
CatalogErrs ==
  /\ request # "none"
  /\ \/ MayErr("phantom") /\ fault' = "phantom" /\ UNCHANGED catalog
     \/ /\ MayErr("doubled") /\ fault' = "doubled" /\ request \in Appends
        /\ catalog.table # "absent"
        /\ catalog' = [catalog EXCEPT !.history = @ \o <<request, request>>]
  /\ child' = Answered
  /\ request' = "none"
  /\ UNCHANGED <<engine, out>>

\* The catalog goes back to an older version of the table.
CatalogForgets ==
  /\ MayErr("rollback") /\ fault' = "rollback"
  /\ Len(catalog.history) > 1
  /\ catalog' = [catalog EXCEPT !.history = SubSeq(@, 1, Len(@) - 1)]
  /\ UNCHANGED <<engine, request, child, out>>

CatalogActs == CatalogExecutes \/ CatalogDrops \/ CatalogErrs \/ CatalogForgets

----------------------------------------------------------------------------
(* The child *)

\* namespace_names and fixtureAbsent list the namespaces; fixture_absent and
\* absent_sql count the tables of the fixture's name.
TableAbsent == catalog.table = "absent"
FixtureAbsent ==
  IF engine \in {"trino", "duckdb"} THEN TableAbsent
                                    ELSE catalog.namespace = "absent"

\* What has to be seen before a stage is reported: the namespace is listed,
\* the table loads, the rows read are the rows of the scenario.
Holds(stage) ==
  /\ stage = "CreateNamespace" => catalog.namespace # "absent"
  /\ stage \in (StageNames \ {"VerifyRuntime", "InitializeCatalog", "PreflightFixture",
                              "CreateNamespace"}) => catalog.table # "absent"
  /\ stage = "ReadInitial" => Rows(catalog.history) = InitialRows
  /\ stage = "ReadEvolved" =>
       Evolved(catalog.history) /\ Rows(catalog.history) = EvolvedRows

Ready(ok) == [kind |-> "ready", stage |-> Current, ok |-> ok, seen |-> catalog.history]
Completed == [kind |-> "completed", stage |-> Current, ok |-> TRUE, seen |-> <<>>]
Failed    == [kind |-> "failed", stage |-> Current, ok |-> FALSE, seen |-> <<>>]

\* The child leaves its program with an exit code; stopping the engine takes
\* a while longer.
Leaves(code) == [child EXCEPT !.phase = "stopping", !.code = code]
Advances == [child EXCEPT !.stage = @ + 1, !.phase = PhaseOf(child.stage + 1)]

ChildSends ==
  /\ Running /\ child.phase = "work"
  /\ request' = Current
  /\ child' = [child EXCEPT !.phase = "waiting"]
  /\ UNCHANGED <<engine, catalog, out, fault>>

\* What the child may write next, and what it does then.
Write(event, next, used) == [event |-> event, next |-> next, fault |-> used]

Reports ==
  IF ~Running \/ child.phase # "ready" THEN {}
  ELSE IF child.stage > Len(Stages) THEN {Write(Completed, Leaves(0), fault)}
  ELSE CASE Current = "VerifyRuntime" ->
              {Write(Ready(TRUE), Advances, fault)} \cup
              (IF MayErr("runtime") /\ engine # "duckdb"
                 THEN {Write(Ready(FALSE), Advances, "runtime")} ELSE {})
         [] Current = "PreflightFixture" ->
              {Write(Ready(FixtureAbsent), IF FixtureAbsent THEN Advances ELSE Leaves(3), fault)}
         [] OTHER ->
              IF Holds(Current) THEN {Write(Ready(TRUE), Advances, fault)} ELSE {}

\* A stage fails: its statement was refused or timed out, or what it left is
\* not what the program asked for.  DuckDB reports the catalog ready without
\* asking it, and takes an error of the preflight for a fixture that exists.
FailuresAsCollisions ==
  IF ~Running \/ child.phase = "stopping" \/ child.stage > Len(Stages) THEN {}
  ELSE IF Current = "PreflightFixture" THEN {Write(Ready(FALSE), Leaves(3), fault)}
  ELSE {Write(Failed, Leaves(2), fault)}
Failures ==
  IF ~Running \/ child.phase = "stopping" \/ child.stage > Len(Stages) THEN {}
  ELSE CASE engine = "duckdb" /\ Current = "InitializeCatalog" -> {}
         [] engine = "duckdb" /\ Current = "PreflightFixture" ->
              {Write(Ready(FALSE), Leaves(3), fault)}
         [] OTHER -> {Write(Failed, Leaves(2), fault)}

=============================================================================

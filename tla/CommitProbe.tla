----------------------------- MODULE CommitProbe -----------------------------
(* The commit behaviour probe (commit/workflow.rs, commit/mod.rs,
   commit/policy.rs), laid out as NamespaceProbe is. *)
EXTENDS ProbeTranscript

Commits == <<
  "preflight-namespace", "create-namespace", "create-table", "load-initial-table",
  "commit-current-requirements", "reload-after-current-requirements",
  "commit-schema-transition", "reload-after-schema-transition",
  "commit-stale-requirement", "reload-after-stale-requirement", "load-required-final-state",
  "commit-idempotent-first", "reload-after-idempotent-first",
  "commit-idempotent-replay", "reload-after-idempotent-replay",
  "commit-idempotency-drift", "reload-after-idempotency-drift" >>
Cleanup == <<"cleanup-drop-table", "cleanup-verify-table-absent",
             "cleanup-drop-namespace", "cleanup-verify-namespace-absent">>
Operations == Commits \o Cleanup

\* A commit requires a current schema id and makes one change; a property that
\* is set replaces its earlier value.
Initial == {"owner", "state-initial"}
PropertyCommit(name, schema, remove, add) ==
  [Request("commit", "table") EXCEPT
     !.needs = schema, !.change = [name |-> name, remove |-> remove, add |-> {add}, schema |-> schema]]
SchemaCommit ==
  [Request("commit", "table") EXCEPT
     !.needs = 0, !.change = [NoChange EXCEPT !.name = "schema", !.schema = 1]]

CurrentCommit == PropertyCommit("current", 0, {"state-initial"}, "state-accepted")
StaleCommit == PropertyCommit("stale", 0, {}, "stale")
RetryCommit == [PropertyCommit("retry", 1, {}, "retry-accepted") EXCEPT !.keyed = TRUE]
DriftedCommit == [PropertyCommit("drift", 1, {"retry-accepted"}, "retry-drifted") EXCEPT !.keyed = TRUE]

RequestOf(op, obs) ==
  CASE op = "create-namespace" -> [Request("create", "namespace") EXCEPT !.change.add = {"owner"}]
    [] op = "create-table" -> [Request("create", "table") EXCEPT !.change.add = Initial]
    [] op = "commit-current-requirements" -> CurrentCommit
    [] op = "commit-schema-transition" -> SchemaCommit
    [] op = "commit-stale-requirement" -> StaleCommit
    [] op \in {"commit-idempotent-first", "commit-idempotent-replay"} -> RetryCommit
    [] op = "commit-idempotency-drift" -> DriftedCommit
    [] op = "cleanup-drop-table" -> Request("drop", "table")
    [] op = "cleanup-drop-namespace" -> Request("drop", "namespace")
    [] op \in {"preflight-namespace", "cleanup-verify-namespace-absent"} -> Request("load", "namespace")
    [] OTHER -> Request("load", "table")

-----------------------------------------------------------------------------
(* The checks on the observations. *)

ExactSnapshot(expected, actual) == SameSnapshot(expected, actual) /\ actual.props = expected.props

ValidSchema(entry, id) == entry.schema = id

InitialSnapshot(o) == TableResponse(o) /\ ValidSchema(o.entry, 0) /\ Initial \subseteq o.entry.props

IdentityAndPointerTransition(before, after) ==
  after.uuid = before.uuid /\ after.pointer # before.pointer

\* A commit is acknowledged with exactly the change it asked for, and loading
\* the table again shows what was acknowledged.
PropertyTransition(before, change, commit, reload) ==
  /\ TableResponse(commit)
  /\ IdentityAndPointerTransition(before, commit.entry)
  /\ commit.entry.schema = before.schema
  /\ commit.entry.props = (before.props \ change.remove) \cup change.add
  /\ TableResponse(reload)
  /\ ExactSnapshot(commit.entry, reload.entry)

FixtureReady(obs) ==
  /\ InitialSnapshot(obs["create-table"])
  /\ TableResponse(obs["load-initial-table"])
  /\ ExactSnapshot(obs["create-table"].entry, obs["load-initial-table"].entry)

CurrentAdmitted(obs) ==
  PropertyTransition(obs["load-initial-table"].entry, CurrentCommit.change,
    obs["commit-current-requirements"], obs["reload-after-current-requirements"])

SchemaAdmitted(obs) ==
  LET before == obs["reload-after-current-requirements"].entry
      commit == obs["commit-schema-transition"]
      reload == obs["reload-after-schema-transition"]
  IN  /\ TableResponse(commit)
      /\ IdentityAndPointerTransition(before, commit.entry)
      /\ ValidSchema(commit.entry, 1)
      /\ commit.entry.props = before.props
      /\ TableResponse(reload)
      /\ ExactSnapshot(commit.entry, reload.entry)

StaleRejected(obs) ==
  /\ ErrorResponse(obs["commit-stale-requirement"], "409", "CommitFailedException")
  /\ TableResponse(obs["reload-after-stale-requirement"])
  /\ ExactSnapshot(obs["reload-after-schema-transition"].entry, obs["reload-after-stale-requirement"].entry)

RequiredFinal(obs) ==
  LET load == obs["load-required-final-state"]
  IN  /\ TableResponse(load)
      /\ ExactSnapshot(obs["reload-after-schema-transition"].entry, load.entry)
      /\ ValidSchema(load.entry, 1)
      /\ "state-accepted" \in load.entry.props
      /\ "stale" \notin load.entry.props

\* The table is not loaded again after the replay.
ReplayBelieved(obs) ==
  /\ PropertyTransition(obs["reload-after-schema-transition"].entry, RetryCommit.change,
       obs["commit-idempotent-first"], obs["reload-after-idempotent-first"])
  /\ TableResponse(obs["commit-idempotent-replay"])
  /\ ExactSnapshot(obs["commit-idempotent-first"].entry, obs["commit-idempotent-replay"].entry)

\* Both answers and both reloads show one and the same commit.
ExactReplay(obs) ==
  /\ PropertyTransition(obs["reload-after-schema-transition"].entry, RetryCommit.change,
       obs["commit-idempotent-first"], obs["reload-after-idempotent-first"])
  /\ \A op \in {"commit-idempotent-replay", "reload-after-idempotent-replay"} :
       TableResponse(obs[op]) /\ ExactSnapshot(obs["commit-idempotent-first"].entry, obs[op].entry)

DriftRejected(obs) ==
  /\ SpecErrorResponse(obs["commit-idempotency-drift"], "409")
  /\ TableResponse(obs["reload-after-idempotency-drift"])
  /\ ExactSnapshot(obs["reload-after-idempotent-replay"].entry, obs["reload-after-idempotency-drift"].entry)

CleanupPassed(obs) ==
  /\ ValidStatus(obs["cleanup-drop-table"], {"204", "404"})
  /\ ErrorResponse(obs["cleanup-verify-table-absent"], "404", "NoSuchTableException")
  /\ ValidStatus(obs["cleanup-drop-namespace"], {"204", "404"})
  /\ ErrorResponse(obs["cleanup-verify-namespace-absent"], "404", "NoSuchNamespaceException")

-----------------------------------------------------------------------------
(* What has gone well, and what an operation needs of it. *)

\* exact_retry_limitation and content_binding_limitation.
OptionalOperations(run) ==
  {"commit.exact-retry", "idempotency-key.content-binding"} \ run.limited

Established(obs, run) ==
  LET namespace == NamespaceResponse(obs["create-namespace"])
      ready == namespace /\ FixtureReady(obs)
      current == ready /\ CurrentAdmitted(obs)
      schema == current /\ SchemaAdmitted(obs)
      final == schema /\ RequiredFinal(obs)
      retry == final /\ run.advertisement = "advertised" /\ "commit.exact-retry" \in OptionalOperations(run)
      drift == /\ retry /\ ExactReplay(obs)
               /\ "idempotency-key.content-binding" \in OptionalOperations(run)
  IN {r \in {"isolated"} : ErrorResponse(obs["preflight-namespace"], "404", "NoSuchNamespaceException")} \cup
     {r \in {"namespace"} : namespace} \cup {r \in {"ready"} : ready} \cup
     {r \in {"current"} : current} \cup {r \in {"schema"} : schema} \cup
     {r \in {"retry"} : retry} \cup {r \in {"drift"} : drift}

Needs(op) ==
  CASE op = "preflight-namespace" -> {}
    [] op = "create-namespace" -> {"isolated"}
    [] \E i \in DOMAIN Cleanup : Cleanup[i] = op -> {"isolated"}
    [] op \in {"create-table", "load-initial-table"} -> {"namespace"}
    [] op \in {"commit-current-requirements", "reload-after-current-requirements"} -> {"ready"}
    [] op \in {"commit-schema-transition", "reload-after-schema-transition"} -> {"current"}
    [] op \in {"commit-stale-requirement", "reload-after-stale-requirement", "load-required-final-state"} -> {"schema"}
    [] op \in {"commit-idempotency-drift", "reload-after-idempotency-drift"} -> {"drift"}
    [] OTHER -> {"retry"}

Facts(obs, pages, run) ==
  LET done == Established(obs, run)
  IN [fixture_isolated |-> FromResult("isolated" \in done),
      fixture_ready |-> EvaluatedIf("isolated" \in done, "ready" \in done),
      current_requirements |-> EvaluatedIf("ready" \in done, "current" \in done),
      schema_transition |-> EvaluatedIf("current" \in done, "schema" \in done),
      stale_rejection |-> EvaluatedIf("schema" \in done, StaleRejected(obs)),
      required_final |-> EvaluatedIf("schema" \in done, RequiredFinal(obs)),
      idempotency_advertisement |-> AdvertisementFact(run.advertisement),
      exact_replay |-> EvaluatedIf("retry" \in done, ExactReplay(obs)),
      content_binding |-> EvaluatedIf("drift" \in done, DriftRejected(obs)),
      cleanup |-> EvaluatedIf("isolated" \in done, CleanupPassed(obs))]

-----------------------------------------------------------------------------
(* The scenario the probe implements. *)

Capabilities == <<
  Required("namespace.create"), Required("namespace.load"), Required("namespace.drop"),
  Required("table.create"), Required("table.load"), Required("table.update"), Required("table.drop"),
  Required("error.spec-shape"), Required("commit.set-properties"), Required("commit.requirements"),
  Required("commit.stale-pointer-rejection"), Optional("commit.exact-retry"),
  Optional("idempotency-key.content-binding") >>

Steps == <<
  Step("negotiate-authentication", {}),
  Step("negotiate-config", {"negotiate-authentication"}),
  Step("preflight-fixture", {"negotiate-config"}),
  Step("create-fixture", {"preflight-fixture"}),
  Step("accept-current-requirements", {"create-fixture"}),
  Step("advance-schema", {"accept-current-requirements"}),
  Step("reject-stale-requirement", {"advance-schema"}),
  Step("inspect-idempotency-advertisement", {"negotiate-config"}),
  Step("retry-exact-request", {"reject-stale-requirement", "inspect-idempotency-advertisement"}),
  Step("reject-idempotency-drift", {"retry-exact-request"}),
  Step("verify-required-state", {"reject-stale-requirement"}),
  Step("cleanup-fixture", {"reject-idempotency-drift", "verify-required-state"}),
  Step("sanitize-transcript", {"cleanup-fixture"}) >>

Assertions == <<
  Assertion("authentication-ready", "negotiate-authentication", TRUE, "authentication"),
  Assertion("config-routing-ready", "negotiate-config", TRUE, "config_routing"),
  Assertion("fixture-isolated", "preflight-fixture", TRUE, "fixture_isolated"),
  Assertion("commit-fixture-ready", "create-fixture", TRUE, "fixture_ready"),
  Assertion("current-requirements-admitted", "accept-current-requirements", TRUE, "current_requirements"),
  Assertion("schema-transition-admitted", "advance-schema", TRUE, "schema_transition"),
  Assertion("stale-requirement-rejected-atomically", "reject-stale-requirement", TRUE, "stale_rejection"),
  Assertion("idempotency-support-advertised", "inspect-idempotency-advertisement", FALSE, "idempotency_advertisement"),
  Assertion("exact-request-replayed-once", "retry-exact-request", FALSE, "exact_replay"),
  Assertion("idempotency-content-drift-rejected", "reject-idempotency-drift", FALSE, "content_binding"),
  Assertion("required-final-state-exact", "verify-required-state", TRUE, "required_final"),
  Assertion("commit-fixture-clean", "cleanup-fixture", TRUE, "cleanup"),
  Assertion("transcript-sanitized", "sanitize-transcript", TRUE, "transcript_sanitized") >>

Parameters == [
  initial_properties |-> Initial, accepted_set_properties |-> {"state-accepted"},
  stale_set_properties |-> {"stale"}, exact_retry_set_properties |-> {"retry-accepted"},
  drifted_set_properties |-> {"retry-drifted"}, initial_schema |-> 0, schema_transition |-> 1,
  purge_requested |-> FALSE, request_timeout_ms |-> 30000,
  maximum_response_bytes |-> MaximumResponseBytes]
Implemented == Policy(Parameters, Capabilities, Steps, Assertions)

\* A required capability that is declared unsupported ends the run before it
\* sends anything.
Unsupported(adapter) == RequiredLimitations(Capabilities, adapter) # {}

StepOf(op) ==
  CASE op = "preflight-namespace" -> "preflight-fixture"
    [] op \in {"create-namespace", "create-table", "load-initial-table"} -> "create-fixture"
    [] op \in {"commit-current-requirements", "reload-after-current-requirements"} -> "accept-current-requirements"
    [] op \in {"commit-schema-transition", "reload-after-schema-transition"} -> "advance-schema"
    [] op \in {"commit-stale-requirement", "reload-after-stale-requirement"} -> "reject-stale-requirement"
    [] op = "load-required-final-state" -> "verify-required-state"
    [] op \in {"commit-idempotency-drift", "reload-after-idempotency-drift"} -> "reject-idempotency-drift"
    [] \E i \in DOMAIN Cleanup : Cleanup[i] = op -> "cleanup-fixture"
    [] OTHER -> "retry-exact-request"
=============================================================================

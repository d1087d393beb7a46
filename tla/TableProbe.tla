----------------------------- MODULE TableProbe -----------------------------
(* The table lifecycle probe (table/workflow.rs, table/mod.rs,
   table/policy.rs), laid out as NamespaceProbe is.  "table" is the primary
   table of the fixture, "other" its sibling. *)
EXTENDS ProbeTranscript

Candidates == <<"table", "renamed", "other", "registered">>

Workflow == <<
  "preflight-namespace", "create-namespace", "create-primary", "create-sibling",
  "list-tables", "load-primary", "load-sibling", "list-page",
  "update-primary-properties", "reload-primary-after-update", "create-primary-duplicate",
  "load-missing-table", "list-tables-missing-namespace",
  "rename-primary", "load-primary-after-rename", "load-renamed-after-rename",
  "drop-sibling-without-purge", "load-sibling-after-drop",
  "register-sibling-metadata", "load-registered-after-register" >>
Drops == <<"drop-table", "drop-renamed", "drop-other", "drop-registered">>
Verifies == <<"verify-table", "verify-renamed", "verify-other", "verify-registered">>
Cleanup == Drops \o Verifies \o <<"cleanup-drop-namespace", "cleanup-verify-namespace-absent">>
Operations == Workflow \o Cleanup

InitialProperties == [NoChange EXCEPT !.add = {"owner", "remove", "state-before"}]
PropertyUpdate == [NoChange EXCEPT !.remove = {"remove", "state-before"}, !.add = {"state-after"}]

CreateTable(object) == [Request("create", object) EXCEPT !.change = InitialProperties]

RequestOf(op, obs) ==
  CASE op \in {"preflight-namespace", "cleanup-verify-namespace-absent"} -> Request("load", "namespace")
    [] op = "create-namespace" -> [Request("create", "namespace") EXCEPT !.change.add = {"owner"}]
    [] op \in {"create-primary", "create-primary-duplicate"} -> CreateTable("table")
    [] op = "create-sibling" -> CreateTable("other")
    [] op \in {"list-tables", "list-page"} -> Request("list", "namespace")
    [] op \in {"load-primary", "reload-primary-after-update", "load-primary-after-rename"} -> Request("load", "table")
    [] op \in {"load-sibling", "load-sibling-after-drop"} -> Request("load", "other")
    [] op = "update-primary-properties" -> [Request("commit", "table") EXCEPT !.change = PropertyUpdate]
    [] op = "load-missing-table" -> Request("load", "missing table")
    [] op = "list-tables-missing-namespace" -> Request("list", "missing namespace")
    [] op = "rename-primary" -> [Request("rename", "table") EXCEPT !.to = "renamed"]
    [] op = "load-renamed-after-rename" -> Request("load", "renamed")
    [] op = "drop-sibling-without-purge" -> Request("drop", "other")
    [] op = "register-sibling-metadata" ->
         [Request("register", "registered") EXCEPT !.entry = obs["load-sibling"].entry]
    [] op = "load-registered-after-register" -> Request("load", "registered")
    [] op = "cleanup-drop-namespace" -> Request("drop", "namespace")
    [] \E i \in DOMAIN Drops : Drops[i] = op -> Request("drop", Candidates[CHOOSE i \in DOMAIN Drops : Drops[i] = op])
    [] OTHER -> Request("load", Candidates[CHOOSE i \in DOMAIN Verifies : Verifies[i] = op])

-----------------------------------------------------------------------------
(* The checks on the observations. *)

InitialSnapshot(o) == TableResponse(o) /\ InitialProperties.add \subseteq o.entry.props

LoadedAsCreated(create, load) ==
  InitialSnapshot(create) /\ TableResponse(load) /\ SameSnapshot(create.entry, load.entry)

ValidUpdate(before, update, reload) ==
  /\ TableResponse(update)
  /\ update.entry.uuid = before.uuid
  /\ update.entry.schema = before.schema
  /\ update.entry.pointer # before.pointer
  /\ {"owner", "state-after"} \subseteq update.entry.props
  /\ "remove" \notin update.entry.props
  /\ TableResponse(reload)
  /\ SameSnapshot(update.entry, reload.entry)
  /\ reload.entry.props = update.entry.props

Renamed(obs) ==
  /\ ValidStatus(obs["rename-primary"], {"204"})
  /\ ErrorResponse(obs["load-primary-after-rename"], "404", "NoSuchTableException")
  /\ TableResponse(obs["load-renamed-after-rename"])
  /\ SameSnapshot(obs["reload-primary-after-update"].entry, obs["load-renamed-after-rename"].entry)

SiblingDropped(obs) ==
  /\ ValidStatus(obs["drop-sibling-without-purge"], {"204"})
  /\ ErrorResponse(obs["load-sibling-after-drop"], "404", "NoSuchTableException")

Registered(obs) ==
  \A op \in {"register-sibling-metadata", "load-registered-after-register"} :
     TableResponse(obs[op]) /\ SameSnapshot(obs["load-sibling"].entry, obs[op].entry)

CompleteTableSet(names) == names = {"table", "other"}
TableListing(o) == ParsedResponse(o, "200") /\ CompleteTableSet(o.names)
TraversePages(pages, o, limit) == NextPage(pages, o, limit)
PagesComplete(pages) == Traversed(pages) /\ CompleteTableSet(pages.names)

CleanupPassed(obs) ==
  /\ \A i \in DOMAIN Drops : ValidStatus(obs[Drops[i]], {"204", "404"})
  /\ \A i \in DOMAIN Verifies : ErrorResponse(obs[Verifies[i]], "404", "NoSuchTableException")
  /\ ValidStatus(obs["cleanup-drop-namespace"], {"204", "404"})
  /\ ErrorResponse(obs["cleanup-verify-namespace-absent"], "404", "NoSuchNamespaceException")

-----------------------------------------------------------------------------
(* What has gone well, and what an operation needs of it. *)

\* rename_limitation and register_limitation.
OptionalOperations(run) ==
  {r \in {"rename"} : "table.rename" \notin run.limited} \cup
  {r \in {"register"} : "table.register" \notin run.limited}

Established(obs, run) ==
  LET primary == InitialSnapshot(obs["create-primary"])
      sibling == InitialSnapshot(obs["create-sibling"])
      loaded == /\ LoadedAsCreated(obs["create-primary"], obs["load-primary"])
                /\ LoadedAsCreated(obs["create-sibling"], obs["load-sibling"])
      updated == loaded /\ ValidUpdate(obs["load-primary"].entry, obs["update-primary-properties"],
                                       obs["reload-primary-after-update"])
  IN {r \in {"isolated"} : ErrorResponse(obs["preflight-namespace"], "404", "NoSuchNamespaceException")} \cup
     {r \in {"namespace"} : NamespaceResponse(obs["create-namespace"])} \cup
     {r \in {"primary"} : primary} \cup {r \in {"sibling"} : sibling} \cup
     {r \in {"loaded"} : loaded} \cup {r \in {"updated"} : updated} \cup
     {r \in {"dropped"} : loaded /\ SiblingDropped(obs)} \cup
     OptionalOperations(run)

Needs(op) ==
  CASE op \in {"preflight-namespace", "list-tables-missing-namespace"} -> {}
    [] op \in {"create-namespace", "load-missing-table"} -> {"isolated"}
    [] \E i \in DOMAIN Cleanup : Cleanup[i] = op -> {"isolated"}
    [] op \in {"create-primary", "create-sibling"} -> {"namespace"}
    [] op \in {"list-tables", "list-page", "create-primary-duplicate"} -> {"primary", "sibling"}
    [] op = "load-primary" -> {"primary"}
    [] op = "load-sibling" -> {"sibling"}
    [] op \in {"rename-primary", "load-primary-after-rename", "load-renamed-after-rename"} -> {"updated", "rename"}
    [] op \in {"register-sibling-metadata", "load-registered-after-register"} -> {"dropped", "register"}
    [] OTHER -> {"loaded"}

Facts(obs, pages, run) ==
  LET done == Established(obs, run)
      isolated == "isolated" \in done
      both == {"primary", "sibling"} \subseteq done
      Reached(op) == Needs(op) \subseteq done
  IN [fixture_isolated |-> FromResult(isolated),
      fixture_namespace |-> EvaluatedIf(isolated, "namespace" \in done),
      create |-> EvaluatedIf("namespace" \in done,
        both /\ obs["create-primary"].entry.uuid # obs["create-sibling"].entry.uuid),
      list |-> EvaluatedIf(both, TableListing(obs["list-tables"])),
      load |-> EvaluatedIf(both, "loaded" \in done),
      pagination |-> EvaluatedIf(both, PagesComplete(pages)),
      update |-> EvaluatedIf("loaded" \in done, "updated" \in done),
      duplicate |-> EvaluatedIf(both, ErrorResponse(obs["create-primary-duplicate"], "409", "AlreadyExistsException")),
      missing_table |-> EvaluatedIf(isolated, ErrorResponse(obs["load-missing-table"], "404", "NoSuchTableException")),
      missing_namespace |->
        FromResult(ErrorResponse(obs["list-tables-missing-namespace"], "404", "NoSuchNamespaceException")),
      rename |-> EvaluatedIf(Reached("rename-primary"), Renamed(obs)),
      drop_table |-> EvaluatedIf("loaded" \in done, "dropped" \in done),
      register |-> EvaluatedIf(Reached("register-sibling-metadata"), Registered(obs)),
      cleanup |-> EvaluatedIf(isolated, CleanupPassed(obs))]

-----------------------------------------------------------------------------
(* The scenario the probe implements. *)

Capabilities == <<
  Required("namespace.create"), Required("namespace.load"), Required("namespace.drop"),
  Required("table.create"), Required("table.list"), Required("table.load"),
  Optional("table.register"), Optional("table.rename"), Required("table.update"),
  Required("table.drop"), Required("error.spec-shape") >>

Steps == <<
  Step("negotiate-authentication", {}),
  Step("negotiate-config", {"negotiate-authentication"}),
  Step("preflight-fixture", {"negotiate-config"}),
  Step("create-namespace", {"preflight-fixture"}),
  Step("create-tables", {"create-namespace"}),
  Step("inspect-tables", {"create-tables"}),
  Step("traverse-pagination", {"create-tables"}),
  Step("update-table", {"inspect-tables"}),
  Step("reject-duplicate", {"create-tables"}),
  Step("reject-missing-table", {"create-namespace"}),
  Step("reject-missing-namespace", {"negotiate-config"}),
  Step("rename-table", {"update-table"}),
  Step("drop-table", {"inspect-tables"}),
  Step("register-table", {"drop-table"}),
  Step("cleanup-fixture", {"traverse-pagination", "reject-duplicate", "reject-missing-table",
    "reject-missing-namespace", "rename-table", "register-table"}),
  Step("sanitize-transcript", {"cleanup-fixture"}) >>

Assertions == <<
  Assertion("authentication-ready", "negotiate-authentication", TRUE, "authentication"),
  Assertion("config-routing-ready", "negotiate-config", TRUE, "config_routing"),
  Assertion("fixture-isolated", "preflight-fixture", TRUE, "fixture_isolated"),
  Assertion("fixture-namespace-created", "create-namespace", TRUE, "fixture_namespace"),
  Assertion("table-create-round-trip", "create-tables", TRUE, "create"),
  Assertion("table-list-visible", "inspect-tables", TRUE, "list"),
  Assertion("table-load-round-trip", "inspect-tables", TRUE, "load"),
  Assertion("table-pagination-complete", "traverse-pagination", TRUE, "pagination"),
  Assertion("table-update-round-trip", "update-table", TRUE, "update"),
  Assertion("duplicate-table-error-spec-shaped", "reject-duplicate", TRUE, "duplicate"),
  Assertion("missing-table-error-spec-shaped", "reject-missing-table", TRUE, "missing_table"),
  Assertion("missing-namespace-error-spec-shaped", "reject-missing-namespace", TRUE, "missing_namespace"),
  Assertion("table-rename-round-trip", "rename-table", FALSE, "rename"),
  Assertion("table-drop-clean", "drop-table", TRUE, "drop_table"),
  Assertion("table-register-round-trip", "register-table", FALSE, "register"),
  Assertion("table-fixture-clean", "cleanup-fixture", TRUE, "cleanup"),
  Assertion("transcript-sanitized", "sanitize-transcript", TRUE, "transcript_sanitized") >>

Parameters == [
  initial_properties |-> InitialProperties.add, set_properties |-> PropertyUpdate.add,
  remove_properties |-> {"remove"}, table_schema |-> 0, register_overwrite |-> FALSE,
  purge_requested |-> FALSE, maximum_pages |-> 64, page_size |-> PageSize, request_timeout_ms |-> 30000,
  maximum_response_bytes |-> MaximumResponseBytes]
Implemented == Policy(Parameters, Capabilities, Steps, Assertions)

\* A required capability that is declared unsupported ends the run before it
\* sends anything.
Unsupported(adapter) == RequiredLimitations(Capabilities, adapter) # {}

StepOf(op) ==
  CASE op = "preflight-namespace" -> "preflight-fixture"
    [] op = "create-namespace" -> "create-namespace"
    [] op \in {"create-primary", "create-sibling"} -> "create-tables"
    [] op \in {"list-tables", "load-primary", "load-sibling"} -> "inspect-tables"
    [] op = "list-page" -> "traverse-pagination"
    [] op \in {"update-primary-properties", "reload-primary-after-update"} -> "update-table"
    [] op = "create-primary-duplicate" -> "reject-duplicate"
    [] op = "load-missing-table" -> "reject-missing-table"
    [] op = "list-tables-missing-namespace" -> "reject-missing-namespace"
    [] op \in {"rename-primary", "load-primary-after-rename", "load-renamed-after-rename"} -> "rename-table"
    [] op \in {"drop-sibling-without-purge", "load-sibling-after-drop"} -> "drop-table"
    [] op \in {"register-sibling-metadata", "load-registered-after-register"} -> "register-table"
    [] OTHER -> "cleanup-fixture"
=============================================================================

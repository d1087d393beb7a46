--------------------------- MODULE NamespaceProbe ---------------------------
(* The namespace behaviour probe (namespace/mod.rs, namespace/policy.rs): the
   operations in the order of the workflow, what each sends, what must have
   gone well before it is attempted, the facts it establishes, and the
   scenario it implements.  obs is what was observed of every operation,
   pages the traversal of the paginated listing, run what is known of the run
   before the first operation: the capabilities the adapter declares
   unsupported and the advertisement of idempotency. *)
EXTENDS ProbeTranscript

Fixture == {"primary", "sibling", "child"}

Preflight == <<"preflight-primary", "preflight-sibling", "preflight-child">>
Workflow == <<
  "create-primary", "create-sibling", "create-child", "list-top-level",
  "load-primary", "update-primary-properties", "reload-primary-properties",
  "create-primary-duplicate", "list-primary-children", "list-page", "list-missing-parent" >>
Cleanup == <<
  "drop-child", "drop-sibling", "drop-primary",
  "verify-child-absent", "verify-sibling-absent", "verify-primary-absent" >>
Operations == Preflight \o Workflow \o Cleanup

InitialProperties == [NoChange EXCEPT !.add = {"owner", "before"}]
PropertyUpdate == [NoChange EXCEPT !.remove = {"before"}, !.add = {"after"}]

RequestOf(op, obs) ==
  CASE op \in {"preflight-primary", "load-primary", "reload-primary-properties", "verify-primary-absent"} ->
         Request("load", "primary")
    [] op \in {"preflight-sibling", "verify-sibling-absent"} -> Request("load", "sibling")
    [] op \in {"preflight-child", "verify-child-absent"} -> Request("load", "child")
    [] op \in {"create-primary", "create-primary-duplicate"} ->
         [Request("create", "primary") EXCEPT !.change = InitialProperties]
    [] op = "create-sibling" -> Request("create", "sibling")
    [] op = "create-child" -> Request("create", "child")
    [] op \in {"list-top-level", "list-page"} -> Request("list", Root)
    [] op = "list-primary-children" -> Request("list", "primary")
    [] op = "list-missing-parent" -> Request("list", "missing parent")
    [] op = "update-primary-properties" -> [Request("commit", "primary") EXCEPT !.change = PropertyUpdate]
    [] op = "drop-child" -> Request("drop", "child")
    [] op = "drop-sibling" -> Request("drop", "sibling")
    [] op = "drop-primary" -> Request("drop", "primary")

-----------------------------------------------------------------------------
(* What has gone well, and what an operation needs of it. *)

IsolatedFixture(obs) ==
  \A i \in DOMAIN Preflight : ErrorResponse(obs[Preflight[i]], "404", "NoSuchNamespaceException")

Established(obs, run) ==
  {r \in {"isolated"} : IsolatedFixture(obs)} \cup
  {r \in {"primary"} : NamespaceResponse(obs["create-primary"])} \cup
  {r \in {"sibling"} : NamespaceResponse(obs["create-sibling"])} \cup
  {r \in {"child"} : NamespaceResponse(obs["create-child"])}

\* A cleanup that runs whatever the preflight found.
NeedsNothingToClean(op) ==
  CASE op \in {"preflight-primary", "preflight-sibling", "preflight-child", "list-missing-parent"} -> {}
    [] op \in {"create-primary", "create-sibling"} -> {"isolated"}
    [] \E i \in DOMAIN Cleanup : Cleanup[i] = op -> {}
    [] op \in {"list-top-level", "list-page"} -> {"primary", "sibling"}
    [] op = "list-primary-children" -> {"child"}
    [] OTHER -> {"primary"}

\* When the fixture is not isolated the missing parent is still probed, and
\* nothing is created, changed or cleaned up.
Needs(op) ==
  CASE op \in {"preflight-primary", "preflight-sibling", "preflight-child", "list-missing-parent"} -> {}
    [] op \in {"create-primary", "create-sibling"} -> {"isolated"}
    [] \E i \in DOMAIN Cleanup : Cleanup[i] = op -> {"isolated"}
    [] op \in {"list-top-level", "list-page"} -> {"primary", "sibling"}
    [] op = "list-primary-children" -> {"child"}
    [] OTHER -> {"primary"}

-----------------------------------------------------------------------------
(* The checks on the observations. *)

\* A check that allows nothing else in the catalog.
OnlyNamespaceSet(names) == names = {"primary", "sibling"}
CompleteNamespaceSet(names) == {"primary", "sibling"} \subseteq names
TopLevelListing(o) == ParsedResponse(o, "200") /\ CompleteNamespaceSet(o.names)
HierarchyListing(o) == ParsedResponse(o, "200") /\ o.names = {"child"}

\* The update reports the property it set and the one it removed; loading the
\* namespace again shows both changes and the property that was not mentioned.
ValidPropertyUpdate(update, reload) ==
  /\ ParsedResponse(update, "200")
  /\ "after" \in update.entry.props /\ "before" \notin update.entry.props
  /\ NamespaceResponse(reload)
  /\ {"owner", "after"} \subseteq reload.entry.props
  /\ "before" \notin reload.entry.props

TraversePages(pages, o, limit) == NextPage(pages, o, limit)
PagesComplete(pages) == Traversed(pages) /\ CompleteNamespaceSet(pages.names)

\* A cleanup that believes the answers to its drops.
CleanupBelieved(obs) ==
  \A i \in 1..3 : ValidStatus(obs[Cleanup[i]], {"204", "404"})

CleanupPassed(obs) ==
  /\ \A i \in 1..3 : ValidStatus(obs[Cleanup[i]], {"204", "404"})
  /\ \A i \in 4..6 : ValidStatus(obs[Cleanup[i]], {"404"})

\* facts.create and the others, after the last operation.
Facts(obs, pages, run) ==
  LET done == Established(obs, run)
      isolated == "isolated" \in done
      both == {"primary", "sibling"} \subseteq done
  IN [fixture_isolated |-> FromResult(isolated),
      create |-> EvaluatedIf(isolated, {"primary", "sibling", "child"} \subseteq done),
      list |-> EvaluatedIf(both, TopLevelListing(obs["list-top-level"])),
      load |-> EvaluatedIf("primary" \in done, NamespaceResponse(obs["load-primary"])),
      properties |-> EvaluatedIf("primary" \in done,
        ValidPropertyUpdate(obs["update-primary-properties"], obs["reload-primary-properties"])),
      duplicate |-> EvaluatedIf("primary" \in done,
        ErrorResponse(obs["create-primary-duplicate"], "409", "AlreadyExistsException")),
      hierarchy |-> EvaluatedIf("child" \in done, HierarchyListing(obs["list-primary-children"])),
      pagination |-> EvaluatedIf(both, PagesComplete(pages)),
      missing_parent |-> FromResult(ErrorResponse(obs["list-missing-parent"], "404", "NoSuchNamespaceException")),
      cleanup |-> EvaluatedIf(isolated, CleanupPassed(obs))]

-----------------------------------------------------------------------------
(* The scenario the probe implements. *)

Capabilities == <<
  Required("namespace.create"), Required("namespace.list"), Required("namespace.load"),
  Optional("namespace.update-properties"), Required("namespace.drop"),
  Required("namespace.hierarchy"), Required("namespace.pagination"),
  Required("namespace.error.duplicate"), Required("namespace.error.missing-parent"),
  Required("error.spec-shape") >>

Steps == <<
  Step("negotiate-authentication", {}),
  Step("negotiate-config", {"negotiate-authentication"}),
  Step("preflight-fixture", {"negotiate-config"}),
  Step("create-namespaces", {"preflight-fixture"}),
  Step("inspect-namespace", {"create-namespaces"}),
  Step("update-namespace", {"inspect-namespace"}),
  Step("reject-duplicate", {"create-namespaces"}),
  Step("inspect-hierarchy", {"create-namespaces"}),
  Step("traverse-pagination", {"create-namespaces"}),
  Step("reject-missing-parent", {"negotiate-config"}),
  Step("cleanup-namespaces", {"inspect-namespace", "update-namespace", "reject-duplicate",
    "inspect-hierarchy", "traverse-pagination", "reject-missing-parent"}),
  Step("sanitize-transcript", {"cleanup-namespaces"}) >>

Assertions == <<
  Assertion("authentication-ready", "negotiate-authentication", TRUE, "authentication"),
  Assertion("config-routing-ready", "negotiate-config", TRUE, "config_routing"),
  Assertion("fixture-isolated", "preflight-fixture", TRUE, "fixture_isolated"),
  Assertion("namespace-create-round-trip", "create-namespaces", TRUE, "create"),
  Assertion("namespace-list-visible", "inspect-namespace", TRUE, "list"),
  Assertion("namespace-load-round-trip", "inspect-namespace", TRUE, "load"),
  Assertion("namespace-properties-updated", "update-namespace", FALSE, "properties"),
  Assertion("duplicate-error-spec-shaped", "reject-duplicate", TRUE, "duplicate"),
  Assertion("namespace-hierarchy-preserved", "inspect-hierarchy", TRUE, "hierarchy"),
  Assertion("namespace-pagination-complete", "traverse-pagination", TRUE, "pagination"),
  Assertion("missing-parent-error-spec-shaped", "reject-missing-parent", TRUE, "missing_parent"),
  Assertion("namespace-drop-clean", "cleanup-namespaces", TRUE, "cleanup"),
  Assertion("transcript-sanitized", "sanitize-transcript", TRUE, "transcript_sanitized") >>

Parameters == [
  maximum_response_bytes |-> MaximumResponseBytes, maximum_pages |-> 64, page_size |-> PageSize,
  request_timeout_ms |-> 30000]
Implemented == Policy(Parameters, Capabilities, Steps, Assertions)

\* A required capability that is declared unsupported ends the run before it
\* sends anything.
Unsupported(adapter) == RequiredLimitations(Capabilities, adapter) # {}

\* The step an operation belongs to, by the operation the step names.
StepOf(op) ==
  CASE \E i \in DOMAIN Preflight : Preflight[i] = op -> "preflight-fixture"
    [] op \in {"create-primary", "create-sibling", "create-child"} -> "create-namespaces"
    [] op \in {"list-top-level", "load-primary"} -> "inspect-namespace"
    [] op \in {"update-primary-properties", "reload-primary-properties"} -> "update-namespace"
    [] op = "create-primary-duplicate" -> "reject-duplicate"
    [] op = "list-primary-children" -> "inspect-hierarchy"
    [] op = "list-page" -> "traverse-pagination"
    [] op = "list-missing-parent" -> "reject-missing-parent"
    [] OTHER -> "cleanup-namespaces"
=============================================================================

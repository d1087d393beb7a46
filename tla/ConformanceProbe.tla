-------------------------- MODULE ConformanceProbe --------------------------
(* One run of a conformance probe (conformance/src/main.rs and the run_*_probe
   functions) against a catalog that may misbehave: the invocation is
   validated, a token and the configuration are fetched, the operations of the
   probe's workflow are attempted or skipped one after the other, and the
   transcript is judged and published.

   A setting says what is fixed before the run:
     probe      "config", "namespace", "table" or "commit"
     adapter    what the profile says of the catalog (auth, prefix,
                names_secret, exercised, limited)
     drifted    whether the scenario differs from the implemented one
     lifetime   the idempotency lifetime the configuration shows, by place
     paging     how the catalog serves pages
     foreign    the objects that somebody else has in the catalog
     trouble    what may go wrong: "none", "negotiation" (the token, the
                configuration), "faults" (the requests of the workflow and the
                evidence file), "pages" (any page at all) or "neighbour"
                (somebody else creates namespaces during the run)
     faults     how many faults or neighbours *)
EXTENDS ProbeRouting

CONSTANTS Settings, MaximumPages

\* maximum_pages is a positive parameter of the scenarios.
ASSUME PagesAssumption == MaximumPages \in Nat \ {0}

N == INSTANCE NamespaceProbe
T == INSTANCE TableProbe
C == INSTANCE CommitProbe

VARIABLES
  setting,
  stage,      \* where the run is
  run,        \* what negotiation found out
  next,       \* the next operation of the workflow
  obs,        \* what was observed of every operation
  pages,      \* the traversal of the paginated listing
  outcomes, classification, exit,
  cat,        \* the catalog
  late,       \* operations whose request is still on its way
  did,        \* how often the request of an operation changed the catalog
  spoiled     \* what went wrong so far

vars == <<setting, stage, run, next, obs, pages, outcomes, classification, exit, cat, late, did, spoiled>>
verdict == <<outcomes, classification, exit>>
negotiated == <<setting, run>>
world == <<cat, late, did>>

probe == setting.probe
Behavioural == {"namespace", "table", "commit"}

Operations ==
  CASE probe = "namespace" -> N!Operations [] probe = "table" -> T!Operations
    [] probe = "commit" -> C!Operations [] OTHER -> << >>
Implemented ==
  CASE probe = "namespace" -> N!Implemented [] probe = "table" -> T!Implemented
    [] probe = "commit" -> C!Implemented [] OTHER -> ConfigImplemented
RequestOf(op) ==
  CASE probe = "namespace" -> N!RequestOf(op, obs) [] probe = "table" -> T!RequestOf(op, obs)
    [] OTHER -> C!RequestOf(op, obs)
Needs(op) ==
  CASE probe = "namespace" -> N!Needs(op) [] probe = "table" -> T!Needs(op) [] OTHER -> C!Needs(op)
Established ==
  CASE probe = "namespace" -> N!Established(obs, run) [] probe = "table" -> T!Established(obs, run)
    [] OTHER -> C!Established(obs, run)
WorkflowFacts ==
  CASE probe = "namespace" -> N!Facts(obs, pages, run) [] probe = "table" -> T!Facts(obs, pages, run)
    [] OTHER -> C!Facts(obs, pages, run)
StepOf(op) ==
  CASE probe = "namespace" -> N!StepOf(op) [] probe = "table" -> T!StepOf(op) [] OTHER -> C!StepOf(op)
Unsupported ==
  CASE probe = "namespace" -> N!Unsupported(setting.adapter) [] probe = "table" -> T!Unsupported(setting.adapter)
    [] probe = "commit" -> C!Unsupported(setting.adapter) [] OTHER -> ConfigUnsupported(setting.adapter)
CleanupOperations ==
  CASE probe = "namespace" -> N!Cleanup [] probe = "table" -> T!Cleanup [] OTHER -> C!Cleanup
TraversePages(o) ==
  IF probe = "namespace" THEN N!TraversePages(pages, o, MaximumPages) ELSE T!TraversePages(pages, o, MaximumPages)

OpSet == {Operations[i] : i \in DOMAIN Operations}

Scenario ==
  IF setting.drifted THEN [Implemented EXCEPT !.parameters.maximum_response_bytes = 2 * @] ELSE Implemented

MayFail == setting.trouble = "faults" /\ Cardinality(spoiled) < setting.faults

Init ==
  /\ setting \in Settings
  /\ stage = "start"
  /\ run = [limited |-> setting.adapter.limited, ready |-> FALSE, config |-> NoConfig,
            advertisement |-> "not-evaluated"]
  /\ next = 1
  /\ obs = [op \in OpSet |-> Pending]
  /\ pages = NoPages
  /\ outcomes = << >> /\ classification = "none" /\ exit = "none"
  /\ cat = [EmptyCatalog EXCEPT !.objects =
              [o \in Objects |-> IF o \in setting.foreign THEN [Absent EXCEPT !.owner = "foreign"] ELSE Absent]]
  /\ late = {}
  /\ did = [op \in OpSet |-> 0]
  /\ spoiled = {}

-----------------------------------------------------------------------------
(* Before the first operation. *)

\* validate_invocation, ProbeTarget::resolve, first_required_limitation.
Validate ==
  /\ stage = "start"
  /\ CASE Scenario # Implemented \/ ~Resolved(Scenario.capabilities, setting.adapter) ->
            stage' = "done" /\ exit' = "1" /\ UNCHANGED <<outcomes, classification>>
       [] Unsupported ->
            /\ stage' = "publish"
            /\ outcomes' = NotEvaluatedOutcomes(Scenario.assertions)
            /\ classification' = "unsupported"
            /\ UNCHANGED exit
       [] OTHER -> stage' = "authenticate" /\ UNCHANGED verdict
  /\ UNCHANGED <<negotiated, next, obs, pages, world, spoiled>>

AcquireAuthentication(outcome) ==
  /\ stage = "authenticate"
  /\ outcome # "token" => setting.trouble = "negotiation" /\ setting.adapter.auth = "oauth2"
  /\ stage' = "configure"
  /\ run' = [run EXCEPT !.ready = AuthenticationReady(setting.adapter, outcome)]
  /\ UNCHANGED <<setting, next, obs, pages, verdict, world, spoiled>>

HonestConfig == [GoodConfig EXCEPT !.lifetime = setting.lifetime]

\* Every way a configuration can fall short in one respect.
ConfigFaults ==
  {NoConfig} \cup
  {[HonestConfig EXCEPT !.status = "500"], [HonestConfig EXCEPT !.media = FALSE],
   [HonestConfig EXCEPT !.json = FALSE], [HonestConfig EXCEPT !.maps = FALSE]} \cup
  {[HonestConfig EXCEPT !.prefix = p] : p \in {"absent", "unusable"}} \cup
  {[HonestConfig EXCEPT !.separator = <<s, d>>] : s, d \in {"absent", "usable", "unusable", "no text"}} \cup
  {[HonestConfig EXCEPT !.endpoints = e] : e \in {"standard", "unknown", "no array"}} \cup
  {[HonestConfig EXCEPT !.lifetime[i] = v] : i \in 1..3, v \in {"usable", "unusable", "no text"}}

\* The configuration is asked for only after authentication succeeded.
NegotiateRouting(config) ==
  /\ IF run.ready
     THEN config = HonestConfig \/ setting.trouble = "negotiation"
     ELSE config = NoConfig
  /\ run' = [run EXCEPT !.config = config,
       !.advertisement = Advertisement(ConfigRouting(setting.adapter, run.ready, config), config)]
  /\ stage' = IF probe \in Behavioural /\ RoutesAvailable(setting.adapter, run.ready, config)
              THEN "operate" ELSE "judge"
  /\ UNCHANGED <<setting, next, obs, pages, verdict, world, spoiled>>

-----------------------------------------------------------------------------
(* The catalog's side of a request. *)

Order == <<"primary", "namespace", "sibling", "table", "other", "child">>
PageTokens == <<"t1", "t2", "t3", "t4", "t5">>

Sorted(names) == SelectSeq(Order, LAMBDA name : name \in names)

\* Page k of a listing: one entry per page with a token for the next one,
\* possibly with an empty page at the end, or everything at once.
ServedPage(names, k) ==
  LET sorted == Sorted(names)
      entry == IF k <= Len(sorted) THEN {sorted[k]} ELSE {}
      last == IF setting.paging = "trailing" THEN Len(sorted) + 1 ELSE Len(sorted)
  IN IF setting.paging = "whole" THEN Listing(names, NoToken)
     ELSE Listing(entry, IF k < last THEN PageTokens[k] ELSE NoToken)

Honest(op, request) ==
  LET granted == Execute(cat, request)
  IN  IF op = "list-page" /\ granted.answer.status = "200"
      THEN Granted(cat, ServedPage(granted.answer.names, pages.count + 1))
      ELSE granted

\* What can become of a request: how, the catalog afterwards, what is observed.
Outcome(how, catalog, observed) == [how |-> how, cat |-> catalog, obs |-> observed]

Served(op, request) ==
  LET granted == Honest(op, request)
  IN  {Outcome("served", granted.cat, granted.answer)}

Faulty(op, request) ==
  LET granted == Honest(op, request)
  IN  {Outcome("refused", cat, ServerError),
       Outcome("lost", granted.cat, Captured(granted.answer, "lost")),
       Outcome("unreadable", granted.cat, Captured(granted.answer, "unreadable"))}
      \cup {o \in {Outcome("delayed", cat, Silence),
                   Outcome("hollow", cat, granted.answer)} : granted.cat # cat}
      \cup {o \in {Outcome("forced", Forced(cat, request), granted.answer)} :
              Forced(cat, request) \notin {cat, granted.cat}}

AnyListing ==
  [status : {"200"}, json : {TRUE}, type : {""}, entry : {Absent},
   names : SUBSET {"primary", "sibling", "table", "other"}, token : {NoToken, "", "t1", "t2"}]
AnyPage == {Outcome("page", cat, listing) : listing \in AnyListing}

Possible(op, request) ==
  IF setting.trouble = "pages" /\ op = "list-page" THEN AnyPage
  ELSE Served(op, request) \cup {o \in Faulty(op, request) : MayFail}

-----------------------------------------------------------------------------
(* The workflow. *)

current == Operations[next]

\* What follows from the outcome of a request.  The listing of pages goes on
\* until the traversal ends.
Observe(o) ==
  /\ obs' = [obs EXCEPT ![current] = o.obs]
  /\ pages' = IF current = "list-page" THEN TraversePages(o.obs) ELSE pages
  /\ next' = IF current = "list-page" /\ pages'.result = "open" THEN next ELSE next + 1
  /\ cat' = o.cat
  /\ did' = IF o.cat = cat THEN did ELSE [did EXCEPT ![current] = @ + 1]
  /\ late' = IF o.how = "delayed" THEN late \cup {current} ELSE late
  /\ spoiled' = IF o.how \in {"served", "page"} THEN spoiled
                ELSE spoiled \cup {[op |-> current, how |-> o.how]}
  /\ UNCHANGED <<negotiated, stage, verdict>>

\* An operation is attempted when what it needs went well.
Attempt ==
  /\ stage = "operate" /\ next \in DOMAIN Operations
  /\ Needs(current) \subseteq Established
  /\ \E o \in Possible(current, RequestOf(current)) : Observe(o)

Skip ==
  /\ stage = "operate" /\ next \in DOMAIN Operations
  /\ ~(Needs(current) \subseteq Established)
  /\ obs' = [obs EXCEPT ![current] = Skipped]
  /\ next' = next + 1
  /\ UNCHANGED <<negotiated, stage, pages, verdict, world, spoiled>>

Finish ==
  /\ stage = "operate" /\ next \notin DOMAIN Operations
  /\ stage' = "judge"
  /\ UNCHANGED <<negotiated, next, obs, pages, verdict, world, spoiled>>

NegotiationFacts ==
  [authentication |-> FromResult(run.ready),
   config_routing |-> ConfigRouting(setting.adapter, run.ready, run.config),
   idempotency_advertisement |-> AdvertisementFact(run.advertisement),
   transcript_sanitized |-> FromResult(TranscriptSanitized(setting.adapter, run.ready))]

\* Without routes every fact of the workflow is not evaluated.
Fact(name) ==
  CASE probe = "config" -> ConfigFacts(setting.adapter, run.ready, run.config)[name]
    [] probe # "config" /\ name \in DOMAIN NegotiationFacts -> NegotiationFacts[name]
    [] OTHER -> IF RoutesAvailable(setting.adapter, run.ready, run.config)
                THEN WorkflowFacts[name] ELSE "not-evaluated"

Judge ==
  /\ stage = "judge"
  /\ outcomes' = [i \in DOMAIN Scenario.assertions |-> Fact(Scenario.assertions[i].fact)]
  /\ classification' = Classification(Scenario.assertions, outcomes')
  /\ stage' = "publish"
  /\ UNCHANGED <<negotiated, next, obs, pages, exit, world, spoiled>>

\* The evidence file is written, or cannot be, and the process exits.
Publish(written) ==
  /\ stage = "publish"
  /\ written \/ MayFail
  /\ exit' = CASE ~written -> "1" [] classification = "pass" -> "0" [] OTHER -> "2"
  /\ stage' = "done"
  /\ spoiled' = IF written THEN spoiled ELSE spoiled \cup {[op |-> "publish", how |-> "failed"]}
  /\ UNCHANGED <<negotiated, next, obs, pages, outcomes, classification, world>>

-----------------------------------------------------------------------------
(* The rest of the world. *)

\* A request that was given up reaches the catalog after all.
Arrive(op) ==
  /\ op \in late
  /\ late' = late \ {op}
  /\ cat' = Execute(cat, RequestOf(op)).cat
  /\ did' = IF cat' = cat THEN did ELSE [did EXCEPT ![op] = @ + 1]
  /\ UNCHANGED <<negotiated, stage, next, obs, pages, verdict, spoiled>>

\* Somebody else creates a namespace.
Neighbour(object) ==
  /\ setting.trouble = "neighbour" /\ Cardinality(spoiled) < setting.faults
  /\ stage # "done" /\ ~Exists(cat, object)
  /\ cat' = Create(cat, Request("create", object), "foreign").cat
  /\ spoiled' = spoiled \cup {[op |-> object, how |-> "taken"]}
  /\ UNCHANGED <<negotiated, stage, next, obs, pages, verdict, late, did>>

ProbeStep ==
  \/ Validate
  \/ \E outcome \in TokenOutcomes : AcquireAuthentication(outcome)
  \/ stage = "configure" /\ \E config \in ConfigFaults \cup {HonestConfig} : NegotiateRouting(config)
  \/ Attempt
  \/ Skip
  \/ Finish
  \/ Judge
  \/ \E written \in BOOLEAN : Publish(written)

Terminated == stage = "done" /\ UNCHANGED vars

Next ==
  \/ ProbeStep
  \/ \E op \in late : Arrive(op)
  \/ \E object \in {"primary", "sibling", "namespace"} : Neighbour(object)
  \/ Terminated

\* The process keeps running: every request has a timeout.  A step of the
\* probe is what moves the run forward and is possible until it is done (no
\* other state is a deadlock), so this is weak fairness of ProbeStep.
Advances == <<stage, next, pages>>' # <<stage, next, pages>>
Fairness == <>[](stage = "done") \/ []<><<Advances>>_vars

Spec == Init /\ [][Next]_vars /\ Fairness

-----------------------------------------------------------------------------
(* Properties. *)

Owned(owner) == {object \in Objects : cat.objects[object].owner = owner}
Passed(id) ==
  \E i \in DOMAIN outcomes : Scenario.assertions[i].id = id /\ outcomes[i] = "pass"

\* What somebody else had in the catalog before the run is never changed or
\* dropped by a probe, whichever of its names are taken and whatever becomes
\* of the requests of the preflight (preflight_fixture and the early returns
\* of the workflows).  And a run that exits with 0 has not dropped a namespace
\* that somebody else created under one of the fixture's names meanwhile.
ForeignSurvives ==
  /\ setting.foreign \subseteq Owned("foreign")
  /\ exit = "0" => \A s \in spoiled : s.how = "taken" => s.op \in Owned("foreign")

\* After exit code 0 nothing the probe created is in the catalog, then or ever
\* again, even when a request that was given up (an optional rename,
\* registration or replay) is carried out after the end of the run.
PassLeavesNothing == exit = "0" => Owned("probe") = {}

\* Whatever failed on the way, when the requests of the cleanup themselves are
\* served and no request was still on its way, a run leaves nothing behind:
\* the cleanup covers every name the workflow may have created, in an order
\* the catalog accepts, and runs after every failure (cleanup_fixture).
CleanupSweeps ==
  LET cleanup == {CleanupOperations[i] : i \in DOMAIN CleanupOperations}
  IN  (/\ stage = "done"
       /\ probe \in Behavioural
       /\ \A s \in spoiled : s.op \notin cleanup /\ s.how # "delayed") => Owned("probe") = {}

\* What a probe leaves in the catalog: nothing after a pass, and nothing after
\* any other end whose cleanup was served (cleanup_fixture).
NothingIsLeft == PassLeavesNothing /\ CleanupSweeps

\* The optional assertions that a run may leave unevaluated: the profile
\* declares the behaviour unsupported, or the catalog does not advertise it.
MayStayOpen(id) ==
  \/ id = "table-rename-round-trip" /\ "table.rename" \in run.limited
  \/ id = "table-register-round-trip" /\ "table.register" \in run.limited
  \/ id = "idempotency-support-advertised" /\ run.advertisement # "advertised"
  \/ id \in {"exact-request-replayed-once", "idempotency-content-drift-rejected"}
       /\ (run.advertisement # "advertised" \/ "commit.exact-retry" \in run.limited)
  \/ id = "idempotency-content-drift-rejected" /\ "idempotency-key.content-binding" \in run.limited

Collides ==
  setting.foreign \cap (IF probe = "namespace" THEN N!Fixture ELSE {"namespace"}) # {}

\* What an honest catalog lists page by page, and the pages it takes for it.
Paged ==
  IF probe = "namespace" THEN {"primary", "sibling"} \cup {o \in setting.foreign : Parent(o) = Root}
  ELSE {"table", "other"}
PagesNeeded ==
  CASE setting.paging = "whole" -> 1
    [] setting.paging = "pages" -> Cardinality(Paged)
    [] setting.paging = "trailing" -> Cardinality(Paged) + 1
ListingFits == probe \in {"namespace", "table"} => PagesNeeded <= MaximumPages

\* A catalog that answers every request as the protocol says passes every
\* assertion of every probe if and only if the listing that is paged fits the
\* bound (MAXIMUM_PAGES pages of PAGE_SIZE entries): the namespace probe pages
\* the root, so what else is in the root counts, and a larger root fails the
\* pagination assertion and nothing else.  Only optional behaviour that is
\* declared unsupported or not advertised is left unevaluated (the runners'
\* exit codes, main.rs).
HonestCatalogPasses ==
  (/\ stage = "done" /\ setting.trouble = "none"
   /\ ~setting.drifted /\ ~Collides /\ ~setting.adapter.names_secret
   /\ Resolved(Scenario.capabilities, setting.adapter)
   /\ ~Unsupported) =>
  /\ exit = IF ListingFits THEN "0" ELSE "2"
  /\ \A i \in DOMAIN outcomes :
       LET id == Scenario.assertions[i].id
       IN  \/ outcomes[i] = "pass"
           \/ MayStayOpen(id)
           \/ ~ListingFits /\ id \in {"namespace-pagination-complete", "table-pagination-complete"}

\* A pass is about what really happened in the catalog, not about what its
\* answers claim: everything the scenario creates and commits took effect
\* exactly once, the stale commit not at all; and when an optional assertion
\* passes, so did its effect: the update, the rename and the registration
\* once, the keyed commit and its replay once together, the drifted one never
\* (the validate_* and attempt_* functions of the workflows).
PassTookEffect ==
  /\ exit = "0" =>
       /\ probe = "namespace" => \A op \in {"create-primary", "create-sibling", "create-child"} : did[op] = 1
       /\ probe = "table" => \A op \in {"create-namespace", "create-primary", "create-sibling",
                                        "update-primary-properties", "drop-sibling-without-purge"} : did[op] = 1
       /\ probe = "commit" => /\ \A op \in {"create-namespace", "create-table", "commit-current-requirements",
                                            "commit-schema-transition"} : did[op] = 1
                              /\ did["commit-stale-requirement"] = 0
  /\ Passed("namespace-properties-updated") => did["update-primary-properties"] = 1
  /\ Passed("table-rename-round-trip") => did["rename-primary"] = 1
  /\ Passed("table-register-round-trip") => did["register-sibling-metadata"] = 1
  /\ Passed("exact-request-replayed-once") => 
       did["commit-idempotent-first"] + did["commit-idempotent-replay"] = 1
  /\ Passed("idempotency-content-drift-rejected") => did["commit-idempotency-drift"] = 0

After(step) == UNION {Scenario.steps[i].after : i \in {j \in DOMAIN Scenario.steps : Scenario.steps[j].id = step}}
OpenStep(step) ==
  \A i \in DOMAIN outcomes : Scenario.assertions[i].step = step =>
     ~Scenario.assertions[i].required /\ outcomes[i] = "not-evaluated"

\* A pass has run the scenario it names: every operation of every step was
\* attempted, except those of optional steps that were not evaluated, and none
\* before the operations of a step its own step depends on (the workflows
\* against the steps their policies pin).  Without a matching scenario, or
\* with a required capability declared unsupported, nothing is sent at all.
PassRanTheScenario ==
  /\ exit = "0" => \A i \in DOMAIN Operations :
       /\ Attempted(obs[Operations[i]]) \/ OpenStep(StepOf(Operations[i]))
       /\ \A j \in DOMAIN Operations : StepOf(Operations[j]) \in After(StepOf(Operations[i])) => j < i
  /\ setting.drifted \/ classification = "unsupported" =>
       exit # "0" /\ \A op \in OpSet : ~Attempted(obs[op])

\* A pass is a pass of the scenario it names, and of what the catalog did: every
\* operation was attempted in the order of the steps, and took effect.
VerdictIsGenuine == PassTookEffect /\ PassRanTheScenario

\* A listing is accepted as complete only when every object the probe created
\* in it was served, nothing was served twice, and no more pages were fetched
\* than the bound allows, whatever names and tokens the pages carry
\* (traverse_pages).
PaginationSound ==
  Passed("namespace-pagination-complete") \/ Passed("table-pagination-complete") =>
    /\ (IF probe = "namespace" THEN {"primary", "sibling"} ELSE {"table", "other"}) \subseteq pages.names
    /\ pages.served = Cardinality(pages.names)
    /\ pages.count <= MaximumPages

\* Every run ends, whatever the catalog answers and however often it offers
\* another page: requests have a timeout and traversals a bound.
ProbeTerminates == <>(stage = "done")

CapabilityOf(op) ==
  CASE op \in {"rename-primary", "load-primary-after-rename", "load-renamed-after-rename"} -> "table.rename"
    [] op \in {"register-sibling-metadata", "load-registered-after-register"} -> "table.register"
    [] op \in {"commit-idempotency-drift", "reload-after-idempotency-drift"} -> "idempotency-key.content-binding"
    [] probe = "commit" /\ StepOf(op) = "retry-exact-request" -> "commit.exact-retry"
    [] probe = "namespace" /\ StepOf(op) = "update-namespace" -> "namespace.update-properties"
    [] OTHER -> "required"

\* No request is sent for an optional capability that the profile declares
\* unsupported (docs/ADAPTERS.md: "A predeclared optional limitation is
\* recorded as `not-evaluated` without transport").
LimitationSendsNothing ==
  \A op \in OpSet : Attempted(obs[op]) => CapabilityOf(op) \notin run.limited
=============================================================================

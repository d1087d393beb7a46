----------------------- MODULE ConformanceProbeProofs -----------------------
(* What a conformance probe may say of a paginated listing, for every set of
   settings and every bound on the pages.

   PaginationSound is not inductive: that nothing was served twice and that
   the bound was kept are facts about every page turned so far (PagesOK), and
   they survive the next page only because a listing that has ended is never
   taken up again (the third conjunct of TraversalInv: the workflow has a
   single listing and is past it). *)
EXTENDS ConformanceProbe, FiniteSetTheorems, TLAPS

-----------------------------------------------------------------------------
(* The workflows and the scenarios, by their text. *)

\* The workflow of the namespace probe lists pages at one place only
\* (execute_namespace_workflow).
LEMMA OneListingN ==
  \A i, j \in DOMAIN N!Operations :
    N!Operations[i] = "list-page" /\ N!Operations[j] = "list-page" => i = j
BY DEF N!Operations, N!Preflight, N!Workflow, N!Cleanup

\* So does the workflow of the table probe (execute_table_workflow).
LEMMA OneListingT ==
  \A i, j \in DOMAIN T!Operations :
    T!Operations[i] = "list-page" /\ T!Operations[j] = "list-page" => i = j
BY DEF T!Operations, T!Workflow, T!Cleanup, T!Drops, T!Verifies

\* The commit probe lists no pages (execute_commit_workflow).
LEMMA OneListingC ==
  \A i \in DOMAIN C!Operations : C!Operations[i] # "list-page"
BY DEF C!Operations, C!Commits, C!Cleanup

\* The namespace scenario has one assertion about pagination, and it asks for
\* the pagination fact (namespace/mod.rs, facts.pagination).
LEMMA AssertionN ==
  \A i \in DOMAIN N!Assertions :
    /\ N!Assertions[i].id = "namespace-pagination-complete" => N!Assertions[i].fact = "pagination"
    /\ N!Assertions[i].id # "table-pagination-complete"
BY DEF N!Assertions, N!Assertion

\* The instances of the three probes count as this module does.
LEMMA CardN == ASSUME NEW S PROVE N!Cardinality(S) = Cardinality(S)
BY DEF N!Cardinality, Cardinality

\* traverse_pages of the namespace probe turns a page as NextPage says.
LEMMA PageN == ASSUME NEW p, NEW o, NEW l PROVE N!TraversePages(p, o, l) = NextPage(p, o, l)
BY CardN, Zenon DEF N!TraversePages, N!NextPage, N!RefusedPage, N!Turned, N!Unpaginated,
  N!ParsedResponse, N!ValidStatus, N!PageSize, N!NoToken,
  NextPage, RefusedPage, Turned, Unpaginated, ParsedResponse, ValidStatus, PageSize, NoToken

\* The same for the table probe.
LEMMA CardT == ASSUME NEW S PROVE T!Cardinality(S) = Cardinality(S)
BY DEF T!Cardinality, Cardinality

\* traverse_pages of the table probe turns a page as NextPage says.
LEMMA PageT == ASSUME NEW p, NEW o, NEW l PROVE T!TraversePages(p, o, l) = NextPage(p, o, l)
BY CardT, Zenon DEF T!TraversePages, T!NextPage, T!RefusedPage, T!Turned, T!Unpaginated,
  T!ParsedResponse, T!ValidStatus, T!PageSize, T!NoToken,
  NextPage, RefusedPage, Turned, Unpaginated, ParsedResponse, ValidStatus, PageSize, NoToken

-----------------------------------------------------------------------------
(* A traversal, one page at a time. *)

\* What holds after every page: the names served are as many as were counted,
\* and the bound is not exceeded, nor reached while another page is due.
PagesOK(p) ==
  /\ p = [result |-> p.result, names |-> p.names, tokens |-> p.tokens,
          count |-> p.count, served |-> p.served]
  /\ p.count \in Nat /\ p.count <= MaximumPages
  /\ p.result = "open" => p.count < MaximumPages
  /\ IsFiniteSet(p.names) /\ p.served = Cardinality(p.names)

\* One more page keeps what is known of the traversal, whatever names and
\* token it carries: a name that was served before or one page too many ends
\* the traversal (the early returns of traverse_pages).
LEMMA PageKept ==
  ASSUME NEW p, NEW o, PagesOK(p), p.result = "open", IsFiniteSet(o.names)
  PROVE  PagesOK(NextPage(p, o, MaximumPages))
<1>1. MaximumPages \in Nat /\ p.count \in Nat /\ p.count < MaximumPages
  BY PagesAssumption DEF PagesOK
<1>2. \A result, names, tokens :
        LET t == Turned(p, result, names, tokens)
        IN  t = [result |-> t.result, names |-> t.names, tokens |-> t.tokens, count |-> t.count, served |-> t.served]
  BY DEF Turned
<1>3. ASSUME NEW result, NEW names, NEW tokens,
             IsFiniteSet(names), names \cap p.names = {}, result = "open" => p.count + 1 # MaximumPages
      PROVE  PagesOK(Turned(p, result, names, tokens))
  <2> DEFINE t == Turned(p, result, names, tokens)
  <2>1. /\ t.result = result /\ t.count = p.count + 1
        /\ t.names = p.names \cup names /\ t.served = p.served + Cardinality(names)
    BY DEF Turned
  <2>2. /\ IsFiniteSet(p.names \cup names)
        /\ Cardinality(p.names \cup names)
             = Cardinality(p.names) + Cardinality(names) - Cardinality(p.names \cap names)
    BY <1>3, FS_Union DEF PagesOK
  <2>3. Cardinality(p.names) \in Nat /\ Cardinality(names) \in Nat
    BY <1>3, FS_CardinalityType DEF PagesOK
  <2>4. p.names \cap names = {}
    BY <1>3
  <2>5. Cardinality(p.names \cap names) = 0
    BY <2>4, FS_EmptySet
  <2>6. t.served = Cardinality(t.names)
    BY <2>1, <2>2, <2>3, <2>5 DEF PagesOK
  <2>7. /\ t.count \in Nat /\ t.count <= MaximumPages
        /\ t.result = "open" => t.count < MaximumPages
    BY <1>1, <1>3, <2>1
  <2> HIDE DEF t
  <2> QED BY <1>2, <2>1, <2>2, <2>6, <2>7 DEF PagesOK, t
<1>4. PagesOK(Turned(p, "failed", {}, {}))
  BY <1>3, FS_EmptySet
<1>5. ~RefusedPage(p, o, MaximumPages) => o.names \cap p.names = {}
  BY Zenon DEF RefusedPage
<1>6. ~RefusedPage(p, o, MaximumPages) /\ o.token # NoToken => p.count + 1 # MaximumPages
  BY Zenon DEF RefusedPage
<1> QED BY <1>3, <1>4, <1>5, <1>6 DEF NextPage

-----------------------------------------------------------------------------
(* What a page request can observe. *)

\* A catalog of this model has finitely many objects.
LEMMA ObjectsFinite == IsFiniteSet(Objects)
<1>1. \A x : IsFiniteSet({x})
  BY FS_Singleton
<1>2. \A S, U : IsFiniteSet(S) /\ IsFiniteSet(U) => IsFiniteSet(S \cup U)
  BY FS_Union, Zenon
<1> DEFINE Pair(x, y) == {x} \cup {y}
<1>3. \A x, y : IsFiniteSet(Pair(x, y))
  BY <1>1, <1>2, Zenon
<1>4. Objects = (Pair("primary", "sibling") \cup Pair("child", "namespace"))
                \cup (Pair("table", "other") \cup Pair("renamed", "registered"))
  BY DEF Objects, Namespaces, Tables
<1> HIDE DEF Pair
<1> QED BY <1>2, <1>3, <1>4, Zenon

\* A catalog that executes a listing serves finitely many names.
LEMMA ListedFinite ==
  ASSUME NEW c, NEW request, request.act = "list"
  PROVE  IsFiniteSet(Execute(c, request).answer.names)
<1>1. Execute(c, request) = List(c, request)
  BY DEF Execute
<1>2. IsFiniteSet(Children(c, request.object)) /\ IsFiniteSet({})
  BY ObjectsFinite, FS_Subset, FS_EmptySet DEF Children
<1>3. CASE Exists(c, request.object)
  <2>1. List(c, request).answer = Listing(Children(c, request.object), NoToken)
    BY <1>3 DEF List, Granted
  <2>2. Listing(Children(c, request.object), NoToken).names = Children(c, request.object)
    BY DEF Listing
  <2> QED BY <1>1, <1>2, <2>1, <2>2
<1>4. CASE ~Exists(c, request.object)
  <2>1. List(c, request).answer = Missing(request.object)
    BY <1>4 DEF List, Granted
  <2>2. Missing(request.object).names = {}
    BY DEF Missing, Answer
  <2> QED BY <1>1, <1>2, <2>1, <2>2
<1> QED BY <1>3, <1>4

\* So does every page it cuts the listing into.
LEMMA ServedFinite ==
  ASSUME NEW names, IsFiniteSet(names), NEW k
  PROVE  IsFiniteSet(ServedPage(names, k).names)
<1>1. \A S, token : Listing(S, token).names = S
  BY DEF Listing
<1>2. \A x : IsFiniteSet({x})
  BY FS_Singleton
<1>3. IsFiniteSet({})
  BY FS_EmptySet
<1>4. CASE setting.paging = "whole"
  <2>1. ServedPage(names, k) = Listing(names, NoToken)
    BY <1>4 DEF ServedPage
  <2> QED BY <1>1, <2>1
<1>5. CASE setting.paging # "whole"
  <2> DEFINE entry == IF k <= Len(Sorted(names)) THEN {Sorted(names)[k]} ELSE {}
  <2>1. \E token : ServedPage(names, k) = Listing(entry, token)
    BY <1>5 DEF ServedPage
  <2>2. IsFiniteSet(entry)
    BY <1>2, <1>3, Zenon
  <2> HIDE DEF entry
  <2> QED BY <1>1, <2>1, <2>2
<1> QED BY <1>4, <1>5

\* Whatever becomes of a page request, finitely many names are observed (the
\* body is read whole before it is parsed, transport.rs).
LEMMA PossibleFinite ==
  ASSUME NEW request, request.act = "list", NEW o \in Possible("list-page", request)
  PROVE  IsFiniteSet(o.obs.names)
<1>0. IsFiniteSet({})
  BY FS_EmptySet
<1>1. IsFiniteSet(Honest("list-page", request).answer.names)
  <2> DEFINE granted == Execute(cat, request)
  <2>1. IsFiniteSet(granted.answer.names)
    BY ListedFinite
  <2>2. IsFiniteSet(ServedPage(granted.answer.names, pages.count + 1).names)
    BY <2>1, ServedFinite
  <2> HIDE DEF granted
  <2>3. Granted(cat, ServedPage(granted.answer.names, pages.count + 1)).answer
          = ServedPage(granted.answer.names, pages.count + 1)
    BY DEF Granted
  <2> QED BY <2>1, <2>2, <2>3 DEF Honest, granted
<1>2. CASE o \in AnyPage
  <2>1. PICK listing \in AnyListing : o = Outcome("page", cat, listing)
    BY <1>2 DEF AnyPage
  <2>2. listing.names \subseteq Objects
    BY Zenon DEF AnyListing, Objects, Namespaces, Tables
  <2>3. o.obs = listing
    BY <2>1 DEF Outcome
  <2> QED BY <2>2, <2>3, ObjectsFinite, FS_Subset
<1>3. ASSUME o \in Served("list-page", request) \cup Faulty("list-page", request)
      PROVE  \/ o.obs = Honest("list-page", request).answer
             \/ \E status : o.obs = Unobserved(status)
             \/ o.obs = ServerError
  BY <1>3 DEF Served, Faulty, Outcome, Captured, Silence
<1>4. CASE o \in Served("list-page", request) \cup Faulty("list-page", request)
  <2>1. \A status : Unobserved(status).names = {}
    BY DEF Unobserved, Answer
  <2>2. ServerError.names = {}
    BY DEF ServerError, Answer
  <2> QED BY <1>0, <1>1, <1>3, <1>4, <2>1, <2>2
<1> QED BY <1>2, <1>4 DEF Possible

\* The same of the table scenario.
LEMMA AssertionT ==
  \A i \in DOMAIN T!Assertions :
    /\ T!Assertions[i].id = "table-pagination-complete" => T!Assertions[i].fact = "pagination"
    /\ T!Assertions[i].id # "namespace-pagination-complete"
BY DEF T!Assertions, T!Assertion

\* The assertions about pagination.
PaginationIds == {"namespace-pagination-complete", "table-pagination-complete"}

\* The commit scenario has no assertion about pagination.
LEMMA AssertionC == \A i \in DOMAIN C!Assertions : C!Assertions[i].id \notin PaginationIds
BY DEF C!Assertions, C!Assertion, PaginationIds

\* Nor has the configuration scenario.
LEMMA AssertionConfig == \A i \in DOMAIN ConfigAssertions : ConfigAssertions[i].id \notin PaginationIds
BY DEF ConfigAssertions, Assertion, PaginationIds

\* Of all workflows, only those of the namespace and the table probe list
\* pages, each at one place.
LEMMA ListingOperation ==
  /\ \A i, j \in DOMAIN Operations : Operations[i] = "list-page" /\ Operations[j] = "list-page" => i = j
  /\ \A i \in DOMAIN Operations : Operations[i] = "list-page" => probe \in {"namespace", "table"}
<1>1. CASE probe = "namespace"
  BY <1>1, OneListingN DEF Operations
<1>2. CASE probe = "table"
  BY <1>2, OneListingT DEF Operations
<1>3. CASE probe = "commit"
  BY <1>3, OneListingC DEF Operations
<1>4. CASE probe \notin {"namespace", "table", "commit"}
  BY <1>4 DEF Operations
<1> QED BY <1>1, <1>2, <1>3, <1>4

\* The request of a page is a listing (namespace_page, table_page).
LEMMA ListingRequest ==
  ASSUME probe \in {"namespace", "table"}
  PROVE  RequestOf("list-page").act = "list"
<1>1. N!RequestOf("list-page", obs) = N!Request("list", N!Root)
  BY DEF N!RequestOf
<1>2. T!RequestOf("list-page", obs) = T!Request("list", "namespace")
  <2>1. ~\E i \in DOMAIN T!Drops : T!Drops[i] = "list-page"
    BY DEF T!Drops
  <2> QED BY <2>1, ZenonT(60) DEF T!RequestOf
<1>3. N!Request("list", N!Root).act = "list"
  BY DEF N!Request
<1>4. T!Request("list", "namespace").act = "list"
  BY DEF T!Request
<1>5. probe = "namespace" => RequestOf("list-page") = N!RequestOf("list-page", obs)
  BY DEF RequestOf
<1>6. probe = "table" => RequestOf("list-page") = T!RequestOf("list-page", obs)
  BY DEF RequestOf
<1> QED BY <1>1, <1>2, <1>3, <1>4, <1>5, <1>6

\* A scenario that differs in a parameter has the assertions of the implemented
\* one (Validate refuses it, but its name is looked up in the assertions).
LEMMA ScenarioAssertions == Scenario.assertions = Implemented.assertions
BY DEF Scenario, Implemented, N!Implemented, T!Implemented, C!Implemented, ConfigImplemented,
  N!Policy, T!Policy, C!Policy, Policy

\* Everything the probe created in the listing was served.
Listed ==
  (IF probe = "namespace" THEN {"primary", "sibling"} ELSE {"table", "other"}) \subseteq pages.names

\* An assertion about pagination belongs to the namespace or the table probe
\* and asks for the pagination fact.
LEMMA PaginationAssertion ==
  ASSUME NEW i \in DOMAIN Scenario.assertions, Scenario.assertions[i].id \in PaginationIds
  PROVE  Scenario.assertions[i].fact = "pagination" /\ probe \in {"namespace", "table"}
<1>1. CASE probe = "namespace"
  <2>1. Implemented.assertions = N!Assertions
    BY <1>1 DEF Implemented, N!Implemented, N!Policy
  <2> QED BY <1>1, <2>1, ScenarioAssertions, AssertionN DEF PaginationIds
<1>2. CASE probe = "table"
  <2>1. Implemented.assertions = T!Assertions
    BY <1>2 DEF Implemented, T!Implemented, T!Policy
  <2> QED BY <1>2, <2>1, ScenarioAssertions, AssertionT DEF PaginationIds
<1>3. CASE probe = "commit"
  <2>1. Implemented.assertions = C!Assertions
    BY <1>3 DEF Implemented, C!Implemented, C!Policy
  <2> QED BY <2>1, ScenarioAssertions, AssertionC
<1>4. CASE probe \notin Behavioural
  <2>1. Implemented.assertions = ConfigAssertions
    BY <1>4 DEF Implemented, ConfigImplemented, Policy, Behavioural
  <2> QED BY <2>1, ScenarioAssertions, AssertionConfig
<1> QED BY <1>1, <1>2, <1>3, <1>4 DEF Behavioural

\* The pagination fact is a pass only when the traversal has served what the
\* probe created (validate_complete_namespace_set, validate_complete_table_set).
LEMMA PaginationFact ==
  ASSUME probe \in {"namespace", "table"}, Fact("pagination") = "pass"
  PROVE  Listed
<1>1. "pagination" \notin DOMAIN NegotiationFacts
  BY DEF NegotiationFacts
<1>2. WorkflowFacts["pagination"] = "pass"
  BY <1>1 DEF Fact
<1>3. CASE probe = "namespace"
  <2>1. WorkflowFacts = N!Facts(obs, pages, run)
    BY <1>3 DEF WorkflowFacts
  <2>2. N!PagesComplete(pages)
    BY <1>2, <2>1 DEF N!Facts, N!EvaluatedIf, N!FromResult
  <2> QED BY <1>3, <2>2 DEF Listed, N!PagesComplete, N!CompleteNamespaceSet
<1>4. CASE probe = "table"
  <2>1. WorkflowFacts = T!Facts(obs, pages, run)
    BY <1>4 DEF WorkflowFacts
  <2>2. T!PagesComplete(pages)
    BY <1>2, <2>1 DEF T!Facts, T!EvaluatedIf, T!FromResult
  <2> QED BY <1>4, <2>2 DEF Listed, T!PagesComplete, T!CompleteTableSet
<1> QED BY <1>3, <1>4

-----------------------------------------------------------------------------
(* The invariant and its proof. *)

\* The traversal is sound; a listing still ahead is open; nothing is judged
\* before the end of the workflow; a pass of the listing was earned.
TraversalInv ==
  /\ PagesOK(pages)
  /\ next \in Nat
  /\ \A i \in DOMAIN Operations : Operations[i] = "list-page" /\ next <= i => pages.result = "open"
  /\ stage \notin {"publish", "done"} => outcomes = << >>
  /\ \A i \in DOMAIN outcomes :
       outcomes[i] = "pass" /\ Scenario.assertions[i].id \in PaginationIds => Listed

\* Before the first request nothing was served and nothing is judged.
LEMMA TraversalInit == Init => TraversalInv
<1> SUFFICES ASSUME Init PROVE TraversalInv
  OBVIOUS
<1>1. PagesOK(pages)
  <2>1. IsFiniteSet({}) /\ Cardinality({}) = 0
    BY FS_EmptySet
  <2> QED BY <2>1, PagesAssumption DEF Init, NoPages, PagesOK
<1>2. pages.result = "open" /\ next \in Nat /\ outcomes = << >>
  BY DEF Init, NoPages
<1> QED BY <1>1, <1>2 DEF TraversalInv

\* A step that leaves the workflow and the verdict alone keeps the invariant,
\* unless it goes back from the verdict.
LEMMA TraversalFrame ==
  ASSUME TraversalInv, UNCHANGED <<setting, next, pages, outcomes>>,
         stage' \in {"publish", "done"} \/ stage \notin {"publish", "done"}
  PROVE  TraversalInv'
<1>1. Operations' = Operations /\ Scenario' = Scenario /\ (Listed' <=> Listed)
  BY DEF Operations, Scenario, Implemented, Listed, probe
<1> QED BY <1>1 DEF TraversalInv, PagesOK

\* A verdict whose passes are passes of the facts keeps the invariant (Judge,
\* and the verdict of a run that is not evaluated at all).
LEMMA TraversalJudged ==
  ASSUME TraversalInv, UNCHANGED <<setting, next, pages>>, stage' = "publish",
         \A i \in DOMAIN outcomes' : outcomes'[i] = "pass" =>
            i \in DOMAIN Scenario.assertions /\ Fact(Scenario.assertions[i].fact) = "pass"
  PROVE  TraversalInv'
<1>1. Operations' = Operations /\ Scenario' = Scenario /\ (Listed' <=> Listed)
  BY DEF Operations, Scenario, Implemented, Listed, probe
<1>2. \A i \in DOMAIN outcomes' :
        outcomes'[i] = "pass" /\ Scenario.assertions[i].id \in PaginationIds => Listed
  BY PaginationAssertion, PaginationFact
<1> QED BY <1>1, <1>2 DEF TraversalInv, PagesOK

\* Attempting an operation keeps the invariant: of all operations only the
\* page requests turn pages, and only while the traversal is open.
LEMMA TraversalObserve ==
  ASSUME TraversalInv, Attempt
  PROVE  TraversalInv'
<1>1. PICK o \in Possible(current, RequestOf(current)) : Observe(o)
  BY DEF Attempt
<1>2. /\ setting' = setting /\ stage' = stage /\ outcomes' = outcomes
      /\ stage = "operate" /\ next \in Nat /\ next \in DOMAIN Operations
  BY <1>1 DEF Attempt, Observe, negotiated, verdict, TraversalInv
<1>3. Operations' = Operations
  BY <1>2 DEF Operations, probe
<1>4. outcomes' = << >>
  BY <1>2 DEF TraversalInv
<1>5. CASE current # "list-page"
  <2>1. pages' = pages /\ next' = next + 1
    BY <1>1, <1>5 DEF Observe
  <2> QED BY <1>2, <1>3, <1>4, <2>1 DEF TraversalInv, PagesOK
<1>6. CASE current = "list-page"
  <2>1. next \in DOMAIN Operations
    BY <1>2
  <2>2. probe \in {"namespace", "table"}
    BY <1>6, <2>1, ListingOperation DEF current
  <2>3. pages.result = "open"
    BY <1>2, <1>6, <2>1 DEF TraversalInv, current
  <2>4. IsFiniteSet(o.obs.names)
    BY <1>1, <1>6, <2>2, ListingRequest, PossibleFinite
  <2>5. pages' = NextPage(pages, o.obs, MaximumPages)
    BY <1>1, <1>6, <2>2, PageN, PageT DEF Observe, TraversePages
  <2>6. PagesOK(pages')
    BY <2>3, <2>4, <2>5, PageKept DEF TraversalInv
  <2>7. next' = IF pages'.result = "open" THEN next ELSE next + 1
    BY <1>1, <1>6 DEF Observe
  <2>8. \A i \in DOMAIN Operations : Operations[i] = "list-page" => i = next
    BY <1>6, <2>1, ListingOperation DEF current
  <2>9. \A i \in DOMAIN Operations : Operations[i] = "list-page" /\ next' <= i => pages'.result = "open"
    BY <1>2, <2>1, <2>7, <2>8
  <2>10. next' \in Nat
    BY <1>2, <2>7
  <2> QED BY <1>2, <1>3, <1>4, <2>6, <2>9, <2>10 DEF TraversalInv, PagesOK
<1> QED BY <1>5, <1>6

\* Every step of the probe, of a late request and of a neighbour keeps the
\* invariant.
LEMMA TraversalNext == TraversalInv /\ [Next]_vars => TraversalInv'
<1> SUFFICES ASSUME TraversalInv, [Next]_vars PROVE TraversalInv'
  OBVIOUS
<1> USE DEF negotiated, verdict, world
<1>1. CASE Validate
  <2>1. CASE stage' = "publish" /\ outcomes' = NotEvaluatedOutcomes(Scenario.assertions)
    <3>1. \A i \in DOMAIN outcomes' : outcomes'[i] # "pass"
      BY <2>1 DEF NotEvaluatedOutcomes
    <3> QED BY <1>1, <2>1, <3>1, TraversalJudged DEF Validate
  <2>2. CASE outcomes' = outcomes
    BY <1>1, <2>2, TraversalFrame DEF Validate
  <2> QED BY <1>1, <2>1, <2>2 DEF Validate
<1>2. ASSUME NEW outcome \in TokenOutcomes, AcquireAuthentication(outcome) PROVE TraversalInv'
  BY <1>2, TraversalFrame DEF AcquireAuthentication
<1>3. ASSUME NEW config, stage = "configure", NegotiateRouting(config) PROVE TraversalInv'
  BY <1>3, TraversalFrame DEF NegotiateRouting
<1>4. CASE Attempt
  BY <1>4, TraversalObserve
<1>5. CASE Skip
  <2>1. /\ UNCHANGED <<setting, stage, pages, outcomes>>
        /\ next' = next + 1 /\ stage = "operate"
    BY <1>5 DEF Skip
  <2>2. Operations' = Operations /\ outcomes' = << >>
    BY <2>1 DEF Operations, probe, TraversalInv
  <2> QED BY <2>1, <2>2 DEF TraversalInv, PagesOK
<1>6. CASE Finish
  BY <1>6, TraversalFrame DEF Finish
<1>7. CASE Judge
  <2>1. \A i \in DOMAIN outcomes' : outcomes'[i] = "pass" =>
          i \in DOMAIN Scenario.assertions /\ Fact(Scenario.assertions[i].fact) = "pass"
    BY <1>7 DEF Judge
  <2> QED BY <1>7, <2>1, TraversalJudged DEF Judge
<1>8. ASSUME NEW written \in BOOLEAN, Publish(written) PROVE TraversalInv'
  BY <1>8, TraversalFrame DEF Publish
<1>9. ASSUME NEW op \in late, Arrive(op) PROVE TraversalInv'
  BY <1>9, TraversalFrame DEF Arrive
<1>10. ASSUME NEW object, Neighbour(object) PROVE TraversalInv'
  BY <1>10, TraversalFrame DEF Neighbour
<1>11. CASE UNCHANGED vars
  BY <1>11, TraversalFrame DEF vars
<1> QED
  BY <1>1, <1>2, <1>3, <1>4, <1>5, <1>6, <1>7, <1>8, <1>9, <1>10, <1>11 DEF Next, ProbeStep, Terminated

\* A listing is accepted as complete only when every object the probe created in
\* it was served, none twice, within the bound on the pages (traverse_pages),
\* for every bound, every setting and every catalog of the model.
THEOREM ListingsAreComplete == Spec => []PaginationSound
<1>1. TraversalInv => PaginationSound
  BY DEF TraversalInv, PagesOK, PaginationSound, Passed, PaginationIds, Listed
<1> QED BY <1>1, TraversalInit, TraversalNext, PTL DEF Spec
=============================================================================

-------------------------- MODULE ProbeTranscript --------------------------
(* What every conformance probe does with one request and with what it found
   out: the capture of an answer, the checks on a captured answer, facts,
   assertions and their classification (transport.rs, operation.rs,
   table_protocol.rs, evidence.rs, target.rs). *)
EXTENDS RestCatalog, Sequences

-----------------------------------------------------------------------------
(* An observation is a captured answer; it has no status when nothing was
   received.  Pending: the workflow is not there yet.  Skipped: recorded as
   not attempted. *)

Unobserved(status) == [Answer(status, "", Absent) EXCEPT !.json = FALSE]
Pending == Unobserved("pending")
Skipped == Unobserved("skipped")
Silence == Unobserved("none")

\* The request fails or its answer cannot be read to the end; the body is too
\* large, empty or no JSON; or everything arrives.
Captured(answer, delivery) ==
  CASE delivery = "lost" -> Silence
    [] delivery = "unreadable" -> Unobserved(answer.status)
    [] delivery = "complete" -> answer

Attempted(o) == o \notin {Pending, Skipped}

ValidStatus(o, allowed) == o.status \in allowed
ParsedResponse(o, status) == ValidStatus(o, {status}) /\ o.json
SpecErrorResponse(o, status) == ParsedResponse(o, status) /\ o.type # ""
ErrorResponse(o, status, type) == SpecErrorResponse(o, status) /\ o.type = type

\* The namespace of the response is the one that was asked for.
NamespaceResponse(o) == ParsedResponse(o, "200") /\ o.entry # Absent
\* A table response has a metadata location, a UUID and a current schema.
TableResponse(o) == ParsedResponse(o, "200") /\ o.entry # Absent

SameSnapshot(expected, actual) ==
  /\ actual.uuid = expected.uuid
  /\ actual.pointer = expected.pointer
  /\ actual.schema = expected.schema

-----------------------------------------------------------------------------
(* Traversal of a paginated listing, one page at a time. *)

NoPages == [result |-> "open", names |-> {}, tokens |-> {}, count |-> 0, served |-> 0]

\* One more page was fetched; names and a token are taken from it.
Turned(pages, result, names, tokens) ==
  [result |-> result, names |-> pages.names \cup names, tokens |-> pages.tokens \cup tokens,
   count |-> pages.count + 1, served |-> pages.served + Cardinality(names)]

\* PageSize entries are asked for.  More than that is only accepted as a
\* listing without pages: the first answer, and no token in it.
PageSize == 1
Unpaginated(pages, o) == pages.count = 0 /\ o.token = NoToken

\* A traversal that accepts a name again on a later page.
RefusedUnlessRepeated(pages, o, limit) ==
  \/ ~ParsedResponse(o, "200")
  \/ Cardinality(o.names) > PageSize /\ ~Unpaginated(pages, o)
  \/ o.token \in {""} \cup pages.tokens
  \/ o.token # NoToken /\ pages.count + 1 = limit

\* A page is refused when it cannot be read, has too many entries, repeats a
\* name or a token, or offers one more page than the bound allows.
RefusedPage(pages, o, limit) ==
  \/ ~ParsedResponse(o, "200")
  \/ Cardinality(o.names) > PageSize /\ ~Unpaginated(pages, o)
  \/ o.names \cap pages.names # {}
  \/ o.token \in {""} \cup pages.tokens
  \/ o.token # NoToken /\ pages.count + 1 = limit

\* A traversal that neither counts a page without entries nor keeps the tokens
\* before it.
NextPageUncounted(pages, o, limit) ==
  IF RefusedPage(pages, o, limit) THEN Turned(pages, "failed", {}, {})
  ELSE IF o.token = NoToken
  THEN Turned(pages, IF Cardinality(o.names) > PageSize THEN "unpaginated" ELSE "paginated", o.names, {})
  ELSE IF o.names = {} THEN [pages EXCEPT !.tokens = {o.token}]
  ELSE Turned(pages, "open", o.names, {o.token})

NextPage(pages, o, limit) ==
  IF RefusedPage(pages, o, limit) THEN Turned(pages, "failed", {}, {})
  ELSE IF o.token # NoToken THEN Turned(pages, "open", o.names, {o.token})
  ELSE Turned(pages, IF Cardinality(o.names) > PageSize THEN "unpaginated" ELSE "paginated", o.names, {})

Traversed(pages) == pages.result \in {"paginated", "unpaginated"}

-----------------------------------------------------------------------------
(* Facts, assertions and the classification of a transcript. *)

FromResult(ok) == IF ok THEN "pass" ELSE "fail"
AdvertisementFact(advertisement) ==
  CASE advertisement = "advertised" -> "pass"
    [] advertisement = "malformed" -> "fail"
    [] OTHER -> "not-evaluated"
EvaluatedIf(reached, ok) == IF reached THEN FromResult(ok) ELSE "not-evaluated"

\* An assertion of a scenario: its step, whether it is required, and the fact
\* its check asks for.
Assertion(id, step, required, fact) ==
  [id |-> id, step |-> step, required |-> required, fact |-> fact]

NotEvaluatedOutcomes(assertions) == [i \in DOMAIN assertions |-> "not-evaluated"]

PassedRequired(assertions, outcomes) ==
  \A i \in DOMAIN assertions : assertions[i].required => outcomes[i] = "pass"

Classification(assertions, outcomes) ==
  IF PassedRequired(assertions, outcomes) THEN "pass" ELSE "fail"

-----------------------------------------------------------------------------
(* The adapter a probe is run for. *)

Required(capability) == [capability |-> capability, required |-> TRUE]
Optional(capability) == [capability |-> capability, required |-> FALSE]
Named(capabilities) == {capabilities[i].capability : i \in DOMAIN capabilities}

\* Every capability of the scenario is in the profile's vocabulary, and the
\* adapter exercises it or declares it unsupported.
Resolved(capabilities, adapter) == Named(capabilities) \subseteq adapter.exercised \cup adapter.limited

RequiredLimitations(capabilities, adapter) ==
  {c \in adapter.limited : \E i \in DOMAIN capabilities : capabilities[i] = Required(c)}

\* A step of a scenario and the steps it depends on.
Step(id, after) == [id |-> id, after |-> after]

\* An answer with a longer body is not read.
MaximumResponseBytes == 1048576

\* What a probe implements, and the scenarios it accepts: exactly that.
Policy(parameters, capabilities, steps, assertions) ==
  [parameters |-> parameters, capabilities |-> capabilities, steps |-> steps, assertions |-> assertions]
=============================================================================

---------------------------- MODULE ResultBundle ----------------------------
(* What a result bundle is: how the importers of catalog-bench-contract decide
   whether evidence may be published (legacy_commit.rs, contention_bundle.rs,
   phase1_bundle.rs, engine_bundle.rs, engine_review.rs, engine_evidence.rs),
   the records, manifest and matrix they render from it, the contract a result
   has to satisfy (common/src/contract/result.rs), and the pages of the
   publication (community_publication.rs).

   Bytes are modelled by what determines them, and a SHA-256 digest by the
   bytes it is the digest of.  A transcript says what the run was classified
   as, how its required and its optional assertion ended, and whether there is
   a secret in it. *)
EXTENDS Naturals, Sequences, FiniteSets

Kinds == {"historical", "contention", "phase1", "engine"}
\* The name of "a" sorts before manifest.json, the name of "z" after it.
Catalogs == {"a", "z"}
Pages == {"index", "gaps"}
Files == Catalogs \cup {"manifest", "source", "matrix", "stray"}

Outcomes == {"pass", "fail", "not-evaluated"}
Transcript(verdict, required, optional) ==
  [verdict |-> verdict, required |-> required, optional |-> optional, secrets |-> "none"]
Transcripts == [verdict: {"pass", "fail", "collision"}, required: Outcomes, optional: Outcomes,
                secrets: {"none", "declared", "hidden"}]

Absent == [tag |-> "absent"]
Torn == [tag |-> "torn"]

-----------------------------------------------------------------------------
(* From a transcript to a result.  Only the scenarios of phase 1 have optional
   assertions. *)

Assertions(k) == IF k = "phase1" THEN {"required", "optional"} ELSE {"required"}

\* engine_bundle.rs: nothing is evaluated after a collision.
EngineAssertion(t, x) == IF t.verdict = "collision" THEN "not-evaluated" ELSE t[x]
EngineOutcome(t) == IF t.verdict = "collision" THEN "not-tested" ELSE t.verdict

\* contention_bundle.rs: the outcome follows the assertions that were evaluated
\* on the rounds, not what the evidence says of itself.
RoundsOutcome(t) == IF t.required = "pass" THEN "pass" ELSE "fail"

\* legacy_commit.rs: a pass has no errors (the required assertion) and only
\* valid rounds (the verdict); a round that exited nonzero is not valid.
HistoricalOutcome(t) == IF t.required = "pass" /\ t.verdict = "pass" THEN "pass" ELSE "fail"

\* phase1_bundle.rs: the classification and the assertions are copied.
Phase1Outcome(t) == t.verdict

Result(k, t) ==
  [outcome |-> CASE k = "engine" -> EngineOutcome(t)
                 [] k = "phase1" -> Phase1Outcome(t)
                 [] k = "historical" -> HistoricalOutcome(t)
                 [] OTHER -> RoundsOutcome(t),
   assertions |-> [x \in Assertions(k) |-> IF k = "engine" THEN EngineAssertion(t, x) ELSE t[x]]]

ValidateResultOutcome(r) == r.outcome = "pass" => r.assertions["required"] = "pass"

\* validate_result_links: every assertion of the scenario is evaluated.
ResultLinks(k, r) == r.outcome \in {"pass", "fail"} => DOMAIN r.assertions = Assertions(k)

ValidResult(k, t) == ValidateResultOutcome(Result(k, t)) /\ ResultLinks(k, Result(k, t))

-----------------------------------------------------------------------------
(* Which evidence an importer admits.  src is what it reads: the profile and
   scenario files (contract), the transcripts (evidence), and what the review,
   or a digest in the importer itself, says they were.  A contract has the
   version the evidence was made under (source) and the one the results are
   published under (publication); only phase 1 has two profiles for them. *)

\* The summary has to follow from the rounds it was made from: a catalog with
\* errors is not eligible, one without may still have an invalid round.
SummaryRecomputes(t) == t.verdict = "pass" => t.required = "pass"

HistoricalAdmits(src) ==
  /\ src.evidence = src.review.evidence
  /\ \A c \in Catalogs : SummaryRecomputes(src.evidence[c])

\* The flags of the transcript itself.
Sanitized(t) == t.secrets # "declared"

\* A catalog is ranked if and only if no required assertion failed.
RankingRecomputes(t) == (t.verdict = "pass") = (t.required = "pass")

FailuresReviewed(src) ==
  src.review.failures = {c \in Catalogs : src.evidence[c].verdict # "pass"}

\* Failure reviews cover exactly the catalogs that failed.
ContentionAdmits(src) ==
  /\ src.evidence = src.review.evidence
  /\ src.contract = src.review.contract
  /\ \A c \in Catalogs : Sanitized(src.evidence[c]) /\ RankingRecomputes(src.evidence[c])
  /\ FailuresReviewed(src)

\* The transcripts were written under the source profile and the scenarios,
\* and nothing else ties the importer to particular transcripts.
Phase1Admits(src) ==
  /\ src.contract.source = src.review.contract.source
  /\ \A c \in Catalogs : /\ Sanitized(src.evidence[c])
                         /\ src.evidence[c].verdict \in {"pass", "fail"}

\* The checks and the classification are recomputed from the transcript.
EngineTranscriptValid(t) ==
  /\ Sanitized(t)
  /\ t.verdict = "pass" => t.required = "pass"

EvidenceSetValid(src) == \A c \in Catalogs : EngineTranscriptValid(src.evidence[c])

\* The review names the digests of the contracts and of every transcript.
ReviewedSources(src) == src.evidence = src.review.evidence /\ src.contract = src.review.contract

EngineAdmits(src) == EvidenceSetValid(src) /\ ReviewedSources(src)

Admits(k, src) ==
  /\ CASE k = "historical" -> HistoricalAdmits(src)
       [] k = "contention" -> ContentionAdmits(src)
       [] k = "phase1" -> Phase1Admits(src)
       [] k = "engine" -> EngineAdmits(src)
  /\ \A c \in Catalogs : ValidResult(k, src.evidence[c])

-----------------------------------------------------------------------------
(* What the importer renders. *)

\* A result of phase 1 names its own transcript as evidence, any other names
\* files that stand for all of them.
Record(k, src, c) ==
  [tag |-> "result", contract |-> src.contract, transcript |-> src.evidence[c],
   bound |-> IF k = "phase1" THEN [x \in {c} |-> src.evidence[x]] ELSE src.evidence]

\* The copies an engine bundle has of what it was made from.  The review is
\* evidence too; it is written for the transcripts and stands with them.
SourceCopy(src) == [tag |-> "source", contract |-> src.contract, evidence |-> src.evidence]

Manifest(k, src) ==
  [tag |-> "manifest", contract |-> src.contract, evidence |-> src.evidence,
   results |-> [c \in Catalogs |-> Record(k, src, c)]]

\* The order in which the files are written: by name.
FileOrder(k) ==
  CASE k = "phase1" -> <<"a", "z", "manifest">>
    [] k = "engine" -> <<"a", "manifest", "z", "source">>
    [] OTHER -> <<"a", "manifest", "z">>

Rendered(k, src) ==
  [f \in Files |-> CASE f \in Catalogs -> Record(k, src, f)
                     [] f = "manifest" -> Manifest(k, src)
                     [] f = "source" /\ k = "engine" -> SourceCopy(src)
                     [] OTHER -> Absent]

\* The matrix is made from the loaded results: only a pass is ranked, and an
\* engine matrix ranks nothing.
Rows(k, results) == [c \in Catalogs |-> Result(k, results[c].transcript)]

CommitMatrix(rows) == [tag |-> "matrix", rows |-> rows, ranked |-> {c \in Catalogs : rows[c].outcome = "pass"}]

EngineMatrix(rows) == [tag |-> "matrix", rows |-> rows, ranked |-> {}]

MatrixOf(k, results) == IF k = "engine" THEN EngineMatrix(Rows(k, results)) ELSE CommitMatrix(Rows(k, results))

-----------------------------------------------------------------------------
(* The pages of the publication, from the bundles that were loaded: a function
   from kinds to the results of each, with kinds that were not found absent. *)

Passed(k, results) == {c \in Catalogs : Result(k, results[c].transcript).outcome = "pass"}

IndexPage(shelf) ==
  [tag |-> "index",
   rows |-> [k \in {b \in Kinds : shelf[b] # Absent} |->
               [results |-> Cardinality(Catalogs), pass |-> Cardinality(Passed(k, shelf[k].results))]]]

AssertionGaps(r) == {x \in DOMAIN r.assertions : r.assertions[x] # "pass"}

\* Only results that did not pass are gaps.
MutantOutcomeGap(r) == r.outcome # "pass"

IsGap(r) == r.outcome # "pass" \/ AssertionGaps(r) # {}

GapsPage(shelf) ==
  [tag |-> "gaps",
   rows |-> UNION {{[kind |-> k, catalog |-> c, result |-> Result(k, shelf[k].results[c].transcript)] :
                      c \in {d \in Catalogs : IsGap(Result(k, shelf[k].results[d].transcript))}} :
                   k \in {b \in Kinds : shelf[b] # Absent}}]

Page(f, shelf) == IF f = "index" THEN IndexPage(shelf) ELSE GapsPage(shelf)
=============================================================================

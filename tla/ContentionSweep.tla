-------------------------- MODULE ContentionSweep --------------------------
(***************************************************************************)
(* catalog-bench-commit (crates/commit: main.rs, sweep.rs, policy.rs,      *)
(* aggregate.rs, stats.rs): a sweep runs contention rounds against every   *)
(* catalog in rotated order, aggregates them, ranks the catalogs and       *)
(* publishes one transcript.  A round is what ContentionRound shows of it: *)
(* it passes and leaves nothing behind, or fails and may leave its         *)
(* fixture.  The program may be started again with the same fixture id and *)
(* output path.                                                            *)
(***************************************************************************)
EXTENDS Integers, Sequences, FiniteSets, TLC

CONSTANT Settings   \* the sweeps of the instance

FaultKinds == {"runner", "setup", "negotiation", "round", "residue", "kill", "audit", "write"}

\* A setting: the catalogs of the profile, by id; the round policy of the scenario;
\* the commits per second and the sequential median latencies a round may measure; what
\* may go wrong around the rounds; how often the program is started.
ASSUME SweepAssumption ==
  \A s \in Settings :
    /\ s.order \in Seq(Nat) /\ s.order # <<>>
    /\ \A i, j \in DOMAIN s.order : s.order[i] = s.order[j] => i = j
    /\ s.policy \in [conditioning : Nat, measured : Nat]
    /\ s.scores \subseteq Nat /\ s.latencies \subseteq Nat
    /\ s.faults \subseteq FaultKinds /\ s.runs \in Nat \ {0}

VARIABLES
  setting,    \* the sweep that is run
  run,        \* how often the program has been started
  stage,      \* where it is
  rounds,     \* the transcripts of the rounds so far
  report,     \* the aggregates, the ranking and the classification
  left,       \* the fixtures that rounds left behind, with the run that did
  evidence,   \* what is published under the output path
  exit        \* the exit code

vars == <<setting, run, stage, rounds, report, left, evidence, exit>>

CatalogOrder == setting.order
policy       == setting.policy
Faults       == setting.faults
N            == Len(CatalogOrder)
Catalogs     == {CatalogOrder[i] : i \in 1..N}

----------------------------------------------------------------------------
(* The plan (policy.rs) *)

\* validate_parameters and validate_profile
PlanUnbalanced == policy.conditioning > 0 /\ policy.measured > 0
PlanAccepted ==
  policy.conditioning > 0 /\ policy.measured > 0 /\ policy.measured = N

\* schedule_rounds
NotRotated(index) == CatalogOrder
Rotated(index) ==
  LET offset == index % N
  IN  SubSeq(CatalogOrder, offset + 1, N) \o SubSeq(CatalogOrder, 1, offset)

Repetitions == 1..(policy.conditioning + policy.measured)
Kind(repetition) == IF repetition <= policy.conditioning THEN "conditioning" ELSE "measured"

\* The entry of the schedule that comes after a number of finished rounds.
Scheduled(done) ==
  LET repetition == (done \div N) + 1
      position   == (done % N) + 1
  IN  [repetition |-> repetition, kind |-> Kind(repetition), position |-> position,
       catalog |-> Rotated(repetition - 1)[position]]
Total == N * (policy.conditioning + policy.measured)

\* ContentionPlan::fixture
SharedFixture(catalog, repetition) == <<catalog, 1>>
Fixture(catalog, repetition) == <<catalog, repetition>>

----------------------------------------------------------------------------
(* Aggregation (aggregate.rs, stats.rs) *)

\* validate_schedule
ScheduleValid ==
  /\ Len(rounds) = Total
  /\ \A repetition \in Repetitions, position \in 1..N :
       LET observed == rounds[(repetition - 1) * N + position]
       IN  /\ observed.repetition = repetition
           /\ observed.kind = Kind(repetition)
           /\ observed.position = position
           /\ observed.catalog = Rotated(repetition - 1)[position]

RoundsOf(catalog, kind) ==
  {i \in DOMAIN rounds : rounds[i].catalog = catalog /\ rounds[i].kind = kind}
Executed(r) == r.outcome # "negotiation-failed"
Passed(r) == r.outcome = "passed"

\* tally
Tally(some) ==
  [scheduled |-> Cardinality(some),
   executed  |-> Cardinality({i \in some : Executed(rounds[i])}),
   passed    |-> Cardinality({i \in some : Passed(rounds[i])})]
Complete(expected) == [scheduled |-> expected, executed |-> expected, passed |-> expected]

\* median_with_range, in halves
Median(samples) ==
  LET sorted == SortSeq(samples, <)
      middle == Len(sorted) \div 2
  IN  IF Len(sorted) % 2 = 0 THEN sorted[middle] + sorted[middle + 1] ELSE 2 * sorted[middle + 1]
Metric(some, field) == Median([i \in DOMAIN some |-> some[i][field]])

\* aggregate_catalog
Faultless(catalog) ==
  /\ Tally(RoundsOf(catalog, "conditioning")) = Complete(policy.conditioning)
  /\ Tally(RoundsOf(catalog, "measured")) = Complete(policy.measured)
Measurements(catalog) ==
  LET measured == SelectSeq(rounds, LAMBDA r : r.catalog = catalog /\ r.kind = "measured")
  IN  [score |-> Metric(measured, "score"), latency |-> Metric(measured, "latency")]

\* Measurements are taken only of catalogs that passed; a round without them is an error.
AggregationError ==
  \/ ~ScheduleValid
  \/ \E catalog \in Catalogs :
       Faultless(catalog) /\ \E i \in RoundsOf(catalog, "measured") : ~Passed(rounds[i])

\* The comparison in rank_catalogs
WithoutLatency(m, a, b) == m[a].score > m[b].score \/ (m[a].score = m[b].score /\ a < b)
Before(m, a, b) ==
  \/ m[a].score > m[b].score
  \/ /\ m[a].score = m[b].score
     /\ \/ m[a].latency < m[b].latency
        \/ m[a].latency = m[b].latency /\ a < b

\* aggregate_contention; rank 0 stands for NotRanked
Aggregated ==
  LET passing == {c \in Catalogs : Faultless(c)}
      m == [c \in passing |-> Measurements(c)]
      rank(c) == 1 + Cardinality({d \in passing : Before(m, d, c)})
  IN  [rank   |-> [c \in Catalogs |-> IF c \in passing THEN rank(c) ELSE 0],
       passed |-> passing = Catalogs]

----------------------------------------------------------------------------
(* The program *)

NoReport == [rank |-> [c \in Catalogs |-> 0], passed |-> FALSE]
NoEvidence == [run |-> 0, rounds |-> <<>>, report |-> NoReport]

Init ==
  /\ setting \in Settings
  /\ run = 1
  /\ stage = "start"
  /\ rounds = <<>>
  /\ report = NoReport
  /\ left = {}
  /\ evidence = NoEvidence
  /\ exit = "none"

Exit(code) == stage' = "exited" /\ exit' = code

\* verify_runner
RunnerMismatch == "runner" \in Faults

\* ContentionPlan::from_contracts and verify_runner
Begin ==
  /\ stage = "start"
  /\ \/ PlanAccepted /\ stage' = "rounds" /\ UNCHANGED exit
     \/ (~PlanAccepted \/ RunnerMismatch) /\ Exit("1")
  /\ UNCHANGED <<setting, run, rounds, report, left, evidence>>

\* The round that comes next and its fixture
Current == Scheduled(Len(rounds))
CurrentFixture == Fixture(Current.catalog, Current.repetition)
MoreRounds == stage = "rounds" /\ Len(rounds) < Total
Taken == \E l \in left : l.fixture = CurrentFixture

Push(outcome, score, latency) ==
  /\ rounds' = Append(rounds, [repetition |-> Current.repetition, kind |-> Current.kind,
                               position |-> Current.position, catalog |-> Current.catalog,
                               outcome |-> outcome, score |-> score, latency |-> latency])
  /\ UNCHANGED <<setting, run, stage, report, evidence, exit>>

SetupFails ==
  /\ MoreRounds /\ "setup" \in Faults
  /\ Exit("1")
  /\ UNCHANGED <<setting, run, rounds, report, left, evidence>>

NegotiationFails ==
  /\ MoreRounds /\ "negotiation" \in Faults
  /\ Push("negotiation-failed", 0, 0)
  /\ UNCHANGED left

RoundCollides ==
  /\ MoreRounds /\ Taken
  /\ Push("collision", 0, 0)
  /\ UNCHANGED left

RoundPasses ==
  /\ MoreRounds /\ ~Taken
  /\ \E score \in setting.scores, latency \in setting.latencies : Push("passed", score, latency)
  /\ UNCHANGED left

RoundFails ==
  /\ MoreRounds
  /\ Push("failed", 0, 0)
  /\ \/ "round" \in Faults /\ UNCHANGED left
     \/ /\ "residue" \in Faults /\ ~Taken
        /\ left' = left \cup {[fixture |-> CurrentFixture, run |-> run]}

\* aggregate_contention and audit_serialized_values
Aggregate ==
  /\ stage = "rounds" /\ Len(rounds) = Total
  /\ \/ /\ ~AggregationError
        /\ report' = Aggregated
        /\ stage' = "publish"
        /\ UNCHANGED exit
     \/ (AggregationError \/ "audit" \in Faults) /\ Exit("1") /\ UNCHANGED report
  /\ UNCHANGED <<setting, run, rounds, left, evidence>>

\* main
ExitCodeOfWrite == "0"
ExitCode == IF report.passed THEN "0" ELSE "2"

\* write_new_evidence, as EvidenceRegister describes it, and the exit code
Publish ==
  /\ stage = "publish"
  /\ \/ /\ evidence.run = 0
        /\ evidence' = [run |-> run, rounds |-> rounds, report |-> report]
        /\ \/ Exit(ExitCode)
           \/ "write" \in Faults /\ Exit("1")
     \/ (evidence.run # 0 \/ "write" \in Faults) /\ Exit("1") /\ UNCHANGED evidence
  /\ UNCHANGED <<setting, run, rounds, report, left>>

\* The program is killed; the fixture of a round in progress stays.
Killed ==
  /\ stage # "exited" /\ "kill" \in Faults
  /\ Exit("killed")
  /\ \/ UNCHANGED left
     \/ MoreRounds /\ ~Taken /\ left' = left \cup {[fixture |-> CurrentFixture, run |-> run]}
  /\ UNCHANGED <<setting, run, rounds, report, evidence>>

Restart ==
  /\ stage = "exited" /\ run < setting.runs
  /\ run' = run + 1
  /\ stage' = "start" /\ rounds' = <<>> /\ report' = NoReport /\ exit' = "none"
  /\ UNCHANGED <<setting, left, evidence>>

Exited == stage = "exited" /\ run = setting.runs /\ UNCHANGED vars

Next ==
  \/ Begin \/ SetupFails \/ NegotiationFails \/ RoundCollides \/ RoundPasses \/ RoundFails
  \/ Aggregate \/ Publish \/ Killed \/ Restart \/ Exited

Spec == Init /\ [][Next]_vars

----------------------------------------------------------------------------
(* Correctness *)

Transcripts ==
  [repetition : Nat, kind : {"conditioning", "measured"}, position : 1..N, catalog : Catalogs,
   outcome : {"passed", "failed", "collision", "negotiation-failed"},
   score : Nat, latency : Nat]
Reports == [rank : [Catalogs -> 0..N], passed : BOOLEAN]

TypeOK ==
  /\ setting \in Settings
  /\ run \in 1..setting.runs
  /\ stage \in {"start", "rounds", "publish", "exited"}
  /\ rounds \in Seq(Transcripts)
  /\ report \in Reports
  /\ left \subseteq [fixture : Catalogs \X Nat, run : 1..setting.runs]
  /\ evidence.run \in 0..setting.runs /\ evidence.rounds \in Seq(Transcripts) /\ evidence.report \in Reports
  /\ exit \in {"none", "0", "1", "2", "killed"}

\* The evidence of a sweep that went through all its rounds is never given up for an
\* inconsistency of its own: aggregate_contention accepts every list of rounds the sweep
\* produces.
AggregationSucceeds == stage = "rounds" /\ Len(rounds) = Total => ~AggregationError

Published == evidence.run # 0
Measured(catalog) ==
  {i \in DOMAIN evidence.rounds :
     evidence.rounds[i].catalog = catalog /\ evidence.rounds[i].kind = "measured"}

\* "Across the five measured rounds each catalog occupies every execution position exactly
\* once."
FairPositions ==
  Published => \A catalog \in Catalogs, position \in 1..N :
    Cardinality({i \in Measured(catalog) : evidence.rounds[i].position = position}) = 1

\* The schedule gives every catalog every position equally often, and the check of the
\* schedule that aggregate_contention repeats after the rounds agrees with it.
FairSchedule == FairPositions /\ AggregationSucceeds

\* "A catalog is rankable only if its conditioning round and all five measured rounds pass",
\* and then it is ranked: there is one passed round for every repetition.
RankedIffFaultless ==
  Published => \A catalog \in Catalogs :
    evidence.report.rank[catalog] > 0 <=>
      \A repetition \in Repetitions : \E i \in DOMAIN evidence.rounds :
        LET r == evidence.rounds[i]
        IN  r.catalog = catalog /\ r.repetition = repetition /\ r.outcome = "passed"

\* Better(i, j) for the measured rounds i of a and j of b in every repetition
InEveryRepetition(a, b, Better(_, _)) ==
  \A i \in Measured(a), j \in Measured(b) :
    evidence.rounds[i].repetition = evidence.rounds[j].repetition
      => Better(evidence.rounds[i], evidence.rounds[j])
RankedBefore(a, b) == evidence.report.rank[a] < evidence.report.rank[b]
Ranked == {c \in Catalogs : evidence.report.rank[c] > 0}

\* A catalog that accepts more commits than another in every measured repetition, whatever
\* happened in the conditioning rounds, is ranked before it, and so is one that accepts as
\* many and whose sequential commits are quicker in every repetition.
ConsistentlyBetterRanksFirst ==
  \A a, b \in Ranked :
    a # b /\ (\/ InEveryRepetition(a, b, LAMBDA r, s : r.score > s.score)
             \/ InEveryRepetition(a, b, LAMBDA r, s : r.score = s.score /\ r.latency < s.latency))
      => RankedBefore(a, b)

\* Exactly the faultless catalogs are ranked, and a consistently better one comes first
\* (aggregate_catalog, rank_catalogs).
RankingIsFair == RankedIffFaultless /\ ConsistentlyBetterRanksFirst

\* A round that fails does not make another round of the sweep fail: a fixture that is
\* already taken was left by an earlier start of the program.
FailuresDoNotSpread ==
  \A i \in DOMAIN rounds : rounds[i].outcome = "collision" =>
    \E l \in left : /\ l.fixture = Fixture(rounds[i].catalog, rounds[i].repetition)
                    /\ l.run < run

\* Exit codes 0 and 2 are given by the one start of the program whose transcript is
\* published, and tell whether every catalog passed every round.
ExitTellsEvidence ==
  /\ exit \in {"0", "2"} => evidence = [run |-> run, rounds |-> rounds, report |-> report]
  /\ exit = "0" => \A i \in DOMAIN rounds : rounds[i].outcome = "passed"
  /\ exit = "2" => \E i \in DOMAIN rounds : rounds[i].outcome # "passed"
============================================================================

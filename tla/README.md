# A TLA+ verification of catalog-bench

catalog-bench measures and judges Iceberg REST catalogs (LakeCat, Polaris,
Gravitino, Lakekeeper, Nessie) that share one object store. Its verdicts are
published, so what has to be right is not a result but the *meaning* of one: a
round that passes must have counted what happened, must have left nothing
behind, and must never have touched what was not its own, whatever the catalog,
the network, or a child process did meanwhile. These modules model the programs
that produce the verdicts.

## Inventory

| Part | State | What it does | What makes it hard |
|---|---|---|---|
| contention round (`crates/commit/src/workflow.rs`, `model.rs`, `protocol.rs`, `store.rs`) | evidence per operation, ledgers, barrier, watch channel, writer tasks | set-up, serial commits, a shared window of concurrent commits, final load, object audits, cleanup, classification | writers and main task interleave; failed requests are ambiguous; writers die; cleanup after every failure |
| contention sweep (`sweep.rs`, `policy.rs`, `aggregate.rs`, `stats.rs`, `main.rs`) | list of round transcripts, aggregates, ranking | rotated schedule of rounds x catalogs, aggregation, ranking, exit code | one error aborts; a failed round must keep a catalog out of the ranking; position balance |
| evidence file (`crates/conformance/src/evidence_file.rs`) | temporary name, public name, directory entry | publish complete bytes under a new name | crash between steps, two writers, errors after publication |
| engine process (`crates/engine/src/process.rs`, `protocol.rs`, `execution.rs`) | child, pipe, reader task, decoder, signal | run an engine script as a child and decode its event stream | exit, timeout and reader race; kill; drain timeout |
| engine workflow (`crates/engine/src/workflow.rs`, `catalog.rs`) | evidence, cleanup authorisation | run the child, audit objects, clean up what the child owned | authority to clean up comes from a stream that may be cut |
| Trino server (`trino*.rs`), Flink/Spark/DuckDB adapters | server process, statement sequence | emit the event stream | several processes per execution |
| conformance probes (`crates/conformance/src/{namespace,table,commit}`, `config.rs`) | facts, fixture, page tokens | life cycles, pagination, idempotent replay, cleanup, verdict | cleanup after partial failure, pagination that never ends, requests carried out after they were given up |
| transport, routing (`transport.rs`, `routing.rs`, `iceberg.rs`, `operation.rs`) | token, configuration, captured answers | bounded requests, OAuth2, routes | timeouts that hide executed requests |
| fault proxy (`docker/minio/tools/internal/faultproxy/proxy.go`) | rules, match counts, gates, events | disconnect, delay or gate chosen requests | rule changes race requests; gates nobody opens |
| recovery clients (`clients/faults`, `cmd/object-fault-probe`) | fixture, idempotency key | cut, reconcile, retry exactly, restart | retry of an accepted commit |
| PyIceberg probe (`clients/pyiceberg`) | step results, ownership | chain of steps with owned cleanup | cleanup authority |
| launchers, infrastructure tools | containers, volumes | fresh projects, bootstrap, backup/restore | reuse of old state |
| contract tool (`crates/contract-tool/src`), result records (`crates/common/src/contract`) | directories of result bundles, the two published pages | import reviewed evidence, check, load, render matrices and pages | interrupted imports, two commands at a time, sources that are edited |
| legacy benchmarks, driver | timings | measure | timing only |

`PROJECT.json` lists every part with its status, and the hazards of this code
with the line where each bites and the properties that would notice it.

## Modules

### ContentionRound

One call of `run_contention_round`. The main task is the variable `step` with
one action per catalog or store request, in the order of the code; each writer
task of `run_concurrent_phase` is a value of `writer[w]`, with one action per
await point (barrier, `changed()`, the request, the return).

| Code | Model |
|---|---|
| `RoundExecution` and its `OperationEvidence` fields | `evidence[operation]`: not attempted, failed, or succeeded with an output that does (`fit`) or does not (`unfit`) meet the check made of it |
| `RequestLedger`, `RequestCounts`, `record`, `try_merge` | `ledger`, `counts`, `Record`, `Merge` |
| `Barrier`, `watch` channel, drop of the sender | `arrived`, `window`, `senderDropped` |
| `JoinSet` and the join loop | `Join(w)`, `firstError`, `AllJoined` |
| `cleanup`, every early return | `CleanUp` and the four cleanup actions |
| `evaluate_checks`, `finalize` | `AllPassed`, `Finalize` |

The catalog, the network and the store are the environment. `cat` holds whether
namespace and table exist, which commit the table points at, and the metadata
objects. `Faults` names what the environment may do wrong in an instance. The
central one is the ambiguous failure: a request whose sender got an error was
refused (`refusal`), was executed (`lost-answer`) or is executed at any later
time, even after the cleanup (`late-execution`, kept in `pending`).

Data is abstract: a commit is its identity (phase, writer, number), a metadata
object is the commit that wrote it, a latency is nothing. Metric values,
formats and logging are left out. `MCContentionRound` adds only the symmetry of
the writers.

### EvidenceFile and EvidenceRegister

`write_new_evidence`, called by any number of programs for one path (a runner
and its rerun, two runners with one output). `pc[w]` is the stage a program is
about to perform, one action per system call in the order of the code, each with
its error branch; an early return after `tempfile_in` drops the temporary file
(`DropTemporary`, whose outcome the code ignores). `cache` is what programs see of
the file system, `disk` what would be left after a power failure: the file system
copies from one to the other whenever it likes (`WriteBack`), `sync_all` at once.
A directory whose own name is not on the disk is lost with all its names.

`EvidenceRegister` is what a caller may rely on: a register that is written at
most once; an answer is a success, a refusal (nothing of the caller's is under
the path) or a doubt (it is, but a power failure may still take it). `WrittenOnce`
is the refinement: the holder is the program whose *complete* file the path names,
and the kind of the answer is computed from the stage in the error.

### ContentionSweep

The program `catalog-bench-commit`: it checks the plan (`Begin`), runs one round
per repetition and catalog in rotated order (`Scheduled`), aggregates, ranks,
publishes and exits. A round appears by its outcome, as `ContentionRound` shows it:
it passes and leaves nothing, or fails and may leave its fixture (`left`); a
fixture that is already there makes it fail without touching anything. The
program may be killed anywhere and started again with the same fixture id and
output path; `Publish` is `write_new_evidence` as `EvidenceRegister` describes it.
Throughputs and latencies are small numbers, because the median and the
comparison are part of what is checked; catalogs are numbers for the order of
their ids. The compiled-in scenario has one conditioning and five measured rounds;
a `setting` stands for what such a document may ask for, what the rounds measure and
what goes wrong.

### EngineProgram, EngineWorkflow, SupervisedEngine, InProcessEngine

One run of a stock engine. `EngineProgram` is the program of eleven stages that
Spark, Flink, Trino and DuckDB share (`EngineStage::ORDER`) with the differences that
matter: how each looks for an existing fixture, whether creating the namespace
tolerates one, and what becomes of an error of that look. Five stages send a
mutation; `request` is the mutation under way, which the catalog may execute after
its sender has given up or died. A table is the sequence of mutations it has taken,
so an observation is what `seen` holds of it.

`EngineWorkflow` is `run_engine_workflow` after the runner has returned: `process` is
`EngineProcessExecution`, `execution` is `EngineExecution`, with one action for each
request of the harness and `Finalize` for the checks and the classification.

| Code | Model |
|---|---|
| `collect_child`: select, termination, drain | `supervisor`, `SelectExited`, `SelectOther`, `ReaderJoined`, `DrainTimesOut` |
| `drain_stdout`, `ReaderSignal` | `reader`, `ReaderReads`, `Signal` |
| `EngineEventDecoder` | `decoder`, `Push`, `FinishLine`, `Accept`, `Finish` |
| the pipe, a line cut off, a process that inherited the pipe | `out`, `torn`, `held` |
| `RunningTrinoServer` | `server`, `probes`, `StartServer`, `Probe`, `StopsServer` |
| `run_trino_child`, `run_duckdb_program` | `child`, `Sends`, `Writes`, `ProgramEnds` |

`SupervisedEngine` (Spark, Flink) composes the program, the pipe, the reader task
and the supervisor with the workflow; `InProcessEngine` (Trino, DuckDB) composes
program, server and workflow. `Faults` names what may go wrong once in a run: the
catalog (`phantom`: acknowledged and not done, `doubled`, `rollback`), a line of the
stream (`noise`, `malformed`, `long`, `flood`), the reader's end (`read`), a runtime that
is not the pinned one (`runtime`), a request of the harness (`call`). Refused and lost requests, crashes, kills and timeouts need no name: they may
always happen.

### FaultProxy and CatalogRecovery

`FaultProxy` is the proxy of `docker/minio/tools/internal/faultproxy`: the rule in force,
its count of matches, its events and its gate, and for each request the goroutine
that serves it. A step is a section of the proxy's mutex or a network event, so
`Match`, `RecordBefore`, `TakeGate`, `RecordPause`, `RecordAfter` and `Disconnect` of
different requests interleave with each other and with `PutRule` and `ReleaseRule`.
`upstream` is what the server behind the proxy has of a request: it can still apply
one whose client and whose goroutine are gone. A goroutine whose rule pauses the body
is in `RoundTrip` while it records the pause and waits; `gatedBody.Read` waits for the
gate and nothing else, so a client or a server that goes away does not end it
(`UpstreamFailed` has no such case), only `ReleaseRule` does.

`CatalogRecovery` adds the probe of `clients/faults/catalog_recovery.py`, line by line
(`pc` is the place in `run`), the summary of `docker/run-catalog-recovery.sh` for one
catalog, and the catalog: durable or not, with idempotency keys that are not
supported, answered from the store, bound to their content or ignored. `TimesOut` is
`urlopen`'s timeout, which the probe cannot tell from an injected disconnect. An
exception inside the executor's block waits for the pending request (`drain`).

| Code | Model |
|---|---|
| `proxy.rule`, `matchCount`, `events`, `release`/`released` | `rule`, `matchCount`, `events`, `release`, `released` |
| the local variables of `serveProxy` | `handler` |
| `first`, `retry`, `drift_outcome`, `pending` | `reply` |
| `cases`, `summary.json` | `evidence`, `verdict` |

`EvidenceIsOwn` and `RecoveryIsGenuine` except runs in which the probe gave up on a
drift commit (same key, other content). Without the exception TLC finds a run in
which such a commit is matched late, uses up the injection of the next rule, and
the summary still says verified: it counts the events and does not know which
request they were injected into.

### NamespaceProbe, TableProbe, CommitProbe and ConformanceProbe

One run of a conformance probe. A probe is a sequence of operations
(`Operations`), what each of them needs of the earlier ones (`Needs`, from the
`if` conditions and early returns of the workflows), the request it sends
(`RequestOf`) and the facts judged at the end (`Facts`). `NamespaceProbe`,
`TableProbe` and `CommitProbe` say this for the three workflows and the scenarios
their policies pin; they have no state. `ProbeTranscript` holds what they share
(capture of an answer, the checks on it, the traversal of pages, assertions and
classification), `ProbeRouting` the negotiation before the first operation and the
probe of the configuration. `RestCatalog` is the catalog, which is not code of
this repository: it is described by the requests the probes send.

`ConformanceProbe` composes them: `stage` is where `run_*_probe` is, `next` the
operation at hand, `obs` what was captured of every operation, `pages` the
traversal. Each operation is one step, `Attempt` or `Skip`; a page is one step, too.

| Code | Model |
|---|---|
| `validate_invocation`, `ProbeTarget::resolve`, `first_required_limitation` | `Validate` |
| `acquire_authentication`, `negotiate_routing` | `AcquireAuthentication`, `NegotiateRouting` |
| `OperationRecorder::attempt`, `skip` | `Attempt`, `Skip`, `obs` |
| `traverse_pages` (namespace and table) | `NextPage`, `RefusedPage`, `pages` |
| the facts and `finish` of the transcripts | `Facts`, `Judge` |
| `write_new_evidence`, the exit code of `main` | `Publish` |

A `setting` fixes the probe, the adapter's profile, how the catalog pages its
listings, what others have in it, and what may go wrong. A faulty request is
refused, executed without an answer, executed later (`late`, possibly after the
end of the run), answered unreadably, acknowledged and not done, or done
although it had to be refused (`Forced`). With `pages` the catalog serves any
sequence of pages at all; with `neighbour` somebody else creates namespaces of the
fixture's names during the run. `did` counts how often the request of an operation
changed the catalog, which is what a verdict is compared with.

### ResultBundle and BundlePublication

The commands of `catalog-bench-contract` that turn reviewed evidence into published
results: the four imports (historical, contention, phase 1, engine) and their checks,
`bundle validate`, the matrices, and the publication (`INDEX.md` and
`KNOWN-GAPS.md`). `ResultBundle` is what is computed: which evidence an import admits,
the outcome of a result, which records are valid, the files of a bundle and what
the matrices and pages say. `BundlePublication` is what happens: a command is a
sequence of file operations (`Program`), each one step, so that any two commands
interleave, and a command can be interrupted between any two and within one
(`Torn`). A file is what it was generated from: which contract, which
evidence and which outcome; a digest is that value. The contract is a record, because a
phase 1 import binds two profiles: the one the evidence was made under (`source`), which
the review must name, and the one it is published under (`publication`). The historical
summary may only claim a pass that its rounds support; the contention ranking must agree
with the rounds in both directions.

| Code | Model |
|---|---|
| `write_*_result_bundle`, `check_*_result_bundle` | `WriteHistorical` ... `CheckEngine` as sequences of operations |
| `fs::write`, `create_dir`, `create_dir_all`, `write_new_file` | `Truncate`/`Fill`, `CreateDir`, `CreateDirAll`, `CreateNew` |
| `load_bundle` | `LoadManifest`, `LoadContext`, `LoadResult` |
| `render_publication` | `Discover`, `Scan`, `Render` |
| a maintainer's commit between two commands | `Edit` |

## Runs

The instances of the round have two writers, one warmup and one sequential commit: two
writers are what it takes for commits to compete, for one to fail while another
runs and for ledgers to merge; a second serial commit only repeats a loop
iteration. `MaxSequence`, the commits one writer starts within the window, is the
only bound that is not in the code.

| Run | Shows |
|---|---|
| `round_faults` | with ambiguous failures, spurious conflicts and dying writers: `ForeignFixtureSurvives`, `CleanupAfterMutation`, `QuietAfterJoin`, `SharedWindow`, `EveryRequestAccounted`, `PassMeansClean` and `AcceptedIsWhatHappened` |
| `round_honest` | `HonestCatalogPasses`: contention alone never fails a round of a faultless catalog (two commits per writer, so that a writer also conflicts after having been accepted) |
| `round_liveness` | `RoundTerminates` under fairness, with failing requests, dying writers, store errors and a foreign table; `AcceptedIsPersisted`: a catalog that acknowledges a commit without writing its object is caught, as long as rejected commits leave no objects |
| `round_audit` (violation) | the same property when rejected commits may leave objects: the audit compares numbers, so an orphan covers up a missing object and the round passes, which is less than `docs/COMMIT-CONTENTION.md` says of the audit |
| `evidence_file` | two programs, every call may fail, existing directory: `CompleteEvidence`, `ReportedEvidenceStays`, `NoTemporaryAfterSuccess` and the refinement `WrittenOnce` |
| `sweep` | the settings of `MCSettings`: every fault in one start, with a policy that fits the number of catalogs and one that must be refused; two starts with kills, leftovers and failing writes; measurements that vary, for an odd and an even number of samples. `FairSchedule` (balanced positions, and aggregation agrees with the schedule), `RankingIsFair` (ranked exactly when faultless, the consistently better first), `FailuresDoNotSpread`, `ExitTellsEvidence` |
| `engine_supervised` | Spark and Flink with damaged streams, catalogs that err, fixtures that exist and failing calls: `RunnerHandsOver` (no child runs on, and whatever it mutated is covered by the authority to clean up), `PassIsEarned`, `CollisionIsReal`, `ForeignKept`, `Terminates` |
| `engine_inprocess` | Trino and DuckDB: `PassIsEarned`, `RunnerHandsOver` (no server is left, mutations are reported), `Terminates` |
| `engine_trino_namespace` (violation) | `ForeignKept` for Trino: its preflight counts tables, so an existing namespace is used and dropped, although the scenario asks for the namespace to be absent |
| `recovery` | three cases, one request given up anywhere on its way (`MaxTimeouts`), any direct request lost, eight kinds of catalogs: `EvidenceIsOwn`, `RecoveryIsGenuine`, `ComesToRest` (the probe ends, and so does every request, except one that a failed probe left at a gate it never opened) |
| `probes` | the four conformance probes: faultless catalogs in every mode of authentication, prefix, paging, limitation and advertisement; every defect of the negotiation; two faulty requests anywhere in a workflow; fixtures that exist; neighbours; any sequence of pages. `ForeignSurvives`, `NothingIsLeft`, `HonestCatalogPasses`, `VerdictIsGenuine`, `PaginationSound`, `ProbeTerminates` |
| `publication` | the commands of the contract tool on one repository, in sequence with an interruption and an edit, and two at a time: `OneGeneration`, `ImportIsExact`, `RerunRepairs`, `PagesTellTheBundles`, `PublishedStays` |

An engine run has no bound but `MaxProbes`; one damaged line or one mistake of the
catalog is allowed per run, because a second one only adds to a run that fails
already. `MutationsAreCovered`, a half of `RunnerHandsOver`, excepts `noise`: a preflight event lost in another
writer's output, followed by a kill, leaves the fixture behind, and the decoder
cannot tell.

With `MaxTimeouts = 2` the invariants of `recovery` hold too (2.5 million states); the
run has 1, which is enough for a request of one case to meet the rule of the next.
`TimesOut` is not bounded while the probe drains its executor.

Two programs are enough for a loser and a winner in every order of the evidence
file; the number of power failures is not bounded.

In `probes` the listing has a bound of `MaximumPages` = 3 instead of 64, one entry
per page (the code asks for one, too) and two tokens: enough for a traversal that
ends, fails on a repetition, or runs into the bound. Honest catalogs are on both sides
of it: a fixture of two names and one of somebody else's fill three pages, and a catalog
that ends its listing with an empty page needs a fourth. `HonestCatalogPasses` says that
the first pass and that of the others exactly the pagination fails. Two faults (`Faults`) are what
it takes for a request to be carried out late and for the cleanup that would have
noticed it to fail as well. The invariants that are given for a part of the states
only (`exit = "0"`, `stage = "done"`) are about what is left when a run has ended;
late requests may still arrive then.

In `publication` a `setting` names the bundle that is worked on; the other bundles
are there and whole. Two catalogs per bundle are enough for one that passes and
one that does not; three commands one after the other let a publication follow an
import that followed an interrupted one; two commands at a time meet in every order
of their file operations, but are not interrupted more than once. The evidence may
be good, failing, unfinished, collided, more favourable than its assertions, or not
sanitised. What a command reports is compared with the files only while nobody
else has changed them since it started (`calm`).

The round, the evidence file, the sweep, the engines and the recovery probe define a
type invariant `TypeOK`. It is proved for the first two; no run lists it.

Fairness: the runtime polls every ready task (weak fairness of the main task and
of each writer), the clock advances (`Expire`), and a request is answered or
runs into the client's request timeout (`CatalogCommits`; the error steps belong
to the writer). Nothing makes the catalog execute an abandoned request.
For the engines only the harness is fair: its timeouts fire (`SupervisorActs`,
`RunnerActs`, `ProgramActs`) and its requests return (`WorkflowActs`); the child, the
reader, the server and the catalog may stop for ever, and a panic is never forced.
For `recovery` the probe, the proxy's goroutines and the catalog's handling of what it
received are fair, and sockets time out; a restarted catalog need not come back.
For `probes` the probe itself keeps running: every request has a timeout, so a step
that advances it (`Advances`) is always possible until it is done, and is taken
again and again; nothing is asked of late requests and of neighbours. `Fairness`
spells this out, because deadlock checking shows the possibility and a weak
fairness condition on so large an action is slow to evaluate.
Deadlock is checked in every run but `recovery`, where everything comes to rest, and
`publication`, where the commands of a setting are used up; a finished round, a
finished engine run, a finished probe and a program that is not started again
stutter (`Finished`, `Done`, `Terminated`, `Exited`).

## Theorems

`ContentionRoundProofs` proves for every set of writers, every number of commits
and every subset of the faults: `TypeCorrect`, `ForeignFixture`,
`CleanupAlwaysRuns`, `NoWriterAfterJoin`, `OneWindow` and `PassIsClean`. The only
assumption is `RoundAssumption` (finite nonempty writers, positive counts).
`ContentionRoundInvariants` holds the inductive invariant and the lemmas for its
parts, `ContentionRoundPending` the part about abandoned requests.

None of the properties is inductive alone. `RoundInv` strengthens them:

- `WriterInv` relates `step`, `arrived`, `window` and the writers' places, so that
  "all joined" survives the steps after the join;
- `EvidenceInv` says which operations cannot have been attempted yet at a step,
  which makes "cleanup was attempted" a consequence of where the round is;
- `ForeignInv` confines a round with a foreign namespace to `preflight` and `done`;
- `AbsentInv` relates the verified absence to the catalog's state;
- `PendingInv` is the argument behind `PassIsClean`: every request that was given
  up has left a mark (a failed operation, an error in a ledger that will be
  merged, or a phase that will fail), and no marked round passes. So a passing
  round has no abandoned request that could bring its fixture back.

`EvidenceFileProofs` proves for any number of programs and any set of failing
calls: `TypeCorrect` and `EvidenceIsComplete`, and for a directory that existed before
(`FreshParents \subseteq {FALSE}`, which is necessary: see Divergences)
`ReportedStays`, `NoTemporaryLeft` and the refinement `PathIsWrittenOnce`. The invariant
`FileInv` adds to the types what a program's place says of its file (`DataAt`,
`PublicAt`: complete before synced, synced before linked, linked by a program
that knows it), that the disk never names anything but what the cache names
(`DiskInv`), and that a reported success is on the disk (`DurableInv`).

`ConformanceProbeProofs` proves `ListingsAreComplete`: `PaginationSound` for every set
of settings and every bound on the pages (`PagesAssumption`: it is positive), with
whatever pages, faults and neighbours the model has. `PagesOK` is what one more page
keeps (`PageKept`): the names served are as many as were counted, because a page with
a known name ends the traversal, and a traversal that goes on is below the bound.
`TraversalInv` adds that a listing still ahead is open, so that no page is turned
after the end of the traversal (each workflow lists at one place,
`ListingOperation`), and that nothing is judged before the workflow has ended, so that
the verdict is about the final traversal.

`ContentionRoundLedgers` adds the theorems about the round's ledgers, for the same
constants: `EveryRequestCounted`, `AcceptedHappened` and `AcceptedPersisted`. `LedgerInv`:
the counts of a ledger are the sizes of its sets. `SentInv` follows the requests: what a
task has sent is in its ledger or unanswered, and the phase's ledger holds what the
joined writers' do. `AcceptedInv`, `ObjectsInv` and `AuditInv` do the same for accepted
commits, from the writer's ledger to the round's, and for the objects in the store, each
of which was accepted or left a mark. The last two theorems have the hypothesis
`"orphan-object" \notin Faults`: the audit compares numbers, so an object that a rejected
commit leaves behind can stand for one that is missing, which `round_audit` shows.

`ContentionSweepProofs` proves for any number of catalogs, any policy and any number of
starts (`SweepAssumption`: the settings have the types of a plan) `ScheduleIsFair`,
`RankedExactlyFaultless`, `FailuresStayApart` and `ExitCodesTell`. `SweepInv` says that
the rounds so far are the schedule's (`Follows`), that a start holds an accepted plan
(`Planned`), that the report tells who passed everything (`Reported`), which round of
which start left a fixture (`LeftByItsRound`), and that what is under the output path is
a complete sweep (`EvidenceComplete`). The balance of the positions is arithmetic: the
catalog at a position is found by dividing the number of finished rounds by the number
of catalogs, and a rotation by the repetition is a bijection.

`InProcessEngineProofs` proves for Trino and DuckDB, every content of the catalog before
the run, every set of faults and every number of probes `ProgramIsReported` and
`PassMeansDone`. The first rests on `HandsOverInv`: where the runner, the program and the
server are together, that a request is under way only from a stage that mutates, and
that a program past the preflight has reported the fixture absent. The second needs what
the table can have been through at each stage (`HistoryInv`, `TableInv`), that the events
tell of the stages in order and of the tables seen (`EventsInv`), that the cleanup of a
completed program is alone with the catalog (`CleanupInv`), and what a pass says
(`EarnedInv`).

Only model-checked:

- all liveness (`RoundTerminates`, `Terminates`, `ComesToRest`, `ProbeTerminates`): out of
  the prover's reach;
- `HonestCatalogPasses` of the round and of the probes;
- the part of `RankingIsFair` that orders the ranked catalogs
  (`ConsistentlyBetterRanksFirst`): medians of sequences take induction over data;
- the supervised engines, whose decoder folds over the lines of a stream, and with them
  `ForeignKept` and `CollisionIsReal`;
- the properties of the conformance probes other than `PaginationSound`;
- everything about the fault proxy, the recovery probe and the publication.

## Divergences

Two runs expect a violation, `round_audit` and `engine_trino_namespace`. Four more
disagreements between the code and what is said of it were met on the way; each
is a definition of a module, and a change of a configuration shows it.

- `ReportedEvidenceStays` with `FreshParents = {TRUE}` in `evidence_file.cfg`:
  `create_dir_all` is not followed by a sync of the directories that got new names, so a
  power failure can take away evidence that was reported as written.
- `CollisionIsReal` added to `engine_inprocess.cfg` with `Engines = {"duckdb"}`: a
  preflight query that fails is reported as a collision.
- `LimitationSendsNothing` in `probes.cfg` with `Settings <- LimitedUpdate`:
  `docs/ADAPTERS.md:138` says "A predeclared optional limitation is recorded as
  `not-evaluated` without transport", but the namespace probe sends its property
  update whatever the profile declares (`namespace/mod.rs:350`).
- `FullRecomputes` in `publication.cfg`: the generated index says that the full profile
  recomputes "every source-backed checked-in bundle"; `check_publication` recomputes the
  historical, contention and phase 1 bundles and only loads engine bundles.
  `CHANGELOG.md:445` names exactly these three.

Smaller observations. A recovery probe that fails between the pause and the release of
a request ends without opening the gate; the proxy's goroutine then waits until the proxy
is stopped, which `ComesToRest` allows for a failed probe only. An honest catalog whose
root lists more than 64 one-entry pages fails the namespace probe's pagination, as
`docs/NAMESPACE-CONFORMANCE.md` announces with its "maximum-page checks". Without a
property: a phase 1 directory that was interrupted
before its `manifest.json` is not noticed by the smoke profile (`discover_manifests` only
looks for manifests); an engine bundle without its `MATRIX.md` still loads and is
indexed; after an interruption the imports that never overwrite stay refused until the
directory is removed by hand; `discover_manifests` looks one level down, while the
output directory of an engine bundle may be nested deeper.

## Not modelled

- Timing, metric values beyond their order, wire formats, the text of statements and
  errors, redaction of text.
- The validators of profiles, scenarios, adapters and environments
  (`crates/common/src/contract`, `crates/engine/src/policy.rs`), the materialisation
  of profiles and the schemas: functions of their input, without state or an order of
  steps; a model would repeat their field-by-field comparisons.
- The legacy benchmarks and the driver (`read-write`, `write-data`, `cache-scan`,
  `rust-vs-jvm`, `driver`): straight-line measurements whose only result is a time.
- The PyIceberg probe, the launchers and the infrastructure tools: sequential
  programs over libraries and services that are not part of the repository.
- The object-store fault probe and the backup fixture of `clients/faults`.
- A second actor that creates the fixture's namespace between the preflight and the
  creation of a *contention round*: the code relies on unique fixture ids. For the
  conformance probes there is such an actor.
- Aborting panics and a killed runner leave a fixture behind and end the program, so
  no property of the round is about them; what a later round does with such a fixture
  is `ForeignFixtureSurvives`.

-------------------------- MODULE ContentionRound --------------------------
(***************************************************************************)
(* One round of the commit-contention benchmark                            *)
(* (crates/commit/src/workflow.rs, run_contention_round) against an        *)
(* Iceberg REST catalog and the shared object store.                       *)
(*                                                                         *)
(* The round is a main task that sends one catalog request after another   *)
(* and, in the concurrent phase, a set of writer tasks that start together *)
(* at a barrier, read one deadline from a watch channel and commit until   *)
(* the deadline passes.  A request that fails is ambiguous: the catalog    *)
(* may never have executed it, may have executed it, or may execute it     *)
(* later, after the round has moved on.                                    *)
(*                                                                         *)
(* A definition may be preceded by a variant of itself that nothing uses   *)
(* (BarrierOneShort before BarrierOpen): what a plausible mistake in that  *)
(* code would do, kept to show that a property notices it.                 *)
(***************************************************************************)
EXTENDS Integers, FiniteSets

CONSTANTS
  Writers,            \* the concurrent writer tasks
  Main,               \* the task that runs the round
  WarmupCommits,      \* serial commits of the warmup phase
  SequentialCommits,  \* serial commits of the sequential phase
  MaxSequence,        \* bound: commits one writer starts in the window
  Faults              \* what the environment may do wrong in this instance

FaultKinds ==
  { "refusal",            \* a request fails and the catalog does not execute it
    "lost-answer",        \* the catalog executes a request and its answer is lost
    "late-execution",     \* a request times out and is executed later, or never
    "spurious-conflict",  \* the catalog answers 409 without a competing commit
    "orphan-object",      \* a rejected commit leaves a metadata object behind
    "unpersisted-ack",    \* an accepted commit writes no metadata object
    "foreign-table",      \* table identity or location is not the one set up
    "store-error",        \* listing the object store fails
    "zero-elapsed",       \* the phase clock does not advance
    "writer-panic" }      \* a writer task panics, in a build that unwinds

ASSUME RoundAssumption ==
  /\ IsFiniteSet(Writers) /\ Writers # {} /\ Main \notin Writers
  /\ WarmupCommits \in Nat \ {0} /\ SequentialCommits \in Nat \ {0}
  /\ MaxSequence \in Nat \ {0}
  /\ Faults \subseteq FaultKinds

VARIABLES
  \* run_contention_round
  step,            \* where the main task is
  evidence,        \* RoundExecution: one OperationEvidence per operation
  counts,          \* RequestCounts of the finished phases
  accepted,        \* AcceptedRequests over the finished phases
  baseline,        \* metadata objects counted before the first commit
  loaded,          \* the commit the loaded final table points at
  classification,  \* RoundClassification
  \* run_concurrent_phase
  arrived,         \* the participants that reached the barrier
  window,          \* the watch channel's value: no, an open, a past deadline
  senderDropped,   \* the sending half of the watch channel is gone
  writer,          \* where each writer task is
  sequence,        \* the writer's next request number
  ledger,          \* each task's RequestLedger; Main's is the phase's
  firstError,      \* a joined writer failed
  \* the catalog and the requests on their way to it
  cat,             \* namespace, table, its commit property, metadata objects
  request,         \* each writer's request at the catalog
  pending,         \* abandoned mutations the catalog may still execute
  sent,            \* history: every commit request sent
  foreign          \* history: the namespace existed before the round

roundVars   == <<step, evidence, counts, accepted, baseline, loaded, classification>>
phaseVars   == <<arrived, window, senderDropped, writer, sequence, ledger, firstError>>
catalogVars == <<cat, request, pending, sent, foreign>>
vars == <<roundVars, phaseVars, catalogVars>>

----------------------------------------------------------------------------
(* Requests and ledgers *)

Tasks  == Writers \cup {Main}
Phases == {"warmup", "sequential", "concurrent"}

Request(op, task, n) == <<op, task, n>>
CreateNamespaceCall  == Request("create-namespace", Main, 0)
CreateTableCall      == Request("create-table", Main, 0)
DropTableCall        == Request("drop-table", Main, 0)
DropNamespaceCall    == Request("drop-namespace", Main, 0)
FixtureCalls == {CreateNamespaceCall, CreateTableCall, DropTableCall, DropNamespaceCall}
NoCommit == Request("none", Main, 0)

\* The value a commit writes: catalog, fixture and repetition are fixed within a
\* round, so phase, writer and sequence number identify it.
Identities == Phases \X Tasks \X Nat

Counts(a, c, x, e) == [attempts |-> a, accepted |-> c, conflicts |-> x, errors |-> e]
FullyAccounted(n)  == n.accepted + n.conflicts + n.errors = n.attempts
EmptyLedger == [seen |-> {}, counts |-> Counts(0, 0, 0, 0), acceptedRequests |-> {}]

Duplicate(l, id) == id \in l.seen

RecordAnswered(l, id, outcome) ==
  IF outcome = "error" THEN l
  ELSE [ seen   |-> l.seen \cup {id},
         counts |-> [l.counts EXCEPT !.attempts = @ + 1,
                       !.accepted  = IF outcome = "accepted" THEN @ + 1 ELSE @,
                       !.conflicts = IF outcome = "conflict" THEN @ + 1 ELSE @],
         acceptedRequests |-> l.acceptedRequests \cup
                                (IF outcome = "accepted" THEN {id} ELSE {}) ]

\* RequestLedger::record for an identity that is not a duplicate.
Record(l, id, outcome) ==
  LET n == l.counts
      tally(o) == IF outcome = o THEN 1 ELSE 0
  IN [ seen   |-> l.seen \cup {id},
       counts |-> Counts(n.attempts + 1, n.accepted + tally("accepted"),
                         n.conflicts + tally("conflict"), n.errors + tally("error")),
       acceptedRequests |-> l.acceptedRequests \cup
                              (IF outcome = "accepted" THEN {id} ELSE {}) ]

Disjoint(S, T) == S \cap T = {}
Mergeable(l, other) == /\ Disjoint(l.seen, other.seen)
                       /\ Disjoint(l.acceptedRequests, other.acceptedRequests)

\* RequestLedger::try_merge of two mergeable ledgers.
Merge(l, other) ==
  LET m == l.counts  n == other.counts
  IN [ seen   |-> l.seen \cup other.seen,
       counts |-> Counts(m.attempts + n.attempts, m.accepted + n.accepted,
                         m.conflicts + n.conflicts, m.errors + n.errors),
       acceptedRequests |-> l.acceptedRequests \cup other.acceptedRequests ]

----------------------------------------------------------------------------
(* The catalog, external to the runner *)

Fault(kind) == kind \in Faults

\* A commit asserts the table's UUID and sets the commit property.
Accepting(c, id) ==
  LET pointed == [c EXCEPT !.property = id]
  IN {[pointed EXCEPT !.objects = @ \cup {id}]}
       \cup (IF Fault("unpersisted-ack") THEN {pointed} ELSE {})

Rejecting(c, id) ==
  {c} \cup (IF Fault("orphan-object") THEN {[c EXCEPT !.objects = @ \cup {id}]} ELSE {})

CreatingTable(c) ==
  LET created == [c EXCEPT !.table = TRUE, !.property = NoCommit]
  IN {[created EXCEPT !.objects = @ \cup {CreateTableCall}]}
       \cup (IF Fault("unpersisted-ack") THEN {created} ELSE {})

\* The catalog grants a mutation only in a state that allows it; a drop of what
\* is not there answers 404, which the runner takes as success.
Grants(c, call) ==
  CASE call = CreateNamespaceCall -> ~c.namespace
    [] call = CreateTableCall     -> c.namespace /\ ~c.table
    [] call = DropTableCall       -> TRUE
    [] call = DropNamespaceCall   -> ~c.table
    [] OTHER                      -> c.table

\* The states in which the catalog may be after executing a granted mutation.
Executed(c, call) ==
  CASE call = CreateNamespaceCall -> {[c EXCEPT !.namespace = TRUE]}
    [] call = CreateTableCall     -> CreatingTable(c)
    [] call = DropTableCall       -> {[c EXCEPT !.table = FALSE, !.property = NoCommit]}
    [] call = DropNamespaceCall   -> {[c EXCEPT !.namespace = FALSE]}
    [] OTHER                      -> Accepting(c, call)

\* The main task's mutating call succeeds.
CallSucceeds(call) ==
  /\ Grants(cat, call)
  /\ cat' \in Executed(cat, call)
  /\ UNCHANGED pending

\* It fails: refused, or its fate is unknown.  The catalog did not execute it,
\* did although the answer was lost, or will do so later.
CallFails(call) ==
  \/ /\ ~Grants(cat, call) \/ Fault("refusal")
     /\ UNCHANGED <<cat, pending>>
  \/ /\ Fault("lost-answer")
     /\ Grants(cat, call)
     /\ cat' \in Executed(cat, call)
     /\ UNCHANGED pending
  \/ /\ Fault("late-execution")
     /\ pending' = pending \cup {call}
     /\ UNCHANGED cat

\* The catalog executes a request whose sender has given up on it.
CatalogLate(call) ==
  /\ call \in pending
  /\ pending' = pending \ {call}
  /\ IF Grants(cat, call) THEN cat' \in Executed(cat, call) ELSE UNCHANGED cat
  /\ UNCHANGED <<roundVars, phaseVars, request, sent, foreign>>

----------------------------------------------------------------------------
(* Evidence and classification *)

Operations ==
  { "preflight", "create_namespace", "create_table", "baseline_object_audit",
    "warmup", "sequential", "concurrent", "final_table", "final_object_audit",
    "metadata_growth", "drop_table_without_purge", "verify_table_absent",
    "drop_namespace", "verify_namespace_absent" }
CleanupOperations ==
  {"drop_table_without_purge", "verify_table_absent", "drop_namespace",
   "verify_namespace_absent"}

\* OperationEvidence, with a success split by whether its output meets the check
\* made of it: an absent resource, a usable audit, an attributed final table.
Statuses == {"not-attempted", "failed", "unfit", "fit"}
Status(meets) == IF meets THEN "fit" ELSE "unfit"

Note(operation, status) == evidence' = [evidence EXCEPT ![operation] = status]

SerialAccounted(n, expected) == n = Counts(expected, expected, 0, 0)

ErrorsTolerated(n)     == FullyAccounted(n) /\ n.accepted > 0
ConflictsForbidden(n)  == FullyAccounted(n) /\ n.conflicts = 0 /\ n.errors = 0 /\ n.accepted > 0
ConcurrentAccounted(n) == FullyAccounted(n) /\ n.errors = 0 /\ n.accepted > 0

GrowthIgnored(e)     == e["final_object_audit"] = "fit"
MetadataPersisted(e) == e["metadata_growth"] = "fit" /\ e["final_object_audit"] = "fit"

VerificationAlone(e) == e["verify_table_absent"] = "fit"
CleanupPassed(e)     == \A operation \in CleanupOperations : e[operation] = "fit"

\* evaluate_checks and RoundChecks::all_passed.
AllPassed(e, n) ==
  /\ \A operation \in {"preflight", "create_namespace", "create_table",
       "baseline_object_audit", "warmup", "sequential", "concurrent", "final_table"} :
         e[operation] = "fit"
  /\ SerialAccounted(n["warmup"], WarmupCommits)
  /\ SerialAccounted(n["sequential"], SequentialCommits)
  /\ ConcurrentAccounted(n["concurrent"])
  /\ MetadataPersisted(e)
  /\ CleanupPassed(e)

\* RoundExecution::finalize, of the evidence as this step leaves it.
Finalize(collision) ==
  /\ step' = "done"
  /\ classification' = IF collision THEN "fixture-collision"
                       ELSE IF AllPassed(evidence', counts) THEN "pass" ELSE "fail"

Goto(next) == step' = next /\ UNCHANGED classification

CleanUpAfterTable == IF evidence["create_table"] = "fit" THEN Goto("drop-table")
                     ELSE Finalize(FALSE)

\* Every return after the first mutation goes through cleanup.
CleanUp == Goto("drop-table")

----------------------------------------------------------------------------
(* Preflight and setup *)

Init ==
  /\ step = "preflight"
  /\ evidence = [operation \in Operations |-> "not-attempted"]
  /\ counts = [phase \in Phases |-> Counts(0, 0, 0, 0)]
  /\ accepted = {}
  /\ baseline = 0
  /\ loaded = NoCommit
  /\ classification = "none"
  /\ arrived = {} /\ window = "none" /\ senderDropped = FALSE /\ firstError = FALSE
  /\ writer = [w \in Writers |-> "unspawned"]
  /\ sequence = [w \in Writers |-> 0]
  /\ ledger = [t \in Tasks |-> EmptyLedger]
  /\ foreign \in BOOLEAN
  /\ \E t \in BOOLEAN : (t => foreign) /\
       cat = [namespace |-> foreign, table |-> t, property |-> NoCommit, objects |-> {}]
  /\ request = [w \in Writers |-> [base |-> NoCommit, reply |-> "none"]]
  /\ pending = {}
  /\ sent = {}

CollisionIgnored(present) == Goto("create-namespace")

\* A namespace that is already there is not ours: nothing else is sent.
AfterPreflight(present) ==
  IF present THEN Finalize(TRUE) ELSE Goto("create-namespace")

Preflight ==
  /\ step = "preflight"
  /\ \/ /\ Note("preflight", Status(~cat.namespace))
        /\ AfterPreflight(cat.namespace)
     \/ /\ Fault("refusal")
        /\ Note("preflight", "failed")
        /\ Finalize(FALSE)
  /\ UNCHANGED <<counts, accepted, baseline, loaded, phaseVars, catalogVars>>

CreateNamespace ==
  /\ step = "create-namespace"
  /\ \/ CallSucceeds(CreateNamespaceCall) /\ Note("create_namespace", "fit") /\ Goto("create-table")
     \/ CallFails(CreateNamespaceCall) /\ Note("create_namespace", "failed") /\ CleanUp
  /\ UNCHANGED <<counts, accepted, baseline, loaded, phaseVars, request, sent, foreign>>

CreateTable ==
  /\ step = "create-table"
  /\ \/ CallSucceeds(CreateTableCall) /\ Note("create_table", "fit") /\ Goto("baseline-audit")
     \/ CallFails(CreateTableCall) /\ Note("create_table", "failed") /\ CleanUp
  /\ UNCHANGED <<counts, accepted, baseline, loaded, phaseVars, request, sent, foreign>>

\* The audit lists the metadata objects under the table root and looks up the one
\* the table points at; a location outside the bucket has no table root.
BaselineAudit ==
  /\ step = "baseline-audit"
  /\ \/ LET usable == Cardinality(cat.objects) > 0 /\ CreateTableCall \in cat.objects
        IN /\ Note("baseline_object_audit", Status(usable))
           /\ baseline' = Cardinality(cat.objects)
           /\ IF usable THEN Goto("warmup") ELSE CleanUp
     \/ /\ Fault("store-error") \/ Fault("foreign-table")
        /\ Note("baseline_object_audit", "failed")
        /\ CleanUp
        /\ UNCHANGED baseline
  /\ UNCHANGED <<counts, accepted, loaded, phaseVars, catalogVars>>

----------------------------------------------------------------------------
(* Serial phases *)

SerialAttempts == IF step = "warmup" THEN WarmupCommits ELSE SequentialCommits
NextStep(phase) ==
  CASE phase = "warmup" -> "sequential" [] phase = "sequential" -> "spawn"
    [] phase = "concurrent" -> "load-table"

\* One iteration of run_serial_phase: send a commit and record its outcome.
SerialCommit ==
  /\ step \in {"warmup", "sequential"}
  /\ LET id == Request(step, Main, ledger[Main].counts.attempts)
         Outcome(o) == ledger' = [ledger EXCEPT ![Main] = Record(@, id, o)]
     IN /\ ledger[Main].counts.attempts < SerialAttempts
        /\ ~Duplicate(ledger[Main], id)   \* numbers differ, so record never refuses
        /\ sent' = sent \cup {id}
        /\ \/ CallSucceeds(id) /\ Outcome("accepted")
           \/ /\ Fault("spurious-conflict") \/ pending # {}
              /\ cat' \in Rejecting(cat, id)
              /\ Outcome("conflict")
              /\ UNCHANGED pending
           \/ CallFails(id) /\ Outcome("error")
  /\ UNCHANGED <<roundVars, arrived, window, senderDropped, writer, sequence,
                 firstError, request, foreign>>

\* RequestLedger::finish and record_phase: the phase's ledger becomes evidence
\* unless its accepted requests were already accepted in an earlier phase.
RecordPhase(phase, finishes) ==
  LET l == ledger[Main]
  IN IF finishes /\ FullyAccounted(l.counts) /\ Disjoint(accepted, l.acceptedRequests)
     THEN /\ accepted' = accepted \cup l.acceptedRequests
          /\ counts' = [counts EXCEPT ![phase] = l.counts]
          /\ Note(phase, "fit")
          /\ Goto(NextStep(phase))
     ELSE /\ Note(phase, "failed")
          /\ CleanUp
          /\ UNCHANGED <<accepted, counts>>

SerialReturns ==
  /\ step \in {"warmup", "sequential"}
  /\ ledger[Main].counts.attempts = SerialAttempts
  /\ \E elapsed \in IF Fault("zero-elapsed") THEN BOOLEAN ELSE {TRUE} :
       RecordPhase(step, elapsed)
  /\ ledger' = [ledger EXCEPT ![Main] = EmptyLedger]
  /\ UNCHANGED <<baseline, loaded, arrived, window, senderDropped, writer, sequence,
                 firstError, catalogVars>>

----------------------------------------------------------------------------
(* The concurrent phase: main task *)

Spawn ==
  /\ step = "spawn"
  /\ writer' = [w \in Writers |-> "spawned"]
  /\ Goto("barrier")
  /\ UNCHANGED <<evidence, counts, accepted, baseline, loaded, arrived, window,
                 senderDropped, sequence, ledger, firstError, catalogVars>>

MainArrives ==
  /\ step = "barrier"
  /\ arrived' = arrived \cup {Main}
  /\ Goto("send-window")
  /\ UNCHANGED <<evidence, counts, accepted, baseline, loaded, window, senderDropped,
                 writer, sequence, ledger, firstError, catalogVars>>

BarrierOneShort == Cardinality(arrived) >= Cardinality(Writers)
BarrierOpen == arrived = Tasks

\* The deadline is computed once every participant has reached the barrier.
SendWindow ==
  /\ step = "send-window"
  /\ BarrierOpen
  /\ window' = "open"
  /\ Goto("drop-sender")
  /\ UNCHANGED <<evidence, counts, accepted, baseline, loaded, arrived, senderDropped,
                 writer, sequence, ledger, firstError, catalogVars>>

DropSender ==
  /\ step = "drop-sender"
  /\ senderDropped' = TRUE
  /\ Goto("join")
  /\ UNCHANGED <<evidence, counts, accepted, baseline, loaded, arrived, window,
                 writer, sequence, ledger, firstError, catalogVars>>

\* The clock passes the deadline.
Expire ==
  /\ window = "open"
  /\ window' = "expired"
  /\ UNCHANGED <<roundVars, arrived, senderDropped, writer, sequence, ledger,
                 firstError, catalogVars>>

\* join_next: the ledger of a writer that returned is merged; the first error is
\* kept and the joining goes on.
Join(w) ==
  /\ step = "join"
  /\ writer[w] \in {"returned", "failed"}
  /\ IF writer[w] = "returned" /\ Mergeable(ledger[Main], ledger[w])
     THEN /\ ledger' = [ledger EXCEPT ![Main] = Merge(@, ledger[w])]
          /\ UNCHANGED firstError
     ELSE firstError' = TRUE /\ UNCHANGED ledger
  /\ writer' = [writer EXCEPT ![w] = "joined"]
  /\ UNCHANGED <<roundVars, arrived, window, senderDropped, sequence, catalogVars>>

JoinStopsAtError == firstError \/ \A w \in Writers : writer[w] = "joined"
AllJoined == \A w \in Writers : writer[w] = "joined"

ConcurrentReturns ==
  /\ step = "join"
  /\ AllJoined
  /\ RecordPhase("concurrent", ~firstError)
  /\ UNCHANGED <<baseline, loaded, phaseVars, catalogVars>>

----------------------------------------------------------------------------
(* The concurrent phase: writer tasks *)

WriterArrives(w) ==
  /\ writer[w] = "spawned"
  /\ writer' = [writer EXCEPT ![w] = "barrier"]
  /\ arrived' = arrived \cup {w}
  /\ UNCHANGED <<roundVars, window, senderDropped, sequence, ledger, firstError, catalogVars>>

WriterPasses(w) ==
  /\ writer[w] = "barrier"
  /\ BarrierOpen
  /\ writer' = [writer EXCEPT ![w] = "changed"]
  /\ UNCHANGED <<roundVars, arrived, window, senderDropped, sequence, ledger,
                 firstError, catalogVars>>

\* changed() returns once a value was sent, even when the sender is gone by then;
\* a channel that closes without a value fails the writer.
WindowSent == window # "none"
WriterStarts(w) ==
  /\ writer[w] = "changed"
  /\ WindowSent \/ senderDropped
  /\ writer' = [writer EXCEPT ![w] = IF WindowSent THEN "loop" ELSE "failed"]
  /\ UNCHANGED <<roundVars, arrived, window, senderDropped, sequence, ledger,
                 firstError, catalogVars>>

\* The clock is read immediately before a request: not past the deadline, send.
WriterSends(w) ==
  /\ writer[w] = "loop"
  /\ window = "open"
  /\ sequence[w] < MaxSequence
  /\ writer' = [writer EXCEPT ![w] = "in-flight"]
  /\ request' = [request EXCEPT ![w] = [base |-> cat.property, reply |-> "none"]]
  /\ sent' = sent \cup {Request("concurrent", w, sequence[w])}
  /\ UNCHANGED <<roundVars, arrived, window, senderDropped, sequence, ledger,
                 firstError, cat, pending, foreign>>

WriterSpins(w) == writer[w] = "loop" /\ window = "expired" /\ UNCHANGED vars

WriterStops(w) ==
  /\ writer[w] = "loop"
  /\ window = "expired"
  /\ writer' = [writer EXCEPT ![w] = "returned"]
  /\ UNCHANGED <<roundVars, arrived, window, senderDropped, sequence, ledger,
                 firstError, catalogVars>>

Current(w) == Request("concurrent", w, sequence[w])

\* The catalog executes the writer's request.  It answers 409 when the table
\* changed since the request came in.
CatalogCommits(w) ==
  /\ writer[w] = "in-flight"
  /\ request[w].reply = "none"
  /\ \/ /\ Grants(cat, Current(w))
        /\ cat' \in Accepting(cat, Current(w))
        /\ request' = [request EXCEPT ![w].reply = "accepted"]
     \/ /\ cat.property # request[w].base \/ Fault("spurious-conflict")
        /\ cat' \in Rejecting(cat, Current(w))
        /\ request' = [request EXCEPT ![w].reply = "conflict"]
  /\ UNCHANGED <<roundVars, phaseVars, pending, sent, foreign>>

\* The outcome is recorded and the sequence number moves on.
Recorded(w, outcome) ==
  /\ IF Duplicate(ledger[w], Current(w))
     THEN writer' = [writer EXCEPT ![w] = "failed"] /\ UNCHANGED <<ledger, sequence>>
     ELSE /\ ledger' = [ledger EXCEPT ![w] = Record(@, Current(w), outcome)]
          /\ sequence' = [sequence EXCEPT ![w] = @ + 1]
          /\ writer' = [writer EXCEPT ![w] = "loop"]
  /\ UNCHANGED <<roundVars, arrived, window, senderDropped, firstError, cat, request,
                 sent, foreign>>

WriterAnswered(w) ==
  /\ writer[w] = "in-flight"
  /\ request[w].reply # "none"
  /\ Recorded(w, request[w].reply)
  /\ UNCHANGED pending

\* Timeout, transport failure or unexpected status: what the catalog did with the
\* request is unknown, and it may still execute it.
WriterErrs(w) ==
  /\ writer[w] = "in-flight"
  /\ Recorded(w, "error")
  /\ \/ Fault("refusal") /\ request[w].reply = "none" /\ UNCHANGED pending
     \/ Fault("lost-answer") /\ request[w].reply # "none" /\ UNCHANGED pending
     \/ /\ Fault("late-execution") /\ request[w].reply = "none"
        /\ pending' = pending \cup {Current(w)}

WriterPanics(w) ==
  /\ Fault("writer-panic")
  /\ writer[w] = "in-flight"
  /\ writer' = [writer EXCEPT ![w] = "failed"]
  /\ pending' = pending \cup (IF request[w].reply = "none" THEN {Current(w)} ELSE {})
  /\ UNCHANGED <<roundVars, arrived, window, senderDropped, sequence, ledger,
                 firstError, cat, request, sent, foreign>>

----------------------------------------------------------------------------
(* Final state *)

\* FinalStateAttribution: the property names an accepted request, and the table is
\* still the one that was set up.
LoadTable ==
  /\ step = "load-table"
  /\ \/ /\ cat.table
        /\ loaded' = cat.property
        /\ \E same \in IF Fault("foreign-table") THEN BOOLEAN ELSE {TRUE} :
             Note("final_table", Status(same /\ cat.property \in accepted))
        /\ Goto("final-audit")
     \/ /\ ~cat.table \/ Fault("refusal")
        /\ Note("final_table", "failed")
        /\ CleanUp
        /\ UNCHANGED loaded
  /\ UNCHANGED <<counts, accepted, baseline, phaseVars, catalogVars>>

TotalAccepted(n) == n["warmup"].accepted + n["sequential"].accepted + n["concurrent"].accepted

\* The audit looks up the object the loaded table pointed at, and the number of
\* objects added since the baseline must cover the accepted commits.
FinalAudit ==
  /\ step = "final-audit"
  /\ \/ LET pointer == IF loaded = NoCommit THEN CreateTableCall ELSE loaded
            growth  == Cardinality(cat.objects) - baseline
        IN evidence' = [evidence EXCEPT
             !["final_object_audit"] = Status(pointer \in cat.objects),
             !["metadata_growth"]    = Status(growth >= TotalAccepted(counts))]
     \/ /\ Fault("store-error") \/ Fault("foreign-table")
        /\ Note("final_object_audit", "failed")
  /\ CleanUp
  /\ UNCHANGED <<counts, accepted, baseline, loaded, phaseVars, catalogVars>>

----------------------------------------------------------------------------
(* Cleanup: all four requests are sent whatever the others return *)

DropTable ==
  /\ step = "drop-table"
  /\ \/ CallSucceeds(DropTableCall) /\ Note("drop_table_without_purge", "fit")
     \/ CallFails(DropTableCall) /\ Note("drop_table_without_purge", "failed")
  /\ Goto("verify-table")
  /\ UNCHANGED <<counts, accepted, baseline, loaded, phaseVars, request, sent, foreign>>

VerifyTable ==
  /\ step = "verify-table"
  /\ \/ Note("verify_table_absent", Status(~cat.table))
     \/ Fault("refusal") /\ Note("verify_table_absent", "failed")
  /\ Goto("drop-namespace")
  /\ UNCHANGED <<counts, accepted, baseline, loaded, phaseVars, catalogVars>>

DropNamespace ==
  /\ step = "drop-namespace"
  /\ \/ CallSucceeds(DropNamespaceCall) /\ Note("drop_namespace", "fit")
     \/ CallFails(DropNamespaceCall) /\ Note("drop_namespace", "failed")
  /\ Goto("verify-namespace")
  /\ UNCHANGED <<counts, accepted, baseline, loaded, phaseVars, request, sent, foreign>>

VerifyNamespace ==
  /\ step = "verify-namespace"
  /\ \/ Note("verify_namespace_absent", Status(~cat.namespace))
     \/ Fault("refusal") /\ Note("verify_namespace_absent", "failed")
  /\ Finalize(FALSE)
  /\ UNCHANGED <<counts, accepted, baseline, loaded, phaseVars, catalogVars>>

----------------------------------------------------------------------------
(* The specification *)

Finished == step = "done" /\ UNCHANGED vars

MainStep ==
  \/ Preflight \/ CreateNamespace \/ CreateTable \/ BaselineAudit
  \/ SerialCommit \/ SerialReturns
  \/ Spawn \/ MainArrives \/ SendWindow \/ DropSender
  \/ \E w \in Writers : Join(w)
  \/ ConcurrentReturns
  \/ LoadTable \/ FinalAudit
  \/ DropTable \/ VerifyTable \/ DropNamespace \/ VerifyNamespace

WriterStep(w) ==
  \/ WriterArrives(w) \/ WriterPasses(w) \/ WriterStarts(w)
  \/ WriterSends(w) \/ WriterStops(w)
  \/ WriterAnswered(w) \/ WriterErrs(w) \/ WriterPanics(w)

Next ==
  \/ MainStep
  \/ \E w \in Writers : WriterStep(w) \/ CatalogCommits(w)
  \/ \E call \in pending : CatalogLate(call)
  \/ Expire
  \/ Finished

Spec == Init /\ [][Next]_vars

\* The runtime schedules every ready task, the clock advances, and the catalog
\* answers a request it received (or the client's request timeout does).  Nothing
\* makes the catalog execute an abandoned request.
FairSpec ==
  /\ Spec
  /\ WF_vars(MainStep)
  /\ \A w \in Writers : WF_vars(WriterStep(w)) /\ WF_vars(CatalogCommits(w))
  /\ WF_vars(Expire)

----------------------------------------------------------------------------
(* Correctness *)

Steps == {"preflight", "create-namespace", "create-table", "baseline-audit", "warmup",
          "sequential", "spawn", "barrier", "send-window", "drop-sender", "join",
          "load-table", "final-audit", "drop-table", "verify-table", "drop-namespace",
          "verify-namespace", "done"}
Calls == Identities \cup FixtureCalls
RequestCounts == [attempts : Nat, accepted : Nat, conflicts : Nat, errors : Nat]
Ledgers == [seen : SUBSET Identities, counts : RequestCounts,
            acceptedRequests : SUBSET Identities]

Classifications == {"none", "pass", "fail", "fixture-collision"}
WriterStates == {"unspawned", "spawned", "barrier", "changed", "loop", "in-flight",
                 "returned", "failed", "joined"}
Commits  == Identities \cup {NoCommit}
Catalogs == {c \in [namespace : BOOLEAN, table : BOOLEAN, property : Commits,
                    objects : SUBSET Calls] : IsFiniteSet(c.objects)}
Replies  == [base : Commits, reply : {"none", "accepted", "conflict"}]

RoundTypeOK ==
  /\ step \in Steps
  /\ evidence \in [Operations -> Statuses]
  /\ counts \in [Phases -> RequestCounts]
  /\ accepted \in SUBSET Identities
  /\ baseline \in Nat
  /\ loaded \in Commits
  /\ classification \in Classifications
PhaseTypeOK ==
  /\ arrived \in SUBSET Tasks
  /\ window \in {"none", "open", "expired"}
  /\ senderDropped \in BOOLEAN
  /\ writer \in [Writers -> WriterStates]
  /\ sequence \in [Writers -> Nat]
  /\ ledger \in [Tasks -> Ledgers]
  /\ firstError \in BOOLEAN
CatalogTypeOK ==
  /\ cat \in Catalogs
  /\ request \in [Writers -> Replies]
  /\ pending \in SUBSET Calls
  /\ sent \in SUBSET Identities
  /\ foreign \in BOOLEAN

\* Every variable of the round, its writers and the catalog holds a value of its kind.
TypeOK == RoundTypeOK /\ PhaseTypeOK /\ CatalogTypeOK

\* A namespace that existed before the round survives it, whatever fails: the
\* preflight stops the round before create_namespace, and cleanup, which would
\* drop the namespace and its table, is reached by no path from there.
ForeignFixtureSurvives == foreign => cat.namespace /\ pending = {}

\* However a round ends that sent a mutation, all four cleanup requests were sent
\* first (every early return of run_contention_round calls cleanup).
CleanupAfterMutation ==
  step = "done" /\ evidence["create_namespace"] # "not-attempted" =>
    \A operation \in CleanupOperations : evidence[operation] # "not-attempted"

\* Once the round leaves the concurrent phase no writer is alive, also when a
\* writer failed: the table is not loaded, audited or dropped under a running
\* writer (the join loop keeps the first error and goes on joining).
QuietAfterJoin ==
  step \in {"load-table", "final-audit", "drop-table", "verify-table", "drop-namespace",
           "verify-namespace", "done"} =>
    \A w \in Writers : writer[w] \in {"unspawned", "joined"}

\* The window's clock starts only when every writer stands at the barrier, and no
\* writer sends before it has the deadline, so all writers share one window.
SharedWindow ==
  /\ WindowSent => \A w \in Writers : writer[w] \notin {"unspawned", "spawned"}
  /\ \A w \in Writers : writer[w] \in {"loop", "in-flight"} => WindowSent

SentIn(phase) == {id \in sent : id[1] = phase}

\* A phase that is recorded as evidence accounts for every request it sent, those
\* that were answered after the deadline and those that failed included.
EveryRequestAccounted ==
  \A phase \in Phases : evidence[phase] = "fit" =>
    counts[phase].attempts = Cardinality(SentIn(phase))

\* When a round passes, its fixture is gone from the catalog and stays gone: no
\* request the runner gave up on can bring it back later.
PassMeansClean ==
  classification = "pass" => ~cat.namespace /\ ~cat.table /\ pending = {}

\* When a round passes against a catalog that persists exactly what it accepts,
\* the commits that took effect are the ones counted as accepted: no commit took
\* effect behind an error or a conflict, and none that was counted is missing.
AcceptedIsWhatHappened ==
  classification = "pass" => cat.objects = accepted \cup {CreateTableCall}

\* A catalog that never fails passes whenever a writer got a request out before
\* the deadline: competing commits alone never fail a round.
HonestCatalogPasses ==
  step = "done" /\ ~foreign /\ SentIn("concurrent") # {} => classification = "pass"

\* The object audit of a passing round shows that every accepted commit has its
\* metadata object (docs/COMMIT-CONTENTION.md, "Comparison boundary").
AcceptedIsPersisted == classification = "pass" => accepted \subseteq cat.objects

\* The round ends, whichever requests fail and whichever writers die.
RoundTerminates == <>(step = "done")
============================================================================

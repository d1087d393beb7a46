--------------------- MODULE ContentionRoundPending ----------------------
(***************************************************************************)
(* A request the runner gave up on, and that the catalog may execute later, *)
(* has always left a mark in the evidence that denies the round its pass.  *)
(***************************************************************************)
EXTENDS ContentionRoundInvariants

----------------------------------------------------------------------------
(* Abandoned requests *)

\* It adds to the errors exactly when the outcome is an error.
LEMMA RecordErrors ==
  ASSUME NEW l \in Ledgers, NEW id, NEW o
  PROVE  /\ o = "error" => Record(l, id, o).counts.errors = l.counts.errors + 1
         /\ o # "error" => Record(l, id, o).counts.errors = l.counts.errors
<1>1. l.counts.errors \in Nat
  BY Zenon DEF Ledgers, RequestCounts
<1> QED BY <1>1 DEF Record, Counts

\* The operations on the fixture and the phases are all different.
LEMMA OperationNames ==
  /\ Phases \subseteq Operations
  /\ {"create_namespace", "create_table", "drop_table_without_purge", "drop_namespace"}
       \subseteq Operations \ Phases
BY Zenon DEF Phases, Operations

\* A step outside the phases keeps every mark if it keeps the phases' evidence and
\* records an operation on the fixture at most once.
LEMMA MarkedOutside ==
  ASSUME step \notin InWindow \cup {"warmup", "sequential"},
         UNCHANGED counts,
         \A o \in Phases : evidence'[o] = evidence[o],
         \A o \in {"create_namespace", "create_table", "drop_table_without_purge",
                   "drop_namespace"} : evidence[o] = "failed" => evidence'[o] = "failed",
         NEW call, Marked(call)
  PROVE  Marked(call)'
<1>1. FixtureMark(call) => FixtureMark(call)'
  BY Zenon DEF FixtureMark
<1>2. PhaseMark => PhaseMark'
  BY Zenon DEF PhaseMark, Spoiled
<1>3. ~RunningMark
  BY Zenon DEF RunningMark, InWindow
<1> QED BY <1>1, <1>2, <1>3, Zenon DEF Marked

\* A step that keeps the evidence keeps the marks it bears.
LEMMA MarkedByEvidence ==
  ASSUME UNCHANGED <<evidence, counts>>, NEW call, RunningMark => RunningMark', Marked(call)
  PROVE  Marked(call)'
BY Zenon DEF Marked, FixtureMark, PhaseMark, Spoiled

\* What the steps below need of the types.
LEMMA PendingTypes ==
  ASSUME TypeOK
  PROVE  /\ evidence \in [Operations -> Statuses] /\ step \in Steps
         /\ writer \in [Writers -> WriterStates] /\ ledger \in [Tasks -> Ledgers]
         /\ counts \in [Phases -> RequestCounts]
         /\ Main \in Tasks /\ Main \notin Writers /\ Writers \subseteq Tasks
         /\ \A l \in Ledgers : l.counts.errors \in Nat
BY RoundAssumption, Zenon DEF TypeOK, RoundTypeOK, PhaseTypeOK, Tasks, Ledgers, RequestCounts

\* The requests on the fixture: a failed one is marked by its own operation.
LEMMA PendingFixture ==
  ASSUME TypeOK, EvidenceInv, WriterInv, PendingInv, NEW call \in pending',
         CreateNamespace \/ CreateTable \/ DropTable \/ DropNamespace
  PROVE  Marked(call)'
<1>m. call \in pending => Marked(call)
  BY Zenon DEF PendingInv
<1> USE PendingTypes
<1>1. CASE CreateNamespace
  <2>1. /\ step = "create-namespace" /\ UNCHANGED counts
        /\ \A o \in Operations \ {"create_namespace"} : evidence'[o] = evidence[o]
    BY <1>1, Zenon DEF CreateNamespace, Note
  <2>2. evidence["create_namespace"] = "not-attempted"
    BY <2>1, Zenon DEF EvidenceInv, NotYet
  <2>3. call \in pending \/ (call = CreateNamespaceCall /\ evidence'["create_namespace"] = "failed")
    BY <1>1, OperationNames, Zenon DEF CreateNamespace, CallSucceeds, CallFails, Note
  <2>4. CASE call \in pending
    BY <2>1, <2>2, <2>4, <1>m, MarkedOutside, OperationNames, Zenon DEF InWindow
  <2> QED BY <2>3, <2>4, Zenon DEF Marked, FixtureMark
<1>2. CASE CreateTable
  <2>1. /\ step = "create-table" /\ UNCHANGED counts
        /\ \A o \in Operations \ {"create_table"} : evidence'[o] = evidence[o]
    BY <1>2, Zenon DEF CreateTable, Note
  <2>2. evidence["create_table"] = "not-attempted"
    BY <2>1, Zenon DEF EvidenceInv, NotYet
  <2>3. call \in pending \/ (call = CreateTableCall /\ evidence'["create_table"] = "failed")
    BY <1>2, OperationNames, Zenon DEF CreateTable, CallSucceeds, CallFails, Note
  <2>4. CASE call \in pending
    BY <2>1, <2>2, <2>4, <1>m, MarkedOutside, OperationNames, Zenon DEF InWindow
  <2> QED BY <2>3, <2>4, Zenon DEF Marked, FixtureMark
<1>3. CASE DropTable
  <2>1. /\ step = "drop-table" /\ UNCHANGED counts
        /\ \A o \in Operations \ {"drop_table_without_purge"} : evidence'[o] = evidence[o]
    BY <1>3, Zenon DEF DropTable, Note
  <2>2. evidence["drop_table_without_purge"] = "not-attempted"
    BY <2>1, Zenon DEF EvidenceInv, NotYet
  <2>3. \/ call \in pending
        \/ call = DropTableCall /\ evidence'["drop_table_without_purge"] = "failed"
    BY <1>3, OperationNames, Zenon DEF DropTable, CallSucceeds, CallFails, Note
  <2>4. CASE call \in pending
    BY <2>1, <2>2, <2>4, <1>m, MarkedOutside, OperationNames, Zenon DEF InWindow
  <2> QED BY <2>3, <2>4, Zenon DEF Marked, FixtureMark
<1>4. CASE DropNamespace
  <2>1. /\ step = "drop-namespace" /\ UNCHANGED counts
        /\ \A o \in Operations \ {"drop_namespace"} : evidence'[o] = evidence[o]
    BY <1>4, Zenon DEF DropNamespace, Note
  <2>2. evidence["drop_namespace"] = "not-attempted"
    BY <2>1, Zenon DEF EvidenceInv, NotYet
  <2>3. call \in pending \/ (call = DropNamespaceCall /\ evidence'["drop_namespace"] = "failed")
    BY <1>4, OperationNames, Zenon DEF DropNamespace, CallSucceeds, CallFails, Note
  <2>4. CASE call \in pending
    BY <2>1, <2>2, <2>4, <1>m, MarkedOutside, OperationNames, Zenon DEF InWindow
  <2> QED BY <2>3, <2>4, Zenon DEF Marked, FixtureMark
<1> QED BY <1>1, <1>2, <1>3, <1>4, Zenon

\* The serial phases, the audits and the end of a phase.
LEMMA PendingPhases ==
  ASSUME TypeOK, EvidenceInv, WriterInv, PendingInv, NEW call \in pending',
         \/ Preflight \/ BaselineAudit \/ LoadTable \/ FinalAudit \/ VerifyTable
         \/ VerifyNamespace \/ SerialCommit \/ SerialReturns \/ ConcurrentReturns
         \/ Spawn \/ MainArrives \/ SendWindow \/ DropSender
  PROVE  Marked(call)'
<1>m. call \in pending => Marked(call)
  BY Zenon DEF PendingInv
<1> USE PendingTypes
<1>1. CASE Preflight \/ BaselineAudit \/ LoadTable \/ FinalAudit \/ VerifyTable \/ VerifyNamespace
  <2>1. /\ UNCHANGED counts /\ call \in pending
        /\ step \notin InWindow \cup {"warmup", "sequential"}
    BY <1>1, Zenon DEF Preflight, BaselineAudit, LoadTable, FinalAudit, VerifyTable, VerifyNamespace,
       InWindow, catalogVars
  <2>2. \A o \in Operations \ {"preflight", "baseline_object_audit", "final_table",
                "final_object_audit", "metadata_growth", "verify_table_absent",
                "verify_namespace_absent"} : evidence'[o] = evidence[o]
    BY <1>1, Zenon DEF Preflight, BaselineAudit, LoadTable, FinalAudit, VerifyTable, VerifyNamespace,
       Note
  <2>3. \A o \in {"create_namespace", "create_table", "drop_table_without_purge",
             "drop_namespace"} \cup Phases : evidence'[o] = evidence[o]
    BY <2>2, OperationNames, Zenon DEF Phases
  <2> QED BY <2>1, <2>3, <1>m, MarkedOutside, Zenon
<1>2. CASE SerialCommit
  <2> DEFINE id == Request(step, Main, ledger[Main].counts.attempts)
  <2>1. /\ step \in {"warmup", "sequential"}
        /\ UNCHANGED <<step, evidence, counts>>
    BY <1>2, Zenon DEF SerialCommit, roundVars
  <2>2. PICK o : /\ ledger' = [ledger EXCEPT ![Main] = Record(@, id, o)]
                 /\ o = "error" \/ call \in pending
    BY <1>2, Zenon DEF SerialCommit, CallSucceeds, CallFails
  <2>3. /\ ledger'[Main].counts.errors \in Nat
        /\ ledger'[Main].counts.errors >= ledger[Main].counts.errors
        /\ o = "error" => ledger'[Main].counts.errors > 0
    BY <2>2, RecordErrors
  <2>4. CASE o = "error"
    BY <2>1, <2>3, <2>4, Zenon DEF Marked, RunningMark
  <2>5. CASE call \in pending
    <3>1. RunningMark => RunningMark'
      BY <2>1, <2>3 DEF RunningMark, InWindow
    <3> QED BY <2>1, <2>5, <3>1, <1>m, MarkedByEvidence, Zenon
  <2> QED BY <2>2, <2>4, <2>5, Zenon
<1>3. CASE SerialReturns \/ ConcurrentReturns
  <2>1. PICK phase \in Phases, b \in BOOLEAN :
          /\ RecordPhase(phase, b)
          /\ phase = step \/ (phase = "concurrent" /\ step = "join" /\ b = ~firstError
                              /\ \A w \in Writers : writer[w] = "joined")
    BY <1>3, Zenon DEF SerialReturns, ConcurrentReturns, AllJoined, Phases
  <2>2. call \in pending
    BY <1>3, Zenon DEF SerialReturns, ConcurrentReturns, catalogVars
  <2>3. evidence[phase] = "not-attempted"
    BY <2>1, Zenon DEF EvidenceInv, NotYet, BeforeSpawn, InWindow, Steps, Phases
  <2>4. ~b \/ ledger[Main].counts.errors > 0 => Spoiled(phase)'
    BY <2>1, OperationNames, Zenon DEF RecordPhase, Note, Spoiled
  <2>5. \A p \in Phases \ {phase} : Spoiled(p) => Spoiled(p)'
    BY <2>1, OperationNames, Zenon DEF RecordPhase, Note, Spoiled
  <2>6. ~Spoiled(phase)
    BY <2>3, Zenon DEF Spoiled
  <2>7. \A o \in Operations \ Phases : evidence'[o] = evidence[o]
    BY <2>1, Zenon DEF RecordPhase, Note
  <2>8. FixtureMark(call) => FixtureMark(call)'
    BY <2>7, OperationNames, Zenon DEF FixtureMark
  <2>9. PhaseMark => PhaseMark'
    BY <2>5, <2>6, Zenon DEF PhaseMark
  <2>10. RunningMark => ~b \/ ledger[Main].counts.errors > 0
    BY <2>1, Zenon DEF RunningMark, WriterMark, InWindow, Phases
  <2> QED BY <2>2, <2>4, <2>8, <2>9, <2>10, <1>m, Zenon DEF Marked, PhaseMark
<1>4. CASE Spawn \/ MainArrives \/ SendWindow \/ DropSender
  <2>1. UNCHANGED <<evidence, counts, ledger, firstError>> /\ call \in pending
    BY <1>4, Zenon DEF Spawn, MainArrives, SendWindow, DropSender, catalogVars
  <2>2. \/ step = "spawn"
        \/ UNCHANGED writer /\ step \in InWindow \ {"join"} /\ step' \in InWindow
    BY <1>4, Zenon DEF Spawn, MainArrives, SendWindow, DropSender, Goto, InWindow
  <2>3. RunningMark => RunningMark'
    BY <2>1, <2>2, Zenon DEF RunningMark, WriterMark, InWindow
  <2> QED BY <2>1, <2>3, <1>m, MarkedByEvidence, Zenon
<1> QED BY <1>1, <1>2, <1>3, <1>4, Zenon

\* A writer joined: its errors, or its failure, pass to the main task.
LEMMA PendingJoin ==
  ASSUME TypeOK, EvidenceInv, WriterInv, PendingInv, NEW call \in pending',
         NEW w \in Writers, Join(w)
  PROVE  Marked(call)'
<1>m. call \in pending => Marked(call)
  BY Zenon DEF PendingInv
<1> USE PendingTypes
<1>1. /\ UNCHANGED <<step, evidence, counts>> /\ step = "join" /\ call \in pending
      /\ \A v \in Writers \ {w} : writer'[v] = writer[v]
      /\ \A v \in Writers : ledger'[v] = ledger[v]
  BY Zenon DEF Join, roundVars, catalogVars
<1>2. CASE writer[w] = "returned" /\ Mergeable(ledger[Main], ledger[w])
  <2>1. /\ ledger'[Main].counts.errors = ledger[Main].counts.errors + ledger[w].counts.errors
        /\ firstError' = firstError
    BY <1>2 DEF Join, Merge, Counts
  <2>2. ledger[Main].counts.errors > 0 \/ WriterMark(w) => ledger'[Main].counts.errors > 0
    BY <1>2, <2>1 DEF WriterMark
  <2>3. \A v \in Writers \ {w} : WriterMark(v) => WriterMark(v)'
    BY <1>1, Zenon DEF WriterMark
  <2>4. RunningMark => RunningMark'
    BY <1>1, <2>1, <2>2, <2>3, Zenon DEF RunningMark
  <2> QED BY <1>1, <2>4, <1>m, MarkedByEvidence, Zenon
<1>3. CASE ~(writer[w] = "returned" /\ Mergeable(ledger[Main], ledger[w]))
  BY <1>1, <1>3, Zenon DEF Join, Marked, RunningMark
<1> QED BY <1>2, <1>3, Zenon

\* A writer that recorded an error carries it in its ledger, or has failed
\* (run_contention_writer).
LEMMA PendingAnswer ==
  ASSUME TypeOK, EvidenceInv, WriterInv, PendingInv, NEW call \in pending',
         NEW w \in Writers, WriterAnswered(w) \/ WriterErrs(w)
  PROVE  Marked(call)'
<1>m. call \in pending => Marked(call)
  BY Zenon DEF PendingInv
<1> USE PendingTypes
<1>1. PICK o : Recorded(w, o) /\ (o = "error" \/ call \in pending)
  BY Zenon DEF WriterAnswered, WriterErrs
<1>2. /\ UNCHANGED <<step, evidence, counts, firstError>>
      /\ writer[w] = "in-flight"
      /\ \A t \in Tasks \ {w} : ledger'[t] = ledger[t]
      /\ \A v \in Writers \ {w} : writer'[v] = writer[v]
      /\ writer'[w] \in {"failed", "loop"}
  BY <1>1, Zenon DEF WriterAnswered, WriterErrs, Recorded, roundVars
<1>3. \/ writer'[w] = "failed"
      \/ /\ ledger'[w].counts.errors \in Nat
         /\ ledger'[w].counts.errors >= ledger[w].counts.errors
         /\ o = "error" => ledger'[w].counts.errors > 0
  BY <1>1, RecordErrors DEF Recorded
<1>4. step \in InWindow
  BY <1>2, Zenon DEF WriterInv, BeforeSpawn, AfterJoin, InWindow, Steps
<1>5. CASE o = "error"
  BY <1>2, <1>3, <1>4, <1>5, Zenon DEF Marked, RunningMark, WriterMark
<1>6. CASE call \in pending
  <2>1. \A v \in Writers : WriterMark(v) => WriterMark(v)'
    BY <1>2, <1>3 DEF WriterMark
  <2>2. RunningMark => RunningMark'
    BY <1>2, <1>4, <2>1, Zenon DEF RunningMark
  <2> QED BY <1>2, <1>6, <2>2, <1>m, MarkedByEvidence, Zenon
<1> QED BY <1>1, <1>5, <1>6, Zenon

\* The other steps of the writers, the catalog and the clock give up on no request.
LEMMA PendingRest ==
  ASSUME TypeOK, EvidenceInv, WriterInv, PendingInv, NEW call \in pending',
         \/ \E w \in Writers : WriterPanics(w)
         \/ \E w \in Writers : WriterArrives(w) \/ WriterPasses(w) \/ WriterStarts(w)
                             \/ WriterSends(w) \/ WriterStops(w)
         \/ \E w \in Writers : CatalogCommits(w)
         \/ \E c \in pending : CatalogLate(c)
         \/ Expire \/ Finished \/ UNCHANGED vars
  PROVE  Marked(call)'
<1>m. call \in pending => Marked(call)
  BY Zenon DEF PendingInv
<1> USE PendingTypes
<1>1. CASE \E w \in Writers : WriterPanics(w)
  <2> PICK w \in Writers : WriterPanics(w)
    BY <1>1, Zenon
  <2>1. /\ UNCHANGED step /\ writer[w] = "in-flight" /\ writer'[w] = "failed"
    BY Zenon DEF WriterPanics, roundVars
  <2>2. step \in InWindow
    BY <2>1, Zenon DEF WriterInv, BeforeSpawn, AfterJoin, InWindow, Steps
  <2> QED BY <2>1, <2>2, Zenon DEF Marked, RunningMark, WriterMark
<1>2. CASE \E w \in Writers : WriterArrives(w) \/ WriterPasses(w) \/ WriterStarts(w)
                               \/ WriterSends(w) \/ WriterStops(w)
  <2>1. /\ UNCHANGED <<step, evidence, counts, ledger, firstError>> /\ call \in pending
        /\ \A w \in Writers : writer[w] # "joined" => writer'[w] # "joined"
        /\ \A w \in Writers : writer[w] = "failed" => writer'[w] = "failed"
    BY <1>2, ZenonT(60) DEF WriterArrives, WriterPasses, WriterStarts, WriterSends, WriterStops,
       roundVars, catalogVars
  <2>2. RunningMark => RunningMark'
    BY <2>1, Zenon DEF RunningMark, WriterMark
  <2> QED BY <2>1, <2>2, <1>m, MarkedByEvidence, Zenon
<1>3. CASE \/ \E w \in Writers : CatalogCommits(w)
           \/ \E c \in pending : CatalogLate(c)
           \/ Expire \/ Finished \/ UNCHANGED vars
  <2>1. UNCHANGED <<step, evidence, counts, ledger, firstError, writer>> /\ call \in pending
    BY <1>3, Zenon DEF CatalogCommits, CatalogLate, Expire, Finished, vars, roundVars, phaseVars,
       catalogVars
  <2>2. RunningMark => RunningMark'
    BY <2>1, Zenon DEF RunningMark, WriterMark
  <2> QED BY <2>1, <2>2, <1>m, MarkedByEvidence, Zenon
<1> QED BY <1>1, <1>2, <1>3, Zenon

\* Abandoned requests stay marked.
LEMMA PendingInvNext ==
  TypeOK /\ EvidenceInv /\ WriterInv /\ PendingInv /\ [Next]_vars => PendingInv'
<1> SUFFICES ASSUME TypeOK, EvidenceInv, WriterInv, PendingInv, [Next]_vars,
                    NEW call \in pending'
             PROVE  Marked(call)'
  BY Zenon DEF PendingInv
<1> QED BY PendingFixture, PendingPhases, PendingJoin, PendingAnswer, PendingRest, Zenon
        DEF Next, MainStep, WriterStep
============================================================================

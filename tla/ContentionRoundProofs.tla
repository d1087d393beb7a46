---------------------- MODULE ContentionRoundProofs ----------------------
(***************************************************************************)
(* What ContentionRound guarantees for every set of writers, every workload *)
(* and every combination of faults.                                        *)
(***************************************************************************)
EXTENDS ContentionRoundPending, FiniteSetTheorems

----------------------------------------------------------------------------
(* Operators *)

\* Recording an outcome keeps a ledger a ledger (RequestLedger::record).
LEMMA RecordType ==
  ASSUME NEW l \in Ledgers, NEW id \in Identities, NEW o
  PROVE  Record(l, id, o) \in Ledgers
<1> DEFINE n == l.counts
<1>1. n \in RequestCounts /\ l.seen \in SUBSET Identities
      /\ l.acceptedRequests \in SUBSET Identities
  BY Zenon DEF Ledgers
<1>2. n.attempts \in Nat /\ n.accepted \in Nat /\ n.conflicts \in Nat /\ n.errors \in Nat
  BY <1>1, Zenon DEF RequestCounts
<1> QED BY <1>1, <1>2 DEF Record, Ledgers, RequestCounts, Counts

\* Merging two ledgers yields a ledger (RequestLedger::try_merge).
LEMMA MergeType ==
  ASSUME NEW l \in Ledgers, NEW m \in Ledgers
  PROVE  Merge(l, m) \in Ledgers
<1>1. l.counts \in RequestCounts /\ m.counts \in RequestCounts
  BY Zenon DEF Ledgers
<1>2. /\ l.counts.attempts \in Nat /\ m.counts.attempts \in Nat
      /\ l.counts.accepted \in Nat /\ m.counts.accepted \in Nat
      /\ l.counts.conflicts \in Nat /\ m.counts.conflicts \in Nat
      /\ l.counts.errors \in Nat /\ m.counts.errors \in Nat
  BY <1>1, Zenon DEF RequestCounts
<1>3. Merge(l, m).counts \in RequestCounts
  BY <1>2 DEF Merge, Counts, RequestCounts
<1> QED BY <1>3, Zenon DEF Merge, Ledgers

\* The ledger a phase starts with (RequestLedger::default) is a ledger.
LEMMA EmptyLedgerType == EmptyLedger \in Ledgers
BY Zenon DEF EmptyLedger, Ledgers, RequestCounts, Counts

\* Adding an object keeps the catalog in a catalog state.
LEMMA AddObjectType ==
  ASSUME NEW c \in Catalogs, NEW x \in Calls
  PROVE  [c EXCEPT !.objects = @ \cup {x}] \in Catalogs
<1>1. IsFiniteSet(c.objects \cup {x})
  BY FS_AddElement, Zenon DEF Catalogs
<1> QED BY <1>1, Zenon DEF Catalogs

\* Executing or rejecting a request leaves the catalog in a catalog state.
LEMMA ExecutedType ==
  ASSUME NEW c \in Catalogs, NEW call \in Calls,
         NEW d \in Executed(c, call) \cup Rejecting(c, call)
  PROVE  d \in Catalogs
<1>1. CASE d \in Rejecting(c, call)
  BY <1>1, AddObjectType, Zenon DEF Rejecting
<1>2. CASE d \in Executed(c, call) /\ call = CreateTableCall
  <2> DEFINE created == [c EXCEPT !.table = TRUE, !.property = NoCommit]
  <2>1. created \in Catalogs
    BY Zenon DEF Catalogs, Commits
  <2>2. [created EXCEPT !.objects = @ \cup {CreateTableCall}] \in Catalogs
    BY <2>1, <1>2, AddObjectType, Zenon
  <2>3. d \in CreatingTable(c)
    BY <1>2, FixtureCallsDistinct, Zenon DEF Executed
  <2> QED BY <2>1, <2>2, <2>3, Zenon DEF CreatingTable
<1>3. CASE d \in Executed(c, call) /\ call \in FixtureCalls \ {CreateTableCall}
  BY <1>3, Zenon DEF Executed, FixtureCalls, Catalogs, Commits
<1>4. CASE d \in Executed(c, call) /\ call \notin FixtureCalls
  <2> DEFINE pointed == [c EXCEPT !.property = call]
  <2>1. d \in Accepting(c, call) /\ call \in Identities
    BY <1>4, Zenon DEF Executed, FixtureCalls, Calls
  <2>2. pointed \in Catalogs
    BY <2>1, Zenon DEF Catalogs, Commits
  <2>3. [pointed EXCEPT !.objects = @ \cup {call}] \in Catalogs
    BY <2>2, AddObjectType, Zenon
  <2> QED BY <2>1, <2>2, <2>3, Zenon DEF Accepting
<1> QED BY <1>1, <1>2, <1>3, <1>4, Zenon

\* A mutating call of the main task, successful or not, keeps the catalog's types.
LEMMA CallType ==
  ASSUME CatalogTypeOK, NEW call \in Calls, CallSucceeds(call) \/ CallFails(call)
  PROVE  cat' \in Catalogs /\ pending' \in SUBSET Calls
<1>1. \A d \in Executed(cat, call) : d \in Catalogs
  BY ExecutedType, Zenon DEF CatalogTypeOK
<1> QED BY <1>1, Zenon DEF CatalogTypeOK, CallSucceeds, CallFails

----------------------------------------------------------------------------
(* Type correctness *)

\* A round starts well typed (RoundExecution::pending).
LEMMA TypeInit == Init => TypeOK
<1> SUFFICES ASSUME Init PROVE TypeOK
  OBVIOUS
<1>1. RoundTypeOK
  <2>1. Counts(0, 0, 0, 0) \in RequestCounts
    BY Zenon DEF Counts, RequestCounts
  <2> QED BY <2>1, Zenon DEF Init, RoundTypeOK, Steps, Statuses, Classifications, Commits
<1>2. PhaseTypeOK
  BY EmptyLedgerType, Zenon DEF Init, PhaseTypeOK, WriterStates
<1>3. CatalogTypeOK
  <2>1. \A a, b \in BOOLEAN : [namespace |-> a, table |-> b, property |-> NoCommit,
                             objects |-> {}] \in Catalogs
    BY FS_EmptySet, Zenon DEF Catalogs, Commits
  <2> QED BY <2>1, Zenon DEF Init, CatalogTypeOK, Replies, Commits
<1> QED BY <1>1, <1>2, <1>3, Zenon DEF TypeOK

\* The steps of the main task outside the concurrent phase.
LEMMA RoundTypeNext == TypeOK /\ [Next]_vars => RoundTypeOK'
<1> SUFFICES ASSUME TypeOK, [Next]_vars PROVE RoundTypeOK'
  OBVIOUS
<1>a. RoundTypeOK /\ PhaseTypeOK /\ CatalogTypeOK
  BY Zenon DEF TypeOK
<1> USE <1>a DEF RoundTypeOK
<1>g. \A s \in Steps : Goto(s) => step' \in Steps /\ classification' \in Classifications
  BY Zenon DEF Goto
<1>f. \A b \in BOOLEAN : Finalize(b) => step' \in Steps /\ classification' \in Classifications
  BY Zenon DEF Finalize, Steps, Classifications
<1>c. CleanUp => step' \in Steps /\ classification' \in Classifications
  BY Zenon DEF CleanUp, Goto, Steps
<1>n. \A o \in Operations, s \in Statuses : Note(o, s) => evidence' \in [Operations -> Statuses]
  BY Zenon DEF Note
<1>s. \A b \in BOOLEAN : Status(b) \in Statuses
  BY Zenon DEF Status, Statuses
<1>k. Cardinality(cat.objects) \in Nat
  BY FS_CardinalityType, Zenon DEF CatalogTypeOK, Catalogs
<1>r. ASSUME NEW phase \in Phases, NEW b \in BOOLEAN, RecordPhase(phase, b),
             UNCHANGED <<baseline, loaded>>
      PROVE  RoundTypeOK'
  <2>1. ledger[Main].counts \in RequestCounts /\ ledger[Main].acceptedRequests \in SUBSET Identities
    BY Zenon DEF PhaseTypeOK, Tasks, Ledgers
  <2>2. NextStep(phase) \in Steps
    BY Zenon DEF NextStep, Phases, Steps
  <2> QED BY <1>r, <1>g, <1>c, <1>n, <2>1, <2>2 DEF RecordPhase, Phases, Operations, Statuses
<1>1. CASE Preflight
  BY <1>1, <1>g, <1>f, <1>n, <1>s, Zenon DEF Preflight, AfterPreflight, Steps, Operations, Statuses,
     CatalogTypeOK, Catalogs
<1>2. CASE CreateNamespace
  BY <1>2, <1>g, <1>c, <1>n, Zenon DEF CreateNamespace, Steps, Operations, Statuses
<1>3. CASE CreateTable
  BY <1>3, <1>g, <1>c, <1>n, Zenon DEF CreateTable, Steps, Operations, Statuses
<1>4. CASE BaselineAudit
  BY <1>4, <1>g, <1>c, <1>n, <1>s, <1>k, Zenon DEF BaselineAudit, Steps, Operations, Statuses
<1>5. CASE SerialReturns
  BY <1>5, <1>r, Zenon DEF SerialReturns, Phases
<1>6. CASE ConcurrentReturns
  BY <1>6, <1>r, Zenon DEF ConcurrentReturns, Phases, PhaseTypeOK
<1>7. CASE Spawn \/ MainArrives \/ SendWindow \/ DropSender
  BY <1>7, <1>g, Zenon DEF Spawn, MainArrives, SendWindow, DropSender, Steps
<1>8. CASE LoadTable
  <2>1. cat.property \in Commits
    BY Zenon DEF CatalogTypeOK, Catalogs
  <2> QED BY <1>8, <2>1, <1>g, <1>c, <1>n, <1>s, Zenon DEF LoadTable, Steps, Operations, Statuses
<1>9. CASE FinalAudit
  <2>1. evidence' \in [Operations -> Statuses]
    <3>1. \A a, b \in Statuses :
            [evidence EXCEPT !["final_object_audit"] = a, !["metadata_growth"] = b]
              \in [Operations -> Statuses]
      BY Zenon
    <3>2. \A x : Status(x) \in Statuses
      BY Zenon DEF Status, Statuses
    <3>3. \/ \E x, y : evidence' = [evidence EXCEPT !["final_object_audit"] = Status(x),
                                                   !["metadata_growth"] = Status(y)]
          \/ Note("final_object_audit", "failed")
      BY <1>9, Zenon DEF FinalAudit
    <3>4. "final_object_audit" \in Operations /\ "failed" \in Statuses
      BY Zenon DEF Operations, Statuses
    <3>5. CASE Note("final_object_audit", "failed")
      BY <3>5, <3>4, <1>n, Zenon
    <3>6. ASSUME NEW x, NEW y,
                 evidence' = [evidence EXCEPT !["final_object_audit"] = Status(x),
                                              !["metadata_growth"] = Status(y)]
          PROVE  evidence' \in [Operations -> Statuses]
      <4>1. Status(x) \in Statuses /\ Status(y) \in Statuses
        BY <3>2, Zenon
      <4> QED BY <3>1, <3>6, <4>1, Zenon
    <3> QED BY <3>3, <3>5, <3>6, Zenon
  <2> QED BY <1>9, <2>1, <1>c, Zenon DEF FinalAudit
<1>10. CASE DropTable \/ VerifyTable \/ DropNamespace
  BY <1>10, <1>g, <1>n, <1>s, Zenon DEF DropTable, VerifyTable, DropNamespace, Steps, Operations,
     Statuses, CatalogTypeOK, Catalogs
<1>11. CASE VerifyNamespace
  BY <1>11, <1>f, <1>n, <1>s, Zenon DEF VerifyNamespace, Operations, Statuses, CatalogTypeOK, Catalogs
<1>12. CASE UNCHANGED roundVars
  BY <1>12, Zenon DEF roundVars
<1>13. CASE SerialCommit \/ Expire \/ Finished \/ UNCHANGED vars
  BY <1>12, <1>13, Zenon DEF SerialCommit, Expire, Finished, vars
<1>14. CASE \E w \in Writers : WriterStep(w) \/ CatalogCommits(w) \/ Join(w)
  BY <1>12, <1>14, Zenon DEF WriterStep, WriterArrives, WriterPasses, WriterStarts, WriterSends,
     WriterStops, WriterAnswered, WriterErrs, WriterPanics, Recorded, CatalogCommits, Join
<1>15. CASE \E call \in pending : CatalogLate(call)
  BY <1>12, <1>15, Zenon DEF CatalogLate
<1> QED BY <1>1, <1>2, <1>3, <1>4, <1>5, <1>6, <1>7, <1>8, <1>9, <1>10, <1>11, <1>13, <1>14,
           <1>15, Zenon DEF Next, MainStep

\* The barrier, the window and the ledgers.
LEMMA PhaseTypeNext == TypeOK /\ [Next]_vars => PhaseTypeOK'
<1> SUFFICES ASSUME TypeOK, [Next]_vars PROVE PhaseTypeOK'
  OBVIOUS
<1>a. RoundTypeOK /\ PhaseTypeOK /\ CatalogTypeOK
  BY Zenon DEF TypeOK
<1> USE <1>a, RoundAssumption DEF PhaseTypeOK, Tasks
<1>i. \A w \in Writers : Current(w) \in Identities
  BY RequestTypes, Zenon DEF Current, Phases
<1>w. \A w \in Writers : \A s \in WriterStates :
        [writer EXCEPT ![w] = s] \in [Writers -> WriterStates]
  OBVIOUS
<1>l. \A t \in Tasks : \A l \in Ledgers : [ledger EXCEPT ![t] = l] \in [Tasks -> Ledgers]
  OBVIOUS
<1>1. CASE SerialCommit
  <2> DEFINE id == Request(step, Main, ledger[Main].counts.attempts)
  <2>1. ledger[Main] \in Ledgers /\ ledger[Main].counts.attempts \in Nat
    BY Zenon DEF Ledgers, RequestCounts
  <2>2. id \in Identities
    BY <1>1, <2>1, RequestTypes, Zenon DEF SerialCommit, Phases
  <2>3. \E o : ledger' = [ledger EXCEPT ![Main] = Record(@, id, o)]
    BY <1>1, Zenon DEF SerialCommit
  <2>4. ledger' \in [Tasks -> Ledgers]
    BY <2>1, <2>2, <2>3, RecordType, <1>l
  <2> QED BY <1>1, <2>4, Zenon DEF SerialCommit
<1>2. CASE SerialReturns
  BY <1>2, EmptyLedgerType, Zenon DEF SerialReturns
<1>3. CASE Spawn \/ MainArrives \/ SendWindow \/ DropSender \/ Expire
  BY <1>3, Zenon DEF Spawn, MainArrives, SendWindow, DropSender, Expire, WriterStates
<1>4. CASE \E w \in Writers : Join(w)
  <2> PICK w \in Writers : Join(w)
    BY <1>4, Zenon
  <2>1. Merge(ledger[Main], ledger[w]) \in Ledgers
    BY MergeType, Zenon
  <2>2. ledger' \in [Tasks -> Ledgers]
    BY <2>1, <1>l, Zenon DEF Join
  <2> QED BY <2>2, <1>w, Zenon DEF Join, WriterStates
<1>5. CASE \E w \in Writers : WriterArrives(w) \/ WriterPasses(w) \/ WriterStarts(w)
                              \/ WriterSends(w) \/ WriterStops(w) \/ WriterPanics(w)
  BY <1>5, <1>w, ZenonT(40) DEF WriterArrives, WriterPasses, WriterStarts, WriterSends, WriterStops,
     WriterPanics, WriterStates
<1>6. CASE \E w \in Writers : WriterAnswered(w) \/ WriterErrs(w)
  <2> PICK w \in Writers : WriterAnswered(w) \/ WriterErrs(w)
    BY <1>6, Zenon
  <2>1. PICK o : Recorded(w, o)
    BY Zenon DEF WriterAnswered, WriterErrs
  <2>2. Record(ledger[w], Current(w), o) \in Ledgers
    BY <1>i, RecordType, Zenon
  <2> QED BY <2>1, <2>2, <1>w, <1>l DEF Recorded, WriterStates
<1>7. CASE UNCHANGED phaseVars
  BY <1>7, Zenon DEF phaseVars
<1>8. CASE Preflight \/ CreateNamespace \/ CreateTable \/ BaselineAudit \/ ConcurrentReturns
           \/ LoadTable \/ FinalAudit \/ DropTable \/ VerifyTable \/ DropNamespace
           \/ VerifyNamespace \/ Finished \/ UNCHANGED vars
  BY <1>7, <1>8, Zenon DEF Preflight, CreateNamespace, CreateTable, BaselineAudit,
     ConcurrentReturns, LoadTable, FinalAudit, DropTable, VerifyTable, DropNamespace,
     VerifyNamespace, Finished, vars
<1>9. CASE (\E w \in Writers : CatalogCommits(w)) \/ (\E call \in pending : CatalogLate(call))
  BY <1>7, <1>9, Zenon DEF CatalogCommits, CatalogLate
<1> QED BY <1>1, <1>2, <1>3, <1>4, <1>5, <1>6, <1>8, <1>9, Zenon DEF Next, MainStep, WriterStep

\* The catalog and the requests on their way to it.
LEMMA CatalogTypeNext == TypeOK /\ [Next]_vars => CatalogTypeOK'
<1> SUFFICES ASSUME TypeOK, [Next]_vars PROVE CatalogTypeOK'
  OBVIOUS
<1>a. RoundTypeOK /\ PhaseTypeOK /\ CatalogTypeOK
  BY Zenon DEF TypeOK
<1> USE <1>a, RoundAssumption
<1>i. \A w \in Writers : Current(w) \in Identities /\ Current(w) \in Calls
  BY RequestTypes, Zenon DEF Current, Phases, PhaseTypeOK, Tasks
<1>f. {CreateNamespaceCall, CreateTableCall, DropTableCall, DropNamespaceCall} \subseteq Calls
  BY RequestTypes, Zenon DEF FixtureCalls
<1>1. CASE CreateNamespace \/ CreateTable \/ DropTable \/ DropNamespace
  <2>1. PICK call \in Calls : CallSucceeds(call) \/ CallFails(call)
    BY <1>1, <1>f, Zenon DEF CreateNamespace, CreateTable, DropTable, DropNamespace
  <2>2. UNCHANGED <<request, sent, foreign>>
    BY <1>1, Zenon DEF CreateNamespace, CreateTable, DropTable, DropNamespace
  <2> QED BY <2>1, <2>2, CallType, Zenon DEF CatalogTypeOK
<1>2. CASE SerialCommit
  <2> DEFINE id == Request(step, Main, ledger[Main].counts.attempts)
  <2>1. id \in Identities /\ id \in Calls
    BY <1>2, RequestTypes, Zenon DEF SerialCommit, Phases, PhaseTypeOK, Tasks, Ledgers, RequestCounts
  <2>2. \/ CallSucceeds(id) \/ CallFails(id)
        \/ cat' \in Rejecting(cat, id) /\ UNCHANGED pending
    BY <1>2, Zenon DEF SerialCommit
  <2>3. cat' \in Catalogs /\ pending' \in SUBSET Calls
    BY <2>1, <2>2, CallType, ExecutedType, Zenon DEF CatalogTypeOK
  <2>4. sent' = sent \cup {id} /\ UNCHANGED <<request, foreign>>
    BY <1>2, Zenon DEF SerialCommit
  <2> QED BY <2>1, <2>3, <2>4, Zenon DEF CatalogTypeOK
<1>3. CASE \E w \in Writers : WriterSends(w)
  <2> PICK w \in Writers : WriterSends(w)
    BY <1>3, Zenon
  <2>1. [base |-> cat.property, reply |-> "none"] \in Replies
    BY Zenon DEF CatalogTypeOK, Catalogs, Replies
  <2>2. sent' = sent \cup {Current(w)}
    BY Zenon DEF WriterSends, Current
  <2> QED BY <2>1, <2>2, <1>i, Zenon DEF WriterSends, CatalogTypeOK
<1>4. CASE \E w \in Writers : CatalogCommits(w)
  <2> PICK w \in Writers : CatalogCommits(w)
    BY <1>4, Zenon
  <2>1. cat' \in Executed(cat, Current(w)) \cup Rejecting(cat, Current(w))
    BY <1>i, FixtureCallsDistinct, Zenon DEF CatalogCommits, Executed, FixtureCalls
  <2>2. cat' \in Catalogs
    BY <2>1, <1>i, ExecutedType, Zenon DEF CatalogTypeOK
  <2>3. request' \in [Writers -> Replies]
    BY ZenonT(40) DEF CatalogCommits, CatalogTypeOK, Replies
  <2> QED BY <2>2, <2>3, Zenon DEF CatalogCommits, CatalogTypeOK
<1>5. CASE \E w \in Writers : WriterAnswered(w) \/ WriterErrs(w) \/ WriterPanics(w)
  BY <1>5, <1>i, Zenon DEF WriterAnswered, WriterErrs, WriterPanics, Recorded, CatalogTypeOK
<1>6. CASE \E call \in pending : CatalogLate(call)
  <2> PICK call \in pending : CatalogLate(call)
    BY <1>6, Zenon
  <2>1. cat' \in Catalogs
    BY ExecutedType, Zenon DEF CatalogLate, CatalogTypeOK
  <2> QED BY <2>1, Zenon DEF CatalogLate, CatalogTypeOK
<1>7. CASE UNCHANGED catalogVars
  BY <1>7, Zenon DEF catalogVars, CatalogTypeOK
<1>8. CASE Preflight \/ BaselineAudit \/ SerialReturns \/ Spawn \/ MainArrives \/ SendWindow
           \/ DropSender \/ Expire \/ ConcurrentReturns \/ LoadTable \/ FinalAudit
           \/ VerifyTable \/ VerifyNamespace \/ Finished \/ UNCHANGED vars
  BY <1>7, <1>8, Zenon DEF Preflight, BaselineAudit, SerialReturns, Spawn, MainArrives, SendWindow,
     DropSender, Expire, ConcurrentReturns, LoadTable, FinalAudit, VerifyTable,
     VerifyNamespace, Finished, vars
<1>9. CASE \E w \in Writers : WriterArrives(w) \/ WriterPasses(w) \/ WriterStarts(w)
                              \/ WriterStops(w) \/ Join(w)
  BY <1>7, <1>9, Zenon DEF WriterArrives, WriterPasses, WriterStarts, WriterStops, Join
<1> QED BY <1>1, <1>2, <1>3, <1>4, <1>5, <1>6, <1>8, <1>9, Zenon DEF Next, MainStep, WriterStep

\* Every state of every round is well typed.
THEOREM TypeCorrect == Spec => []TypeOK
<1>1. TypeOK /\ [Next]_vars => TypeOK'
  BY RoundTypeNext, PhaseTypeNext, CatalogTypeNext, Zenon DEF TypeOK
<1> QED BY TypeInit, <1>1, PTL DEF Spec

----------------------------------------------------------------------------
(* The theorems *)

\* The inductive invariant holds throughout every round.
LEMMA RoundInvariant == Spec => []RoundInv
<1>1. RoundInv /\ [Next]_vars => RoundInv'
  BY RoundTypeNext, PhaseTypeNext, CatalogTypeNext, WriterInvNext, EvidenceInvNext,
     ForeignInvNext, AbsentInvNext, PendingInvNext, Zenon DEF RoundInv, TypeOK
<1> QED BY TypeInit, RoundInvInit, <1>1, PTL DEF Spec

\* A namespace that existed before the round survives it (the preflight of
\* run_contention_round returns before any mutation).
THEOREM ForeignFixture == Spec => []ForeignFixtureSurvives
<1>1. RoundInv => ForeignFixtureSurvives
  BY Zenon DEF RoundInv, ForeignInv, ForeignFixtureSurvives
<1> QED BY RoundInvariant, <1>1, PTL

\* Every round that sent a mutation has sent all four cleanup requests by its end.
THEOREM CleanupAlwaysRuns == Spec => []CleanupAfterMutation
<1>1. RoundInv => CleanupAfterMutation
  BY Zenon DEF RoundInv, EvidenceInv
<1> QED BY RoundInvariant, <1>1, PTL

\* No writer is alive once the concurrent phase is over.
THEOREM NoWriterAfterJoin == Spec => []QuietAfterJoin
<1>1. RoundInv => QuietAfterJoin
  BY Zenon DEF RoundInv, WriterInv, QuietAfterJoin, AfterJoin
<1> QED BY RoundInvariant, <1>1, PTL

\* All writers share the one window that opens when the last reached the barrier.
THEOREM OneWindow == Spec => []SharedWindow
<1>1. RoundInv => SharedWindow
  BY Zenon DEF RoundInv, WriterInv, SharedWindow, Tasks
<1> QED BY RoundInvariant, <1>1, PTL

\* A passing round leaves nothing behind and nothing to come, whatever failed on
\* the way and however late the catalog executes what the runner gave up on.
THEOREM PassIsClean == Spec => []PassMeansClean
<1>1. RoundInv => PassMeansClean
  <2> SUFFICES ASSUME RoundInv, classification = "pass"
               PROVE  ~cat.namespace /\ ~cat.table /\ pending = {}
    BY Zenon DEF PassMeansClean
  <2>1. step = "done" /\ AllPassed(evidence, counts)
    BY Zenon DEF RoundInv, EvidenceInv
  <2>2. ~cat.namespace /\ ~cat.table
    BY <2>1, Zenon DEF RoundInv, AbsentInv, AllPassed, CleanupPassed, CleanupOperations
  <2>3. counts["warmup"].errors = 0 /\ counts["sequential"].errors = 0
        /\ counts["concurrent"].errors = 0
    BY <2>1 DEF AllPassed, SerialAccounted, ConcurrentAccounted, Counts
  <2>4. \A call : ~FixtureMark(call)
    BY <2>1, Zenon DEF FixtureMark, AllPassed, CleanupPassed, CleanupOperations
  <2>5. ~PhaseMark
    BY <2>1, <2>3 DEF PhaseMark, Spoiled, Phases, AllPassed
  <2>6. ~RunningMark
    BY <2>1, Zenon DEF RunningMark, InWindow
  <2> QED BY <2>2, <2>4, <2>5, <2>6, Zenon DEF RoundInv, PendingInv, Marked
<1> QED BY RoundInvariant, <1>1, PTL
============================================================================

---------------------- MODULE ContentionRoundLedgers ----------------------
(***************************************************************************)
(* What the ledgers and the object audit of a round prove about its        *)
(* requests: every request that was sent is counted, and the commits that  *)
(* took effect are the ones counted as accepted.                           *)
(***************************************************************************)
EXTENDS ContentionRoundProofs, FiniteSetTheorems

----------------------------------------------------------------------------
(* The inductive invariant *)

\* The counts of a ledger are the sizes of what it holds.
Tallied(l) ==
  /\ IsFiniteSet(l.seen) /\ l.counts.attempts = Cardinality(l.seen)
  /\ IsFiniteSet(l.acceptedRequests) /\ l.counts.accepted = Cardinality(l.acceptedRequests)
  /\ l.acceptedRequests \subseteq l.seen
LedgerInv == \A t \in Tasks : Tallied(ledger[t])

SentBy(w) == {id \in sent : id[1] = "concurrent" /\ id[2] = w}
Unanswered(w) == IF writer[w] = "in-flight" THEN {Current(w)} ELSE {}
Lost(w) == writer[w] = "failed" \/ (writer[w] = "joined" /\ firstError)
Joined == {w \in Writers : writer[w] = "joined"}
BeforeSerial == {"preflight", "create-namespace", "create-table", "baseline-audit"}

\* The ledger of a serial phase holds what was sent in it.
SerialSent ==
  /\ step \in BeforeSerial \cup {"spawn"} => ledger[Main].seen = {}
  /\ step \in BeforeSerial => SentIn("warmup") = {}
  /\ step = "warmup" => SentIn("warmup") = ledger[Main].seen
  /\ step \in BeforeSerial \cup {"warmup"} => SentIn("sequential") = {}
  /\ step = "sequential" => SentIn("sequential") = ledger[Main].seen

\* The ledger of a writer holds what it sent, and the phase's what the joined writers did.
WriterSent ==
  /\ \A id \in SentIn("concurrent") : id[2] \in Writers
  /\ \A w \in Writers : Lost(w) \/ SentBy(w) = ledger[w].seen \cup Unanswered(w)
  /\ step \in InWindow /\ ~firstError =>
       /\ \A w \in Joined : ledger[w].seen \subseteq ledger[Main].seen
       /\ \A id \in ledger[Main].seen : \E w \in Joined : id \in ledger[w].seen

SentInv == SerialSent /\ WriterSent /\ EveryRequestAccounted

\* The accepted requests of the round are those of its recorded phases.
AcceptedInv ==
  /\ IsFiniteSet(accepted) /\ Cardinality(accepted) = TotalAccepted(counts)
  /\ \A phase \in Phases : evidence[phase] # "fit" => counts[phase] = Counts(0, 0, 0, 0)

\* A commit that some ledger counts as accepted, or is about to.
Counted(id) ==
  \/ id \in accepted
  \/ \E t \in Tasks : id \in ledger[t].acceptedRequests
  \/ \E w \in Writers : writer[w] = "in-flight" /\ request[w].reply = "accepted" /\ id = Current(w)

\* What the writers count as accepted reaches the phase's ledger, then the round's
\* accepted requests.
AcceptedHandedOver ==
  /\ step \in InWindow /\ ~firstError =>
       \A w \in Joined : ledger[w].acceptedRequests \subseteq ledger[Main].acceptedRequests
  /\ evidence["concurrent"] = "fit" =>
       \A t \in Tasks : ledger[t].acceptedRequests \subseteq accepted

\* What the store holds was created with the table or accepted, or left a mark.
ObjectsInv ==
  /\ \A id \in cat.objects : id = CreateTableCall \/ Counted(id) \/ PhaseMark \/ RunningMark
  /\ AcceptedHandedOver

\* What the two audits saw.
AuditInv ==
  /\ evidence["baseline_object_audit"] = "fit" => baseline >= 1
  /\ evidence["metadata_growth"] = "fit" =>
       /\ step \in AfterJoin \ {"load-table", "final-audit"}
       /\ Cardinality(cat.objects) - baseline >= TotalAccepted(counts)

----------------------------------------------------------------------------
(* The ledgers *)

\* What RequestLedger::record makes of a ledger.
LEMMA RecordHolds ==
  ASSUME NEW l \in Ledgers, NEW id, NEW o
  PROVE  /\ Record(l, id, o).seen = l.seen \cup {id}
         /\ Record(l, id, o).counts.attempts = l.counts.attempts + 1
         /\ o = "accepted" =>
              /\ Record(l, id, o).acceptedRequests = l.acceptedRequests \cup {id}
              /\ Record(l, id, o).counts.accepted = l.counts.accepted + 1
         /\ o # "accepted" =>
              /\ Record(l, id, o).acceptedRequests = l.acceptedRequests
              /\ Record(l, id, o).counts.accepted = l.counts.accepted
<1>1. l.counts.accepted \in Nat /\ l.counts.attempts \in Nat
  BY Zenon DEF Ledgers, RequestCounts
<1>2. /\ Record(l, id, o).seen = l.seen \cup {id}
      /\ Record(l, id, o).acceptedRequests =
           l.acceptedRequests \cup (IF o = "accepted" THEN {id} ELSE {})
  BY DEF Record
<1>3. /\ Record(l, id, o).counts.attempts = l.counts.attempts + 1
      /\ Record(l, id, o).counts.accepted =
           l.counts.accepted + (IF o = "accepted" THEN 1 ELSE 0)
  BY DEF Record, Counts
<1> QED BY <1>1, <1>2, <1>3

\* A request that is not a duplicate is counted once.
LEMMA RecordTallied ==
  ASSUME NEW l \in Ledgers, NEW id, NEW o, Tallied(l), ~Duplicate(l, id)
  PROVE  Tallied(Record(l, id, o))
<1> DEFINE r == Record(l, id, o)
<1>1. /\ IsFiniteSet(l.seen) /\ l.counts.attempts = Cardinality(l.seen)
      /\ IsFiniteSet(l.acceptedRequests) /\ l.counts.accepted = Cardinality(l.acceptedRequests)
      /\ l.acceptedRequests \subseteq l.seen /\ id \notin l.seen
  BY Zenon DEF Tallied, Duplicate
<1>2. IsFiniteSet(l.seen \cup {id}) /\ Cardinality(l.seen \cup {id}) = l.counts.attempts + 1
  BY <1>1, FS_AddElement, ZenonT(60)
<1>3. /\ IsFiniteSet(l.acceptedRequests \cup {id})
      /\ Cardinality(l.acceptedRequests \cup {id}) = l.counts.accepted + 1
  BY <1>1, FS_AddElement, Zenon
<1>4. /\ r.seen = l.seen \cup {id} /\ r.counts.attempts = l.counts.attempts + 1
      /\ o = "accepted" => /\ r.acceptedRequests = l.acceptedRequests \cup {id}
                           /\ r.counts.accepted = l.counts.accepted + 1
      /\ o # "accepted" => /\ r.acceptedRequests = l.acceptedRequests
                           /\ r.counts.accepted = l.counts.accepted
  BY RecordHolds, SMTT(60)
<1> HIDE DEF r
<1>5. IsFiniteSet(r.seen) /\ r.counts.attempts = Cardinality(r.seen)
  BY <1>2, <1>4, Zenon
<1>6. CASE o = "accepted"
  <2>1. IsFiniteSet(r.acceptedRequests) /\ r.counts.accepted = Cardinality(r.acceptedRequests)
    BY <1>3, <1>4, <1>6, Zenon
  <2>2. r.acceptedRequests \subseteq r.seen
    BY <1>1, <1>4, <1>6, SMTT(60)
  <2> QED BY <1>5, <2>1, <2>2, Zenon DEF Tallied, r
<1>7. CASE o # "accepted"
  <2>1. IsFiniteSet(r.acceptedRequests) /\ r.counts.accepted = Cardinality(r.acceptedRequests)
    BY <1>1, <1>4, <1>7, Zenon
  <2>2. r.acceptedRequests \subseteq r.seen
    BY <1>1, <1>4, <1>7, SMTT(60)
  <2> QED BY <1>5, <2>1, <2>2, Zenon DEF Tallied, r
<1> QED BY <1>6, <1>7, Zenon

\* What RequestLedger::try_merge makes of two ledgers.
LEMMA MergeHolds ==
  ASSUME NEW l \in Ledgers, NEW m \in Ledgers
  PROVE  /\ Merge(l, m).seen = l.seen \cup m.seen
         /\ Merge(l, m).acceptedRequests = l.acceptedRequests \cup m.acceptedRequests
         /\ Merge(l, m).counts.attempts = l.counts.attempts + m.counts.attempts
         /\ Merge(l, m).counts.accepted = l.counts.accepted + m.counts.accepted
BY DEF Merge, Counts

\* The size of the union of two sets without a common element.
LEMMA DisjointUnion ==
  ASSUME NEW S, NEW T, IsFiniteSet(S), IsFiniteSet(T), Disjoint(S, T)
  PROVE  IsFiniteSet(S \cup T) /\ Cardinality(S \cup T) = Cardinality(S) + Cardinality(T)
<1>1. /\ IsFiniteSet(S \cup T)
      /\ Cardinality(S \cup T) = Cardinality(S) + Cardinality(T) - Cardinality(S \cap T)
  BY FS_Union, Zenon
<1>2. Cardinality(S \cap T) = 0
  BY FS_EmptySet, Zenon DEF Disjoint
<1>3. Cardinality(S) \in Nat /\ Cardinality(T) \in Nat
  BY FS_CardinalityType, Zenon
<1> QED BY <1>1, <1>2, <1>3, SMTT(60)

\* Merging two ledgers with no request in common adds up their counts
\* (RequestLedger::try_merge).
LEMMA MergeTallied ==
  ASSUME NEW l \in Ledgers, NEW m \in Ledgers, Tallied(l), Tallied(m), Mergeable(l, m)
  PROVE  Tallied(Merge(l, m))
<1> DEFINE r == Merge(l, m)
<1>1. /\ r.seen = l.seen \cup m.seen
      /\ r.acceptedRequests = l.acceptedRequests \cup m.acceptedRequests
      /\ r.counts.attempts = l.counts.attempts + m.counts.attempts
      /\ r.counts.accepted = l.counts.accepted + m.counts.accepted
  BY MergeHolds, Zenon
<1> HIDE DEF r
<1>2. /\ IsFiniteSet(l.seen \cup m.seen)
      /\ Cardinality(l.seen \cup m.seen) = l.counts.attempts + m.counts.attempts
  <2>1. /\ IsFiniteSet(l.seen) /\ IsFiniteSet(m.seen) /\ Disjoint(l.seen, m.seen)
        /\ l.counts.attempts = Cardinality(l.seen) /\ m.counts.attempts = Cardinality(m.seen)
    BY Zenon DEF Tallied, Mergeable
  <2>2. /\ IsFiniteSet(l.seen \cup m.seen)
        /\ Cardinality(l.seen \cup m.seen) = Cardinality(l.seen) + Cardinality(m.seen)
    BY <2>1, DisjointUnion, SMTT(60)
  <2> QED BY <2>1, <2>2, Zenon
<1>3. /\ IsFiniteSet(l.acceptedRequests \cup m.acceptedRequests)
      /\ Cardinality(l.acceptedRequests \cup m.acceptedRequests) =
           l.counts.accepted + m.counts.accepted
  <2>1. /\ IsFiniteSet(l.acceptedRequests) /\ IsFiniteSet(m.acceptedRequests)
        /\ Disjoint(l.acceptedRequests, m.acceptedRequests)
        /\ l.counts.accepted = Cardinality(l.acceptedRequests)
        /\ m.counts.accepted = Cardinality(m.acceptedRequests)
    BY Zenon DEF Tallied, Mergeable
  <2>2. /\ IsFiniteSet(l.acceptedRequests \cup m.acceptedRequests)
        /\ Cardinality(l.acceptedRequests \cup m.acceptedRequests) =
             Cardinality(l.acceptedRequests) + Cardinality(m.acceptedRequests)
    BY <2>1, DisjointUnion, SMTT(60)
  <2> QED BY <2>1, <2>2, Zenon
<1>4. r.acceptedRequests \subseteq r.seen
  <2>1. l.acceptedRequests \subseteq l.seen /\ m.acceptedRequests \subseteq m.seen
    BY Zenon DEF Tallied
  <2> QED BY <1>1, <2>1
<1>5. Tallied(r)
  BY <1>1, <1>2, <1>3, <1>4, Zenon DEF Tallied
<1> QED BY <1>5, Zenon DEF r

\* A new ledger counts nothing (RequestLedger::default).
LEMMA EmptyTallied == Tallied(EmptyLedger)
<1>1. /\ EmptyLedger.seen = {} /\ EmptyLedger.acceptedRequests = {}
      /\ EmptyLedger.counts.attempts = 0 /\ EmptyLedger.counts.accepted = 0
  BY DEF EmptyLedger, Counts
<1> QED BY <1>1, FS_EmptySet, Zenon DEF Tallied

\* A step changes the ledger of one task at most: it records a request, merges the ledger
\* of a writer, or begins anew.
LedgerStep(t) ==
  \/ ledger' = [ledger EXCEPT ![t] = EmptyLedger]
  \/ \E id \in Identities, o \in {"accepted", "conflict", "error"} :
       ~Duplicate(ledger[t], id) /\ ledger' = [ledger EXCEPT ![t] = Record(@, id, o)]
  \/ \E w \in Writers :
       Mergeable(ledger[t], ledger[w]) /\ ledger' = [ledger EXCEPT ![t] = Merge(@, ledger[w])]

\* Such a step leaves every ledger counting what it holds.
LEMMA LedgerKept ==
  ASSUME TypeOK, LedgerInv, NEW t \in Tasks, LedgerStep(t)
  PROVE  LedgerInv'
<1>1. ledger \in [Tasks -> Ledgers] /\ Writers \subseteq Tasks
  BY PendingTypes, Zenon
<1>2. /\ \A u \in Tasks : Tallied(ledger[u]) /\ ledger[u] \in Ledgers
      /\ \A w \in Writers : w \in Tasks
  BY <1>1, Zenon DEF LedgerInv
<1>3. \A u \in Tasks : u # t => ledger'[u] = ledger[u]
  BY <1>1, Zenon DEF LedgerStep
<1>4. Tallied(ledger'[t])
  <2>1. CASE ledger' = [ledger EXCEPT ![t] = EmptyLedger]
    BY <1>1, <2>1, EmptyTallied, ZenonT(60)
  <2>2. CASE \E id \in Identities, o \in {"accepted", "conflict", "error"} :
               ~Duplicate(ledger[t], id) /\ ledger' = [ledger EXCEPT ![t] = Record(@, id, o)]
    <3>1. PICK id \in Identities, o \in {"accepted", "conflict", "error"} :
            ~Duplicate(ledger[t], id) /\ ledger' = [ledger EXCEPT ![t] = Record(@, id, o)]
      BY <2>2, ZenonT(60)
    <3>2. ledger'[t] = Record(ledger[t], id, o)
      BY <1>1, <3>1, Zenon
    <3> QED BY <1>2, <3>1, <3>2, RecordTallied, Zenon
  <2>3. CASE \E w \in Writers :
               /\ Mergeable(ledger[t], ledger[w])
               /\ ledger' = [ledger EXCEPT ![t] = Merge(@, ledger[w])]
    BY <1>1, <1>2, <2>3, MergeTallied, ZenonT(60)
  <2> QED BY <2>1, <2>2, <2>3, Zenon DEF LedgerStep
<1>5. \A u \in Tasks : Tallied(ledger'[u])
  BY <1>2, <1>3, <1>4, Zenon
<1> QED BY <1>5, Zenon DEF LedgerInv, Tallied

\* The request a task is about to record is one of a phase of the round.
LEMMA RequestIdentity ==
  ASSUME TypeOK
  PROVE  /\ \A w \in Writers : Current(w) \in Identities
         /\ step \in {"warmup", "sequential"} =>
              Request(step, Main, ledger[Main].counts.attempts) \in Identities
<1>1. /\ \A w \in Writers : sequence[w] \in Nat /\ w \in Tasks
      /\ ledger[Main].counts.attempts \in Nat /\ Main \in Tasks
  BY Zenon DEF TypeOK, PhaseTypeOK, Tasks, Ledgers, RequestCounts
<1>2. "concurrent" \in Phases /\ {"warmup", "sequential"} \subseteq Phases
  BY ZenonT(60) DEF Phases
<1> QED BY <1>1, <1>2, RequestTypes, Zenon DEF Current

\* Every ledger counts what it holds throughout a round (record, try_merge).
LEMMA LedgerInvNext == TypeOK /\ LedgerInv /\ [Next]_vars => LedgerInv'
<1> SUFFICES ASSUME TypeOK, LedgerInv, [Next]_vars PROVE LedgerInv'
  BY Zenon
<1>t. Main \in Tasks /\ \A w \in Writers : w \in Tasks
  BY Zenon DEF Tasks
<1>1. CASE SerialCommit
  <2>1. LedgerStep(Main)
    BY <1>1, RequestIdentity, Zenon DEF SerialCommit, LedgerStep
  <2> QED BY <1>t, <2>1, LedgerKept, ZenonT(60)
<1>2. CASE SerialReturns
  <2>1. LedgerStep(Main)
    BY <1>2, Zenon DEF SerialReturns, LedgerStep
  <2> QED BY <1>t, <2>1, LedgerKept, Zenon
<1>3. CASE UNCHANGED ledger
  BY <1>3, Zenon DEF LedgerInv, Tallied
<1>4. CASE \E w \in Writers : Join(w)
  <2>1. LedgerStep(Main) \/ UNCHANGED ledger
    BY <1>4, ZenonT(60) DEF Join, LedgerStep
  <2> QED BY <1>3, <1>t, <2>1, LedgerKept, Zenon
<1>5. CASE \E w \in Writers : WriterAnswered(w) \/ WriterErrs(w)
  <2>1. PICK w \in Writers : WriterAnswered(w) \/ WriterErrs(w)
    BY <1>5, Zenon
  <2>2. PICK o \in {"accepted", "conflict", "error"} : Recorded(w, o)
    <3>1. request[w].reply \in {"none", "accepted", "conflict"}
      BY ZenonT(60) DEF TypeOK, CatalogTypeOK, Replies
    <3> QED BY <2>1, <3>1, Zenon DEF WriterAnswered, WriterErrs
  <2>3. LedgerStep(w) \/ UNCHANGED ledger
    BY <2>2, RequestIdentity, Zenon DEF Recorded, LedgerStep
  <2> QED BY <1>3, <1>t, <2>3, LedgerKept, Zenon
<1>6. CASE CreateNamespace \/ CreateTable \/ DropTable \/ DropNamespace
           \/ Preflight \/ BaselineAudit \/ Spawn \/ MainArrives \/ SendWindow
           \/ DropSender \/ Expire \/ ConcurrentReturns \/ LoadTable \/ FinalAudit
           \/ VerifyTable \/ VerifyNamespace \/ Finished \/ UNCHANGED vars
  BY <1>3, <1>6, Zenon DEF CreateNamespace, CreateTable, DropTable, DropNamespace,
     Preflight, BaselineAudit, Spawn, MainArrives, SendWindow,
     DropSender, Expire, ConcurrentReturns, LoadTable, FinalAudit, VerifyTable,
     VerifyNamespace, Finished, vars, phaseVars
<1>7. CASE \E w \in Writers : WriterArrives(w) \/ WriterPasses(w) \/ WriterStarts(w)
                              \/ WriterSends(w) \/ WriterStops(w) \/ WriterPanics(w)
                              \/ CatalogCommits(w)
  BY <1>3, <1>7, Zenon DEF WriterArrives, WriterPasses, WriterStarts, WriterSends, WriterStops,
     WriterPanics, CatalogCommits, phaseVars
<1>8. CASE \E call \in pending : CatalogLate(call)
  BY <1>3, <1>8, ZenonT(60) DEF CatalogLate, phaseVars
<1> QED BY <1>1, <1>2, <1>4, <1>5, <1>6, <1>7, <1>8, ZenonT(60) DEF Next, MainStep, WriterStep

----------------------------------------------------------------------------
(* Kinds of steps *)

\* Steps that send and record no commit.
Quiet ==
  /\ UNCHANGED <<ledger, sent, writer, firstError, sequence, counts, accepted>>
  /\ \A phase \in Phases : evidence'[phase] = evidence[phase]
  /\ \/ step' = step
     \/ step \in BeforeSerial /\ step' \in BeforeSerial \cup {"warmup"}
     \/ step \in InWindow \ {"join"} /\ step' \in InWindow
     \/ step \notin {"warmup", "sequential", "spawn"} \cup InWindow /\ step' \in AfterJoin

\* The main task's steps outside its phases.
MainOutside ==
  \/ Preflight \/ CreateNamespace \/ CreateTable \/ BaselineAudit
  \/ LoadTable \/ FinalAudit \/ DropTable \/ VerifyTable \/ DropNamespace \/ VerifyNamespace

\* A writer moves on without a request.
Moves(w) ==
  /\ UNCHANGED <<ledger, sent, request, firstError, sequence, counts, accepted, evidence, step>>
  /\ \A v \in Writers \ {w} : writer'[v] = writer[v]
  /\ writer'[w] \notin {"in-flight", "joined"} /\ writer[w] # "joined"
  /\ writer[w] \in {"in-flight", "failed"} => writer'[w] = "failed"

\* The steps outside the phases, and those of the catalog, are quiet.
LEMMA QuietSteps ==
  ASSUME TypeOK,
         \/ MainOutside \/ MainArrives \/ SendWindow \/ DropSender \/ Expire
         \/ (\E w \in Writers : CatalogCommits(w)) \/ (\E call \in pending : CatalogLate(call))
         \/ Finished \/ UNCHANGED vars
  PROVE  Quiet
<1>t. evidence \in [Operations -> Statuses]
  BY PendingTypes, Zenon
<1>p. Phases = {"warmup", "sequential", "concurrent"}
  BY DEF Phases
<1>1. CASE Preflight
  <2>1. /\ UNCHANGED <<ledger, sent, writer, firstError, sequence, counts, accepted>>
        /\ step = "preflight" /\ step' \in {"create-namespace", "done"}
    BY <1>1, Zenon DEF Preflight, AfterPreflight, Goto, Finalize, phaseVars, catalogVars
  <2>2. \A phase \in Phases : evidence'[phase] = evidence[phase]
    BY <1>1, <1>t, <1>p, OperationNames, ZenonT(60) DEF Preflight, Note
  <2> QED BY <2>1, <2>2, SMTT(60) DEF Quiet, BeforeSerial, AfterJoin, InWindow
<1>2. CASE CreateNamespace \/ CreateTable \/ BaselineAudit
  <2>1. /\ UNCHANGED <<ledger, sent, writer, firstError, sequence, counts, accepted>>
        /\ step \in {"create-namespace", "create-table", "baseline-audit"}
        /\ step' \in {"create-table", "baseline-audit", "warmup", "drop-table"}
    BY <1>2, ZenonT(60) DEF CreateNamespace, CreateTable, BaselineAudit, CleanUp, Goto, phaseVars, catalogVars
  <2>2. \A phase \in Phases : evidence'[phase] = evidence[phase]
    BY <1>2, <1>t, <1>p, OperationNames, Zenon DEF CreateNamespace, CreateTable, BaselineAudit, Note
  <2> QED BY <2>1, <2>2 DEF Quiet, BeforeSerial, AfterJoin, InWindow
<1>3. CASE LoadTable \/ FinalAudit \/ DropTable \/ VerifyTable \/ DropNamespace \/ VerifyNamespace
  <2>1. /\ UNCHANGED <<ledger, sent, writer, firstError, sequence, counts, accepted>>
        /\ step \in AfterJoin /\ step' \in AfterJoin
    BY <1>3, Zenon DEF LoadTable, FinalAudit, DropTable, VerifyTable, DropNamespace, VerifyNamespace,
       CleanUp, Goto, Finalize, phaseVars, catalogVars, AfterJoin
  <2>2. \A phase \in Phases : evidence'[phase] = evidence[phase]
    BY <1>3, <1>t, <1>p, OperationNames, ZenonT(60) DEF LoadTable, FinalAudit, DropTable, VerifyTable,
       DropNamespace, VerifyNamespace, Note
  <2> QED BY <2>1, <2>2, SMTT(60) DEF Quiet, BeforeSerial, AfterJoin, InWindow
<1>4. CASE MainArrives \/ SendWindow \/ DropSender
  <2>1. /\ UNCHANGED <<ledger, sent, writer, firstError, sequence, counts, accepted, evidence>>
        /\ step \in InWindow \ {"join"} /\ step' \in InWindow
    BY <1>4, Zenon DEF MainArrives, SendWindow, DropSender, Goto, catalogVars, InWindow
  <2> QED BY <2>1, Zenon DEF Quiet
<1>5. CASE Expire \/ (\E w \in Writers : CatalogCommits(w))
           \/ (\E call \in pending : CatalogLate(call)) \/ Finished \/ UNCHANGED vars
  BY <1>5, Zenon DEF Expire, CatalogCommits, CatalogLate, Finished, vars, roundVars, phaseVars,
     catalogVars, Quiet
<1> QED BY <1>1, <1>2, <1>3, <1>4, <1>5, Zenon DEF MainOutside

\* The steps of a writer that neither send nor record a request.
LEMMA MovingSteps ==
  ASSUME TypeOK, NEW w \in Writers,
         WriterArrives(w) \/ WriterPasses(w) \/ WriterStarts(w) \/ WriterStops(w) \/ WriterPanics(w)
  PROVE  Moves(w)
<1>1. writer \in [Writers -> WriterStates]
  BY PendingTypes, Zenon
<1>2. CASE WriterArrives(w)
  BY <1>1, <1>2, SMTT(60) DEF WriterArrives, Moves, roundVars, catalogVars
<1>3. CASE WriterPasses(w)
  BY <1>1, <1>3 DEF WriterPasses, Moves, roundVars, catalogVars
<1>4. CASE WriterStarts(w)
  BY <1>1, <1>4, SMTT(60) DEF WriterStarts, Moves, roundVars, catalogVars
<1>5. CASE WriterStops(w)
  BY <1>1, <1>5, SMTT(60) DEF WriterStops, Moves, roundVars, catalogVars
<1>6. CASE WriterPanics(w)
  BY <1>1, <1>6, SMTT(60) DEF WriterPanics, Moves, roundVars, catalogVars
<1> QED BY <1>2, <1>3, <1>4, <1>5, <1>6, ZenonT(60)

----------------------------------------------------------------------------
(* Every request is accounted for *)

\* A quiet step leaves the requests that were sent accounted for.
LEMMA SentQuiet ==
  ASSUME SentInv, Quiet
  PROVE  SentInv'
<1>1. \A phase : SentIn(phase)' = SentIn(phase)
  BY Zenon DEF Quiet, SentIn
<1>2. SerialSent'
  <2>1. ledger' = ledger /\ SentIn("warmup")' = SentIn("warmup")
        /\ SentIn("sequential")' = SentIn("sequential")
    BY <1>1, Zenon DEF Quiet
  <2>2. /\ step' \in BeforeSerial => step \in BeforeSerial
        /\ step' = "warmup" => step \in BeforeSerial \cup {"warmup"}
        /\ step' = "sequential" => step = "sequential"
        /\ step' = "spawn" => step = "spawn"
    BY DEF Quiet, BeforeSerial, InWindow, AfterJoin
  <2> QED BY <2>1, <2>2, Zenon DEF SentInv, SerialSent
<1>3. WriterSent'
  <2>1. step' \in InWindow => step \in InWindow
    BY DEF Quiet, BeforeSerial, InWindow, AfterJoin
  <2>2. ledger' = ledger /\ writer' = writer /\ firstError' = firstError /\ Joined' = Joined
    BY Zenon DEF Quiet, Joined
  <2>3. \A w \in Writers : /\ SentBy(w)' = SentBy(w) /\ Unanswered(w)' = Unanswered(w)
                           /\ Lost(w)' <=> Lost(w)
    BY Zenon DEF Quiet, SentBy, Unanswered, Lost, Current
  <2>4. SentIn("concurrent")' = SentIn("concurrent")
    BY <1>1, Zenon
  <2> QED BY <2>1, <2>2, <2>3, <2>4, ZenonT(60) DEF SentInv, WriterSent
<1>4. EveryRequestAccounted'
  BY <1>1, Zenon DEF SentInv, EveryRequestAccounted, Quiet
<1> QED BY <1>2, <1>3, <1>4, Zenon DEF SentInv

\* So does a writer that moves on: one that fails with a request under way keeps
\* it as the one that is lost.
LEMMA SentMoves ==
  ASSUME SentInv, NEW w \in Writers, Moves(w)
  PROVE  SentInv'
<1>0. /\ ledger' = ledger /\ sent' = sent /\ firstError' = firstError /\ sequence' = sequence
      /\ counts' = counts /\ evidence' = evidence /\ step' = step
  BY Zenon DEF Moves
<1>1. \A phase : SentIn(phase)' = SentIn(phase)
  BY <1>0, Zenon DEF SentIn
<1>2. SerialSent'
  BY <1>0, <1>1, Zenon DEF SentInv, SerialSent
<1>3. WriterSent'
  <2>1. Joined' = Joined
    BY Zenon DEF Moves, Joined
  <2>2. ASSUME NEW v \in Writers
        PROVE  Lost(v)' \/ SentBy(v)' = (ledger[v].seen \cup Unanswered(v))'
    <3>1. CASE v # w
      <4>1. writer'[v] = writer[v]
        BY <3>1, Zenon DEF Moves
      <4>2. Unanswered(v)' = Unanswered(v) /\ SentBy(v)' = SentBy(v) /\ (Lost(v)' <=> Lost(v))
        BY <1>0, <4>1, Zenon DEF Unanswered, SentBy, Lost, Current
      <4> QED BY <1>0, <4>2, Zenon DEF SentInv, WriterSent
    <3>2. CASE v = w /\ writer[w] \in {"in-flight", "failed"}
      BY <3>2, Zenon DEF Moves, Lost
    <3>3. CASE v = w /\ writer[w] \notin {"in-flight", "failed"}
      <4>1. Unanswered(w)' = Unanswered(w) /\ SentBy(w)' = SentBy(w) /\ ~Lost(w)
        BY <1>0, <3>3, Zenon DEF Moves, Unanswered, SentBy, Lost
      <4> QED BY <1>0, <3>3, <4>1, Zenon DEF SentInv, WriterSent
    <3> QED BY <3>1, <3>2, <3>3, ZenonT(60)
  <2> QED BY <1>0, <1>1, <2>1, <2>2, ZenonT(60) DEF SentInv, WriterSent
<1>4. EveryRequestAccounted'
  BY <1>0, <1>1, Zenon DEF SentInv, EveryRequestAccounted
<1> QED BY <1>2, <1>3, <1>4, Zenon DEF SentInv

\* The commits of a serial phase (run_serial_phase).
LEMMA SentSerial ==
  ASSUME TypeOK, EvidenceInv, SentInv, SerialCommit
  PROVE  SentInv'
<1> DEFINE id == Request(step, Main, ledger[Main].counts.attempts)
<1>1. /\ step \in {"warmup", "sequential"} /\ sent' = sent \cup {id}
      /\ UNCHANGED <<step, evidence, counts, writer, sequence, firstError>>
      /\ \E o : ledger' = [ledger EXCEPT ![Main] = Record(@, id, o)]
  BY Zenon DEF SerialCommit, roundVars
<1>2. ledger \in [Tasks -> Ledgers] /\ Main \in Tasks /\ Main \notin Writers /\ Writers \subseteq Tasks
  BY PendingTypes, Zenon
<1>3. ledger'[Main].seen = ledger[Main].seen \cup {id} /\ \A w \in Writers : ledger'[w] = ledger[w]
  <2>1. PICK o : ledger' = [ledger EXCEPT ![Main] = Record(@, id, o)]
    BY <1>1, Zenon
  <2>2. ledger'[Main] = Record(ledger[Main], id, o) /\ \A w \in Writers : ledger'[w] = ledger[w]
    BY <1>2, <2>1, Zenon
  <2>3. ledger[Main] \in Ledgers
    BY <1>2, ZenonT(60)
  <2>4. Record(ledger[Main], id, o).seen = ledger[Main].seen \cup {id}
    BY <2>3, RecordHolds, SMTT(60)
  <2> QED BY <2>2, <2>4, Zenon
<1>4. id[1] = step /\ id[1] # "concurrent"
  BY <1>1, SMTT(60) DEF Request
<1> HIDE DEF id
<1>5. SentIn(step)' = SentIn(step) \cup {id} /\ \A phase : phase # step => SentIn(phase)' = SentIn(phase)
  BY <1>1, <1>4, Zenon DEF SentIn
<1>6. SerialSent'
  <2>1. CASE step = "warmup"
    <3>1. /\ step' = "warmup" /\ SentIn("warmup")' = SentIn("warmup") \cup {id}
          /\ SentIn("sequential")' = SentIn("sequential")
      BY <1>1, <1>5, <2>1, SMTT(60)
    <3>2. SentIn("warmup") = ledger[Main].seen /\ SentIn("sequential") = {}
      BY <2>1, Zenon DEF SentInv, SerialSent
    <3> QED BY <1>3, <3>1, <3>2 DEF SerialSent, BeforeSerial
  <2>2. CASE step = "sequential"
    <3>1. /\ step' = "sequential" /\ SentIn("sequential")' = SentIn("sequential") \cup {id}
      BY <1>1, <1>5, <2>2, SMTT(60)
    <3>2. SentIn("sequential") = ledger[Main].seen
      BY <2>2, ZenonT(60) DEF SentInv, SerialSent
    <3> QED BY <1>3, <3>1, <3>2, SMTT(60) DEF SerialSent, BeforeSerial
  <2> QED BY <1>1, <2>1, <2>2, ZenonT(60)
<1>7. WriterSent'
  <2>1. SentIn("concurrent")' = SentIn("concurrent")
    BY <1>1, <1>5, SMTT(60)
  <2>2. \A w \in Writers : /\ SentBy(w)' = SentBy(w) /\ Unanswered(w)' = Unanswered(w)
                           /\ Lost(w)' <=> Lost(w)
    BY <1>1, <1>4, Zenon DEF SentBy, Unanswered, Lost, Current
  <2>3. step' \notin InWindow
    BY <1>1, SMTT(60) DEF InWindow
  <2> QED BY <1>3, <2>1, <2>2, <2>3, Zenon DEF SentInv, WriterSent
<1>8. EveryRequestAccounted'
  <2>1. evidence[step] = "not-attempted"
    BY <1>1, SMTT(60) DEF EvidenceInv, NotYet, BeforeSpawn
  <2> QED BY <1>1, <1>5, <2>1, Zenon DEF SentInv, EveryRequestAccounted
<1> QED BY <1>6, <1>7, <1>8, Zenon DEF SentInv

\* A recorded phase brings the counts of a ledger that holds what was sent in it
\* (record_phase).
LEMMA PhaseAccounted ==
  ASSUME TypeOK, LedgerInv, EveryRequestAccounted, NEW phase \in Phases, NEW f, RecordPhase(phase, f),
         sent' = sent, f => ledger[Main].seen = SentIn(phase)
  PROVE  EveryRequestAccounted'
<1>1. /\ evidence \in [Operations -> Statuses] /\ counts \in [Phases -> RequestCounts]
      /\ Main \in Tasks /\ Phases \subseteq Operations
  BY PendingTypes, OperationNames, Zenon
<1>2. \A p : SentIn(p)' = SentIn(p)
  BY Zenon DEF SentIn
<1>3. CASE /\ f /\ counts' = [counts EXCEPT ![phase] = ledger[Main].counts]
           /\ evidence' = [evidence EXCEPT ![phase] = "fit"]
  <2>1. counts'[phase].attempts = Cardinality(SentIn(phase))
    <3>1. counts'[phase] = ledger[Main].counts
      BY <1>1, <1>3, Zenon
    <3>2. ledger[Main].counts.attempts = Cardinality(ledger[Main].seen)
      BY <1>1, Zenon DEF LedgerInv, Tallied
    <3> QED BY <1>3, <3>1, <3>2, Zenon
  <2>2. \A p \in Phases : p # phase => counts'[p] = counts[p] /\ evidence'[p] = evidence[p]
    BY <1>1, <1>3, ZenonT(60)
  <2> QED BY <1>2, <2>1, <2>2, ZenonT(60) DEF EveryRequestAccounted
<1>4. CASE counts' = counts /\ evidence' = [evidence EXCEPT ![phase] = "failed"]
  <2>1. \A p \in Phases : evidence'[p] = "fit" => evidence[p] = "fit"
    BY <1>1, <1>4, SMTT(60)
  <2> QED BY <1>2, <1>4, <2>1, Zenon DEF EveryRequestAccounted
<1> QED BY <1>3, <1>4, Zenon DEF RecordPhase, Note

\* A serial phase ends (run_serial_phase).
LEMMA SentSerialReturns ==
  ASSUME TypeOK, LedgerInv, SentInv, SerialReturns
  PROVE  SentInv'
<1>1. /\ step \in {"warmup", "sequential"}
      /\ ledger' = [ledger EXCEPT ![Main] = EmptyLedger]
      /\ UNCHANGED <<sent, writer, sequence, firstError>>
      /\ step' \in {NextStep(step), "drop-table"}
      /\ \E f : RecordPhase(step, f)
  BY Zenon DEF SerialReturns, catalogVars, RecordPhase, Goto, CleanUp
<1>2. ledger \in [Tasks -> Ledgers] /\ Main \in Tasks /\ Main \notin Writers /\ Writers \subseteq Tasks
  BY PendingTypes, Zenon
<1>3. ledger'[Main].seen = {} /\ \A w \in Writers : ledger'[w] = ledger[w]
  <2>1. ledger'[Main] = EmptyLedger /\ \A w \in Writers : ledger'[w] = ledger[w]
    BY <1>1, <1>2, Zenon
  <2>2. EmptyLedger.seen = {}
    BY DEF EmptyLedger
  <2> QED BY <2>1, <2>2, Zenon
<1>4. \A phase : SentIn(phase)' = SentIn(phase)
  BY <1>1, Zenon DEF SentIn
<1>5. SentIn(step) = ledger[Main].seen
  BY <1>1, Zenon DEF SentInv, SerialSent
<1>6. SerialSent'
  <2>1. CASE step' = "sequential"
    <3>1. step = "warmup"
      BY <1>1, <2>1, SMTT(60) DEF NextStep
    <3>2. SentIn("sequential") = {}
      BY <3>1, Zenon DEF SentInv, SerialSent
    <3> QED BY <1>3, <1>4, <2>1, <3>2, SMTT(60) DEF SerialSent, BeforeSerial
  <2>2. CASE step' \in {"spawn", "drop-table"}
    BY <1>3, <2>2, SMTT(60) DEF SerialSent, BeforeSerial
  <2> QED BY <1>1, <2>1, <2>2, SMTT(60) DEF NextStep
<1>7. WriterSent'
  <2>1. step' \notin InWindow
    BY <1>1, SMTT(60) DEF InWindow, NextStep
  <2>2. SentIn("concurrent")' = SentIn("concurrent")
    BY <1>4, Zenon
  <2>3. \A w \in Writers : /\ SentBy(w)' = SentBy(w) /\ Unanswered(w)' = Unanswered(w)
                           /\ Lost(w)' <=> Lost(w)
    BY <1>1, ZenonT(60) DEF SentBy, Unanswered, Lost, Current
  <2> QED BY <1>3, <2>1, <2>2, <2>3, Zenon DEF SentInv, WriterSent
<1>8. EveryRequestAccounted'
  <2>1. PICK f : RecordPhase(step, f)
    BY <1>1, ZenonT(60)
  <2>2. step \in Phases
    BY <1>1, SMTT(60) DEF Phases
  <2>3. EveryRequestAccounted /\ sent' = sent
    BY <1>1, ZenonT(60) DEF SentInv
  <2> QED BY <1>5, <2>1, <2>2, <2>3, PhaseAccounted, Zenon
<1> QED BY <1>6, <1>7, <1>8, Zenon DEF SentInv

\* The writers are spawned, with nothing sent in the concurrent phase's ledger yet.
LEMMA SentSpawn ==
  ASSUME TypeOK, WriterInv, SentInv, Spawn
  PROVE  SentInv'
<1>1. /\ step = "spawn" /\ step' = "barrier" /\ writer' = [w \in Writers |-> "spawned"]
      /\ UNCHANGED <<evidence, counts, ledger, sequence, firstError, sent>>
  BY Zenon DEF Spawn, Goto, catalogVars
<1>2. \A phase : SentIn(phase)' = SentIn(phase)
  BY <1>1, Zenon DEF SentIn
<1>3. SerialSent'
  BY <1>1, SMTT(60) DEF SerialSent, BeforeSerial
<1>4. WriterSent'
  <2>1. ledger[Main].seen = {}
    BY <1>1, Zenon DEF SentInv, SerialSent
  <2>2. \A w \in Writers : writer[w] = "unspawned" /\ writer'[w] = "spawned"
    BY <1>1 DEF WriterInv, BeforeSpawn
  <2>3. \A w \in Writers : /\ SentBy(w)' = SentBy(w) /\ Unanswered(w)' = Unanswered(w) /\ ~Lost(w)
    BY <1>1, <2>2, SMTT(60) DEF SentBy, Unanswered, Lost
  <2>4. Joined' = {}
    BY <2>2 DEF Joined
  <2>5. \A w \in Writers : Lost(w)' \/ SentBy(w)' = (ledger[w].seen \cup Unanswered(w))'
    BY <1>1, <2>3, Zenon DEF SentInv, WriterSent
  <2> QED BY <1>1, <1>2, <2>1, <2>4, <2>5, Zenon DEF SentInv, WriterSent
<1>5. EveryRequestAccounted'
  BY <1>1, <1>2, Zenon DEF SentInv, EveryRequestAccounted
<1> QED BY <1>3, <1>4, <1>5, Zenon DEF SentInv

\* A writer is joined: its ledger is merged, or the phase has an error.
LEMMA SentJoin ==
  ASSUME TypeOK, SentInv, NEW w \in Writers, Join(w)
  PROVE  SentInv'
<1>1. /\ step = "join" /\ writer[w] \in {"returned", "failed"}
      /\ writer' = [writer EXCEPT ![w] = "joined"]
      /\ UNCHANGED <<step, evidence, counts, sequence, sent>>
  BY Zenon DEF Join, roundVars, catalogVars
<1>2. /\ ledger \in [Tasks -> Ledgers] /\ Main \in Tasks /\ Main \notin Writers /\ Writers \subseteq Tasks
      /\ writer \in [Writers -> WriterStates] /\ ledger[Main] \in Ledgers /\ ledger[w] \in Ledgers
  BY PendingTypes, ZenonT(60)
<1>3. \/ /\ writer[w] = "returned" /\ firstError' = firstError
         /\ ledger'[Main].seen = ledger[Main].seen \cup ledger[w].seen
         /\ \A v \in Writers : ledger'[v] = ledger[v]
      \/ firstError' /\ ledger' = ledger
  <2>1. \/ /\ writer[w] = "returned" /\ firstError' = firstError
           /\ ledger' = [ledger EXCEPT ![Main] = Merge(ledger[Main], ledger[w])]
        \/ firstError' /\ ledger' = ledger
    BY ZenonT(60) DEF Join
  <2>2. Merge(ledger[Main], ledger[w]).seen = ledger[Main].seen \cup ledger[w].seen
    BY <1>2, MergeHolds
  <2>3. CASE ledger' = [ledger EXCEPT ![Main] = Merge(ledger[Main], ledger[w])]
    <3>1. /\ ledger'[Main] = Merge(ledger[Main], ledger[w])
          /\ \A v \in Writers : ledger'[v] = ledger[v]
      BY <1>2, <2>3, Zenon
    <3> QED BY <2>1, <2>2, <3>1, ZenonT(60)
  <2> QED BY <2>1, <2>3, Zenon
<1>4. \A phase : SentIn(phase)' = SentIn(phase)
  BY <1>1, Zenon DEF SentIn
<1>5. SerialSent'
  BY <1>1 DEF SerialSent, BeforeSerial
<1>6. WriterSent'
  <2>1. writer'[w] = "joined" /\ \A v \in Writers : v # w => writer'[v] = writer[v]
    BY <1>1, <1>2, Zenon
  <2>2. Joined' = Joined \cup {w}
    BY <2>1, Zenon DEF Joined
  <2>3. \A v \in Writers : ledger'[v] = ledger[v]
    BY <1>3, Zenon
  <2>4. ASSUME NEW v \in Writers
        PROVE  Lost(v)' \/ SentBy(v)' = (ledger[v].seen \cup Unanswered(v))'
    <3>1. SentBy(v)' = SentBy(v)
      BY <1>1, Zenon DEF SentBy
    <3>2. CASE v # w
      <4>1. writer'[v] = writer[v] /\ Unanswered(v)' = Unanswered(v)
        BY <1>1, <2>1, <3>2, Zenon DEF Unanswered, Current
      <4>2. Lost(v) => Lost(v)'
        BY <1>3, <4>1, Zenon DEF Lost
      <4> QED BY <2>3, <3>1, <4>1, <4>2, ZenonT(60) DEF SentInv, WriterSent
    <3>3. CASE v = w /\ firstError'
      BY <2>1, <3>3, Zenon DEF Lost
    <3>4. CASE v = w /\ ~firstError'
      <4>1. writer[w] = "returned"
        BY <1>3, <3>4, Zenon
      <4>2. ~Lost(w) /\ Unanswered(w) = {} /\ Unanswered(w)' = {}
        BY <2>1, <4>1, ZenonT(60) DEF Lost, Unanswered
      <4> QED BY <2>3, <3>1, <3>4, <4>2, ZenonT(60) DEF SentInv, WriterSent
    <3> QED BY <3>2, <3>3, <3>4, ZenonT(60)
  <2>5. ASSUME ~firstError'
        PROVE  /\ \A v \in Joined' : ledger'[v].seen \subseteq ledger'[Main].seen
               /\ \A id \in ledger'[Main].seen : \E v \in Joined' : id \in ledger'[v].seen
    <3>1. ~firstError /\ ledger'[Main].seen = ledger[Main].seen \cup ledger[w].seen
      BY <1>3, <2>5, SMTT(60)
    <3>2. step \in InWindow
      BY <1>1, SMTT(60) DEF InWindow
    <3>3. /\ \A v \in Joined : ledger[v].seen \subseteq ledger[Main].seen
          /\ \A id \in ledger[Main].seen : \E v \in Joined : id \in ledger[v].seen
      BY <3>1, <3>2, Zenon DEF SentInv, WriterSent
    <3>4. Joined \subseteq Writers
      BY Zenon DEF Joined
    <3> QED BY <2>2, <2>3, <3>1, <3>3, <3>4, Zenon
  <2>6. \A id \in SentIn("concurrent")' : id[2] \in Writers
    BY <1>4, ZenonT(60) DEF SentInv, WriterSent
  <2> QED BY <2>4, <2>5, <2>6, ZenonT(60) DEF WriterSent
<1>7. EveryRequestAccounted'
  BY <1>1, <1>4, ZenonT(60) DEF SentInv, EveryRequestAccounted
<1> QED BY <1>5, <1>6, <1>7, ZenonT(60) DEF SentInv

\* The concurrent phase returns once all writers are joined: without an error its
\* ledger holds exactly what the writers sent.
LEMMA SentConcurrentReturns ==
  ASSUME TypeOK, LedgerInv, SentInv, ConcurrentReturns
  PROVE  SentInv'
<1>1. /\ step = "join" /\ AllJoined /\ RecordPhase("concurrent", ~firstError)
      /\ UNCHANGED <<sent, writer, sequence, firstError, ledger>>
      /\ step' \in {"load-table", "drop-table"}
  BY SMTT(60) DEF ConcurrentReturns, phaseVars, catalogVars, RecordPhase, Goto, CleanUp, NextStep
<1>2. \A phase : SentIn(phase)' = SentIn(phase)
  BY <1>1, Zenon DEF SentIn
<1>3. SerialSent'
  BY <1>1, SMTT(60) DEF SerialSent, BeforeSerial
<1>4. WriterSent'
  <2>1. step' \notin InWindow
    BY <1>1, SMTT(60) DEF InWindow
  <2>2. SentIn("concurrent")' = SentIn("concurrent")
    BY <1>2, Zenon
  <2>3. \A w \in Writers : /\ SentBy(w)' = SentBy(w) /\ Unanswered(w)' = Unanswered(w)
                           /\ Lost(w)' <=> Lost(w)
    BY <1>1, Zenon DEF SentBy, Unanswered, Lost, Current
  <2> QED BY <1>1, <2>1, <2>2, <2>3, Zenon DEF SentInv, WriterSent
<1>5. ~firstError => ledger[Main].seen = SentIn("concurrent")
  <2> SUFFICES ASSUME ~firstError PROVE ledger[Main].seen = SentIn("concurrent")
    OBVIOUS
  <2>1. \A w \in Writers : w \in Joined /\ ~Lost(w) /\ Unanswered(w) = {}
    BY <1>1, Zenon DEF AllJoined, Joined, Lost, Unanswered
  <2>2. \A w \in Writers : SentBy(w) = ledger[w].seen
    BY <2>1, Zenon DEF SentInv, WriterSent
  <2>3. step \in InWindow
    BY <1>1, SMTT(60) DEF InWindow
  <2>4. /\ \A w \in Joined : ledger[w].seen \subseteq ledger[Main].seen
        /\ \A id \in ledger[Main].seen : \E w \in Joined : id \in ledger[w].seen
    BY <2>3, Zenon DEF SentInv, WriterSent
  <2>5. ASSUME NEW id \in SentIn("concurrent") PROVE id \in ledger[Main].seen
    <3>1. id[2] \in Writers
      BY Zenon DEF SentInv, WriterSent
    <3>2. id \in SentBy(id[2])
      BY Zenon DEF SentIn, SentBy
    <3> QED BY <2>1, <2>2, <2>4, <3>1, <3>2, Zenon
  <2>6. ASSUME NEW id \in ledger[Main].seen PROVE id \in SentIn("concurrent")
    <3>1. PICK w \in Joined : id \in ledger[w].seen
      BY <2>4, Zenon
    <3>2. id \in SentBy(w)
      BY <2>2, <3>1, Zenon DEF Joined
    <3> QED BY <3>2, Zenon DEF SentIn, SentBy
  <2> QED BY <2>5, <2>6, Zenon
<1>6. EveryRequestAccounted'
  <2>1. "concurrent" \in Phases
    BY DEF Phases
  <2>2. EveryRequestAccounted /\ sent' = sent
    BY <1>1, Zenon DEF SentInv
  <2> QED BY <1>1, <1>5, <2>1, <2>2, PhaseAccounted, Zenon
<1> QED BY <1>3, <1>4, <1>6, Zenon DEF SentInv

\* A writer that has its deadline is in the window.
LEMMA ActiveInWindow ==
  ASSUME TypeOK, WriterInv, NEW w \in Writers, writer[w] \in {"loop", "in-flight"}
  PROVE  step \in InWindow
<1>1. step \in Steps
  BY PendingTypes, Zenon
<1>2. step \notin BeforeSpawn /\ step \notin AfterJoin
  BY DEF WriterInv
<1> QED BY <1>1, <1>2 DEF Steps, BeforeSpawn, AfterJoin, InWindow

\* A writer sends a commit (concurrent_writer): it is unanswered, and on no ledger yet.
LEMMA SentSends ==
  ASSUME TypeOK, WriterInv, EvidenceInv, SentInv, NEW w \in Writers, WriterSends(w)
  PROVE  SentInv'
<1>1. /\ writer[w] = "loop" /\ writer' = [writer EXCEPT ![w] = "in-flight"]
      /\ sent' = sent \cup {Current(w)}
      /\ UNCHANGED <<step, evidence, counts, ledger, sequence, firstError>>
  BY Zenon DEF WriterSends, roundVars, Current
<1>2. step \in InWindow
  BY <1>1, ActiveInWindow, Zenon
<1>3. Current(w)[1] = "concurrent" /\ Current(w)[2] = w
  BY DEF Current, Request
<1>4. writer'[w] = "in-flight" /\ \A v \in Writers : v # w => writer'[v] = writer[v]
  <2>1. writer \in [Writers -> WriterStates]
    BY PendingTypes, Zenon
  <2> QED BY <1>1, <2>1, Zenon
<1>5. /\ SentIn("concurrent")' = SentIn("concurrent") \cup {Current(w)}
      /\ \A phase : phase # "concurrent" => SentIn(phase)' = SentIn(phase)
  BY <1>1, <1>3, Zenon DEF SentIn
<1>6. SerialSent'
  <2>1. step' \notin BeforeSerial \cup {"spawn", "warmup", "sequential"}
    BY <1>1, <1>2, SMTT(60) DEF InWindow, BeforeSerial
  <2> QED BY <2>1, Zenon DEF SerialSent
<1>7. WriterSent'
  <2>1. Joined' = Joined
    BY <1>1, <1>4, Zenon DEF Joined
  <2>2. ASSUME NEW v \in Writers
        PROVE  Lost(v)' \/ SentBy(v)' = (ledger[v].seen \cup Unanswered(v))'
    <3>1. CASE v # w
      <4>1. /\ SentBy(v)' = SentBy(v) /\ Unanswered(v)' = Unanswered(v) /\ (Lost(v)' <=> Lost(v))
        BY <1>1, <1>3, <1>4, <3>1, Zenon DEF SentBy, Unanswered, Lost, Current
      <4> QED BY <1>1, <4>1, ZenonT(60) DEF SentInv, WriterSent
    <3>2. CASE v = w
      <4>1. /\ SentBy(w)' = SentBy(w) \cup {Current(w)}
        BY <1>1, <1>3, Zenon DEF SentBy
      <4>2. Unanswered(w) = {} /\ ~Lost(w)
        BY <1>1, Zenon DEF Unanswered, Lost
      <4>3. Unanswered(w)' = {Current(w)}
        BY <1>1, <1>4, Zenon DEF Unanswered, Current
      <4>4. SentBy(w) = ledger[w].seen
        BY <4>2, Zenon DEF SentInv, WriterSent
      <4> QED BY <1>1, <3>2, <4>1, <4>3, <4>4, ZenonT(60)
    <3> QED BY <3>1, <3>2, Zenon
  <2>3. \A id \in SentIn("concurrent")' : id[2] \in Writers
    BY <1>3, <1>5, Zenon DEF SentInv, WriterSent
  <2> QED BY <1>1, <2>1, <2>2, <2>3, Zenon DEF SentInv, WriterSent
<1>8. EveryRequestAccounted'
  <2>1. evidence["concurrent"] = "not-attempted"
    BY <1>2, Zenon DEF EvidenceInv, NotYet
  <2>2. evidence["concurrent"] # "fit"
    BY <2>1, SMTT(60)
  <2> QED BY <1>1, <1>5, <2>2, Zenon DEF SentInv, EveryRequestAccounted
<1> QED BY <1>6, <1>7, <1>8, Zenon DEF SentInv

\* What recording an answer changes: nothing but the writer's state, or also its
\* ledger, which now holds the request that was in flight.
Records(w, outcome) ==
  /\ ledger' = [ledger EXCEPT ![w] = Record(ledger[w], Current(w), outcome)]
  /\ writer' = [writer EXCEPT ![w] = "loop"]
  /\ sequence' = [sequence EXCEPT ![w] = @ + 1]
  /\ UNCHANGED <<step, evidence, counts, accepted, firstError, sent, request>>

\* An answer is recorded in the ledger of the writer, unless the identity has been
\* recorded before; then the writer fails (record).
LEMMA RecordingSteps ==
  ASSUME TypeOK, NEW w \in Writers, WriterAnswered(w) \/ WriterErrs(w)
  PROVE  /\ writer[w] = "in-flight"
         /\ \/ Moves(w)
            \/ \E outcome \in {request[w].reply, "error"} : Records(w, outcome)
<1>1. /\ writer[w] = "in-flight"
      /\ \E outcome \in {request[w].reply, "error"} : Recorded(w, outcome)
  BY Zenon DEF WriterAnswered, WriterErrs
<1>2. PICK outcome \in {request[w].reply, "error"} : Recorded(w, outcome)
  BY <1>1, Zenon
<1>3. CASE Duplicate(ledger[w], Current(w))
  <2>1. /\ writer' = [writer EXCEPT ![w] = "failed"]
        /\ UNCHANGED <<ledger, sequence, step, evidence, counts, accepted, firstError, sent, request>>
    BY <1>2, <1>3, Zenon DEF Recorded, roundVars
  <2>2. writer \in [Writers -> WriterStates]
    BY PendingTypes, ZenonT(60)
  <2>3. writer'[w] = "failed" /\ \A v \in Writers : v # w => writer'[v] = writer[v]
    BY <2>1, <2>2, Zenon
  <2>4. Moves(w)
    BY <1>1, <2>1, <2>3, SMTT(60) DEF Moves
  <2> QED BY <1>1, <2>4, ZenonT(60)
<1>4. CASE ~Duplicate(ledger[w], Current(w))
  <2>1. Records(w, outcome)
    BY <1>2, <1>4, ZenonT(60) DEF Recorded, roundVars, Records
  <2> QED BY <1>1, <2>1, Zenon
<1> QED BY <1>3, <1>4, Zenon

\* A writer records the outcome of its request: what was unanswered is on its ledger.
LEMMA SentRecords ==
  ASSUME TypeOK, SentInv, NEW w \in Writers, NEW outcome, writer[w] = "in-flight", Records(w, outcome)
  PROVE  SentInv'
<1>1. /\ ledger \in [Tasks -> Ledgers] /\ Main \notin Writers /\ Main \in Tasks /\ w \in Tasks
      /\ Writers \subseteq Tasks /\ writer \in [Writers -> WriterStates] /\ sequence \in [Writers -> Nat]
  BY PendingTypes, Zenon DEF TypeOK, PhaseTypeOK
<1>2. /\ ledger'[w] = Record(ledger[w], Current(w), outcome)
      /\ ledger'[Main] = ledger[Main]
      /\ \A v \in Writers : v # w => ledger'[v] = ledger[v]
  BY <1>1, Zenon DEF Records
<1>3. ledger'[w].seen = ledger[w].seen \cup {Current(w)}
  <2>1. ledger[w] \in Ledgers
    BY <1>1, Zenon
  <2>2. Record(ledger[w], Current(w), outcome).seen = ledger[w].seen \cup {Current(w)}
    BY <2>1, RecordHolds, SMTT(60)
  <2> QED BY <1>2, <2>2, ZenonT(60)
<1>4. /\ writer'[w] = "loop"
      /\ \A v \in Writers : v # w => writer'[v] = writer[v] /\ sequence'[v] = sequence[v]
  BY <1>1, Zenon DEF Records
<1>5. UNCHANGED <<step, evidence, counts, firstError, sent>>
  BY Zenon DEF Records
<1>6. \A phase : SentIn(phase)' = SentIn(phase)
  BY <1>5, Zenon DEF SentIn
<1>7. SerialSent'
  BY <1>2, <1>5, <1>6, ZenonT(60) DEF SentInv, SerialSent
<1>8. WriterSent'
  <2>1. Joined' = Joined /\ \A v \in Joined : v # w /\ v \in Writers
    BY <1>4, ZenonT(60) DEF Joined
  <2>2. ASSUME NEW v \in Writers
        PROVE  Lost(v)' \/ SentBy(v)' = (ledger[v].seen \cup Unanswered(v))'
    <3>1. SentBy(v)' = SentBy(v)
      BY <1>5, ZenonT(60) DEF SentBy
    <3>2. CASE v # w
      <4>1. Unanswered(v)' = Unanswered(v) /\ (Lost(v)' <=> Lost(v)) /\ ledger'[v] = ledger[v]
        BY <1>2, <1>4, <1>5, <3>2, ZenonT(60) DEF Unanswered, Lost, Current
      <4> QED BY <3>1, <4>1, Zenon DEF SentInv, WriterSent
    <3>3. CASE v = w
      <4>1. Unanswered(w) = {Current(w)} /\ ~Lost(w)
        BY Zenon DEF Unanswered, Lost
      <4>2. Unanswered(w)' = {}
        BY <1>4, Zenon DEF Unanswered
      <4>3. SentBy(w) = ledger[w].seen \cup {Current(w)}
        BY <4>1, ZenonT(60) DEF SentInv, WriterSent
      <4> QED BY <1>3, <3>1, <3>3, <4>2, <4>3, Zenon
    <3> QED BY <3>2, <3>3, Zenon
  <2>3. ASSUME step' \in InWindow /\ ~firstError'
        PROVE  /\ \A v \in Joined' : ledger'[v].seen \subseteq ledger'[Main].seen
               /\ \A id \in ledger'[Main].seen : \E v \in Joined' : id \in ledger'[v].seen
    <3>1. step \in InWindow /\ ~firstError
      BY <1>5, <2>3, SMTT(60)
    <3>2. \A v \in Joined : ledger'[v] = ledger[v]
      BY <1>2, <2>1, Zenon
    <3>3. /\ \A v \in Joined : ledger[v].seen \subseteq ledger[Main].seen
          /\ \A id \in ledger[Main].seen : \E v \in Joined : id \in ledger[v].seen
      BY <3>1, Zenon DEF SentInv, WriterSent
    <3> QED BY <1>2, <2>1, <3>2, <3>3, Zenon
  <2>4. \A id \in SentIn("concurrent")' : id[2] \in Writers
    BY <1>6, Zenon DEF SentInv, WriterSent
  <2> QED BY <2>2, <2>3, <2>4, Zenon DEF WriterSent
<1>9. EveryRequestAccounted'
  BY <1>5, <1>6, ZenonT(60) DEF SentInv, EveryRequestAccounted
<1> QED BY <1>7, <1>8, <1>9, Zenon DEF SentInv

\* Every step keeps the account of the requests sent (RequestLedger, record_phase and
\* the join loop of run_concurrent_phase).
LEMMA SentInvNext ==
  TypeOK /\ WriterInv /\ EvidenceInv /\ LedgerInv /\ SentInv /\ [Next]_vars => SentInv'
<1> SUFFICES ASSUME TypeOK, WriterInv, EvidenceInv, LedgerInv, SentInv, [Next]_vars PROVE SentInv'
  BY ZenonT(60)
<1>1. CASE \/ MainOutside \/ MainArrives \/ SendWindow \/ DropSender \/ Expire
           \/ (\E w \in Writers : CatalogCommits(w)) \/ (\E call \in pending : CatalogLate(call))
           \/ Finished \/ UNCHANGED vars
  <2>1. Quiet
    BY <1>1, QuietSteps, ZenonT(60)
  <2> QED BY <2>1, SentQuiet, ZenonT(60)
<1>2. ASSUME NEW w \in Writers,
             WriterArrives(w) \/ WriterPasses(w) \/ WriterStarts(w) \/ WriterStops(w) \/ WriterPanics(w)
      PROVE  SentInv'
  <2>1. Moves(w)
    BY <1>2, MovingSteps, ZenonT(60)
  <2> QED BY <2>1, SentMoves, Zenon
<1>3. ASSUME NEW w \in Writers, WriterAnswered(w) \/ WriterErrs(w)
      PROVE  SentInv'
  <2>1. writer[w] = "in-flight" /\ (Moves(w) \/ \E outcome : Records(w, outcome))
    BY <1>3, RecordingSteps, ZenonT(60)
  <2>2. CASE Moves(w)
    BY <2>2, SentMoves, Zenon
  <2>3. CASE \E outcome : Records(w, outcome)
    BY <2>1, <2>3, SentRecords, ZenonT(60)
  <2> QED BY <2>1, <2>2, <2>3, Zenon
<1>4. ASSUME NEW w \in Writers, WriterSends(w) PROVE SentInv'
  BY <1>4, SentSends, Zenon
<1>5. ASSUME NEW w \in Writers, Join(w) PROVE SentInv'
  BY <1>5, SentJoin, ZenonT(60)
<1>6. CASE SerialCommit
  BY <1>6, SentSerial, Zenon
<1>7. CASE SerialReturns
  BY <1>7, SentSerialReturns, ZenonT(60)
<1>8. CASE Spawn
  BY <1>8, SentSpawn, Zenon
<1>9. CASE ConcurrentReturns
  BY <1>9, SentConcurrentReturns, Zenon
<1> QED BY <1>1, <1>2, <1>3, <1>4, <1>5, <1>6, <1>7, <1>8, <1>9, Zenon
        DEF Next, MainStep, WriterStep, MainOutside

----------------------------------------------------------------------------
(* The accepted requests of a round *)

\* The accepted requests stay as they are while no phase is recorded.
LEMMA AcceptedKept ==
  ASSUME AcceptedInv, counts' = counts, accepted' = accepted,
         \A phase \in Phases : evidence'[phase] = evidence[phase]
  PROVE  AcceptedInv'
BY ZenonT(60) DEF AcceptedInv, TotalAccepted

\* A recorded phase adds its accepted requests and their number (record_phase,
\* AcceptedRequests::try_extend).
LEMMA PhaseAccepted ==
  ASSUME TypeOK, LedgerInv, AcceptedInv, NEW phase \in Phases, NEW f, RecordPhase(phase, f),
         evidence[phase] = "not-attempted"
  PROVE  AcceptedInv'
<1>1. /\ evidence \in [Operations -> Statuses] /\ counts \in [Phases -> RequestCounts]
      /\ Main \in Tasks /\ Phases \subseteq Operations
  BY PendingTypes, OperationNames, ZenonT(60)
<1>2. CASE /\ Disjoint(accepted, ledger[Main].acceptedRequests)
           /\ accepted' = accepted \cup ledger[Main].acceptedRequests
           /\ counts' = [counts EXCEPT ![phase] = ledger[Main].counts]
           /\ evidence' = [evidence EXCEPT ![phase] = "fit"]
  <2> DEFINE a == ledger[Main].acceptedRequests
  <2>1. IsFiniteSet(a) /\ ledger[Main].counts.accepted = Cardinality(a)
    BY <1>1, Zenon DEF LedgerInv, Tallied
  <2>2. /\ IsFiniteSet(accepted) /\ Cardinality(accepted) = TotalAccepted(counts)
        /\ counts[phase] = Counts(0, 0, 0, 0)
    BY Zenon DEF AcceptedInv
  <2>3. IsFiniteSet(accepted') /\ Cardinality(accepted') = Cardinality(accepted) + Cardinality(a)
    BY <1>2, <2>1, <2>2, DisjointUnion, ZenonT(60)
  <2>4. TotalAccepted(counts') = TotalAccepted(counts) + ledger[Main].counts.accepted
    <3>1. counts[phase].accepted = 0
      BY <2>2, SMTT(60) DEF Counts
    <3>2. counts'[phase] = ledger[Main].counts /\ \A p \in Phases : p # phase => counts'[p] = counts[p]
      BY <1>1, <1>2, Zenon
    <3>3. \A p \in Phases : counts[p].accepted \in Nat
      BY <1>1, ZenonT(60) DEF RequestCounts
    <3>4. ledger[Main].counts.accepted \in Nat
      BY <2>1, FS_CardinalityType, Zenon
    <3>5. phase = "warmup" \/ phase = "sequential" \/ phase = "concurrent"
      BY SMTT(60) DEF Phases
    <3> QED BY <3>1, <3>2, <3>3, <3>4, <3>5 DEF TotalAccepted, Phases
  <2>5. \A p \in Phases : evidence'[p] # "fit" => evidence[p] # "fit" /\ counts'[p] = counts[p]
    BY <1>1, <1>2, Zenon
  <2> QED BY <2>1, <2>2, <2>3, <2>4, <2>5, Zenon DEF AcceptedInv
<1>3. CASE /\ accepted' = accepted /\ counts' = counts
           /\ evidence' = [evidence EXCEPT ![phase] = "failed"]
  <2>1. \A p \in Phases : evidence'[p] # "fit" => evidence[p] # "fit"
    BY <1>1, <1>3
  <2> QED BY <1>3, <2>1, Zenon DEF AcceptedInv, TotalAccepted
<1> QED BY <1>2, <1>3, Zenon DEF RecordPhase, Note

\* Every step keeps the accepted requests and their total in agreement.
LEMMA AcceptedInvNext ==
  TypeOK /\ EvidenceInv /\ LedgerInv /\ AcceptedInv /\ [Next]_vars => AcceptedInv'
<1> SUFFICES ASSUME TypeOK, EvidenceInv, LedgerInv, AcceptedInv, [Next]_vars PROVE AcceptedInv'
  BY Zenon
<1>1. CASE \/ MainOutside \/ MainArrives \/ SendWindow \/ DropSender \/ Expire
           \/ (\E w \in Writers : CatalogCommits(w)) \/ (\E call \in pending : CatalogLate(call))
           \/ Finished \/ UNCHANGED vars
  <2>1. Quiet
    BY <1>1, QuietSteps, ZenonT(60)
  <2> QED BY <2>1, AcceptedKept, Zenon DEF Quiet
<1>2. ASSUME NEW w \in Writers, WriterStep(w)
      PROVE  AcceptedInv'
  <2>1. UNCHANGED <<counts, accepted, evidence>>
    BY <1>2, Zenon DEF WriterStep, WriterArrives, WriterPasses, WriterStarts, WriterSends, WriterStops,
                       WriterAnswered, WriterErrs, WriterPanics, Recorded, roundVars
  <2> QED BY <2>1, AcceptedKept, Zenon
<1>3. ASSUME SerialCommit \/ Spawn \/ \E w \in Writers : Join(w)
      PROVE  AcceptedInv'
  <2>1. UNCHANGED <<counts, accepted, evidence>>
    BY <1>3, Zenon DEF SerialCommit, Spawn, Join, roundVars
  <2> QED BY <2>1, AcceptedKept, Zenon
<1>4. CASE SerialReturns
  <2>1. step \in {"warmup", "sequential"} /\ \E f : RecordPhase(step, f)
    BY <1>4, Zenon DEF SerialReturns
  <2>2. step \in Phases /\ evidence[step] = "not-attempted"
    BY <2>1 DEF EvidenceInv, NotYet, BeforeSpawn, Phases
  <2> QED BY <2>1, <2>2, PhaseAccepted, Zenon
<1>5. CASE ConcurrentReturns
  <2>1. "concurrent" \in Phases /\ evidence["concurrent"] = "not-attempted"
    BY <1>5 DEF ConcurrentReturns, EvidenceInv, NotYet, InWindow, Phases
  <2>2. RecordPhase("concurrent", ~firstError)
    BY <1>5, Zenon DEF ConcurrentReturns
  <2> QED BY <2>1, <2>2, PhaseAccepted, ZenonT(60)
<1> QED BY <1>1, <1>2, <1>3, <1>4, <1>5, ZenonT(60) DEF Next, MainStep, MainOutside

----------------------------------------------------------------------------
(* Marks stay *)

\* What the steps keep of a mark, but for the end of a phase: the evidence of the
\* phases, and the error that is still to be recorded.
LEMMA MarkKept ==
  ASSUME counts' = counts, \A phase \in Phases : evidence'[phase] = evidence[phase],
         RunningMark => RunningMark', PhaseMark \/ RunningMark
  PROVE  (PhaseMark \/ RunningMark)'
BY Zenon DEF PhaseMark, Spoiled

\* A quiet step keeps the mark of a phase that failed or had errors.
LEMMA MarkQuiet ==
  ASSUME Quiet, PhaseMark \/ RunningMark
  PROVE  (PhaseMark \/ RunningMark)'
<1>1. RunningMark => RunningMark'
  <2>1. UNCHANGED <<ledger, writer, firstError>>
    BY ZenonT(60) DEF Quiet
  <2>2. \/ step' = step
        \/ step \in InWindow \ {"join"} /\ step' \in InWindow
        \/ step \notin {"warmup", "sequential"} \cup InWindow
    BY DEF Quiet, BeforeSerial, InWindow
  <2>3. \A w \in Writers : WriterMark(w) => WriterMark(w)'
    BY <2>1, ZenonT(60) DEF WriterMark
  <2>4. CASE step' = step
    BY <2>1, <2>3, <2>4, Zenon DEF RunningMark
  <2>5. CASE step \in InWindow \ {"join"} /\ step' \in InWindow
    <3>1. step \notin {"warmup", "sequential", "join"}
      BY <2>5, SMTT(60) DEF InWindow
    <3> QED BY <2>3, <2>5, <3>1, ZenonT(60) DEF RunningMark
  <2>6. CASE step \notin {"warmup", "sequential"} \cup InWindow
    BY <2>6 DEF RunningMark, InWindow
  <2> QED BY <2>2, <2>4, <2>5, <2>6, Zenon
<1> QED BY <1>1, MarkKept, ZenonT(60) DEF Quiet

\* A writer that moves, sends or records an outcome keeps its errors and its failure.
LEMMA MarkWriter ==
  ASSUME TypeOK, WriterInv, NEW w \in Writers, WriterStep(w), PhaseMark \/ RunningMark
  PROVE  (PhaseMark \/ RunningMark)'
<1>1. CASE Moves(w)
  <2>1. \A v \in Writers : WriterMark(v) => WriterMark(v)'
    BY <1>1, Zenon DEF Moves, WriterMark
  <2>2. UNCHANGED <<step, ledger, firstError, counts, evidence>>
    BY <1>1, ZenonT(60) DEF Moves
  <2>3. RunningMark => RunningMark'
    BY <2>1, <2>2, Zenon DEF RunningMark
  <2> QED BY <2>2, <2>3, MarkKept, ZenonT(60)
<1>2. CASE WriterSends(w)
  <2>1. /\ UNCHANGED <<step, ledger, firstError, counts, evidence>>
        /\ writer[w] = "loop" /\ writer' = [writer EXCEPT ![w] = "in-flight"]
    BY <1>2, Zenon DEF WriterSends, roundVars
  <2>2. writer \in [Writers -> WriterStates]
    BY PendingTypes, ZenonT(60)
  <2>3. writer'[w] = "in-flight" /\ \A v \in Writers : v # w => writer'[v] = writer[v]
    BY <2>1, <2>2, Zenon
  <2>4. \A v \in Writers : WriterMark(v) => WriterMark(v)'
    BY <2>1, <2>3, ZenonT(60) DEF WriterMark
  <2>5. RunningMark => RunningMark'
    BY <2>1, <2>4, Zenon DEF RunningMark
  <2> QED BY <2>1, <2>5, MarkKept, ZenonT(60)
<1>3. ASSUME NEW o, writer[w] = "in-flight", Records(w, o)
      PROVE  (PhaseMark \/ RunningMark)'
  <2>1. /\ ledger \in [Tasks -> Ledgers] /\ Main \in Tasks /\ Main \notin Writers /\ Writers \subseteq Tasks
        /\ writer \in [Writers -> WriterStates] /\ ledger[w] \in Ledgers
        /\ ledger[w].counts.errors \in Nat
    BY PendingTypes, ZenonT(60)
  <2>2. /\ UNCHANGED <<step, firstError, counts, evidence>>
        /\ ledger'[w] = Record(ledger[w], Current(w), o) /\ ledger'[Main] = ledger[Main]
        /\ \A v \in Writers : v # w => ledger'[v] = ledger[v] /\ writer'[v] = writer[v]
        /\ writer'[w] = "loop"
    BY <1>3, <2>1, ZenonT(60) DEF Records
  <2>3. ledger'[w].counts.errors >= ledger[w].counts.errors /\ ledger'[w].counts.errors \in Nat
    BY <2>1, <2>2, RecordErrors, SMTT(60)
  <2>4. WriterMark(w) => WriterMark(w)'
    BY <1>3, <2>1, <2>2, <2>3, SMTT(60) DEF WriterMark
  <2>5. \A v \in Writers : WriterMark(v) => WriterMark(v)'
    BY <2>2, <2>4, Zenon DEF WriterMark
  <2>6. RunningMark => RunningMark'
    BY <2>2, <2>5, ZenonT(60) DEF RunningMark
  <2> QED BY <2>2, <2>6, MarkKept, ZenonT(60)
<1>4. \/ Moves(w) \/ WriterSends(w)
      \/ writer[w] = "in-flight" /\ \E o : Records(w, o)
  BY MovingSteps, RecordingSteps, Zenon DEF WriterStep
<1> QED BY <1>1, <1>2, <1>3, <1>4, ZenonT(60)

\* A phase that ends with an error, or cannot be recorded, is marked for good
\* (record_phase).
LEMMA MarkRecorded ==
  ASSUME TypeOK, NEW phase \in Phases, NEW b, RecordPhase(phase, b),
         evidence[phase] = "not-attempted"
  PROVE  /\ PhaseMark => PhaseMark'
         /\ ~b \/ ledger[Main].counts.errors > 0 => PhaseMark'
         /\ evidence'[phase] # "fit" => PhaseMark'
<1>1. /\ evidence \in [Operations -> Statuses] /\ counts \in [Phases -> RequestCounts]
      /\ Main \in Tasks /\ Phases \subseteq Operations
  BY PendingTypes, OperationNames, Zenon
<1>2. CASE /\ b /\ counts' = [counts EXCEPT ![phase] = ledger[Main].counts]
           /\ evidence' = [evidence EXCEPT ![phase] = "fit"]
  <2>1. /\ evidence'[phase] = "fit" /\ counts'[phase] = ledger[Main].counts
        /\ \A p \in Phases : p # phase => evidence'[p] = evidence[p] /\ counts'[p] = counts[p]
    BY <1>1, <1>2, Zenon
  <2>2. ledger[Main].counts.errors > 0 => Spoiled(phase)'
    BY <2>1, ZenonT(60) DEF Spoiled
  <2>3. ~Spoiled(phase)
    BY DEF Spoiled
  <2>4. \A p \in Phases : Spoiled(p) => Spoiled(p)'
    BY <2>1, <2>3, ZenonT(60) DEF Spoiled
  <2> QED BY <1>2, <2>1, <2>2, <2>4, ZenonT(60) DEF PhaseMark
<1>3. CASE counts' = counts /\ evidence' = [evidence EXCEPT ![phase] = "failed"]
  <2>1. evidence'[phase] = "failed"
    BY <1>1, <1>3, ZenonT(60)
  <2> QED BY <2>1, Zenon DEF PhaseMark, Spoiled
<1> QED BY <1>2, <1>3, ZenonT(60) DEF RecordPhase, Note

\* The commits and the end of a phase, seen from its mark.
LEMMA MarkMain ==
  ASSUME TypeOK, EvidenceInv, PhaseMark \/ RunningMark,
         SerialCommit \/ SerialReturns \/ Spawn \/ ConcurrentReturns \/ \E w \in Writers : Join(w)
  PROVE  (PhaseMark \/ RunningMark)'
<1>t. /\ ledger \in [Tasks -> Ledgers] /\ Main \in Tasks /\ Main \notin Writers /\ Writers \subseteq Tasks
      /\ writer \in [Writers -> WriterStates] /\ ledger[Main] \in Ledgers
      /\ \A t \in Tasks : ledger[t].counts.errors \in Nat
  BY PendingTypes, ZenonT(60)
<1>1. CASE SerialCommit
  <2>1. /\ step \in {"warmup", "sequential"} /\ UNCHANGED <<step, evidence, counts>>
        /\ \E id, o : ledger' = [ledger EXCEPT ![Main] = Record(ledger[Main], id, o)]
    BY <1>1, Zenon DEF SerialCommit, roundVars
  <2>2. PICK id, o : ledger' = [ledger EXCEPT ![Main] = Record(ledger[Main], id, o)]
    BY <2>1, Zenon
  <2>3. ledger'[Main] = Record(ledger[Main], id, o)
    BY <1>t, <2>2, ZenonT(60)
  <2>4. ledger[Main].counts.errors > 0 => ledger'[Main].counts.errors > 0
    BY <1>t, <2>3, RecordErrors, SMTT(60)
  <2>5. step \notin InWindow
    BY <2>1, SMTT(60) DEF InWindow
  <2>6. RunningMark => RunningMark'
    BY <2>1, <2>4, <2>5, SMTT(60) DEF RunningMark
  <2> QED BY <2>1, <2>6, MarkKept, Zenon
<1>2. CASE SerialReturns
  <2>1. step \in {"warmup", "sequential"} /\ \E b : RecordPhase(step, b)
    BY <1>2, Zenon DEF SerialReturns
  <2>2. step \in Phases /\ evidence[step] = "not-attempted" /\ step \notin InWindow
    BY <2>1, SMTT(60) DEF EvidenceInv, NotYet, BeforeSpawn, InWindow, Phases
  <2>3. RunningMark => ledger[Main].counts.errors > 0
    BY <2>1, <2>2 DEF RunningMark
  <2> QED BY <2>1, <2>2, <2>3, MarkRecorded, ZenonT(60)
<1>3. CASE Spawn
  <2>1. step = "spawn" /\ UNCHANGED <<evidence, counts>>
    BY <1>3, Zenon DEF Spawn
  <2>2. ~RunningMark
    BY <2>1, SMTT(60) DEF RunningMark, InWindow
  <2> QED BY <2>1, <2>2, MarkKept, ZenonT(60)
<1>4. CASE ConcurrentReturns
  <2>1. /\ step = "join" /\ RecordPhase("concurrent", ~firstError)
        /\ \A w \in Writers : writer[w] = "joined"
    BY <1>4, ZenonT(60) DEF ConcurrentReturns, AllJoined
  <2>2. "concurrent" \in Phases /\ evidence["concurrent"] = "not-attempted"
    BY <2>1, SMTT(60) DEF EvidenceInv, NotYet, InWindow, Phases
  <2>3. RunningMark => firstError \/ ledger[Main].counts.errors > 0
    BY <2>1, SMTT(60) DEF RunningMark, WriterMark
  <2>4. /\ PhaseMark => PhaseMark'
        /\ ~(~firstError) \/ ledger[Main].counts.errors > 0 => PhaseMark'
    BY <2>1, <2>2, MarkRecorded, Zenon
  <2> QED BY <2>3, <2>4, Zenon
<1>5. ASSUME NEW w \in Writers, Join(w) PROVE (PhaseMark \/ RunningMark)'
  <2>1. /\ UNCHANGED <<step, evidence, counts>> /\ step = "join"
        /\ writer' = [writer EXCEPT ![w] = "joined"]
    BY <1>5, Zenon DEF Join, roundVars
  <2>2. \A v \in Writers : v # w => writer'[v] = writer[v]
    BY <1>t, <2>1, Zenon
  <2>3. step \in InWindow
    BY <2>1 DEF InWindow
  <2>4. CASE writer[w] = "returned" /\ Mergeable(ledger[Main], ledger[w])
    <3>1. firstError' = firstError /\ ledger' = [ledger EXCEPT ![Main] = Merge(ledger[Main], ledger[w])]
      BY <1>5, <2>4, Zenon DEF Join
    <3>2. /\ ledger'[Main] = Merge(ledger[Main], ledger[w])
          /\ \A v \in Writers : ledger'[v] = ledger[v]
      BY <1>t, <3>1, ZenonT(60)
    <3>3. ledger'[Main].counts.errors = ledger[Main].counts.errors + ledger[w].counts.errors
      BY <3>2, SMTT(60) DEF Merge, Counts
    <3>4. /\ ledger[w].counts.errors \in Nat /\ ledger[Main].counts.errors \in Nat
      BY <1>t, Zenon
    <3>5. ledger[Main].counts.errors > 0 \/ WriterMark(w) => ledger'[Main].counts.errors > 0
      BY <2>4, <3>3, <3>4, SMTT(60) DEF WriterMark
    <3>6. \A v \in Writers : v # w /\ WriterMark(v) => WriterMark(v)'
      BY <2>2, <3>2, Zenon DEF WriterMark
    <3>7. RunningMark => RunningMark'
      <4>1. firstError => firstError'
        BY <3>1, SMTT(60)
      <4>2. RunningMark => \/ \E v \in Writers : WriterMark(v)
                           \/ firstError \/ ledger[Main].counts.errors > 0
        BY <2>1, SMTT(60) DEF RunningMark
      <4>3. step' = "join" /\ step' \in InWindow
        BY <2>1, <2>3, SMTT(60)
      <4> QED BY <3>5, <3>6, <4>1, <4>2, <4>3, ZenonT(60) DEF RunningMark
    <3> QED BY <2>1, <3>7, MarkKept, ZenonT(60)
  <2>5. CASE ~(writer[w] = "returned" /\ Mergeable(ledger[Main], ledger[w]))
    <3>1. firstError'
      BY <1>5, <2>5, Zenon DEF Join
    <3> QED BY <2>1, <3>1, SMTT(60) DEF RunningMark
  <2> QED BY <2>4, <2>5, ZenonT(60)
<1> QED BY <1>1, <1>2, <1>3, <1>4, <1>5, Zenon

\* A mark never goes away: an error that was met stays on a ledger, then on record.
LEMMA MarkPersists ==
  ASSUME TypeOK, WriterInv, EvidenceInv, [Next]_vars, PhaseMark \/ RunningMark
  PROVE  (PhaseMark \/ RunningMark)'
<1>1. CASE \/ MainOutside \/ MainArrives \/ SendWindow \/ DropSender \/ Expire
           \/ (\E w \in Writers : CatalogCommits(w)) \/ (\E call \in pending : CatalogLate(call))
           \/ Finished \/ UNCHANGED vars
  <2>1. Quiet
    BY <1>1, QuietSteps, ZenonT(60)
  <2> QED BY <2>1, MarkQuiet, Zenon
<1>2. ASSUME NEW w \in Writers, WriterStep(w) PROVE (PhaseMark \/ RunningMark)'
  BY <1>2, MarkWriter, Zenon
<1>3. CASE \/ SerialCommit \/ SerialReturns \/ Spawn \/ ConcurrentReturns
           \/ \E w \in Writers : Join(w)
  BY <1>3, MarkMain, Zenon
<1> QED BY <1>1, <1>2, <1>3, ZenonT(60) DEF Next, MainStep, MainOutside

----------------------------------------------------------------------------
(* The commits that took effect *)

\* Nothing but a writer's own request changes what it was answered.
LEMMA CountedQuiet ==
  ASSUME TypeOK, NEW id, Counted(id),
         \/ MainOutside \/ MainArrives \/ SendWindow \/ DropSender \/ Expire
         \/ (\E w \in Writers : CatalogCommits(w)) \/ (\E call \in pending : CatalogLate(call))
         \/ Finished \/ UNCHANGED vars
  PROVE  Counted(id)'
<1>1. Quiet
  BY QuietSteps, Zenon
<1>2. \A v \in Writers : request[v].reply = "accepted" => request'[v] = request[v]
  <2>1. CASE \E w \in Writers : CatalogCommits(w)
    <3>1. PICK w \in Writers : CatalogCommits(w)
      BY <2>1, Zenon
    <3>2. request \in [Writers -> Replies]
      BY Zenon DEF TypeOK, CatalogTypeOK
    <3>3. request[w].reply = "none" /\ \A v \in Writers : v # w => request'[v] = request[v]
      BY <3>1, <3>2, Zenon DEF CatalogCommits
    <3> QED BY <3>3, Zenon
  <2>2. CASE ~\E w \in Writers : CatalogCommits(w)
    <3>1. request' = request
      BY <2>2, Zenon DEF MainOutside, Preflight, CreateNamespace, CreateTable, BaselineAudit, LoadTable,
         FinalAudit, DropTable, VerifyTable, DropNamespace, VerifyNamespace, MainArrives, SendWindow,
         DropSender, Expire, CatalogLate, Finished, vars, catalogVars
    <3> QED BY <3>1, Zenon
  <2> QED BY <2>1, <2>2, Zenon
<1>3. UNCHANGED <<ledger, writer, sequence, accepted>>
  BY <1>1, ZenonT(60) DEF Quiet
<1> QED BY <1>2, <1>3, Zenon DEF Counted, Current

\* An answer a writer has is recorded, or the writer leaves a mark.
LEMMA CountedWriter ==
  ASSUME TypeOK, WriterInv, NEW w \in Writers, WriterStep(w), NEW id, Counted(id)
  PROVE  (Counted(id) \/ PhaseMark \/ RunningMark)'
<1>t. /\ ledger \in [Tasks -> Ledgers] /\ Main \in Tasks /\ Main \notin Writers /\ Writers \subseteq Tasks
      /\ writer \in [Writers -> WriterStates] /\ ledger[w] \in Ledgers
      /\ ledger[w].counts.errors \in Nat
      /\ sequence \in [Writers -> Nat] /\ request \in [Writers -> Replies]
  BY PendingTypes, Zenon DEF TypeOK, PhaseTypeOK, CatalogTypeOK
<1>1. CASE Moves(w)
  <2>1. UNCHANGED <<ledger, request, sequence, accepted, step>>
    BY <1>1, Zenon DEF Moves
  <2>2. CASE writer[w] # "in-flight"
    <3>1. \A v \in Writers : writer[v] = "in-flight" => writer'[v] = "in-flight"
      BY <1>1, <2>2, ZenonT(60) DEF Moves
    <3> QED BY <2>1, <3>1, Zenon DEF Counted, Current
  <2>3. CASE writer[w] = "in-flight"
    <3>1. step \in InWindow
      BY <2>3, ActiveInWindow, ZenonT(60)
    <3>2. writer'[w] = "failed"
      BY <1>1, <2>3, Zenon DEF Moves
    <3>3. WriterMark(w)'
      BY <3>2, SMTT(60) DEF WriterMark
    <3> QED BY <2>1, <3>1, <3>3, Zenon DEF RunningMark
  <2> QED BY <2>2, <2>3, Zenon
<1>2. CASE WriterSends(w)
  <2>1. /\ UNCHANGED <<ledger, accepted, sequence>> /\ writer[w] = "loop"
        /\ \A v \in Writers : v # w => writer'[v] = writer[v] /\ request'[v] = request[v]
    BY <1>2, <1>t, ZenonT(60) DEF WriterSends, roundVars
  <2> QED BY <2>1, Zenon DEF Counted, Current
<1>3. ASSUME NEW o \in {request[w].reply, "error"}, writer[w] = "in-flight", Records(w, o)
      PROVE  (Counted(id) \/ PhaseMark \/ RunningMark)'
  <2>1. /\ UNCHANGED <<step, accepted, request>>
        /\ ledger'[w] = Record(ledger[w], Current(w), o) /\ writer'[w] = "loop"
        /\ \A t \in Tasks : t # w => ledger'[t] = ledger[t]
        /\ \A v \in Writers : v # w => writer'[v] = writer[v] /\ sequence'[v] = sequence[v]
    BY <1>3, <1>t, ZenonT(60) DEF Records
  <2>2. /\ ledger[w].acceptedRequests \subseteq ledger'[w].acceptedRequests
        /\ o = "accepted" => Current(w) \in ledger'[w].acceptedRequests
    BY <1>t, <2>1, RecordHolds, SMTT(60)
  <2>3. CASE id \in accepted
    BY <2>1, <2>3, Zenon DEF Counted
  <2>4. ASSUME NEW t \in Tasks, id \in ledger[t].acceptedRequests PROVE Counted(id)'
    <3>1. id \in ledger'[t].acceptedRequests
      BY <2>1, <2>2, <2>4, Zenon
    <3> QED BY <3>1, ZenonT(60) DEF Counted
  <2>5. ASSUME NEW v \in Writers, v # w, writer[v] = "in-flight", request[v].reply = "accepted",
               id = Current(v)
        PROVE  Counted(id)'
    BY <2>1, <2>5, Zenon DEF Counted, Current
  <2>6. CASE request[w].reply = "accepted" /\ id = Current(w) /\ o = "accepted"
    <3>1. id \in ledger'[w].acceptedRequests /\ w \in Tasks
      BY <1>t, <2>2, <2>6, ZenonT(60)
    <3> QED BY <3>1, Zenon DEF Counted
  <2>7. CASE o = "error"
    <3>1. ledger'[w].counts.errors > 0
      BY <1>t, <2>1, <2>7, RecordErrors, SMTT(60)
    <3>2. step \in InWindow
      BY <1>3, ActiveInWindow, Zenon
    <3>3. WriterMark(w)'
      BY <2>1, <3>1, SMTT(60) DEF WriterMark
    <3> QED BY <2>1, <3>2, <3>3, Zenon DEF RunningMark
  <2> QED BY <2>3, <2>4, <2>5, <2>6, <2>7, Zenon DEF Counted
<1>4. \/ Moves(w) \/ WriterSends(w)
      \/ writer[w] = "in-flight" /\ \E o \in {request[w].reply, "error"} : Records(w, o)
  BY MovingSteps, RecordingSteps, Zenon DEF WriterStep
<1> QED BY <1>1, <1>2, <1>3, <1>4, Zenon

\* The main task's ledger is handed over to the round's accepted requests, or the
\* phase is marked as failed.
LEMMA CountedMain ==
  ASSUME TypeOK, WriterInv, EvidenceInv, NEW id, Counted(id),
         SerialCommit \/ SerialReturns \/ Spawn \/ ConcurrentReturns \/ \E w \in Writers : Join(w)
  PROVE  (Counted(id) \/ PhaseMark \/ RunningMark)'
<1>t. /\ ledger \in [Tasks -> Ledgers] /\ Main \in Tasks /\ Main \notin Writers /\ Writers \subseteq Tasks
      /\ writer \in [Writers -> WriterStates] /\ ledger[Main] \in Ledgers
      /\ evidence \in [Operations -> Statuses] /\ Phases \subseteq Operations
  BY PendingTypes, OperationNames, Zenon
<1>g. ASSUME accepted \subseteq accepted',
             \A t \in Tasks : ledger[t].acceptedRequests \subseteq ledger'[t].acceptedRequests \cup accepted',
             UNCHANGED <<sequence, request>>,
             \A w \in Writers : writer[w] = "in-flight" => writer'[w] = "in-flight"
      PROVE  Counted(id)'
  <2>1. CASE id \in accepted
    BY <1>g, <2>1, Zenon DEF Counted
  <2>2. ASSUME NEW t \in Tasks, id \in ledger[t].acceptedRequests PROVE Counted(id)'
    <3>1. id \in ledger'[t].acceptedRequests \/ id \in accepted'
      BY <1>g, <2>2, Zenon
    <3> QED BY <3>1, Zenon DEF Counted
  <2>3. ASSUME NEW w \in Writers, writer[w] = "in-flight", request[w].reply = "accepted", id = Current(w)
        PROVE  Counted(id)'
    BY <1>g, <2>3, ZenonT(60) DEF Counted, Current
  <2> QED BY <2>1, <2>2, <2>3, ZenonT(60) DEF Counted
<1>1. CASE SerialCommit
  <2>1. /\ UNCHANGED <<accepted, writer, sequence, request>>
        /\ \E n, o : ledger' = [ledger EXCEPT ![Main] = Record(ledger[Main], n, o)]
    BY <1>1, Zenon DEF SerialCommit, roundVars
  <2>2. PICK n, o : ledger' = [ledger EXCEPT ![Main] = Record(ledger[Main], n, o)]
    BY <2>1, Zenon
  <2>3. /\ ledger'[Main] = Record(ledger[Main], n, o)
        /\ \A t \in Tasks : t # Main => ledger'[t] = ledger[t]
    BY <1>t, <2>2, ZenonT(60)
  <2>4. ledger[Main].acceptedRequests \subseteq ledger'[Main].acceptedRequests
    BY <1>t, <2>3, RecordHolds
  <2> QED BY <1>g, <2>1, <2>3, <2>4, Zenon
<1>2. CASE SerialReturns
  <2>1. /\ step \in {"warmup", "sequential"} /\ ledger' = [ledger EXCEPT ![Main] = EmptyLedger]
        /\ UNCHANGED <<writer, sequence, request>>
    BY <1>2, Zenon DEF SerialReturns, catalogVars
  <2>2. PICK b : RecordPhase(step, b)
    BY <1>2, ZenonT(60) DEF SerialReturns
  <2>3. step \in Phases /\ evidence[step] = "not-attempted"
    BY <2>1 DEF EvidenceInv, NotYet, BeforeSpawn, Phases
  <2>4. CASE accepted' = accepted \cup ledger[Main].acceptedRequests
    <3>1. \A t \in Tasks : t # Main => ledger'[t] = ledger[t]
      BY <1>t, <2>1, Zenon
    <3> QED BY <1>g, <2>1, <2>4, <3>1, ZenonT(60)
  <2>5. CASE evidence' = [evidence EXCEPT ![step] = "failed"]
    <3>1. evidence'[step] = "failed"
      BY <1>t, <2>3, <2>5, Zenon
    <3> QED BY <2>3, <3>1, ZenonT(60) DEF PhaseMark, Spoiled
  <2> QED BY <2>2, <2>4, <2>5, ZenonT(60) DEF RecordPhase, Note
<1>3. CASE Spawn
  <2>1. step = "spawn" /\ UNCHANGED <<accepted, ledger, sequence, request>>
    BY <1>3, Zenon DEF Spawn, catalogVars
  <2>2. \A w \in Writers : writer[w] # "in-flight"
    BY <2>1, SMTT(60) DEF WriterInv, BeforeSpawn
  <2> QED BY <1>g, <2>1, <2>2, ZenonT(60)
<1>4. CASE ConcurrentReturns
  <2>1. UNCHANGED <<writer, ledger, sequence, request>> /\ accepted \subseteq accepted'
    BY <1>4, ZenonT(60) DEF ConcurrentReturns, phaseVars, catalogVars, RecordPhase
  <2> QED BY <1>g, <2>1, Zenon
<1>5. ASSUME NEW w \in Writers, Join(w) PROVE Counted(id)'
  <2>1. /\ UNCHANGED <<accepted, sequence, request>> /\ writer[w] # "in-flight"
        /\ writer' = [writer EXCEPT ![w] = "joined"]
        /\ ledger' = ledger \/ ledger' = [ledger EXCEPT ![Main] = Merge(ledger[Main], ledger[w])]
    BY <1>5, Zenon DEF Join, roundVars, catalogVars
  <2>2. \A v \in Writers : writer[v] = "in-flight" => writer'[v] = "in-flight"
    BY <1>t, <2>1, Zenon
  <2>3. \A t \in Tasks : ledger[t].acceptedRequests \subseteq ledger'[t].acceptedRequests
    <3>1. Merge(ledger[Main], ledger[w]).acceptedRequests =
            ledger[Main].acceptedRequests \cup ledger[w].acceptedRequests
      BY DEF Merge
    <3>2. CASE ledger' = [ledger EXCEPT ![Main] = Merge(ledger[Main], ledger[w])]
      <4>1. /\ ledger'[Main] = Merge(ledger[Main], ledger[w])
            /\ \A t \in Tasks : t # Main => ledger'[t] = ledger[t]
        BY <1>t, <3>2, Zenon
      <4> QED BY <3>1, <4>1, ZenonT(60)
    <3> QED BY <2>1, <3>2, ZenonT(60)
  <2> QED BY <1>g, <2>1, <2>2, <2>3, Zenon
<1> QED BY <1>1, <1>2, <1>3, <1>4, <1>5, ZenonT(60)

\* A commit that took effect stays counted, or a mark says that counts may be missing.
LEMMA EffectPersists ==
  ASSUME TypeOK, WriterInv, EvidenceInv, [Next]_vars, NEW id, Counted(id) \/ PhaseMark \/ RunningMark
  PROVE  (Counted(id) \/ PhaseMark \/ RunningMark)'
<1>1. CASE PhaseMark \/ RunningMark
  BY <1>1, MarkPersists, Zenon
<1>2. CASE Counted(id)
  <2>1. CASE \/ MainOutside \/ MainArrives \/ SendWindow \/ DropSender \/ Expire
             \/ (\E w \in Writers : CatalogCommits(w)) \/ (\E call \in pending : CatalogLate(call))
             \/ Finished \/ UNCHANGED vars
    BY <1>2, <2>1, CountedQuiet, Zenon
  <2>2. ASSUME NEW w \in Writers, WriterStep(w) PROVE (Counted(id) \/ PhaseMark \/ RunningMark)'
    BY <1>2, <2>2, CountedWriter, ZenonT(60)
  <2>3. CASE \/ SerialCommit \/ SerialReturns \/ Spawn \/ ConcurrentReturns
             \/ \E w \in Writers : Join(w)
    BY <1>2, <2>3, CountedMain, Zenon
  <2> QED BY <2>1, <2>2, <2>3, ZenonT(60) DEF Next, MainStep, MainOutside
<1> QED BY <1>1, <1>2, ZenonT(60)

\* The store keeps what it holds, and gets at most the object of the mutation that was
\* executed; without orphaned objects a rejected commit leaves none.
LEMMA ExecutedObjects ==
  ASSUME NEW c \in Catalogs, NEW call \in Calls
  PROVE  /\ \A d \in Executed(c, call) :
              /\ c.objects \subseteq d.objects
              /\ \A id \in d.objects : \/ id \in c.objects
                                       \/ id = call /\ call \in Identities \cup {CreateTableCall}
         /\ \A d \in Rejecting(c, call) :
              /\ c.objects \subseteq d.objects
              /\ "orphan-object" \notin Faults => d.objects = c.objects
<1>1. \A x : [[c EXCEPT !.property = x] EXCEPT !.objects = @ \cup {x}].objects = c.objects \cup {x}
  BY DEF Catalogs
<1>2. \A x : [c EXCEPT !.property = x].objects = c.objects
  BY SMTT(60) DEF Catalogs
<1>3. ASSUME NEW d \in Executed(c, call), call = CreateTableCall
      PROVE  d.objects = c.objects \/ d.objects = c.objects \cup {call}
  <2>1. d \in CreatingTable(c)
    BY <1>3, FixtureCallsDistinct, Zenon DEF Executed
  <2>2. [c EXCEPT !.table = TRUE, !.property = NoCommit].objects = c.objects
    BY DEF Catalogs
  <2>3. [[c EXCEPT !.table = TRUE, !.property = NoCommit]
           EXCEPT !.objects = @ \cup {CreateTableCall}].objects = c.objects \cup {CreateTableCall}
    BY SMTT(60) DEF Catalogs
  <2> QED BY <1>3, <2>1, <2>2, <2>3, Zenon DEF CreatingTable
<1>4. ASSUME NEW d \in Executed(c, call), call \in FixtureCalls \ {CreateTableCall}
      PROVE  d.objects = c.objects
  BY <1>4, Zenon DEF Executed, FixtureCalls, Catalogs
<1>5. ASSUME NEW d \in Executed(c, call), call \notin FixtureCalls
      PROVE  /\ d.objects = c.objects \/ d.objects = c.objects \cup {call}
             /\ call \in Identities
  <2>1. d \in Accepting(c, call) /\ call \in Identities
    BY <1>5, Zenon DEF Executed, FixtureCalls, Calls
  <2> QED BY <1>1, <1>2, <2>1, ZenonT(60) DEF Accepting
<1>6. ASSUME NEW d \in Rejecting(c, call)
      PROVE  /\ c.objects \subseteq d.objects
             /\ "orphan-object" \notin Faults => d.objects = c.objects
  <2>1. [c EXCEPT !.objects = @ \cup {call}].objects = c.objects \cup {call}
    BY DEF Catalogs
  <2> QED BY <2>1, Zenon DEF Rejecting, Fault
<1>7. ASSUME NEW d \in Executed(c, call)
      PROVE  /\ c.objects \subseteq d.objects
             /\ \A id \in d.objects : \/ id \in c.objects
                                      \/ id = call /\ call \in Identities \cup {CreateTableCall}
  <2>1. \/ d.objects = c.objects
        \/ d.objects = c.objects \cup {call} /\ call \in Identities \cup {CreateTableCall}
    BY <1>3, <1>4, <1>5
  <2> QED BY <2>1, ZenonT(60)
<1> QED BY <1>6, <1>7, Zenon

\* What one step adds to the store: the object of a mutation the main task sent, of a
\* writer's request, or of a request that was given up.
LEMMA StoreSteps ==
  ASSUME TypeOK, [Next]_vars
  PROVE  /\ cat.objects \subseteq cat'.objects
         /\ "orphan-object" \notin Faults =>
              \A id \in cat'.objects :
                \/ id \in cat.objects \/ id = CreateTableCall
                \/ SerialCommit /\ id = Request(step, Main, ledger[Main].counts.attempts)
                \/ \E w \in Writers : CatalogCommits(w) /\ id = Current(w)
                                      /\ request'[w].reply = "accepted"
                \/ \E call \in pending : CatalogLate(call) /\ id = call /\ call \in Identities
<1>t. cat \in Catalogs /\ pending \subseteq Calls /\ request \in [Writers -> Replies]
  BY Zenon DEF TypeOK, CatalogTypeOK
<1>f. FixtureCalls \subseteq Calls /\ Identities \subseteq Calls /\ FixtureCalls \cap Identities = {}
  BY RequestTypes, FixtureCallsDistinct, Zenon
<1>c. ASSUME NEW call \in Calls, CallSucceeds(call) \/ CallFails(call)
      PROVE  /\ cat.objects \subseteq cat'.objects
             /\ \A id \in cat'.objects :
                  id \in cat.objects \/ (id = call /\ call \in Identities \cup {CreateTableCall})
  <2>1. cat' = cat \/ cat' \in Executed(cat, call)
    BY <1>c, Zenon DEF CallSucceeds, CallFails
  <2> QED BY <1>t, <2>1, ExecutedObjects, Zenon
<1>1. CASE CreateNamespace \/ CreateTable \/ DropTable \/ DropNamespace
  <2>1. PICK call \in FixtureCalls : CallSucceeds(call) \/ CallFails(call)
    BY <1>1, Zenon DEF CreateNamespace, CreateTable, DropTable, DropNamespace, FixtureCalls
  <2>2. call \in Calls /\ call \notin Identities
    BY <1>f, <2>1, ZenonT(60)
  <2>3. /\ cat.objects \subseteq cat'.objects
        /\ \A id \in cat'.objects : id \in cat.objects \/ id = CreateTableCall
    BY <1>c, <2>1, <2>2, Zenon
  <2> QED BY <2>3, Zenon
<1>2. CASE SerialCommit
  <2> DEFINE n == Request(step, Main, ledger[Main].counts.attempts)
  <2>1. n \in Calls
    BY <1>2, <1>f, RequestIdentity, Zenon DEF SerialCommit
  <2>2. CallSucceeds(n) \/ CallFails(n) \/ cat' \in Rejecting(cat, n)
    BY <1>2, ZenonT(60) DEF SerialCommit
  <2> HIDE DEF n
  <2>3. CASE cat' \in Rejecting(cat, n)
    BY <1>t, <2>1, <2>3, ExecutedObjects, Zenon
  <2>4. CASE CallSucceeds(n) \/ CallFails(n)
    <3>1. /\ cat.objects \subseteq cat'.objects
          /\ \A id \in cat'.objects : id \in cat.objects \/ id = n
      BY <1>c, <2>1, <2>4, Zenon
    <3> QED BY <1>2, <2>4, <3>1, ZenonT(60) DEF n
  <2> QED BY <2>2, <2>3, <2>4, ZenonT(60)
<1>3. ASSUME NEW w \in Writers, CatalogCommits(w)
      PROVE  /\ cat.objects \subseteq cat'.objects
             /\ "orphan-object" \notin Faults =>
                  \A id \in cat'.objects :
                    id \in cat.objects \/ (id = Current(w) /\ request'[w].reply = "accepted")
  <2>1. Current(w) \in Identities /\ Current(w) \in Calls /\ Current(w) \notin FixtureCalls
    BY <1>f, RequestIdentity, Zenon
  <2>2. CASE cat' \in Rejecting(cat, Current(w))
    BY <1>t, <2>1, <2>2, ExecutedObjects, ZenonT(60)
  <2>3. CASE /\ cat' \in Accepting(cat, Current(w))
             /\ request' = [request EXCEPT ![w].reply = "accepted"]
    <3>1. request'[w].reply = "accepted"
      BY <1>t, <2>3, SMTT(60) DEF Replies
    <3>2. cat' \in Executed(cat, Current(w))
      BY <2>1, <2>3, Zenon DEF Executed, FixtureCalls
    <3>3. /\ cat.objects \subseteq cat'.objects
          /\ \A id \in cat'.objects : id \in cat.objects \/ id = Current(w)
      BY <1>t, <2>1, <3>2, ExecutedObjects, SMTT(60)
    <3> QED BY <3>1, <3>3, Zenon
  <2> QED BY <1>3, <2>2, <2>3, ZenonT(60) DEF CatalogCommits
<1>4. ASSUME NEW call \in pending, CatalogLate(call)
      PROVE  /\ cat.objects \subseteq cat'.objects
             /\ \A id \in cat'.objects :
                  id \in cat.objects \/ (id = call /\ call \in Identities \cup {CreateTableCall})
  <2>1. cat' = cat \/ cat' \in Executed(cat, call)
    BY <1>4, Zenon DEF CatalogLate
  <2>2. call \in Calls
    BY <1>t, Zenon
  <2> QED BY <1>t, <2>1, <2>2, ExecutedObjects, Zenon
<1>5. CASE \/ Preflight \/ BaselineAudit \/ LoadTable \/ FinalAudit \/ VerifyTable \/ VerifyNamespace
           \/ SerialReturns \/ Spawn \/ MainArrives \/ SendWindow \/ DropSender \/ ConcurrentReturns
           \/ (\E w \in Writers : Join(w)) \/ Expire \/ Finished \/ UNCHANGED vars
  <2>1. cat' = cat
    BY <1>5, Zenon DEF Preflight, BaselineAudit, LoadTable, FinalAudit, VerifyTable, VerifyNamespace,
       SerialReturns, Spawn, MainArrives, SendWindow, DropSender, ConcurrentReturns, Join, Expire,
       Finished, vars, catalogVars
  <2> QED BY <2>1, ZenonT(60)
<1>6. CASE \E w \in Writers : WriterStep(w)
  <2>1. cat' = cat
    BY <1>6, Zenon DEF WriterStep, WriterArrives, WriterPasses, WriterStarts, WriterSends, WriterStops,
                       WriterAnswered, WriterErrs, WriterPanics, Recorded, catalogVars
  <2> QED BY <2>1, ZenonT(60)
<1>7. CASE \E w \in Writers : CatalogCommits(w)
  <2>1. PICK w \in Writers : CatalogCommits(w)
    BY <1>7, Zenon
  <2> QED BY <1>3, <2>1, ZenonT(60)
<1>8. CASE \E call \in pending : CatalogLate(call)
  <2>1. PICK call \in pending : CatalogLate(call)
    BY <1>8, Zenon
  <2> QED BY <1>4, <2>1, ZenonT(60)
<1>9. \/ CreateNamespace \/ CreateTable \/ DropTable \/ DropNamespace \/ SerialCommit
      \/ Preflight \/ BaselineAudit \/ LoadTable \/ FinalAudit \/ VerifyTable \/ VerifyNamespace
      \/ SerialReturns \/ Spawn \/ MainArrives \/ SendWindow \/ DropSender \/ ConcurrentReturns
      \/ (\E w \in Writers : Join(w)) \/ Expire \/ Finished \/ UNCHANGED vars
      \/ (\E w \in Writers : WriterStep(w)) \/ (\E w \in Writers : CatalogCommits(w))
      \/ (\E call \in pending : CatalogLate(call))
  BY ZenonT(60) DEF Next, MainStep
<1> QED BY <1>1, <1>2, <1>5, <1>6, <1>7, <1>8, <1>9, ZenonT(60)

\* The join loop and record_phase hand the accepted requests over.
LEMMA HandedOverNext ==
  ASSUME TypeOK, WriterInv, EvidenceInv, AcceptedHandedOver, [Next]_vars
  PROVE  AcceptedHandedOver'
<1>t. /\ ledger \in [Tasks -> Ledgers] /\ Main \in Tasks /\ Main \notin Writers /\ Writers \subseteq Tasks
      /\ Tasks = Writers \cup {Main} /\ writer \in [Writers -> WriterStates]
      /\ evidence \in [Operations -> Statuses] /\ Phases \subseteq Operations /\ "concurrent" \in Phases
  BY PendingTypes, OperationNames, ZenonT(60) DEF Tasks, Phases
<1>1. CASE \/ MainOutside \/ MainArrives \/ SendWindow \/ DropSender \/ Expire
           \/ (\E w \in Writers : CatalogCommits(w)) \/ (\E call \in pending : CatalogLate(call))
           \/ Finished \/ UNCHANGED vars
  <2>1. Quiet
    BY <1>1, QuietSteps, Zenon
  <2>2. step' \in InWindow => step \in InWindow
    BY <2>1, SMTT(60) DEF Quiet, BeforeSerial, InWindow, AfterJoin
  <2>3. /\ UNCHANGED <<ledger, writer, firstError, accepted>> /\ Joined' = Joined
        /\ evidence'["concurrent"] = evidence["concurrent"]
    BY <1>t, <2>1, Zenon DEF Quiet, Joined
  <2>4. ~firstError' => ~firstError
    BY <2>3, SMTT(60)
  <2> QED BY <2>2, <2>3, <2>4, Zenon DEF AcceptedHandedOver
<1>2. ASSUME NEW w \in Writers, WriterStep(w) PROVE AcceptedHandedOver'
  <2>1. /\ UNCHANGED <<step, evidence, accepted, firstError>>
        /\ \A t \in Tasks : t # w => ledger'[t] = ledger[t]
        /\ \A v \in Writers : v # w => writer'[v] = writer[v]
        /\ writer[w] # "joined" /\ writer'[w] # "joined"
    <3>1. CASE Moves(w)
      BY <3>1, Zenon DEF Moves
    <3>2. CASE WriterSends(w)
      BY <1>t, <3>2, ZenonT(60) DEF WriterSends, roundVars
    <3>3. CASE writer[w] = "in-flight" /\ \E o : Records(w, o)
      BY <1>t, <3>3, Zenon DEF Records
    <3>4. \/ Moves(w) \/ WriterSends(w)
          \/ writer[w] = "in-flight" /\ \E o : Records(w, o)
      BY <1>2, MovingSteps, RecordingSteps, ZenonT(60) DEF WriterStep
    <3> QED BY <3>1, <3>2, <3>3, <3>4, ZenonT(60)
  <2>2. Joined' = Joined /\ \A v \in Joined : v # w /\ v \in Tasks
    BY <1>t, <2>1, Zenon DEF Joined
  <2>3. step \notin BeforeSpawn \cup AfterJoin
    BY <1>2, ZenonT(60) DEF WriterInv, WriterStep, WriterArrives, WriterPasses, WriterStarts, WriterSends,
       WriterStops, WriterAnswered, WriterErrs, WriterPanics
  <2>4. step \in InWindow
    BY <2>3, PendingTypes, SMTT(60) DEF Steps, BeforeSpawn, AfterJoin, InWindow
  <2>5. evidence["concurrent"] # "fit"
    BY <2>4, SMTT(60) DEF EvidenceInv, NotYet
  <2>6. ~firstError' => ~firstError
    BY <2>1
  <2>7. \A v \in Joined : ledger'[v] = ledger[v]
    BY <2>1, <2>2, ZenonT(60)
  <2>8. ledger'[Main] = ledger[Main]
    BY <1>t, <2>1, Zenon
  <2> QED BY <2>1, <2>2, <2>4, <2>5, <2>6, <2>7, <2>8, Zenon DEF AcceptedHandedOver
<1>3. CASE SerialCommit \/ SerialReturns \/ Spawn
  <2>1. /\ step \in {"warmup", "sequential", "spawn"} /\ firstError' = firstError
        /\ step' \in {"warmup", "sequential", "spawn", "barrier", "drop-table"}
        /\ evidence'["concurrent"] = evidence["concurrent"]
        /\ step' = "barrier" => \A w \in Writers : writer'[w] = "spawned"
    <3>1. CASE SerialCommit
      BY <3>1, SMTT(60) DEF SerialCommit, roundVars
    <3>2. CASE SerialReturns
      <4>1. /\ step \in {"warmup", "sequential"} /\ firstError' = firstError
            /\ \E b : RecordPhase(step, b)
        BY <3>2, Zenon DEF SerialReturns
      <4>2. /\ step' \in {NextStep(step), "drop-table"}
            /\ \E s : evidence' = [evidence EXCEPT ![step] = s]
        BY <4>1, Zenon DEF RecordPhase, Note, Goto, CleanUp
      <4>3. evidence'["concurrent"] = evidence["concurrent"]
        BY <1>t, <4>1, <4>2, SMTT(60)
      <4> QED BY <4>1, <4>2, <4>3, SMTT(60) DEF NextStep
    <3>3. CASE Spawn
      BY <3>3, SMTT(60) DEF Spawn, Goto
    <3> QED BY <1>3, <3>1, <3>2, <3>3, Zenon
  <2>2. evidence["concurrent"] # "fit"
    BY <2>1, SMTT(60) DEF EvidenceInv, NotYet, BeforeSpawn
  <2>3. step' \in InWindow => Joined' = {}
    BY <2>1 DEF InWindow, Joined
  <2> QED BY <2>1, <2>2, <2>3, ZenonT(60) DEF AcceptedHandedOver
<1>4. ASSUME NEW w \in Writers, Join(w) PROVE AcceptedHandedOver'
  <2>1. /\ step = "join" /\ UNCHANGED <<step, evidence>> /\ writer' = [writer EXCEPT ![w] = "joined"]
        /\ \/ /\ firstError' = firstError
              /\ ledger' = [ledger EXCEPT ![Main] = Merge(ledger[Main], ledger[w])]
           \/ firstError'
    BY <1>4, Zenon DEF Join, roundVars
  <2>2. step \in InWindow /\ evidence["concurrent"] # "fit"
    BY <2>1, SMTT(60) DEF InWindow, EvidenceInv, NotYet
  <2>3. ASSUME ~firstError'
        PROVE  \A v \in Joined' : ledger'[v].acceptedRequests \subseteq ledger'[Main].acceptedRequests
    <3>1. ~firstError /\ ledger' = [ledger EXCEPT ![Main] = Merge(ledger[Main], ledger[w])]
      BY <2>1, <2>3, SMTT(60)
    <3>2. /\ ledger'[Main] = Merge(ledger[Main], ledger[w])
          /\ \A v \in Writers : ledger'[v] = ledger[v]
      BY <1>t, <3>1, ZenonT(60)
    <3>3. ledger'[Main].acceptedRequests = ledger[Main].acceptedRequests \cup ledger[w].acceptedRequests
      BY <3>2, SMTT(60) DEF Merge
    <3>4. \A v \in Joined' : v \in Writers /\ (v = w \/ v \in Joined)
      BY <1>t, <2>1, Zenon DEF Joined
    <3>5. \A v \in Joined : ledger[v].acceptedRequests \subseteq ledger[Main].acceptedRequests
      BY <2>2, <3>1, ZenonT(60) DEF AcceptedHandedOver
    <3> QED BY <3>2, <3>3, <3>4, <3>5, Zenon
  <2> QED BY <2>1, <2>2, <2>3, ZenonT(60) DEF AcceptedHandedOver
<1>5. CASE ConcurrentReturns
  <2>1. /\ step = "join" /\ AllJoined /\ UNCHANGED <<ledger, writer, firstError>>
        /\ RecordPhase("concurrent", ~firstError)
        /\ step' \in {"load-table", "drop-table"}
    BY <1>5, SMTT(60) DEF ConcurrentReturns, phaseVars, RecordPhase, Goto, CleanUp, NextStep
  <2>2. step' \notin InWindow /\ step \in InWindow
    BY <2>1 DEF InWindow
  <2>3. CASE ~firstError /\ accepted' = accepted \cup ledger[Main].acceptedRequests
    <3>1. \A w \in Writers : ledger[w].acceptedRequests \subseteq ledger[Main].acceptedRequests
      BY <2>1, <2>2, <2>3, Zenon DEF AcceptedHandedOver, AllJoined, Joined
    <3>2. \A t \in Tasks : ledger'[t].acceptedRequests \subseteq accepted'
      BY <1>t, <2>1, <2>3, <3>1, ZenonT(60)
    <3> QED BY <2>2, <3>2, ZenonT(60) DEF AcceptedHandedOver
  <2>4. CASE evidence' = [evidence EXCEPT !["concurrent"] = "failed"]
    <3>1. evidence'["concurrent"] # "fit"
      BY <1>t, <2>4, SMTT(60)
    <3> QED BY <2>2, <3>1, Zenon DEF AcceptedHandedOver
  <2> QED BY <2>1, <2>3, <2>4, Zenon DEF RecordPhase, Note
<1> QED BY <1>1, <1>2, <1>3, <1>4, <1>5, Zenon DEF Next, MainStep, MainOutside

\* Against a catalog that leaves no orphaned objects, every step keeps what the store
\* holds counted or marked.
LEMMA ObjectsInvNext ==
  ASSUME "orphan-object" \notin Faults, RoundInv, ObjectsInv, [Next]_vars
  PROVE  ObjectsInv'
<1>1. TypeOK /\ WriterInv /\ EvidenceInv /\ PendingInv /\ AcceptedHandedOver
  BY Zenon DEF RoundInv, ObjectsInv
<1>2. AcceptedHandedOver'
  BY <1>1, HandedOverNext, Zenon
<1>3. ASSUME NEW id \in cat.objects
      PROVE  id = CreateTableCall \/ (Counted(id) \/ PhaseMark \/ RunningMark)'
  BY <1>1, EffectPersists, ZenonT(60) DEF ObjectsInv
<1>4. ASSUME NEW id \in cat'.objects
      PROVE  id = CreateTableCall \/ (Counted(id) \/ PhaseMark \/ RunningMark)'
  <2>1. \/ id \in cat.objects \/ id = CreateTableCall
        \/ SerialCommit /\ id = Request(step, Main, ledger[Main].counts.attempts)
        \/ \E w \in Writers : CatalogCommits(w) /\ id = Current(w) /\ request'[w].reply = "accepted"
        \/ \E call \in pending : CatalogLate(call) /\ id = call /\ call \in Identities
    BY <1>1, StoreSteps, ZenonT(60)
  <2>2. CASE SerialCommit /\ id = Request(step, Main, ledger[Main].counts.attempts)
    <3>1. /\ step \in {"warmup", "sequential"} /\ step' = step
          /\ \/ cat' \in Rejecting(cat, id)
             \/ \E o \in {"accepted", "error"} :
                  ledger' = [ledger EXCEPT ![Main] = Record(ledger[Main], id, o)]
      BY <2>2, ZenonT(60) DEF SerialCommit, roundVars
    <3>2. CASE cat' \in Rejecting(cat, id)
      <4>1. cat' = cat
        BY <3>2, Zenon DEF Rejecting, Fault
      <4> QED BY <1>3, <4>1, Zenon
    <3>3. ASSUME NEW o \in {"accepted", "error"},
                 ledger' = [ledger EXCEPT ![Main] = Record(ledger[Main], id, o)]
          PROVE  (Counted(id) \/ PhaseMark \/ RunningMark)'
      <4>1. Main \in Tasks /\ ledger[Main] \in Ledgers /\ ledger \in [Tasks -> Ledgers]
        BY <1>1, PendingTypes, ZenonT(60)
      <4>2. ledger'[Main] = Record(ledger[Main], id, o)
        BY <3>3, <4>1, Zenon
      <4>3. CASE o = "accepted"
        <5>1. id \in ledger'[Main].acceptedRequests
          BY <4>1, <4>2, <4>3, RecordHolds
        <5> QED BY <4>1, <5>1, ZenonT(60) DEF Counted
      <4>4. CASE o = "error"
        <5>1. ledger[Main].counts.errors \in Nat
          BY <1>1, <4>1, PendingTypes, ZenonT(60)
        <5>2. ledger'[Main].counts.errors > 0
          BY <4>1, <4>2, <4>4, <5>1, RecordErrors, SMTT(60)
        <5> QED BY <3>1, <5>2, SMTT(60) DEF RunningMark
      <4> QED BY <4>3, <4>4
    <3> QED BY <3>1, <3>2, <3>3, Zenon
  <2>3. ASSUME NEW w \in Writers, CatalogCommits(w), id = Current(w), request'[w].reply = "accepted"
        PROVE  Counted(id)'
    <3>1. writer'[w] = "in-flight" /\ sequence' = sequence
      BY <2>3, ZenonT(60) DEF CatalogCommits, phaseVars
    <3> QED BY <2>3, <3>1, Zenon DEF Counted, Current
  <2>4. ASSUME NEW call \in pending, call \in Identities
        PROVE  (PhaseMark \/ RunningMark)'
    <3>1. ~FixtureMark(call)
      BY <2>4, FixtureCallsDistinct, ZenonT(60) DEF FixtureMark, FixtureCalls
    <3>2. PhaseMark \/ RunningMark
      BY <1>1, <3>1, Zenon DEF PendingInv, Marked
    <3> QED BY <1>1, <3>2, MarkPersists, Zenon
  <2> QED BY <1>3, <2>1, <2>2, <2>3, <2>4, Zenon
<1> QED BY <1>2, <1>4, Zenon DEF ObjectsInv

----------------------------------------------------------------------------
(* The object audits *)

\* Where the audits' evidence comes from: every other step leaves it alone, and the
\* counts stand once cleanup has begun.
LEMMA AuditFrame ==
  ASSUME TypeOK, WriterInv, [Next]_vars, ~BaselineAudit, ~FinalAudit
  PROVE  /\ baseline' = baseline
         /\ evidence'["baseline_object_audit"] = evidence["baseline_object_audit"]
         /\ evidence'["metadata_growth"] = evidence["metadata_growth"]
         /\ step \in AfterJoin \ {"load-table", "final-audit"} =>
              step' \in AfterJoin \ {"load-table", "final-audit"} /\ counts' = counts
<1>t. /\ evidence \in [Operations -> Statuses] /\ "baseline_object_audit" \in Operations
      /\ "metadata_growth" \in Operations
  BY PendingTypes, ZenonT(60) DEF Operations
<1>1. CASE Preflight \/ CreateNamespace \/ CreateTable
  BY <1>1, <1>t, ZenonT(60) DEF Preflight, CreateNamespace, CreateTable, Note, AfterJoin
<1>2. CASE LoadTable
  BY <1>2, <1>t, ZenonT(60) DEF LoadTable, Note
<1>3. CASE DropTable \/ VerifyTable \/ DropNamespace \/ VerifyNamespace
  BY <1>3, <1>t DEF DropTable, VerifyTable, DropNamespace, VerifyNamespace, Note, Goto, Finalize, AfterJoin
<1>4. CASE SerialCommit \/ Spawn \/ MainArrives \/ SendWindow \/ DropSender
           \/ (\E w \in Writers : Join(w)) \/ Expire \/ Finished \/ UNCHANGED vars
  <2>1. /\ UNCHANGED <<baseline, evidence, counts>>
        /\ step' = step \/ step \in {"spawn", "barrier", "send-window", "drop-sender"}
    BY <1>4, ZenonT(60) DEF SerialCommit, Spawn, MainArrives, SendWindow, DropSender, Join, Expire, Finished,
       vars, roundVars
  <2> QED BY <2>1, SMTT(60) DEF AfterJoin
<1>5. CASE SerialReturns \/ ConcurrentReturns
  <2>1. /\ step \in {"warmup", "sequential", "join"} /\ baseline' = baseline
        /\ \E phase \in Phases, s \in Statuses : evidence' = [evidence EXCEPT ![phase] = s]
    BY <1>5, ZenonT(60) DEF SerialReturns, ConcurrentReturns, RecordPhase, Note, Phases, Statuses
  <2>2. PICK phase \in Phases, s \in Statuses : evidence' = [evidence EXCEPT ![phase] = s]
    BY <2>1, Zenon
  <2>3. phase \notin {"baseline_object_audit", "metadata_growth"}
    BY SMTT(60) DEF Phases
  <2> QED BY <1>t, <2>1, <2>2, <2>3 DEF AfterJoin
<1>6. CASE \E w \in Writers : WriterStep(w) \/ CatalogCommits(w)
  <2>1. UNCHANGED <<step, baseline, evidence, counts>>
    BY <1>6, ZenonT(60) DEF WriterStep, WriterArrives, WriterPasses, WriterStarts, WriterSends, WriterStops,
       WriterAnswered, WriterErrs, WriterPanics, Recorded, CatalogCommits, roundVars
  <2> QED BY <2>1, Zenon
<1>7. CASE \E call \in pending : CatalogLate(call)
  BY <1>7, Zenon DEF CatalogLate, roundVars
<1> QED BY <1>1, <1>2, <1>3, <1>4, <1>5, <1>6, <1>7, ZenonT(60) DEF Next, MainStep

\* The growth the final audit saw stays: no step takes objects from the store, and
\* the counts and the baseline it compared them with are final.
LEMMA AuditInvNext ==
  ASSUME TypeOK, TypeOK', WriterInv, AuditInv, [Next]_vars
  PROVE  AuditInv'
<1>t. /\ evidence \in [Operations -> Statuses] /\ "baseline_object_audit" \in Operations
      /\ "metadata_growth" \in Operations /\ "final_object_audit" \in Operations
      /\ IsFiniteSet(cat.objects) /\ IsFiniteSet(cat'.objects)
  BY PendingTypes, Zenon DEF Operations, TypeOK, CatalogTypeOK, Catalogs
<1>c. /\ Cardinality(cat.objects) \in Nat /\ Cardinality(cat'.objects) \in Nat
      /\ Cardinality(cat.objects) <= Cardinality(cat'.objects)
  <2>1. cat.objects \in SUBSET cat'.objects
    BY StoreSteps, Zenon
  <2> QED BY <1>t, <2>1, FS_Subset, FS_CardinalityType, ZenonT(60)
<1>1. CASE BaselineAudit
  <2>1. step = "baseline-audit" /\ cat' = cat
    BY <1>1, Zenon DEF BaselineAudit, catalogVars
  <2>2. evidence["metadata_growth"] # "fit"
    BY <2>1, SMTT(60) DEF AuditInv, AfterJoin
  <2>3. evidence'["metadata_growth"] = evidence["metadata_growth"]
    BY <1>1, <1>t, ZenonT(60) DEF BaselineAudit, Note
  <2>4. evidence'["baseline_object_audit"] = "fit" => baseline' >= 1
    BY <1>1, <1>t, <1>c, SMTT(60) DEF BaselineAudit, Note, Status
  <2> QED BY <2>2, <2>3, <2>4, ZenonT(60) DEF AuditInv
<1>2. CASE FinalAudit
  <2>1. /\ step = "final-audit" /\ step' = "drop-table" /\ UNCHANGED <<cat, baseline, counts>>
    BY <1>2, ZenonT(60) DEF FinalAudit, CleanUp, Goto, catalogVars
  <2>2. evidence["metadata_growth"] # "fit"
    BY <2>1, SMTT(60) DEF AuditInv, AfterJoin
  <2>3. /\ evidence'["baseline_object_audit"] = evidence["baseline_object_audit"]
        /\ evidence'["metadata_growth"] = "fit" =>
             Cardinality(cat.objects) - baseline >= TotalAccepted(counts)
    BY <1>2, <1>t, <2>2, SMTT(60) DEF FinalAudit, Note, Status
  <2>4. evidence'["baseline_object_audit"] = "fit" => baseline' >= 1
    BY <2>1, <2>3, Zenon DEF AuditInv
  <2>5. step' \in AfterJoin \ {"load-table", "final-audit"}
    BY <2>1, SMTT(60) DEF AfterJoin
  <2>6. Cardinality(cat.objects)' - baseline' = Cardinality(cat.objects) - baseline
        /\ TotalAccepted(counts)' = TotalAccepted(counts)
    BY <2>1, Zenon DEF TotalAccepted
  <2> QED BY <2>3, <2>4, <2>5, <2>6, Zenon DEF AuditInv
<1>3. CASE ~BaselineAudit /\ ~FinalAudit
  <2>1. /\ baseline' = baseline
        /\ evidence'["baseline_object_audit"] = evidence["baseline_object_audit"]
        /\ evidence'["metadata_growth"] = evidence["metadata_growth"]
        /\ step \in AfterJoin \ {"load-table", "final-audit"} =>
             step' \in AfterJoin \ {"load-table", "final-audit"} /\ counts' = counts
    BY <1>3, AuditFrame, Zenon
  <2>2. evidence'["baseline_object_audit"] = "fit" => baseline' >= 1
    BY <2>1, ZenonT(60) DEF AuditInv
  <2>3. ASSUME evidence'["metadata_growth"] = "fit"
        PROVE  /\ step' \in AfterJoin \ {"load-table", "final-audit"}
               /\ Cardinality(cat'.objects) - baseline' >= TotalAccepted(counts')
    <3>1. /\ step \in AfterJoin \ {"load-table", "final-audit"}
          /\ Cardinality(cat.objects) - baseline >= TotalAccepted(counts)
      BY <2>1, <2>3, ZenonT(60) DEF AuditInv
    <3>2. /\ step' \in AfterJoin \ {"load-table", "final-audit"} /\ counts' = counts
      BY <2>1, <3>1, Zenon
    <3>3. baseline \in Nat /\ TotalAccepted(counts) \in Nat
      <4>1. baseline \in Nat /\ counts \in [Phases -> RequestCounts]
        BY Zenon DEF TypeOK, RoundTypeOK
      <4>2. \A p \in Phases : counts[p].accepted \in Nat
        BY <4>1, ZenonT(60) DEF RequestCounts
      <4> QED BY <4>1, <4>2, SMTT(60) DEF TotalAccepted, Phases
    <3>4. Cardinality(cat'.objects) - baseline >= TotalAccepted(counts)
      BY <1>c, <3>1, <3>3, SMTT(60)
    <3> QED BY <2>1, <3>2, <3>4, Zenon
  <2>4. TotalAccepted(counts)' = TotalAccepted(counts')
    BY SMTT(60) DEF TotalAccepted
  <2> QED BY <2>2, <2>3, <2>4, ZenonT(60) DEF AuditInv
<1> QED BY <1>1, <1>2, <1>3, ZenonT(60)

----------------------------------------------------------------------------
(* The theorems *)

\* A round starts with nothing sent, counted or stored.
LEMMA LedgersInit ==
  ASSUME Init
  PROVE  LedgerInv /\ SentInv /\ AcceptedInv /\ ObjectsInv /\ AuditInv
<1>1. \A t \in Tasks : ledger[t] = EmptyLedger
  BY Zenon DEF Init
<1>2. Main \in Tasks /\ Writers \subseteq Tasks
  BY Zenon DEF Tasks
<1>3. LedgerInv
  BY <1>1, EmptyTallied, Zenon DEF LedgerInv
<1>4. EmptyLedger.seen = {} /\ EmptyLedger.acceptedRequests = {}
  BY DEF EmptyLedger
<1>5. \A o \in Operations : evidence[o] = "not-attempted"
  BY Zenon DEF Init
<1>6. /\ evidence["concurrent"] # "fit" /\ evidence["baseline_object_audit"] # "fit"
      /\ evidence["metadata_growth"] # "fit" /\ \A p \in Phases : evidence[p] # "fit"
  BY <1>5 DEF Operations, Phases
<1>7. \A p : SentIn(p) = {}
  BY SMTT(60) DEF Init, SentIn
<1>8. SentInv
  <2>1. SerialSent
    BY <1>1, <1>2, <1>4, <1>7, ZenonT(60) DEF SerialSent
  <2>2. WriterSent
    <3>1. \A w \in Writers : writer[w] = "unspawned" /\ SentBy(w) = {}
      BY SMTT(60) DEF Init, SentBy
    <3>2. \A w \in Writers : Unanswered(w) = {} /\ ledger[w].seen = {}
      BY <1>1, <1>2, <1>4, <3>1, SMTT(60) DEF Unanswered
    <3>3. step \notin InWindow
      BY SMTT(60) DEF Init, InWindow
    <3>4. \A w \in Writers : SentBy(w) = ledger[w].seen \cup Unanswered(w)
      BY <3>1, <3>2
    <3> QED BY <1>7, <3>3, <3>4, Zenon DEF WriterSent
  <2>3. EveryRequestAccounted
    BY <1>6, ZenonT(60) DEF EveryRequestAccounted
  <2> QED BY <2>1, <2>2, <2>3, Zenon DEF SentInv
<1>9. AcceptedInv
  <2>1. accepted = {} /\ \A p \in Phases : counts[p] = Counts(0, 0, 0, 0)
    BY Zenon DEF Init
  <2>2. TotalAccepted(counts) = 0
    BY <2>1 DEF TotalAccepted, Phases, Counts
  <2> QED BY <2>1, <2>2, FS_EmptySet, Zenon DEF AcceptedInv
<1>10. ObjectsInv
  <2>1. cat.objects = {} /\ step \notin InWindow
    BY DEF Init, InWindow
  <2> QED BY <1>6, <2>1, ZenonT(60) DEF ObjectsInv, AcceptedHandedOver
<1>11. AuditInv
  BY <1>6, ZenonT(60) DEF AuditInv
<1> QED BY <1>3, <1>8, <1>9, <1>10, <1>11, Zenon

\* A phase on record accounts for every request it sent, for any number of writers and
\* requests, whichever of them fail, time out or are answered after the deadline
\* (RequestLedger, the join loop of run_concurrent_phase, record_phase).
THEOREM EveryRequestCounted == Spec => []EveryRequestAccounted
<1> DEFINE Inv == LedgerInv /\ SentInv
<1>1. Init => Inv
  BY LedgersInit, Zenon
<1>2. RoundInv /\ Inv /\ [Next]_vars => Inv'
  BY LedgerInvNext, SentInvNext, Zenon DEF RoundInv
<1>3. Inv => EveryRequestAccounted
  BY ZenonT(60) DEF SentInv
<1> HIDE DEF Inv
<1> QED BY RoundInvariant, <1>1, <1>2, <1>3, PTL DEF Spec

\* In a round that passes, what the store holds is the object of the table's creation
\* and one of every accepted commit, if the catalog leaves no orphaned objects.
LEMMA PassedRoundStored ==
  ASSUME RoundInv, AcceptedInv, ObjectsInv, AuditInv, classification = "pass"
  PROVE  cat.objects = accepted \cup {CreateTableCall}
<1>1. step = "done" /\ AllPassed(evidence, counts) /\ TypeOK /\ WriterInv
  BY ZenonT(60) DEF RoundInv, EvidenceInv
<1>2. ~PhaseMark /\ ~RunningMark
  <2>1. counts["warmup"].errors = 0 /\ counts["sequential"].errors = 0
        /\ counts["concurrent"].errors = 0
    BY <1>1, SMTT(60) DEF AllPassed, SerialAccounted, ConcurrentAccounted, Counts
  <2>2. ~PhaseMark
    BY <1>1, <2>1 DEF PhaseMark, Spoiled, Phases, AllPassed
  <2>3. ~RunningMark
    BY <1>1, ZenonT(60) DEF RunningMark, InWindow
  <2> QED BY <2>2, <2>3, ZenonT(60)
<1>3. /\ evidence["concurrent"] = "fit" /\ evidence["baseline_object_audit"] = "fit"
      /\ evidence["metadata_growth"] = "fit"
  BY <1>1, Zenon DEF AllPassed, MetadataPersisted
<1>4. cat.objects \subseteq accepted \cup {CreateTableCall}
  <2>1. \A w \in Writers : writer[w] # "in-flight"
    BY <1>1 DEF WriterInv, AfterJoin
  <2>2. \A t \in Tasks : ledger[t].acceptedRequests \subseteq accepted
    BY <1>3, ZenonT(60) DEF ObjectsInv, AcceptedHandedOver
  <2> QED BY <1>2, <2>1, <2>2, ZenonT(60) DEF ObjectsInv, Counted
<1>5. /\ IsFiniteSet(accepted \cup {CreateTableCall}) /\ Cardinality(accepted) \in Nat
      /\ Cardinality(accepted \cup {CreateTableCall}) = Cardinality(accepted) + 1
      /\ Cardinality(accepted) = TotalAccepted(counts)
  <2>1. accepted \subseteq Identities
    BY <1>1, ZenonT(60) DEF TypeOK, RoundTypeOK
  <2>2. CreateTableCall \notin accepted
    BY <2>1, FixtureCallsDistinct, Zenon DEF FixtureCalls
  <2>3. IsFiniteSet(accepted) /\ Cardinality(accepted) = TotalAccepted(counts)
    BY ZenonT(60) DEF AcceptedInv
  <2> QED BY <2>2, <2>3, FS_AddElement, FS_CardinalityType, Zenon
<1>6. /\ Cardinality(cat.objects) \in Nat
      /\ Cardinality(cat.objects) <= Cardinality(accepted) + 1
      /\ Cardinality(accepted \cup {CreateTableCall}) = Cardinality(cat.objects) =>
           accepted \cup {CreateTableCall} = cat.objects
  <2>1. cat.objects \in SUBSET (accepted \cup {CreateTableCall})
    BY <1>4, ZenonT(60)
  <2>2. /\ IsFiniteSet(cat.objects)
        /\ Cardinality(cat.objects) <= Cardinality(accepted \cup {CreateTableCall})
        /\ Cardinality(accepted \cup {CreateTableCall}) = Cardinality(cat.objects) =>
             accepted \cup {CreateTableCall} = cat.objects
    BY <1>5, <2>1, FS_Subset, Zenon
  <2> QED BY <1>5, <2>2, FS_CardinalityType, Zenon
<1>7. baseline >= 1 /\ Cardinality(cat.objects) - baseline >= Cardinality(accepted)
  BY <1>3, <1>5, ZenonT(60) DEF AuditInv
<1>8. Cardinality(cat.objects) = Cardinality(accepted) + 1
  <2>1. baseline \in Nat
    BY <1>1, ZenonT(60) DEF TypeOK, RoundTypeOK
  <2> QED BY <1>5, <1>6, <1>7, <2>1
<1> QED BY <1>5, <1>6, <1>8, Zenon

\* When a round passes, the commits that took effect are exactly the ones counted as
\* accepted: none took effect behind an error, a conflict, a lost answer or a late
\* execution, and none that was counted is missing from the store.  The growth audit
\* compares numbers, so the catalog must leave no orphaned objects that could make up
\* for a missing one.
THEOREM AcceptedHappened ==
  ASSUME "orphan-object" \notin Faults
  PROVE  Spec => []AcceptedIsWhatHappened
<1> DEFINE Inv == LedgerInv /\ AcceptedInv /\ ObjectsInv /\ AuditInv
<1>1. Init => Inv
  BY LedgersInit, ZenonT(60)
<1>2. RoundInv /\ RoundInv' /\ Inv /\ [Next]_vars => Inv'
  BY LedgerInvNext, AcceptedInvNext, ObjectsInvNext, AuditInvNext, Zenon DEF RoundInv
<1>3. RoundInv /\ Inv => AcceptedIsWhatHappened
  BY PassedRoundStored, ZenonT(60) DEF AcceptedIsWhatHappened
<1> HIDE DEF Inv
<1> QED BY RoundInvariant, <1>1, <1>2, <1>3, PTL DEF Spec

\* The object audit of a passing round shows that every accepted commit has its
\* metadata object, unless orphaned objects can stand in for missing ones.
THEOREM AcceptedPersisted ==
  ASSUME "orphan-object" \notin Faults
  PROVE  Spec => []AcceptedIsPersisted
<1>1. AcceptedIsWhatHappened => AcceptedIsPersisted
  BY Zenon DEF AcceptedIsWhatHappened, AcceptedIsPersisted
<1> QED BY AcceptedHappened, <1>1, PTL

=============================================================================

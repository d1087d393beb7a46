-------------------- MODULE ContentionRoundInvariants --------------------
(***************************************************************************)
(* The inductive invariant of ContentionRound and its preservation, but for *)
(* the part about abandoned requests (ContentionRoundPending).             *)
(***************************************************************************)
EXTENDS ContentionRound, TLAPS

----------------------------------------------------------------------------
(* Requests *)

\* Commits and the requests on the fixture are requests a catalog can be sent.
LEMMA RequestTypes ==
  /\ FixtureCalls \subseteq Calls
  /\ Identities \subseteq Calls
  /\ \A p \in Phases, t \in Tasks, n \in Nat : Request(p, t, n) \in Identities
BY Zenon DEF Calls, Identities, Request

\* The requests on the fixture differ from each other and from every commit.
LEMMA FixtureCallsDistinct ==
  /\ CreateNamespaceCall # CreateTableCall /\ CreateNamespaceCall # DropTableCall
  /\ CreateNamespaceCall # DropNamespaceCall /\ CreateTableCall # DropTableCall
  /\ CreateTableCall # DropNamespaceCall /\ DropTableCall # DropNamespaceCall
  /\ FixtureCalls \cap Identities = {}
  /\ NoCommit \notin Calls
BY DEF CreateNamespaceCall, CreateTableCall, DropTableCall, DropNamespaceCall, Request,
       FixtureCalls, Identities, Phases, NoCommit, Calls

----------------------------------------------------------------------------
(* The inductive invariant *)

BeforeSpawn == {"preflight", "create-namespace", "create-table", "baseline-audit", "warmup",
                "sequential", "spawn"}
InWindow    == {"barrier", "send-window", "drop-sender", "join"}
AfterJoin   == {"load-table", "final-audit", "drop-table", "verify-table", "drop-namespace",
                "verify-namespace", "done"}

\* Where the writers are when the main task is before, in and after the concurrent
\* phase, and what the barrier and the window say about them.
WriterInv ==
  /\ step \in BeforeSpawn => arrived = {} /\ window = "none"
                             /\ \A w \in Writers : writer[w] = "unspawned"
  /\ step \in {"barrier", "send-window", "drop-sender"} =>
       \A w \in Writers : writer[w] # "joined"
  /\ step \in AfterJoin => \A w \in Writers : writer[w] \in {"unspawned", "joined"}
  /\ WindowSent => arrived = Tasks
  /\ \A w \in Writers : w \in arrived => writer[w] \notin {"unspawned", "spawned"}
  /\ \A w \in Writers : writer[w] \in {"loop", "in-flight"} => WindowSent

NotYet(operation, steps) == step \in steps => evidence[operation] = "not-attempted"
Attempted(operation) == evidence[operation] # "not-attempted"

\* Each operation is attempted at its own step only, and cleanup in order.
EvidenceInv ==
  /\ NotYet("create_namespace", {"preflight", "create-namespace"})
  /\ NotYet("create_table", {"preflight", "create-namespace", "create-table"})
  /\ NotYet("warmup", BeforeSpawn \ {"sequential", "spawn"})
  /\ NotYet("sequential", BeforeSpawn \ {"spawn"})
  /\ NotYet("concurrent", BeforeSpawn \cup InWindow)
  /\ NotYet("drop_table_without_purge", Steps \ {"verify-table", "drop-namespace",
                                                  "verify-namespace", "done"})
  /\ NotYet("drop_namespace", Steps \ {"verify-namespace", "done"})
  /\ NotYet("verify_namespace_absent", Steps \ {"done"})
  /\ step \in {"verify-table", "drop-namespace", "verify-namespace"} =>
       Attempted("drop_table_without_purge")
  /\ step \in {"drop-namespace", "verify-namespace"} => Attempted("verify_table_absent")
  /\ step = "verify-namespace" => Attempted("drop_namespace")
  /\ CleanupAfterMutation
  /\ step \notin {"preflight", "create-namespace", "done"} => Attempted("create_namespace")
  /\ classification # "none" => step = "done"
  /\ classification = "pass" => AllPassed(evidence, counts)

\* A namespace of somebody else stops the round at its first step.
ForeignInv ==
  foreign => /\ cat.namespace /\ pending = {}
             /\ step \in {"preflight", "done"}
             /\ evidence["create_namespace"] = "not-attempted"
             /\ \A w \in Writers : writer[w] = "unspawned"

\* The catalog holds a table in its namespace only; a namespace verified absent
\* can come back only by a creation the runner saw fail.
AbsentInv ==
  /\ cat.table => cat.namespace
  /\ step = "done" /\ evidence["create_namespace"] = "fit"
       /\ evidence["verify_namespace_absent"] = "fit" => ~cat.namespace
  /\ CreateNamespaceCall \in pending => evidence["create_namespace"] = "failed"

\* A mutation of the fixture that was given up is on record as failed.
FixtureMark(call) ==
  \/ call = CreateNamespaceCall /\ evidence["create_namespace"] = "failed"
  \/ call = CreateTableCall     /\ evidence["create_table"] = "failed"
  \/ call = DropTableCall       /\ evidence["drop_table_without_purge"] = "failed"
  \/ call = DropNamespaceCall   /\ evidence["drop_namespace"] = "failed"

\* A phase is on record as failed, or with errors.
Spoiled(phase) == \/ evidence[phase] = "failed"
                  \/ evidence[phase] = "fit" /\ counts[phase].errors > 0
PhaseMark == \E phase \in Phases : Spoiled(phase)

\* A writer has an error in its ledger, or has failed, and is still to be joined.
WriterMark(w) == /\ writer[w] # "joined"
                 /\ ledger[w].counts.errors > 0 \/ writer[w] = "failed"

\* The phase that is running will be on record so.
RunningMark ==
  \/ step \in {"warmup", "sequential"} /\ ledger[Main].counts.errors > 0
  \/ step \in InWindow /\ \E w \in Writers : WriterMark(w)
  \/ step = "join" /\ (firstError \/ ledger[Main].counts.errors > 0)

\* An abandoned request has left its mark where the checks will see it.
Marked(call) == FixtureMark(call) \/ PhaseMark \/ RunningMark
PendingInv == \A call \in pending : Marked(call)

RoundInv == TypeOK /\ WriterInv /\ EvidenceInv /\ ForeignInv /\ AbsentInv /\ PendingInv

\* A round starts in the inductive invariant, types aside.
LEMMA RoundInvInit == Init /\ TypeOK => RoundInv
<1> SUFFICES ASSUME Init, TypeOK PROVE RoundInv
  OBVIOUS
<1>1. WriterInv
  BY Zenon DEF Init, WriterInv, BeforeSpawn, AfterJoin, WindowSent
<1>2. EvidenceInv
  BY Zenon DEF Init, EvidenceInv, NotYet, Operations, CleanupAfterMutation
<1>3. ForeignInv
  <2>1. cat.namespace = foreign
    BY DEF Init
  <2> QED BY <2>1, Zenon DEF Init, ForeignInv, Operations
<1>4. AbsentInv
  <2>1. cat.table => cat.namespace
    BY DEF Init
  <2> QED BY <2>1, Zenon DEF Init, AbsentInv
<1>5. PendingInv
  BY Zenon DEF Init, PendingInv
<1> QED BY <1>1, <1>2, <1>3, <1>4, <1>5, Zenon DEF RoundInv

\* Every step keeps writers, barrier and window in step (run_concurrent_phase).
LEMMA WriterInvNext == TypeOK /\ WriterInv /\ [Next]_vars => WriterInv'
<1> SUFFICES ASSUME TypeOK, WriterInv, [Next]_vars PROVE WriterInv'
  OBVIOUS
<1>t. /\ writer \in [Writers -> WriterStates] /\ arrived \subseteq Tasks /\ Main \notin Writers
      /\ step \in Steps
  BY RoundAssumption, Zenon DEF TypeOK, PhaseTypeOK, RoundTypeOK
<1> USE <1>t DEF WriterInv, WindowSent, BeforeSpawn, AfterJoin, Tasks
<1>1. CASE Preflight \/ CreateNamespace \/ CreateTable \/ BaselineAudit
  BY <1>1, Zenon DEF Preflight, AfterPreflight, CreateNamespace, CreateTable, BaselineAudit, Goto,
     Finalize, CleanUp, phaseVars
<1>2. CASE SerialReturns
  BY <1>2, Zenon DEF SerialReturns, RecordPhase, NextStep, Goto, CleanUp
<1>3. CASE Spawn
  BY <1>3, Zenon DEF Spawn, Goto
<1>4. CASE MainArrives
  BY <1>4, Zenon DEF MainArrives, Goto
<1>5. CASE SendWindow
  BY <1>5, Zenon DEF SendWindow, BarrierOpen, Goto
<1>6. CASE DropSender \/ Expire
  BY <1>6, Zenon DEF DropSender, Goto, Expire, roundVars
<1>7. CASE \E w \in Writers : Join(w)
  BY <1>7, Zenon DEF Join, roundVars
<1>8. CASE ConcurrentReturns
  BY <1>8, Zenon DEF ConcurrentReturns, AllJoined, RecordPhase, NextStep, Goto, CleanUp, phaseVars
<1>9. CASE LoadTable \/ FinalAudit \/ DropTable \/ VerifyTable \/ DropNamespace \/ VerifyNamespace
  BY <1>9, Zenon DEF LoadTable, FinalAudit, DropTable, VerifyTable, DropNamespace, VerifyNamespace,
     Goto, CleanUp, Finalize, phaseVars
<1>10. CASE \E w \in Writers : WriterArrives(w) \/ WriterPasses(w) \/ WriterStarts(w)
  BY <1>10, ZenonT(60) DEF WriterArrives, WriterPasses, WriterStarts, BarrierOpen, roundVars
<1>11. CASE \E w \in Writers : WriterSends(w) \/ WriterStops(w) \/ WriterPanics(w)
  BY <1>11, ZenonT(60) DEF WriterSends, WriterStops, WriterPanics, roundVars
<1>12. CASE \E w \in Writers : WriterAnswered(w) \/ WriterErrs(w)
  BY <1>12, ZenonT(60) DEF WriterAnswered, WriterErrs, Recorded, roundVars
<1>13. CASE SerialCommit \/ Finished \/ UNCHANGED vars
  BY <1>13, Zenon DEF SerialCommit, Finished, vars, roundVars, phaseVars
<1>14. CASE (\E w \in Writers : CatalogCommits(w)) \/ (\E call \in pending : CatalogLate(call))
  BY <1>14, Zenon DEF CatalogCommits, CatalogLate, roundVars, phaseVars
<1> QED BY <1>1, <1>2, <1>3, <1>4, <1>5, <1>6, <1>7, <1>8, <1>9, <1>10, <1>11, <1>12, <1>13, Zenon,
           <1>14 DEF Next, MainStep, WriterStep

\* Every step keeps the evidence in the order of run_contention_round.
LEMMA EvidenceInvNext == TypeOK /\ EvidenceInv /\ [Next]_vars => EvidenceInv'
<1> SUFFICES ASSUME TypeOK, EvidenceInv, [Next]_vars PROVE EvidenceInv'
  OBVIOUS
<1>t. evidence \in [Operations -> Statuses] /\ step \in Steps
  BY Zenon DEF TypeOK, RoundTypeOK
<1> USE <1>t DEF EvidenceInv, NotYet, Attempted, BeforeSpawn, InWindow, Steps, Operations,
                  CleanupAfterMutation, CleanupOperations
<1>1. CASE Preflight
  BY <1>1, ZenonT(60) DEF Preflight, AfterPreflight, Goto, Finalize, Note
<1>2. CASE CreateNamespace
  BY <1>2, ZenonT(60) DEF CreateNamespace, Goto, CleanUp, Note
<1>3. CASE CreateTable
  BY <1>3, ZenonT(60) DEF CreateTable, Goto, CleanUp, Note
<1>4. CASE BaselineAudit
  BY <1>4, ZenonT(60) DEF BaselineAudit, Goto, CleanUp, Note
<1>5. CASE SerialReturns
  BY <1>5 DEF SerialReturns, RecordPhase, NextStep, Goto, CleanUp, Note
<1>6. CASE Spawn \/ MainArrives \/ SendWindow \/ DropSender
  BY <1>6, Zenon DEF Spawn, MainArrives, SendWindow, DropSender, Goto
<1>7. CASE ConcurrentReturns
  BY <1>7, ZenonT(60) DEF ConcurrentReturns, RecordPhase, NextStep, Goto, CleanUp, Note
<1>8. CASE LoadTable
  BY <1>8, ZenonT(60) DEF LoadTable, Goto, CleanUp, Note
<1>9. CASE FinalAudit
  BY <1>9, Zenon DEF FinalAudit, Goto, CleanUp, Note
<1>10. CASE DropTable
  BY <1>10, Zenon DEF DropTable, Goto, Note
<1>11. CASE VerifyTable
  BY <1>11, Zenon DEF VerifyTable, Goto, Note, Status
<1>12. CASE DropNamespace
  BY <1>12, Zenon DEF DropNamespace, Goto, Note
<1>13. CASE VerifyNamespace
  BY <1>13 DEF VerifyNamespace, Finalize, Note, Status
<1>14. CASE UNCHANGED roundVars
  BY <1>14, Zenon DEF roundVars
<1>15. CASE SerialCommit \/ Expire \/ Finished \/ UNCHANGED vars
  BY <1>14, <1>15, Zenon DEF SerialCommit, Expire, Finished, vars
<1>16. CASE \E w \in Writers : WriterStep(w) \/ CatalogCommits(w) \/ Join(w)
  BY <1>14, <1>16, Zenon DEF WriterStep, WriterArrives, WriterPasses, WriterStarts, WriterSends,
     WriterStops, WriterAnswered, WriterErrs, WriterPanics, Recorded, CatalogCommits, Join
<1>17. CASE \E call \in pending : CatalogLate(call)
  BY <1>14, <1>17, Zenon DEF CatalogLate
<1> QED BY <1>1, <1>2, <1>3, <1>4, <1>5, <1>6, <1>7, <1>8, <1>9, <1>10, <1>11, <1>12, <1>13, Zenon,
           <1>15, <1>16, <1>17 DEF Next, MainStep

\* Every step leaves a namespace that was there before the round alone.
LEMMA ForeignInvNext == TypeOK /\ ForeignInv /\ [Next]_vars => ForeignInv'
<1> SUFFICES ASSUME TypeOK, ForeignInv, [Next]_vars PROVE ForeignInv'
  OBVIOUS
<1>t. evidence \in [Operations -> Statuses] /\ Writers # {}
  BY RoundAssumption, Zenon DEF TypeOK, RoundTypeOK
<1> USE <1>t DEF ForeignInv, Operations
<1>1. CASE Preflight
  BY <1>1, Zenon DEF Preflight, AfterPreflight, Finalize, Goto, Note, phaseVars, catalogVars
<1>2. CASE MainStep /\ ~Preflight
  <2>1. foreign' = foreign
    BY <1>2, Zenon DEF MainStep, CreateNamespace, CreateTable, BaselineAudit, SerialCommit,
       SerialReturns, Spawn, MainArrives, SendWindow, DropSender, Join, ConcurrentReturns,
       LoadTable, FinalAudit, DropTable, VerifyTable, DropNamespace, VerifyNamespace, catalogVars
  <2>2. step \notin {"preflight", "done"}
    BY <1>2, Zenon DEF MainStep, CreateNamespace, CreateTable, BaselineAudit, SerialCommit,
       SerialReturns, Spawn, MainArrives, SendWindow, DropSender, Join, ConcurrentReturns,
       LoadTable, FinalAudit, DropTable, VerifyTable, DropNamespace, VerifyNamespace
  <2> QED BY <2>1, <2>2, Zenon
<1>3. CASE \E w \in Writers : WriterStep(w) \/ CatalogCommits(w)
  <2> PICK w \in Writers : WriterStep(w) \/ CatalogCommits(w)
    BY <1>3, Zenon
  <2>1. foreign' = foreign /\ writer[w] # "unspawned"
    BY Zenon DEF WriterStep, WriterArrives, WriterPasses, WriterStarts, WriterSends,
       WriterStops, WriterAnswered, WriterErrs, WriterPanics, Recorded, CatalogCommits,
       catalogVars
  <2> QED BY <2>1, Zenon
<1>4. CASE \E call \in pending : CatalogLate(call)
  BY <1>4 DEF CatalogLate
<1>5. CASE Expire \/ Finished \/ UNCHANGED vars
  BY <1>5, Zenon DEF Expire, Finished, vars, roundVars, phaseVars, catalogVars
<1> QED BY <1>1, <1>2, <1>3, <1>4, <1>5, Zenon DEF Next

\* A request executed by the catalog keeps tables inside the namespace, and only
\* the creation of the namespace brings one about.
LEMMA ExecutedNamespace ==
  ASSUME NEW c \in Catalogs, c.table => c.namespace, NEW call \in Calls,
         NEW d, \/ Grants(c, call) /\ d \in Executed(c, call)
                \/ d \in Rejecting(c, call)
  PROVE  /\ d.table => d.namespace
         /\ d.namespace => c.namespace \/ call = CreateNamespaceCall
<1> USE FixtureCallsDistinct DEF Catalogs
<1>1. CASE d \in Rejecting(c, call)
  BY <1>1, Zenon DEF Rejecting
<1>2. CASE Grants(c, call) /\ d \in Executed(c, call) /\ call \notin FixtureCalls
  <2>1. d \in Accepting(c, call)
    BY <1>2, Zenon DEF Executed, FixtureCalls
  <2> QED BY <2>1, Zenon DEF Accepting
<1>3. CASE Grants(c, call) /\ d \in Executed(c, call) /\ call = CreateTableCall
  <2>1. d \in CreatingTable(c) /\ c.namespace
    BY <1>3, Zenon DEF Executed, Grants
  <2> QED BY <2>1, Zenon DEF CreatingTable
<1>4. CASE Grants(c, call) /\ d \in Executed(c, call) /\ call \in FixtureCalls \ {CreateTableCall}
  BY <1>4, Zenon DEF Executed, Grants, FixtureCalls
<1> QED BY <1>1, <1>2, <1>3, <1>4, Zenon

\* Every step keeps what the cleanup has verified absent absent, unless a
\* request is still on its way.
LEMMA AbsentInvNext == TypeOK /\ EvidenceInv /\ WriterInv /\ AbsentInv /\ [Next]_vars => AbsentInv'
<1> SUFFICES ASSUME TypeOK, EvidenceInv, WriterInv, AbsentInv, [Next]_vars PROVE AbsentInv'
  OBVIOUS
<1>t. /\ evidence \in [Operations -> Statuses] /\ step \in Steps
      /\ cat \in Catalogs /\ pending \subseteq Calls
  BY Zenon DEF TypeOK, RoundTypeOK, CatalogTypeOK
<1>i. \A w \in Writers : Current(w) \in Identities
  BY RequestTypes, Zenon DEF Current, Phases, TypeOK, PhaseTypeOK, Tasks
<1>s. SerialCommit => Request(step, Main, ledger[Main].counts.attempts) \in Identities
  BY RequestTypes, RoundAssumption, Zenon DEF SerialCommit, Phases, TypeOK, PhaseTypeOK, Tasks,
     Ledgers, RequestCounts
<1>c. ASSUME NEW call \in Calls, CallSucceeds(call) \/ CallFails(call)
      PROVE  /\ cat'.table => cat'.namespace
             /\ pending' \subseteq pending \cup {call}
             /\ CallSucceeds(call) => pending' = pending
  BY <1>c, <1>t, ExecutedNamespace, Zenon DEF CallSucceeds, CallFails, AbsentInv
<1>f. FixtureCalls \subseteq Calls /\ Identities \subseteq Calls
  BY RequestTypes, Zenon
<1>1. CASE CreateNamespace
  BY <1>1, <1>t, <1>c, <1>f, Zenon DEF CreateNamespace, Goto, CleanUp, Note, AbsentInv, EvidenceInv,
     NotYet, FixtureCalls, Operations
<1>2. CASE CreateTable
  BY <1>2, <1>t, <1>c, <1>f, FixtureCallsDistinct, Zenon DEF CreateTable, Goto, CleanUp, Note,
     AbsentInv, FixtureCalls, Operations
<1>3. CASE SerialCommit
  <2> DEFINE id == Request(step, Main, ledger[Main].counts.attempts)
  <2>1. id \in Identities
    BY <1>3, <1>s, Zenon
  <2>2. \/ CallSucceeds(id) \/ CallFails(id)
        \/ cat' \in Rejecting(cat, id) /\ UNCHANGED pending
    BY <1>3, Zenon DEF SerialCommit
  <2>3. cat'.table => cat'.namespace
    BY <2>1, <2>2, <1>c, <1>f, <1>t, ExecutedNamespace, Zenon DEF AbsentInv
  <2>4. CreateNamespaceCall \in pending' => CreateNamespaceCall \in pending
    BY <2>1, <2>2, <1>c, <1>f, FixtureCallsDistinct, Zenon DEF FixtureCalls
  <2>5. step' # "done" /\ evidence' = evidence
    BY <1>3, Zenon DEF SerialCommit, roundVars
  <2> QED BY <2>3, <2>4, <2>5, Zenon DEF AbsentInv
<1>4. CASE DropTable
  BY <1>4, <1>t, <1>c, <1>f, FixtureCallsDistinct, Zenon DEF DropTable, Goto, Note,
     AbsentInv, FixtureCalls, Operations
<1>5. CASE DropNamespace
  BY <1>5, <1>t, <1>c, <1>f, FixtureCallsDistinct, Zenon DEF DropNamespace, Goto, Note,
     AbsentInv, FixtureCalls, Operations
<1>6. CASE Preflight
  BY <1>6, <1>t, Zenon DEF Preflight, AfterPreflight, Goto, Finalize, Note, AbsentInv, EvidenceInv,
     NotYet, Operations, catalogVars, Steps
<1>7. CASE VerifyNamespace
  BY <1>7, <1>t, Zenon DEF VerifyNamespace, Finalize, Note, Status, AbsentInv, Operations, catalogVars
<1>8. CASE BaselineAudit \/ LoadTable \/ FinalAudit \/ VerifyTable
  BY <1>8, <1>t, Zenon DEF BaselineAudit, LoadTable, FinalAudit, VerifyTable, Goto, CleanUp, Note,
     AbsentInv, Operations, catalogVars
<1>9. CASE SerialReturns \/ ConcurrentReturns
  BY <1>9, <1>t, Zenon DEF SerialReturns, ConcurrentReturns, RecordPhase, NextStep, Goto, CleanUp,
     Note, AbsentInv, Operations, catalogVars
<1>10. CASE Spawn \/ MainArrives \/ SendWindow \/ DropSender
  BY <1>10, Zenon DEF Spawn, MainArrives, SendWindow, DropSender, Goto, AbsentInv, catalogVars
<1>11. CASE \E w \in Writers : Join(w)
  BY <1>11, Zenon DEF Join, roundVars, catalogVars, AbsentInv
<1>12. CASE \E w \in Writers : CatalogCommits(w)
  <2> PICK w \in Writers : CatalogCommits(w)
    BY <1>12, Zenon
  <2>1. \/ Grants(cat, Current(w)) /\ cat' \in Executed(cat, Current(w))
        \/ cat' \in Rejecting(cat, Current(w))
    BY <1>i, FixtureCallsDistinct, Zenon DEF CatalogCommits, Executed, FixtureCalls
  <2>2. /\ cat'.table => cat'.namespace
        /\ cat'.namespace => cat.namespace
    BY <2>1, <1>i, <1>t, <1>f, ExecutedNamespace, FixtureCallsDistinct DEF AbsentInv, FixtureCalls
  <2> QED BY <2>2, Zenon DEF CatalogCommits, roundVars, AbsentInv
<1>13. CASE \E w \in Writers : WriterStep(w)
  <2> PICK w \in Writers : WriterStep(w)
    BY <1>13, Zenon
  <2>1. /\ UNCHANGED <<step, evidence, cat>>
        /\ pending' \subseteq pending \cup {Current(w)}
    BY Zenon DEF WriterStep, WriterArrives, WriterPasses, WriterStarts, WriterSends,
       WriterStops, WriterAnswered, WriterErrs, WriterPanics, Recorded, roundVars, catalogVars
  <2> QED BY <2>1, <1>i, FixtureCallsDistinct, Zenon DEF AbsentInv, FixtureCalls
<1>14. CASE \E call \in pending : CatalogLate(call)
  <2> PICK call \in pending : CatalogLate(call)
    BY <1>14, Zenon
  <2>1. /\ UNCHANGED <<step, evidence>> /\ pending' \subseteq pending
        /\ cat' = cat \/ (Grants(cat, call) /\ cat' \in Executed(cat, call))
    BY Zenon DEF CatalogLate, roundVars
  <2>2. /\ cat'.table => cat'.namespace
        /\ cat'.namespace => cat.namespace \/ CreateNamespaceCall \in pending
    BY <2>1, <1>t, ExecutedNamespace, Zenon DEF AbsentInv
  <2> QED BY <2>1, <2>2, Zenon DEF AbsentInv
<1>15. CASE Expire \/ Finished \/ UNCHANGED vars
  BY <1>15, Zenon DEF Expire, Finished, vars, roundVars, catalogVars, AbsentInv
<1> QED BY <1>1, <1>2, <1>3, <1>4, <1>5, <1>6, <1>7, <1>8, <1>9, <1>10, <1>11, <1>12, <1>13,
           <1>14, <1>15, Zenon DEF Next, MainStep
============================================================================

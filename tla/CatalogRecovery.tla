--------------------------- MODULE CatalogRecovery ---------------------------
(***************************************************************************)
(* The catalog recovery probe (clients/faults/catalog_recovery.py) and the *)
(* script that judges its evidence (docker/run-catalog-recovery.sh).       *)
(*                                                                         *)
(* For three cases the probe puts a rule into the fault proxy, sends a     *)
(* commit through it, looks at the table directly, sends the same commit   *)
(* again and looks once more: the connection closes before the commit is   *)
(* forwarded, it closes after the catalog answered, and the catalog is     *)
(* restarted while the proxy holds the commit's body.  A request the probe *)
(* gave up on after its 30 seconds can still be anywhere in the proxy or   *)
(* the catalog when the probe goes on.                                     *)
(***************************************************************************)
EXTENDS FaultProxy, FiniteSets

CONSTANTS
  Settings,     \* the catalogs the probe may meet
  MaxTimeouts   \* how many requests the probe gives up on of its own accord

VARIABLES
  setting,    \* the catalog: its idempotency support and its persistence
  namespace,  \* the fixture's namespace exists
  table,      \* the fixture's table exists
  value,      \* the table's property of each case
  keys,       \* the cases whose idempotency key the catalog has stored
  applied,    \* the commits the catalog has applied (kept for the properties)
  pc,         \* the step the probe is at
  case,       \* the case it is working on
  seen,       \* what it has observed in this case
  evidence,   \* the cases it has finished
  abandoned,  \* the requests it gave up on
  verdict     \* what the script publishes

catalogVars == <<setting, namespace, table, value, keys, applied>>
probeVars == <<pc, case, seen, evidence, verdict>>
vars == <<proxyVars, up, upstream, catalogVars, probeVars, abandoned>>

Cases == Phases
Commit(c, kind) == [case |-> c, kind |-> kind]
Commits == [case : Cases, kind : {"first", "retry", "drift"}]
          \ {Commit("during-upstream", "drift")}

Unseen == [observed |-> "none", durable |-> TRUE, interrupted |-> "none", retry |-> "none",
           drift |-> "none", mutated |-> FALSE, final |-> "none", events |-> <<>>]
Following == [c \in Cases |-> CASE c = "before-upstream" -> "after-upstream"
                            [] OTHER -> "during-upstream"]

\* Every catalog starts as a fresh project; a run of the same name may have
\* left its fixture behind.
Init ==
  /\ ProxyInit
  /\ up = TRUE
  /\ setting \in Settings
  /\ \E left \in {{}, {"namespace"}, {"namespace", "table"}} :
       namespace = ("namespace" \in left) /\ table = ("table" \in left)
  /\ value = [c \in Cases |-> "none"]
  /\ keys = {}
  /\ applied = {}
  /\ pc = "dropTable"
  /\ case = "before-upstream"
  /\ seen = Unseen
  /\ evidence = [c \in Cases |-> Unseen]
  /\ abandoned = {}
  /\ verdict = "running"

----------------------------------------------------------------------------
(* The catalog, as far as the probe uses it *)

Keyed(r) == setting.idempotent /\ r.case # "during-upstream"

\* What a commit does: it is applied, or it leaves the table alone and is
\* answered from the stored key, as a conflict, or as an error.
Applies(r) ==
  /\ applied' = applied \cup {r}
  /\ value' = [value EXCEPT ![r.case] = IF r.kind = "drift" THEN "drift" ELSE "accepted"]
  /\ keys' = IF Keyed(r) THEN keys \cup {r.case} ELSE keys
Leaves == UNCHANGED <<applied, value, keys>>

CommitOutcome(r, status) ==
  IF ~table THEN status \in {"404", "500"} /\ Leaves
  ELSE IF Keyed(r) /\ r.case \in keys
  THEN IF r.kind = "drift"
       THEN CASE setting.drift = "cached" -> status = "200" /\ Leaves
              [] setting.drift = "rejected" -> status = "422" /\ Leaves
              [] setting.drift = "applied" -> status = "200" /\ Applies(r)
       ELSE status = "200" /\ Leaves
  ELSE \/ status = "200" /\ Applies(r)
       \/ status = "409" /\ value[r.case] # "none" /\ Leaves
       \/ status = "500" /\ Leaves

\* The catalog handles a commit it has received, whoever still waits for it.
Handle(r) ==
  /\ up /\ upstream[r] = "full"
  /\ \E status \in Statuses :
       /\ CommitOutcome(r, status)
       /\ upstream' = [upstream EXCEPT ![r] = status]
  /\ UNCHANGED <<proxyVars, up, setting, namespace, table, probeVars>>

\* The restarted catalog accepts connections again.
Started ==
  /\ ~up
  /\ up' = TRUE
  /\ UNCHANGED <<proxyVars, upstream, catalogVars, probeVars>>

----------------------------------------------------------------------------
(* The probe: run(args) *)

\* An exception leaves nothing but the exit status.
Raised ==
  /\ pc' = "stopped" /\ verdict' = "failed"
  /\ case' = "before-upstream" /\ seen' = Unseen /\ evidence' = [c \in Cases |-> Unseen]
\* Raised inside the executor's block: its exit waits for the pending request.
RaisedPending == pc' = "drain" /\ UNCHANGED <<case, seen, evidence, verdict>>
Goto(step) == pc' = step /\ UNCHANGED <<case, evidence, verdict>>
Seeing(observation, step) == seen' = observation /\ Goto(step)
Elsewhere == UNCHANGED <<proxyVars, up, upstream>>
CatalogKept == UNCHANGED catalogVars

\* A direct DELETE that is lost, one whose answer is lost, or one that is
\* answered; "next" is what follows when it is answered, "lost" when it is not.
DeleteTable(next, lost) ==
  /\ Elsewhere /\ UNCHANGED <<setting, namespace, value, keys, applied>>
  /\ \/ up /\ table' = FALSE /\ (next \/ lost)
     \/ UNCHANGED table /\ lost
\* A namespace that holds a table is not dropped.
DeleteNamespace(next, refused, lost) ==
  /\ Elsewhere /\ UNCHANGED <<setting, table, value, keys, applied>>
  /\ \/ up /\ ~table /\ namespace' = FALSE /\ (next \/ lost)
     \/ up /\ table /\ UNCHANGED namespace /\ refused
     \/ UNCHANGED namespace /\ lost

\* What an earlier run left is removed; how that ended is not looked at.
DropLeftTable ==
  /\ pc = "dropTable"
  /\ LET next == Seeing(seen, "dropNamespace") IN DeleteTable(next, next)

DropLeftNamespace ==
  /\ pc = "dropNamespace"
  /\ LET next == Seeing(seen, "createNamespace") IN DeleteNamespace(next, next, next)

CreateNamespace ==
  /\ pc = "createNamespace"
  /\ Elsewhere /\ UNCHANGED <<setting, table, value, keys, applied>>
  /\ \/ ~namespace /\ namespace' = TRUE /\ (Seeing(seen, "createTable") \/ Raised)
     \/ UNCHANGED namespace /\ Raised

CreateTable ==
  /\ pc = "createTable"
  /\ Elsewhere /\ UNCHANGED <<setting, namespace, value, keys, applied>>
  /\ \/ ~table /\ table' = TRUE /\ (Seeing(seen, "configure") \/ Raised)
     \/ UNCHANGED table /\ Raised

Rule(c) == [phase |-> c, occurrence |-> 1, injections |-> 1, targets |-> Requests]
ConfigureFault ==
  /\ pc = "configure"
  /\ UNCHANGED <<up, upstream>> /\ CatalogKept
  /\ \/ PutRule(Rule(case)) /\ (Seeing(seen, "first") \/ Raised)
     \/ UNCHANGED proxyVars /\ Raised

\* proxy.request: the request is sent, and its outcome taken when there is one.
Send(kind, next) ==
  /\ Arrive(Commit(case, kind))
  /\ CatalogKept /\ Seeing(seen, next)
Outcome(kind) == reply[Commit(case, kind)]
Returned(kind) == Outcome(kind) # "none" /\ Elsewhere /\ CatalogKept

SendFirst ==
  /\ pc = "first"
  /\ Send("first", IF case = "during-upstream" THEN "waitEvent" ELSE "awaitFirst")

TakeFirst ==
  /\ pc = "awaitFirst" /\ Returned("first")
  /\ IF Outcome("first") = "disconnected" THEN Seeing(seen, "load") ELSE Raised

Expected(c) == IF c = "after-upstream" THEN "accepted" ELSE "none"
LoadObserved ==
  /\ pc = "load"
  /\ Elsewhere /\ CatalogKept
  /\ \/ /\ table /\ value[case] = Expected(case)
        /\ Seeing([seen EXCEPT !.observed = value[case]], "retry")
     \/ Raised

SendRetry == pc = "retry" /\ Send("retry", "awaitRetry")

Allowed(c) ==
  CASE c = "before-upstream" -> {"200"}
    [] c = "after-upstream" -> IF setting.idempotent THEN {"200"} ELSE {"200", "409"}
    [] OTHER -> Statuses \cup {"disconnected"}
TakeRetry ==
  /\ pc = "awaitRetry" /\ Returned("retry")
  /\ IF Outcome("retry") \in Allowed(case)
     THEN Seeing([seen EXCEPT !.retry = Outcome("retry")], "final")
     ELSE Raised

LoadFinal ==
  /\ pc = "final" /\ case # "during-upstream"
  /\ Elsewhere /\ CatalogKept
  /\ \/ /\ table /\ value[case] = "accepted"
        /\ Seeing([seen EXCEPT !.final = "accepted"],
                  IF setting.idempotent THEN "drift" ELSE "state")
     \/ Raised

\* The same key with another content.
SendDrift == pc = "drift" /\ Send("drift", "awaitDrift")
TakeDrift ==
  /\ pc = "awaitDrift" /\ Returned("drift")
  /\ Seeing([seen EXCEPT !.drift = Outcome("drift")], "loadDrift")
LoadDrift ==
  /\ pc = "loadDrift"
  /\ Elsewhere /\ CatalogKept
  /\ \/ table /\ Seeing([seen EXCEPT !.mutated = value[case] # "accepted"], "state")
     \/ Raised

Finished(observation, step) ==
  /\ evidence' = [evidence EXCEPT ![case] = observation]
  /\ pc' = step
  /\ UNCHANGED verdict
ReadState ==
  /\ pc = "state"
  /\ Elsewhere /\ CatalogKept
  /\ \/ /\ Finished([seen EXCEPT !.events = events], "configure")
        /\ case' = Following[case] /\ seen' = Unseen
     \/ Raised

----------------------------------------------------------------------------
(* The probe: the case that restarts the catalog *)

WaitForFaultEvent ==
  /\ pc = "waitEvent"
  /\ Elsewhere /\ CatalogKept
  /\ \/ events # <<>> /\ Seeing([seen EXCEPT !.events = events], "restart")
     \/ RaisedPending

\* docker compose restart: it returns when the container has started, which
\* is before the catalog accepts connections.
RestartCatalog ==
  /\ pc = "restart"
  /\ up' = FALSE
  /\ ConnectionsBroken
  /\ IF setting.durable
     THEN CatalogKept
     ELSE /\ namespace' = FALSE /\ table' = FALSE /\ keys' = {}
          /\ value' = [c \in Cases |-> "none"]
          /\ UNCHANGED <<setting, applied>>
  /\ UNCHANGED proxyVars
  /\ Seeing(seen, "release") \/ RaisedPending

Release ==
  /\ pc = "release"
  /\ UNCHANGED <<up, upstream>> /\ CatalogKept
  /\ \/ ReleaseRule /\ (Seeing(seen, "awaitPending") \/ RaisedPending)
     \/ UNCHANGED proxyVars /\ RaisedPending

TakePending ==
  /\ pc = "awaitPending" /\ Returned("first")
  /\ Seeing([seen EXCEPT !.interrupted = Outcome("first")], "waitTable")

\* The executor's exit, and then what was raised.
Drain == pc = "drain" /\ Returned("first") /\ Raised

\* wait_for_oauth_token and wait_for_table_state; both have a deadline.
WaitForTable ==
  /\ pc = "waitTable"
  /\ Elsewhere /\ CatalogKept
  /\ \/ up /\ table /\ value[case] = "none" /\ Seeing(seen, "retry")
     \/ up /\ ~table /\ Seeing([seen EXCEPT !.durable = FALSE], "retry")
     \/ Raised

WaitForFinal ==
  /\ pc = "final" /\ case = "during-upstream"
  /\ Elsewhere /\ CatalogKept
  /\ LET final == IF table THEN value[case] ELSE "none"
     IN \/ /\ up /\ (seen.durable => seen.retry = "200" /\ final = "accepted")
           /\ Finished([seen EXCEPT !.final = final], "cleanTable")
           /\ UNCHANGED <<case, seen>>
        \/ Raised

CleanTable ==
  /\ pc = "cleanTable"
  /\ DeleteTable(Seeing(seen, "cleanNamespace"), Seeing(seen, "cleanLost"))
CleanNamespace ==
  /\ pc \in {"cleanNamespace", "cleanLost"}
  /\ LET next == IF pc = "cleanNamespace" THEN Seeing(seen, "summary") ELSE Raised
     IN DeleteNamespace(next, Raised, Raised)

----------------------------------------------------------------------------
(* The script's summary *)

\* Mutant: the events are not counted.
CompleteWithoutEvents ==
  LET before == evidence["before-upstream"]
      after == evidence["after-upstream"]
  IN /\ before.observed = "none" /\ before.retry = "200" /\ before.final = "accepted"
     /\ after.observed = "accepted" /\ after.retry \in {"200", "409"} /\ after.final = "accepted"

Complete ==
  LET before == evidence["before-upstream"]
      after == evidence["after-upstream"]
      restart == evidence["during-upstream"]
  IN /\ before.observed = "none" /\ before.retry = "200" /\ before.final = "accepted"
     /\ after.observed = "accepted" /\ after.retry \in {"200", "409"} /\ after.final = "accepted"
     /\ Len(before.events) = 1 /\ before.events[1].status = NoStatus
     /\ Len(after.events) = 1 /\ after.events[1].status = "200"
     /\ Len(restart.events) = 1 /\ restart.events[1].phase = "during-upstream"
RestartPassed ==
  LET restart == evidence["during-upstream"]
  IN restart.durable /\ restart.observed = "none" /\ restart.retry = "200"
       /\ restart.final = "accepted"

Summarize ==
  /\ pc = "summary"
  /\ pc' = "stopped"
  /\ verdict' = IF ~Complete THEN "rejected"
                ELSE IF RestartPassed THEN "verified" ELSE "verified_with_failures"
  /\ Elsewhere /\ CatalogKept /\ UNCHANGED <<case, seen, evidence>>

----------------------------------------------------------------------------
\* urlopen's timeout: the client gives up and closes its connection.
TimesOut(r) ==
  /\ handler[r].at # "idle" /\ reply[r] = "none"
  /\ Cardinality(abandoned) < MaxTimeouts \/ pc = "drain"
  /\ abandoned' = abandoned \cup {r}
  /\ reply' = [reply EXCEPT ![r] = "disconnected"]
  /\ UNCHANGED <<rule, matchCount, events, release, released, handler, up, upstream>>
  /\ CatalogKept /\ UNCHANGED probeVars

Probe ==
  \/ DropLeftTable \/ DropLeftNamespace \/ CreateNamespace \/ CreateTable
  \/ ConfigureFault \/ SendFirst \/ TakeFirst \/ LoadObserved
  \/ SendRetry \/ TakeRetry \/ LoadFinal \/ SendDrift \/ TakeDrift \/ LoadDrift \/ ReadState
  \/ WaitForFaultEvent \/ RestartCatalog \/ Release \/ TakePending \/ Drain
  \/ WaitForTable \/ WaitForFinal \/ CleanTable \/ CleanNamespace \/ Summarize

Serves(r) == Serve(r) /\ CatalogKept /\ UNCHANGED probeVars

Next ==
  \/ (Probe \/ Started \/ \E r \in Requests : Serves(r) \/ Handle(r)) /\ UNCHANGED abandoned
  \/ \E r \in Requests : TimesOut(r)

Spec == Init /\ [][Next]_vars

\* The probe, the proxy's goroutines and the catalog run; a socket has its
\* timeout.
FairSpec ==
  /\ Spec
  /\ WF_vars(Probe /\ UNCHANGED abandoned)
  /\ \A r \in Requests :
       WF_vars((Serves(r) \/ Handle(r)) /\ UNCHANGED abandoned) /\ WF_vars(TimesOut(r))

----------------------------------------------------------------------------
(* Properties *)

Event == [phase : Phases, number : Nat, status : Statuses \cup {NoStatus}, of : Requests]
Outcomes == Statuses \cup {"none", "disconnected"}
Observation ==
  [observed : {"none", "accepted"}, durable : BOOLEAN, interrupted : Outcomes, retry : Outcomes,
   drift : Outcomes, mutated : BOOLEAN, final : {"none", "accepted", "drift"},
   events : BoundedSeq(Event, 3)]

\* The proxy, the catalog and the probe keep their variables within their types.
TypeOK ==
  /\ matchCount \in Nat /\ rule.phase \in Phases \cup {"none"}
  /\ \A i \in DOMAIN events : events[i] \in Event
  /\ release \in {NoGate, "during-upstream"} /\ released \subseteq {"during-upstream"}
  /\ \A r \in Requests : /\ reply[r] \in Outcomes
                         /\ upstream[r] \in Statuses \cup {"none", "partial", "full"}
  /\ up \in BOOLEAN /\ namespace \in BOOLEAN /\ table \in BOOLEAN /\ applied \subseteq Requests
  /\ value \in [Cases -> {"none", "accepted", "drift"}] /\ keys \subseteq Cases
  /\ case \in Cases /\ seen.retry \in Outcomes
  /\ verdict \in {"running", "failed", "rejected", "verified", "verified_with_failures"}

Verified == verdict \in {"verified", "verified_with_failures"}
\* A drift commit the probe gave up on can meet the rule of the next case.
DriftAbandoned == \E r \in abandoned : r.kind = "drift"

\* Each case of verified evidence rests on one event, and the proxy injected
\* that fault into the first commit of that case: not into its retry, and not
\* into a commit of an earlier case that was still on its way when the rule
\* was replaced.  A drift commit that was given up is the exception: the next
\* rule can count it as its first match, and the summary does not tell.
EvidenceIsOwn ==
  Verified /\ ~DriftAbandoned =>
    \A c \in Cases : /\ Len(evidence[c].events) = 1
                     /\ evidence[c].events[1].of = Commit(c, "first")
                     /\ evidence[c].events[1].phase = c

\* Verified evidence tells what the catalog did, now and later: the commit
\* that was cut off before the catalog was never applied and its retry was,
\* the one cut off after the answer was applied, the one the restart
\* interrupted was not, and after a restart that passed its retry was.  A
\* drift commit that was answered is reported as applied if and only if it
\* was, and the fixture's table is gone.
RecoveryIsGenuine ==
  Verified =>
    /\ ~table
    /\ \A c \in Cases : evidence[c].drift \in Statuses =>
                          (evidence[c].mutated <=> Commit(c, "drift") \in applied)
    /\ ~DriftAbandoned =>
         /\ Commit("before-upstream", "first") \notin applied
         /\ Commit("before-upstream", "retry") \in applied
         /\ Commit("after-upstream", "first") \in applied
         /\ Commit("during-upstream", "first") \notin applied
         /\ verdict = "verified" => Commit("during-upstream", "retry") \in applied

\* The probe ends: no wait for an event, a restart, a gate or a request that
\* the proxy holds keeps it for ever.
Terminates == <>(verdict # "running")

\* A request whose body the proxy holds at a gate that nobody opened.
Held(r) == handler[r].at = "paused" /\ handler[r].gate \notin released

\* The probe ends, since every wait of it has a timeout (Client.request,
\* wait_for_fault_event, wait_for_table_state), and the proxy comes to rest
\* after it: every request it took was relayed, failed or disconnected.  What
\* may stay is the commit held at a gate that a failed probe did not open:
\* gatedBody.Read waits for the gate and for nothing else, not even for the
\* client, and only the end of the proxy ends it.  A probe that published a
\* verdict leaves nothing held.
ComesToRest ==
  /\ Terminates
  /\ <>[](\A r \in Requests : \/ handler[r].at \in {"idle", "done", "disconnected"}
                              \/ Held(r) /\ verdict = "failed")
=============================================================================

----------------------------- MODULE FaultProxy -----------------------------
(***************************************************************************)
(* The fault proxy (docker/minio/tools/internal/faultproxy/proxy.go).  It  *)
(* forwards requests to one upstream server and applies one rule at a      *)
(* time: close the client's connection before the request is forwarded,    *)
(* close it after the upstream server has answered, or hold the request's  *)
(* body after its first byte until the rule is released.                   *)
(*                                                                         *)
(* Each request is served by a goroutine of its own.  Its steps are the    *)
(* sections the mutex protects and the network events between them, so a   *)
(* rule can be put, replaced or released between any two of them, and a    *)
(* goroutine outlives the client that gave up on it.                       *)
(***************************************************************************)
EXTENDS Integers, Sequences, SequencesExt

CONSTANT Requests

VARIABLES
  rule,        \* the rule in force, or NoRule
  matchCount,  \* requests the rule has matched
  events,      \* the faults injected since the rule was put
  release,     \* the gate of the rule, named by its phase (a run of the probe
               \* puts one pausing rule), or NoGate
  released,    \* the gates that have been opened
  handler,     \* the goroutine of each request
  reply,       \* what the client of each request has got
  up,          \* the upstream server is running
  upstream     \* what the upstream server has of each request

proxyVars == <<rule, matchCount, events, release, released, handler, reply>>

Phases == {"before-upstream", "during-upstream", "after-upstream"}
NoRule == [phase |-> "none", occurrence |-> 0, injections |-> 0, targets |-> {}]
NoGate == "none"
Statuses == {"200", "404", "409", "422", "500", "502"}
NoStatus == "none"

\* Validate: the phase determines the action, so a rule keeps only the phase.
\* targets: the requests with the rule's method and a path that contains its
\* fragment.
Validate(candidate) ==
  /\ candidate.phase \in Phases
  /\ candidate.occurrence > 0
  /\ candidate.injections \in 1..1000
Pauses(r) == handler[r].inject /\ handler[r].phase = "during-upstream"
Disconnects(r, phase) == handler[r].inject /\ handler[r].phase = phase

Idle == [at |-> "idle", phase |-> "none", number |-> 0, inject |-> FALSE,
         gate |-> NoGate]

ProxyInit ==
  /\ rule = NoRule
  /\ matchCount = 0
  /\ events = <<>>
  /\ release = NoGate
  /\ released = {}
  /\ handler = [r \in Requests |-> Idle]
  /\ reply = [r \in Requests |-> "none"]
  /\ upstream = [r \in Requests |-> "none"]

----------------------------------------------------------------------------
(* The control listener *)

\* putRule.  A gate that was not opened is forgotten, not opened.
PutRule(new) ==
  /\ Validate(new)
  /\ rule' = new
  /\ matchCount' = 0
  /\ events' = <<>>
  /\ release' = IF new.phase = "during-upstream" THEN new.phase ELSE NoGate
  /\ released' = released \ {new.phase}
  /\ UNCHANGED <<handler, reply>>

\* releaseRule answers 200 and opens the gate, or answers 409.
Releasable == release # NoGate /\ release \notin released
ReleaseRule ==
  /\ Releasable
  /\ released' = released \cup {release}
  /\ UNCHANGED <<rule, matchCount, events, release, handler, reply>>

----------------------------------------------------------------------------
(* The data listener: serveProxy for request r *)

To(r, at) == handler' = [handler EXCEPT ![r].at = at]
Answer(r, status) == IF reply[r] = "none" THEN [reply EXCEPT ![r] = status] ELSE reply

\* The client has written the request to its connection.
Arrive(r) ==
  /\ handler[r].at = "idle"
  /\ To(r, "arrived")
  /\ UNCHANGED <<rule, matchCount, events, release, released, reply, up, upstream>>

\* match: counts the request against the rule in force and keeps a copy of
\* what it decided; what follows does not look at the rule again.
Match(r) ==
  /\ handler[r].at = "arrived"
  /\ IF rule = NoRule \/ r \notin rule.targets
     THEN /\ To(r, "matched")
          /\ UNCHANGED matchCount
     ELSE /\ matchCount' = matchCount + 1
          /\ handler' = [handler EXCEPT ![r] =
               [@ EXCEPT !.at = "matched", !.phase = rule.phase, !.number = matchCount',
                         !.inject = /\ matchCount' >= rule.occurrence
                                    /\ matchCount' <= rule.occurrence + rule.injections - 1]]
  /\ UNCHANGED <<rule, events, release, released, reply, up, upstream>>

\* record.  An event does not say which request it was injected into; "of"
\* is kept for the properties.
Record(r, status) ==
  events' = Append(events, [phase |-> handler[r].phase, number |-> handler[r].number,
                            status |-> status, of |-> r])

\* Mutant: the request is forwarded although its connection is to be closed.
RecordAndForward(r) ==
  /\ handler[r].at = "matched" /\ Disconnects(r, "before-upstream")
  /\ Record(r, NoStatus)
  /\ To(r, "disconnecting")
  /\ upstream' = [upstream EXCEPT ![r] = "full"]
  /\ UNCHANGED <<rule, matchCount, release, released, reply, up>>

RecordBefore(r) ==
  /\ handler[r].at = "matched" /\ Disconnects(r, "before-upstream")
  /\ Record(r, NoStatus)
  /\ To(r, "disconnecting")
  /\ UNCHANGED <<rule, matchCount, release, released, reply, up, upstream>>

Disconnect(r) ==
  /\ handler[r].at = "disconnecting"
  /\ To(r, "disconnected")
  /\ reply' = Answer(r, "disconnected")
  /\ UNCHANGED <<rule, matchCount, events, release, released, up, upstream>>

\* Mutant: the body waits on a channel that nobody closes.
TakeNoGate(r) ==
  /\ handler[r].at = "matched" /\ Pauses(r)
  /\ handler' = [handler EXCEPT ![r].at = "gated", ![r].gate = NoGate]
  /\ UNCHANGED <<rule, matchCount, events, release, released, reply, up, upstream>>

\* The body is wrapped in a gatedBody with the gate in force now.
TakeGate(r) ==
  /\ handler[r].at = "matched" /\ Pauses(r)
  /\ handler' = [handler EXCEPT ![r].at = "gated", ![r].gate = release]
  /\ UNCHANGED <<rule, matchCount, events, release, released, reply, up, upstream>>

\* client.Do connects and sends the request, or the first byte of a gated one.
ToForward(r) ==
  \/ handler[r].at = "gated"
  \/ handler[r].at = "matched" /\ ~Pauses(r) /\ ~Disconnects(r, "before-upstream")
Forward(r) ==
  /\ ToForward(r) /\ up
  /\ To(r, IF Pauses(r) THEN "begun" ELSE "sent")
  /\ upstream' = [upstream EXCEPT ![r] = IF Pauses(r) THEN "partial" ELSE "full"]
  /\ UNCHANGED <<rule, matchCount, events, release, released, reply, up>>

\* gatedBody.Read, the second time: the pause is recorded, then the gate waited
\* for, whether or not the connection to the server still stands.
RecordPause(r) ==
  /\ handler[r].at = "begun"
  /\ Record(r, NoStatus)
  /\ To(r, "paused")
  /\ UNCHANGED <<rule, matchCount, release, released, reply, up, upstream>>

\* The rest of the body is read; a connection that broke meanwhile fails then.
SendRest(r) ==
  /\ handler[r].at = "paused" /\ handler[r].gate \in released
  /\ To(r, "sent")
  /\ upstream' = [upstream EXCEPT ![r] = IF @ = "partial" THEN "full" ELSE @]
  /\ UNCHANGED <<rule, matchCount, events, release, released, reply, up>>

\* client.Do fails: no connection, a connection that the server's end broke,
\* or the request's context cancelled because its client has gone.  The last
\* two end it only once the body has been read: the server looks for a client
\* that has gone when it has seen the body's end, and the transport waits for
\* its goroutine that writes the body.  A gated body waits for its gate alone.
UpstreamFailed(r) ==
  /\ \/ ToForward(r) /\ ~up
     \/ handler[r].at = "sent" /\ (upstream[r] = "none" \/ reply[r] # "none")
  /\ To(r, "done")
  /\ reply' = Answer(r, "502")
  /\ UNCHANGED <<rule, matchCount, events, release, released, up, upstream>>

\* The upstream server's answer has arrived.
Answered(r) == handler[r].at = "sent" /\ upstream[r] \in Statuses

RecordAfter(r) ==
  /\ Answered(r) /\ Disconnects(r, "after-upstream")
  /\ Record(r, upstream[r])
  /\ To(r, "disconnecting")
  /\ UNCHANGED <<rule, matchCount, release, released, reply, up, upstream>>

Relay(r) ==
  /\ Answered(r) /\ ~Disconnects(r, "after-upstream")
  /\ To(r, "done")
  /\ reply' = Answer(r, upstream[r])
  /\ UNCHANGED <<rule, matchCount, events, release, released, up, upstream>>

Serve(r) ==
  \/ Match(r) \/ RecordBefore(r) \/ Disconnect(r) \/ TakeGate(r)
  \/ Forward(r) \/ RecordPause(r) \/ SendRest(r)
  \/ UpstreamFailed(r) \/ RecordAfter(r) \/ Relay(r)

----------------------------------------------------------------------------
(* The upstream server's end of the connections *)

\* The server stops: what it was sent and had not answered is lost with it.
ConnectionsBroken == upstream' = [r \in Requests |-> "none"]
=============================================================================

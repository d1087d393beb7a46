-------------------------- MODULE SupervisedEngine --------------------------
(***************************************************************************)
(* Spark and Flink (crates/engine/src/process.rs, protocol.rs): the engine *)
(* is a child process that writes its events to a pipe.  A reader task     *)
(* feeds what it reads to a decoder and signals when the stream is         *)
(* rejected; the supervisor waits for the first of the child's exit, the   *)
(* signal and the timeout, kills the child unless it exited, drains the    *)
(* pipe and classifies what it has.                                        *)
(***************************************************************************)
EXTENDS EngineWorkflow, SequencesExt

VARIABLES
  torn,        \* the last event of the pipe has no end of line: its writer died
  held,        \* another process keeps the pipe open
  decoder,     \* EngineEventDecoder
  reader,      \* the reader task
  supervisor   \* collect_child: the step it is at and what ended the wait

pipeVars == <<torn, held, decoder, reader, supervisor>>
vars == <<programVars, workflowVars, pipeVars>>

----------------------------------------------------------------------------
(* The decoder (protocol.rs) *)

Decoder == [events : Seq(Event), failure : ProtocolFailures, next : 1..(Len(Stages) + 1),
            terminal : BOOLEAN, line : Seq(Event)]
NewDecoder ==
  [events |-> <<>>, failure |-> "none", next |-> 1, terminal |-> FALSE, line |-> <<>>]

Reject(d, kind) == IF d.failure = "none" THEN [d EXCEPT !.failure = kind] ELSE d

\* A stage is reported, or fails, only when its turn has come.
InOrder(d, e) ==
  IF e.kind = "completed" THEN d.next = Len(Stages) + 1
                          ELSE d.next <= Len(Stages) /\ Stages[d.next] = e.stage
Terminal(e) == e.kind # "ready" \/ (e.stage = "PreflightFixture" /\ ~e.ok)

Accept(d, e) ==
  IF d.terminal THEN Reject(d, "PostTerminal")
  ELSE IF ~InOrder(d, e) THEN Reject(d, "OutOfOrder")
  ELSE [d EXCEPT !.events = Append(@, e), !.terminal = Terminal(e),
                 !.next = IF e.kind = "ready" THEN @ + 1 ELSE @]

\* finish_line.  A line that noise has been merged into does not start with
\* the prefix and is passed over.
Line(text, event) == [text |-> text, event |-> event]
FinishLine(d, line) ==
  CASE d.failure # "none" \/ line.text = "noise" -> d
    [] line.text = "malformed" -> Reject(d, "MalformedEvent")
    [] line.text = "long" -> Reject(d, "EventLineTooLarge")
    [] OTHER -> Accept(d, line.event)

\* push: a chunk that exceeds the limit of the stream is dropped as a whole.
Push(d, lines, rest) ==
  IF \E i \in DOMAIN lines : lines[i].text = "flood" THEN Reject(d, "StdoutTooLarge")
  ELSE [FoldLeft(FinishLine, d, lines) EXCEPT !.line = rest]

\* finish: what is left without an end of line is decoded if it can be.
Finish(d, text) ==
  LET last == IF d.line = <<>> THEN d ELSE FinishLine(d, Line(text, d.line[1]))
  IN  IF last.terminal THEN last ELSE Reject(last, "MissingTerminal")

----------------------------------------------------------------------------
(* The child and its pipe *)

Init ==
  /\ engine \in Engines
  /\ \E before \in Before : catalog = InitialCatalog(before)
  /\ request = "none" /\ out = <<>> /\ fault = "none"
  /\ child = [state |-> "unborn", stage |-> 1, phase |-> PhaseOf(1), code |-> NoCode]
  /\ WorkflowInit
  /\ torn = FALSE /\ held = FALSE
  /\ decoder = NewDecoder /\ reader = "reading"
  /\ supervisor = [at |-> "prepare", wait |-> "none"]

PipeBroken == reader # "reading"

ChildWrites ==
  /\ ~PipeBroken
  /\ \E w \in Reports \cup Failures :
       out' = Append(out, w.event) /\ child' = w.next /\ fault' = w.fault
  /\ UNCHANGED <<engine, catalog, request, torn, held, decoder, reader, supervisor>>

\* The reader has stopped and closed its end: the next write fails.
ChildFindsPipeBroken ==
  /\ PipeBroken /\ Reports \cup Failures # {}
  /\ \E code \in {1, 2} : child' = [child EXCEPT !.state = "exited", !.code = code]
  /\ held' \in BOOLEAN
  /\ UNCHANGED <<engine, catalog, request, out, fault, torn, decoder, reader, supervisor>>

ChildExits ==
  /\ Running /\ child.phase = "stopping"
  /\ child' = [child EXCEPT !.state = "exited"]
  /\ held' \in BOOLEAN
  /\ UNCHANGED <<engine, catalog, request, out, fault, torn, decoder, reader, supervisor>>

\* The process ends while it writes an event, or between two.
Dies(state, code) ==
  /\ child' = [child EXCEPT !.state = state, !.code = code]
  /\ held' \in BOOLEAN
  /\ \/ UNCHANGED <<out, torn>>
     \/ /\ ~PipeBroken
        /\ \E w \in Reports : out' = Append(out, w.event)
        /\ torn' = TRUE

\* The exit status is then none of the codes the program leaves with.
ChildCrashes ==
  /\ Running
  /\ Dies("exited", NoCode)
  /\ UNCHANGED <<engine, catalog, request, fault, decoder, reader, supervisor>>

ChildActs ==
  /\ \/ ChildSends /\ UNCHANGED pipeVars
     \/ ChildWrites \/ ChildFindsPipeBroken \/ ChildExits \/ ChildCrashes
  /\ UNCHANGED workflowVars

----------------------------------------------------------------------------
(* The reader task (drain_stdout) *)

\* What a read returns: some events, one of which may arrive damaged.
Chunk(n, damage, at) ==
  [i \in 1..n |-> Line(IF i = at THEN damage ELSE "event", out[i])]

ReaderReads ==
  /\ reader = "reading"
  /\ \E n \in 1..Len(out) :
       LET whole == IF torn /\ n = Len(out) THEN n - 1 ELSE n
           rest  == SubSeq(out, whole + 1, n)
       IN  /\ \/ /\ decoder' = Push(decoder, Chunk(whole, "event", 0), rest)
                 /\ UNCHANGED fault
              \/ \E damage \in LineFaults, at \in 1..whole :
                   /\ MayErr(damage) /\ fault' = damage
                   /\ decoder' = Push(decoder, Chunk(whole, damage, at), rest)
           /\ out' = SubSeq(out, n + 1, Len(out))
           /\ reader' = IF decoder'.failure = "none" THEN "reading" ELSE "returned"
  /\ UNCHANGED <<engine, catalog, request, child, torn, held, supervisor>>

ReaderSeesEnd ==
  /\ reader = "reading" /\ out = <<>>
  /\ child.state \in {"exited", "killed"} /\ ~held
  /\ reader' = "returned"
  /\ UNCHANGED <<programVars, torn, held, decoder, supervisor>>

ReaderErrs ==
  /\ reader = "reading" /\ child.state # "unborn"
  /\ MayErr("read") /\ fault' = "read"
  /\ reader' = "failed"
  /\ UNCHANGED <<engine, catalog, request, child, out, torn, held, decoder, supervisor>>

ReaderActs == (ReaderReads \/ ReaderSeesEnd \/ ReaderErrs) /\ UNCHANGED workflowVars

----------------------------------------------------------------------------
(* The supervisor (execute_with_source, collect_child) *)

Prepare ==
  /\ supervisor.at = "prepare"
  /\ \/ /\ \E outcome \in {"RuntimeRejected", "PreparationFailed", "CredentialRejected",
                           "SpawnFailed"} : Return(BeforeProcess(outcome))
        /\ supervisor' = [supervisor EXCEPT !.at = "returned"]
        /\ UNCHANGED child
     \/ /\ Return(BeforeProcess("StdoutFailed"))
        /\ supervisor' = [supervisor EXCEPT !.at = "returned"]
        /\ child' = [child EXCEPT !.state = "killed"]
     \/ /\ child' = [child EXCEPT !.state = "running"]
        /\ supervisor' = [supervisor EXCEPT !.at = "select"]
        /\ UNCHANGED workflowVars
  /\ UNCHANGED <<engine, catalog, request, out, fault, torn, held, decoder, reader>>

\* ReaderSignal: why the reader stopped before the end of the stream.
Signal ==
  CASE reader = "failed" -> "Stdout"
    [] reader = "returned" /\ decoder.failure # "none" -> "Protocol"
    [] OTHER -> "none"

WaitEnds(wait) == supervisor' = [at |-> "drain", wait |-> wait]

SelectExited ==
  /\ supervisor.at = "select" /\ child.state = "exited"
  /\ WaitEnds("exited")
  /\ UNCHANGED <<programVars, workflowVars, torn, held, decoder, reader>>

\* terminate_child: the whole process group is killed.
TerminateChild ==
  IF Running THEN Dies("killed", NoCode) ELSE UNCHANGED <<child, held, out, torn>>

SelectOther(wait) ==
  /\ supervisor.at = "select"
  /\ wait = "reader" => Signal # "none"
  /\ WaitEnds(wait)
  /\ TerminateChild
  /\ UNCHANGED <<engine, catalog, request, fault, workflowVars, decoder, reader>>

\* classify_process
Classify(p, wait, stdoutFailed) ==
  CASE wait = "timed_out" -> "TimedOut"
    [] wait = "failed" -> "WaitFailed"
    [] wait = "reader" /\ Signal = "Stdout" -> "StdoutFailed"
    [] wait = "reader" -> "ProtocolRejected"
    [] stdoutFailed -> "StdoutFailed"
    [] p.failure # "none" -> "ProtocolRejected"
    [] OTHER -> FromTerminal(p)

\* finish_reader, finish_decoder and the result of collect_child, which drops
\* the reader's end of the pipe.
Collected(text, stdoutFailed) ==
  LET d == Finish(decoder, text)
      p == [outcome |-> "none", events |-> d.events, failure |-> d.failure,
            code |-> IF supervisor.wait = "exited" THEN child.code ELSE NoCode]
  IN  [p EXCEPT !.outcome = Classify(p, supervisor.wait, stdoutFailed)]

\* Nothing but its end is left of a child that is gone once its handle is
\* dropped; a child that still ran would go on.
Reaped ==
  IF Running THEN child
  ELSE [child EXCEPT !.stage = 1, !.phase = PhaseOf(1), !.code = NoCode]

\* The torn line reads as an event, as a malformed one or as no event at all.
Returns(stdoutFailed) ==
  /\ \E text \in {"event", "malformed", "noise"} : Return(Collected(text, stdoutFailed))
  /\ supervisor' = [at |-> "returned", wait |-> "none"]
  /\ child' = Reaped
  /\ decoder' = NewDecoder /\ out' = <<>> /\ torn' = FALSE /\ held' = FALSE
  /\ UNCHANGED <<engine, catalog, request, fault>>

ReaderJoined ==
  /\ supervisor.at = "drain" /\ reader # "reading"
  /\ Returns(reader = "failed")
  /\ UNCHANGED reader

DrainWaitsAgain ==
  /\ supervisor.at = "drain" /\ reader = "reading"
  /\ supervisor' = [at |-> "select", wait |-> "none"]
  /\ UNCHANGED <<programVars, workflowVars, torn, held, decoder, reader>>
DrainTimesOut ==
  /\ supervisor.at = "drain" /\ reader = "reading"
  /\ reader' = "aborted"
  /\ Returns(TRUE)

SupervisorActs ==
  \/ Prepare \/ SelectExited \/ ReaderJoined \/ DrainTimesOut
  \/ \E wait \in {"reader", "timed_out", "failed"} : SelectOther(wait)

Done == Finished /\ UNCHANGED vars

Next ==
  \/ ChildActs \/ ReaderActs \/ SupervisorActs
  \/ CatalogActs /\ UNCHANGED <<workflowVars, pipeVars>>
  \/ WorkflowActs /\ UNCHANGED pipeVars
  \/ Done

Spec == Init /\ [][Next]_vars
\* The harness keeps taking its own steps; its timers fire.  Nothing is
\* assumed of the child, of the reader or of the catalog.
FairSpec == Spec /\ WF_vars(SupervisorActs) /\ WF_vars(WorkflowActs /\ UNCHANGED pipeVars)

----------------------------------------------------------------------------
(* Properties *)

TypeOK ==
  /\ engine \in {"spark", "flink"} /\ fault \in Faults \cup {"none"}
  /\ catalog \in [namespace : Owners, table : Owners, history : Seq(TableMutations)]
  /\ request \in Mutations \cup {"none"}
  /\ child \in [state : {"unborn", "running", "exited", "killed"}, stage : 1..(Len(Stages) + 1),
                phase : {"work", "waiting", "ready", "stopping"}, code : {NoCode} \cup 0..3]
  /\ out \in Seq(Event) /\ torn \in BOOLEAN /\ held \in BOOLEAN
  /\ decoder \in Decoder /\ process \in Process /\ execution \in Execution
  /\ reader \in {"reading", "returned", "failed", "aborted"}
  /\ supervisor \in [at : {"prepare", "select", "drain", "returned"},
                     wait : {"none", "exited", "timed_out", "failed", "reader"}]

\* Once the runner has returned, the child does not run any more: it exited or
\* its group was killed, whatever ended the wait (collect_child).
NoChildLeft == Returned => child.state # "running"

\* What the child did to the catalog is covered by the authority to clean up:
\* the preflight event was flushed before the first mutation, so it is decoded
\* even if the child was killed, unless the stream was rejected or its end not
\* seen, or a line was lost in other output (emit, finish_reader,
\* cleanup_authorized).
MutationsAreCovered ==
  Returned /\ (catalog.namespace = "owned" \/ request # "none") =>
    \/ CleanupAuthorized
    \/ process.failure \notin {"none", "MissingTerminal"} \/ fault = "noise"
    \/ reader \in {"failed", "aborted"}

\* What a supervised runner hands over when it returns: no running child, and
\* the authority to clean up after it (collect_child, cleanup_authorized).
RunnerHandsOver == NoChildLeft /\ MutationsAreCovered

\* However the child, its pipe and the catalog behave, the run ends with a
\* classification (the select, PROCESS_KILL_TIMEOUT, PROCESS_DRAIN_TIMEOUT).
Terminates == <>Finished

=============================================================================

--------------------------- MODULE EvidenceFile ---------------------------
(***************************************************************************)
(* write_new_evidence (crates/conformance/src/evidence_file.rs): programs  *)
(* publish their evidence under one path through a temporary file and a    *)
(* hard link.  Every system call may fail, every program may be killed     *)
(* between two calls, and the power may fail: what the file system had not *)
(* written to its disk is then gone.                                       *)
(***************************************************************************)
CONSTANTS
  Writers,      \* the programs, one of them possibly a rerun of another
  Nobody,       \* nothing is under the path
  Earlier,      \* evidence that was under the path before
  FreshParents, \* whether the path's directory may have to be created
  Faults        \* the stages whose system call may fail

\* EvidenceWriteFailureKind, in the order of the calls
Stages == {"CreateParent", "CreateTemporaryFile", "Write", "SyncFile", "Publish",
           "RemoveTemporaryFile", "SyncParent"}

ASSUME FileAssumption ==
  /\ Nobody \notin Writers /\ Earlier \notin Writers /\ Nobody # Earlier
  /\ FreshParents \subseteq BOOLEAN
  /\ Faults \subseteq Stages

VARIABLES
  pc,       \* the stage each program is about to perform
  result,   \* what its call returns: "ok", or the stage that failed
  cache,    \* the files as programs see them
  disk      \* the files as they would be after a power failure

vars == <<pc, result, cache, disk>>

\* The directory holds the path's name and one temporary name for each program; data is
\* what the program's file contains.
NoFile == [w \in Writers |-> FALSE]
Files(parent, public) ==
  [parent |-> parent, public |-> public, tmp |-> NoFile, data |-> [w \in Writers |-> "empty"]]

Init ==
  /\ pc = [w \in Writers |-> "CreateParent"]
  /\ result = [w \in Writers |-> "none"]
  /\ \E fresh \in FreshParents, public \in {Nobody, Earlier} :
       /\ fresh => public = Nobody
       /\ cache = Files(~fresh, public)
  /\ disk = cache

----------------------------------------------------------------------------
(* The stages of write_new_evidence *)

Goto(w, stage) == pc' = [pc EXCEPT ![w] = stage] /\ UNCHANGED result
Return(w, r)   == pc' = [pc EXCEPT ![w] = "returned"] /\ result' = [result EXCEPT ![w] = r]

\* An early return that drops the temporary file on its way out.
Unwind(w, stage) == pc' = [pc EXCEPT ![w] = "drop"] /\ result' = [result EXCEPT ![w] = stage]

CreateParent(w) ==
  /\ pc[w] = "CreateParent"
  /\ UNCHANGED disk
  /\ \/ cache' = [cache EXCEPT !.parent = TRUE] /\ Goto(w, "CreateTemporaryFile")
     \/ "CreateParent" \in Faults /\ UNCHANGED cache /\ Return(w, "CreateParent")

CreateTemporaryFile(w) ==
  /\ pc[w] = "CreateTemporaryFile"
  /\ UNCHANGED disk
  /\ \/ cache' = [cache EXCEPT !.tmp[w] = TRUE] /\ Goto(w, "Write")
     \/ "CreateTemporaryFile" \in Faults /\ UNCHANGED cache /\ Return(w, "CreateTemporaryFile")

\* write_all may take several calls.
Write(w) ==
  /\ pc[w] = "Write"
  /\ UNCHANGED disk
  /\ \/ /\ cache.data[w] = "empty"
        /\ cache' = [cache EXCEPT !.data[w] = "partial"]
        /\ UNCHANGED <<pc, result>>
     \/ cache' = [cache EXCEPT !.data[w] = "full"] /\ Goto(w, "SyncFile")
     \/ "Write" \in Faults /\ UNCHANGED cache /\ Unwind(w, "Write")

SyncSkipped(w) ==
  /\ pc[w] = "SyncFile"
  /\ Goto(w, "Publish")
  /\ UNCHANGED <<cache, disk>>
SyncFile(w) ==
  /\ pc[w] = "SyncFile"
  /\ UNCHANGED cache
  /\ \/ disk' = [disk EXCEPT !.data[w] = cache.data[w]] /\ Goto(w, "Publish")
     \/ "SyncFile" \in Faults /\ UNCHANGED disk /\ Unwind(w, "SyncFile")

\* hard_link fails if the name exists.
PublishByRename(w) ==
  /\ pc[w] = "Publish"
  /\ cache' = [cache EXCEPT !.public = w]
  /\ Goto(w, "RemoveTemporaryFile")
  /\ UNCHANGED disk
Publish(w) ==
  /\ pc[w] = "Publish"
  /\ UNCHANGED disk
  /\ \/ /\ cache.public = Nobody
        /\ cache' = [cache EXCEPT !.public = w]
        /\ Goto(w, "RemoveTemporaryFile")
     \/ /\ cache.public # Nobody \/ "Publish" \in Faults
        /\ UNCHANGED cache
        /\ Unwind(w, "Publish")

\* close reports a failed removal and does not try again.
RemoveTemporaryFile(w) ==
  /\ pc[w] = "RemoveTemporaryFile"
  /\ UNCHANGED disk
  /\ \/ cache' = [cache EXCEPT !.tmp[w] = FALSE] /\ Goto(w, "SyncParent")
     \/ "RemoveTemporaryFile" \in Faults /\ UNCHANGED cache /\ Return(w, "RemoveTemporaryFile")

\* Syncing the directory makes its names durable, not the name of the directory itself.
SyncForgotten(w) == pc[w] = "SyncParent" /\ Return(w, "ok") /\ UNCHANGED <<cache, disk>>
SyncNameOnly(w) ==
  /\ pc[w] = "SyncParent"
  /\ disk' = [disk EXCEPT !.public = cache.public]
  /\ Return(w, "ok")
  /\ UNCHANGED cache
SyncParent(w) ==
  /\ pc[w] = "SyncParent"
  /\ UNCHANGED cache
  /\ \/ disk' = [disk EXCEPT !.public = cache.public, !.tmp = cache.tmp] /\ Return(w, "ok")
     \/ "SyncParent" \in Faults /\ UNCHANGED disk /\ Return(w, "SyncParent")

\* Dropping the temporary file removes its name and ignores the outcome.
DropTemporary(w) ==
  /\ pc[w] = "drop"
  /\ pc' = [pc EXCEPT ![w] = "returned"]
  /\ \/ cache' = [cache EXCEPT !.tmp[w] = FALSE]
     \/ "RemoveTemporaryFile" \in Faults /\ UNCHANGED cache
  /\ UNCHANGED <<result, disk>>

----------------------------------------------------------------------------
(* The environment *)

Running(w) == pc[w] \notin {"CreateParent", "returned", "dead"}

Kill(w) ==
  /\ Running(w)
  /\ pc' = [pc EXCEPT ![w] = "dead"]
  /\ UNCHANGED <<result, cache, disk>>

\* The file system writes what it likes to the disk when it likes.
WriteBack ==
  /\ \/ disk' = [disk EXCEPT !.parent = cache.parent]
     \/ disk' = [disk EXCEPT !.public = cache.public]
     \/ \E w \in Writers : disk' = [disk EXCEPT !.tmp[w] = cache.tmp[w]]
     \/ \E w \in Writers : disk' = [disk EXCEPT !.data[w] = cache.data[w]]
  /\ UNCHANGED <<pc, result, cache>>

\* A directory whose own name was not on the disk takes its names with it.
PowerFailure ==
  /\ cache' = IF disk.parent THEN disk ELSE [disk EXCEPT !.public = Nobody, !.tmp = NoFile]
  /\ disk' = cache'
  /\ pc' = [w \in Writers |-> IF Running(w) THEN "dead" ELSE pc[w]]
  /\ UNCHANGED result

Step(w) ==
  \/ CreateParent(w) \/ CreateTemporaryFile(w) \/ Write(w) \/ SyncFile(w) \/ Publish(w)
  \/ RemoveTemporaryFile(w) \/ SyncParent(w) \/ DropTemporary(w)

Next == WriteBack \/ PowerFailure \/ \E w \in Writers : Step(w) \/ Kill(w)

Spec == Init /\ [][Next]_vars

----------------------------------------------------------------------------
(* Correctness *)

FileSystems ==
  [parent : BOOLEAN, public : Writers \cup {Nobody, Earlier},
   tmp : [Writers -> BOOLEAN], data : [Writers -> {"empty", "partial", "full"}]]

\* Programs are at a stage, dropping, back or dead, and those that are back have a result.
TypeOK ==
  /\ pc \in [Writers -> Stages \cup {"drop", "returned", "dead"}]
  /\ result \in [Writers -> Stages \cup {"none", "ok"}]
  /\ \A w \in Writers : pc[w] \in {"drop", "returned"} => result[w] # "none"
  /\ cache \in FileSystems
  /\ disk \in FileSystems

Succeeded(w) == pc[w] = "returned" /\ result[w] = "ok"

\* Whoever reads the path finds complete evidence, also after a power failure
\* ("without exposing partial contents").
CompleteEvidence == cache.public \in Writers => cache.data[cache.public] = "full"

\* Evidence whose publication was reported as a success is what the path holds from then
\* on, whatever other programs do and however often the power fails.
ReportedEvidenceStays == \A w \in Writers : Succeeded(w) => cache.public = w

\* A success leaves no temporary name, and none comes back after a power failure.
NoTemporaryAfterSuccess == \A w \in Writers : Succeeded(w) => ~cache.tmp[w]

\* The path behaves as a register that is written once, and the stage of an error tells
\* whether the evidence was published.
PrePublication == {"CreateParent", "CreateTemporaryFile", "Write", "SyncFile", "Publish"}
Visible ==
  IF cache.public \in Writers /\ cache.data[cache.public] # "full" THEN "torn" ELSE cache.public
Answers ==
  [w \in Writers |->
     IF pc[w] # "returned" THEN "none"
     ELSE IF result[w] = "ok" THEN "confirmed"
     ELSE IF result[w] \in PrePublication THEN "refused" ELSE "unconfirmed"]
Register == INSTANCE EvidenceRegister WITH holder <- Visible, answer <- Answers
WrittenOnce == Register!Spec
============================================================================

------------------------ MODULE EvidenceFileProofs ------------------------
(***************************************************************************)
(* What EvidenceFile guarantees for every number of programs and every set *)
(* of failing system calls.                                                *)
(***************************************************************************)
EXTENDS EvidenceFile, TLAPS

----------------------------------------------------------------------------
(* The inductive invariant *)

Linked == {"RemoveTemporaryFile", "SyncParent"}

\* A file is complete before it is synced, and synced before it is linked.
DataAt(w) ==
  /\ pc[w] \in Linked \cup {"SyncFile", "Publish"} => cache.data[w] = "full"
  /\ pc[w] \in Linked \cup {"Publish"} => disk.data[w] = "full"

\* What the path names was linked by a program that knows it.
PublicAt(w) ==
  /\ pc[w] \in Linked => cache.public = w
  /\ cache.public = w => /\ cache.data[w] = "full" /\ disk.data[w] = "full"
                         /\ pc[w] \in Linked \cup {"returned", "dead"}
                         /\ pc[w] = "returned" => result[w] \notin PrePublication
  /\ pc[w] = "drop" => result[w] \in PrePublication
  /\ pc[w] = "SyncParent" => ~cache.tmp[w]

\* The disk lags behind; what was there before is on it.
DiskInv ==
  disk.public \in {Nobody, cache.public} /\ (cache.public = Earlier => disk.public = Earlier)

\* With a directory whose own name is on the disk, what was reported is on the disk.
DurableAt(w) ==
  Succeeded(w) => /\ cache.public = w /\ disk.public = w
                  /\ ~cache.tmp[w] /\ ~disk.tmp[w]
DurableInv ==
  FreshParents \subseteq {FALSE} =>
    cache.parent /\ disk.parent /\ \A w \in Writers : DurableAt(w)

Published ==
  (\A w \in Writers : DataAt(w) /\ PublicAt(w)) /\ DiskInv /\ DurableInv
FileInv == TypeOK /\ Published

----------------------------------------------------------------------------
(* Preservation *)

\* Every publication starts in the invariant.
LEMMA FileInvInit == Init => FileInv
<1> SUFFICES ASSUME Init PROVE FileInv
  OBVIOUS
<1> PICK fresh \in FreshParents, public \in {Nobody, Earlier} :
           /\ fresh => public = Nobody
           /\ cache = Files(~fresh, public) /\ disk = cache
  BY Zenon DEF Init
<1>1. /\ pc = [w \in Writers |-> "CreateParent"] /\ result = [w \in Writers |-> "none"]
      /\ fresh \in BOOLEAN
  BY FileAssumption, Zenon DEF Init
<1>2. /\ cache.parent = ~fresh /\ cache.public = public /\ cache.tmp = NoFile
      /\ cache.data = [w \in Writers |-> "empty"] /\ disk = cache
  BY Zenon DEF Files
<1>3. TypeOK
  BY <1>1, Zenon DEF TypeOK, FileSystems, Files, NoFile, Stages
<1>4. (\A w \in Writers : DataAt(w) /\ PublicAt(w)) /\ DiskInv
  BY <1>1, <1>2, FileAssumption DEF DataAt, PublicAt, DiskInv, Linked
<1>5. DurableInv
  BY <1>1, <1>2, Zenon DEF DurableInv, DurableAt, Succeeded
<1> QED BY <1>3, <1>4, <1>5, Zenon DEF FileInv, Published

Contents == {"empty", "partial", "full"}

\* What the files are made of.
LEMMA FieldTypes ==
  ASSUME NEW f \in FileSystems
  PROVE  /\ f.parent \in BOOLEAN /\ f.public \in Writers \cup {Nobody, Earlier}
         /\ f.tmp \in [Writers -> BOOLEAN] /\ f.data \in [Writers -> Contents]
         /\ \A w \in Writers : f.tmp[w] \in BOOLEAN /\ f.data[w] \in Contents
BY Zenon DEF FileSystems, Contents

\* Creating and removing temporary names, and making them durable, keeps files files.
LEMMA TmpType ==
  ASSUME NEW f \in FileSystems, NEW w \in Writers, NEW b \in BOOLEAN
  PROVE  [f EXCEPT !.tmp[w] = b] \in FileSystems
<1>1. [f.tmp EXCEPT ![w] = b] \in [Writers -> BOOLEAN]
  BY FieldTypes, Zenon
<1> QED BY <1>1, Zenon DEF FileSystems

\* So does writing.
LEMMA DataType ==
  ASSUME NEW f \in FileSystems, NEW w \in Writers, NEW d \in Contents
  PROVE  [f EXCEPT !.data[w] = d] \in FileSystems
<1>1. [f.data EXCEPT ![w] = d] \in [Writers -> Contents]
  BY FieldTypes, Zenon
<1> QED BY <1>1, Zenon DEF FileSystems, Contents

\* So do linking and making the directory and its names durable.
LEMMA NameType ==
  ASSUME NEW f \in FileSystems, NEW g \in FileSystems, NEW b \in BOOLEAN,
         NEW h \in Writers \cup {Nobody, Earlier}
  PROVE  /\ [f EXCEPT !.parent = b] \in FileSystems
         /\ [f EXCEPT !.public = h] \in FileSystems
         /\ [f EXCEPT !.public = g.public, !.tmp = g.tmp] \in FileSystems
<1>1. [f EXCEPT !.public = g.public, !.tmp = g.tmp] \in FileSystems
  BY FieldTypes, Zenon DEF FileSystems
<1> QED BY <1>1, Zenon DEF FileSystems

\* Every step keeps the files files.
LEMMA FilesNext == TypeOK /\ [Next]_vars => cache' \in FileSystems /\ disk' \in FileSystems
<1> SUFFICES ASSUME TypeOK, [Next]_vars PROVE cache' \in FileSystems /\ disk' \in FileSystems
  OBVIOUS
<1>t. cache \in FileSystems /\ disk \in FileSystems /\ TRUE \in BOOLEAN /\ FALSE \in BOOLEAN
  BY Zenon DEF TypeOK
<1>f. /\ cache.parent \in BOOLEAN /\ cache.public \in Writers \cup {Nobody, Earlier}
      /\ \A w \in Writers : cache.tmp[w] \in BOOLEAN /\ cache.data[w] \in Contents
  BY <1>t, FieldTypes, Zenon
<1>d. "partial" \in Contents /\ "full" \in Contents
  BY Zenon DEF Contents
<1>g. ASSUME NEW w \in Writers
      PROVE  /\ [disk EXCEPT !.tmp[w] = cache.tmp[w]] \in FileSystems
             /\ [disk EXCEPT !.data[w] = cache.data[w]] \in FileSystems
             /\ [cache EXCEPT !.data[w] = "partial"] \in FileSystems
             /\ [cache EXCEPT !.data[w] = "full"] \in FileSystems
  BY <1>t, <1>f, <1>d, TmpType, DataType, Zenon
<1>1. ASSUME NEW w \in Writers, CreateTemporaryFile(w) \/ RemoveTemporaryFile(w) \/ DropTemporary(w)
      PROVE  cache' \in FileSystems /\ disk' \in FileSystems
  BY <1>1, <1>t, TmpType, Zenon DEF CreateTemporaryFile, RemoveTemporaryFile, DropTemporary
<1>2. ASSUME NEW w \in Writers, Write(w) \/ SyncFile(w)
      PROVE  cache' \in FileSystems /\ disk' \in FileSystems
  BY <1>2, <1>t, <1>g, Zenon DEF Write, SyncFile
<1>3. ASSUME NEW w \in Writers, CreateParent(w) \/ Publish(w) \/ SyncParent(w) \/ Kill(w)
      PROVE  cache' \in FileSystems /\ disk' \in FileSystems
  <2>1. w \in Writers \cup {Nobody, Earlier}
    OBVIOUS
  <2> QED BY <1>3, <2>1, <1>t, NameType, ZenonT(60) DEF CreateParent, Publish, SyncParent, Kill
<1>5. CASE WriteBack
  <2>1. CASE \E w \in Writers : disk' = [disk EXCEPT !.tmp[w] = cache.tmp[w]]
    BY <1>5, <2>1, <1>t, <1>g, Zenon DEF WriteBack
  <2>2. CASE \E w \in Writers : disk' = [disk EXCEPT !.data[w] = cache.data[w]]
    BY <1>5, <2>2, <1>t, <1>g, Zenon DEF WriteBack
  <2>3. CASE \/ disk' = [disk EXCEPT !.parent = cache.parent]
             \/ disk' = [disk EXCEPT !.public = cache.public]
    BY <1>5, <2>3, <1>t, <1>f, NameType, ZenonT(60) DEF WriteBack
  <2> QED BY <1>5, <2>1, <2>2, <2>3, Zenon DEF WriteBack
<1>6. CASE PowerFailure
  <2>1. [disk EXCEPT !.public = Nobody, !.tmp = NoFile] \in FileSystems
    BY <1>t, Zenon DEF FileSystems, NoFile
  <2> QED BY <1>6, <2>1, <1>t, Zenon DEF PowerFailure
<1>7. CASE UNCHANGED vars
  BY <1>7, <1>t, Zenon DEF vars
<1> QED BY <1>1, <1>2, <1>3, <1>5, <1>6, <1>7, Zenon DEF Next, Step

\* Every step keeps the types.
LEMMA TypeNext == TypeOK /\ [Next]_vars => TypeOK'
<1> SUFFICES ASSUME TypeOK, [Next]_vars PROVE TypeOK'
  OBVIOUS
<1> DEFINE Programs == /\ pc \in [Writers -> Stages \cup {"drop", "returned", "dead"}]
                       /\ result \in [Writers -> Stages \cup {"none", "ok"}]
                       /\ \A w \in Writers : pc[w] \in {"drop", "returned"} => result[w] # "none"
<1>t. Programs
  BY Zenon DEF TypeOK
<1>1. ASSUME NEW w \in Writers,
             \/ CreateParent(w) \/ CreateTemporaryFile(w) \/ Write(w) \/ SyncFile(w)
             \/ Publish(w) \/ RemoveTemporaryFile(w) \/ SyncParent(w)
      PROVE  Programs'
  <2>1. \/ UNCHANGED <<pc, result>>
        \/ \E s \in Stages : Goto(w, s)
        \/ \E s \in Stages : Unwind(w, s)
        \/ \E s \in Stages \cup {"ok"} : Return(w, s)
    BY <1>1, Zenon DEF CreateParent, CreateTemporaryFile, Write, SyncFile, Publish,
       RemoveTemporaryFile, SyncParent, Stages
  <2>2. "none" \notin Stages \cup {"ok"} /\ "drop" \notin Stages /\ "returned" \notin Stages
    BY Zenon DEF Stages
  <2>3. CASE UNCHANGED <<pc, result>>
    BY <2>3, <1>t, Zenon
  <2>4. CASE \E s \in Stages : Goto(w, s)
    BY <2>2, <2>4, <1>t, Zenon DEF Goto
  <2>5. CASE \E s \in Stages : Unwind(w, s)
    BY <2>2, <2>5, <1>t, ZenonT(60) DEF Unwind
  <2>6. CASE \E s \in Stages \cup {"ok"} : Return(w, s)
    BY <2>2, <2>6, <1>t, ZenonT(40) DEF Return
  <2> QED BY <2>1, <2>3, <2>4, <2>5, <2>6, Zenon
<1>2. ASSUME NEW w \in Writers, DropTemporary(w) \/ Kill(w) PROVE Programs'
  BY <1>2, <1>t, Zenon DEF DropTemporary, Kill
<1>3. ASSUME WriteBack \/ UNCHANGED vars PROVE Programs'
  <2>1. pc' = pc /\ result' = result
    BY <1>3, Zenon DEF WriteBack, vars
  <2> QED BY <2>1, <1>t, Zenon
<1>5. ASSUME PowerFailure PROVE Programs'
  <2>1. pc' = [w \in Writers |-> IF Running(w) THEN "dead" ELSE pc[w]] /\ result' = result
    BY <1>5, Zenon DEF PowerFailure
  <2> QED BY <2>1, <1>t, Zenon DEF Running
<1> HIDE DEF Programs
<1>4. Programs'
  BY <1>1, <1>2, <1>3, <1>5, Zenon DEF Next, Step
<1> QED BY <1>4, FilesNext, Zenon DEF TypeOK, Programs

\* A program is not concerned by a step that changes neither it nor its files.
LEMMA Untouched ==
  ASSUME Published, NEW w \in Writers, pc'[w] = pc[w], result'[w] = result[w],
         cache'.data[w] = cache.data[w], cache'.tmp[w] = cache.tmp[w],
         disk'.data[w] = disk.data[w] \/ disk'.data[w] = cache.data[w],
         \/ cache'.public = cache.public
         \/ (cache.public = Nobody /\ cache'.public # w)
  PROVE  DataAt(w)' /\ PublicAt(w)'
<1>1. DataAt(w) /\ PublicAt(w) /\ Nobody \notin Writers
  BY FileAssumption, Zenon DEF Published
<1>2. DataAt(w)'
  BY <1>1, Zenon DEF DataAt, Linked, PublicAt
<1>3. PublicAt(w)'
  BY <1>1, Zenon DEF DataAt, Linked, PublicAt
<1> QED BY <1>2, <1>3, Zenon

\* A reported success is not concerned by a step that leaves its names alone.
LEMMA DurableUntouched ==
  ASSUME NEW w \in Writers, DurableAt(w), pc'[w] = pc[w], result'[w] = result[w],
         cache.public = w => cache'.public = w, cache'.tmp[w] = cache.tmp[w],
         cache.public = w /\ disk.public = w => disk'.public = w,
         disk'.tmp[w] = disk.tmp[w] \/ disk'.tmp[w] = cache.tmp[w]
  PROVE  DurableAt(w)'
BY Zenon DEF DurableAt, Succeeded

\* A program's own step: its files may change, and it may link itself or sync what is linked.
OwnStepOf(v) ==
  /\ \A w \in Writers \ {v} :
       /\ pc'[w] = pc[w] /\ result'[w] = result[w]
       /\ cache'.data[w] = cache.data[w] /\ cache'.tmp[w] = cache.tmp[w]
       /\ disk'.data[w] = disk.data[w]
       /\ disk'.tmp[w] = disk.tmp[w] \/ disk'.tmp[w] = cache.tmp[w]
  /\ cache'.public = cache.public \/ (cache.public = Nobody /\ cache'.public = v)
  /\ disk'.public = disk.public \/ disk'.public = cache.public
  /\ cache.parent => cache'.parent
  /\ disk'.parent = disk.parent

\* It keeps the invariant if it keeps it for the program.
LEMMA OwnStep ==
  ASSUME Published, NEW v \in Writers, OwnStepOf(v), DataAt(v)', PublicAt(v)', DurableAt(v)'
  PROVE  Published'
<1>1. ASSUME NEW w \in Writers PROVE DataAt(w)' /\ PublicAt(w)' /\ (DurableAt(w) => DurableAt(w)')
  <2>1. CASE w # v
    <3>1. Nobody # w
      BY FileAssumption, Zenon
    <3> QED BY <2>1, <3>1, Untouched, DurableUntouched, Zenon DEF OwnStepOf
  <2> QED BY <2>1, Zenon
<1>2. DiskInv'
  BY FileAssumption, Zenon DEF Published, DiskInv, OwnStepOf
<1>3. DurableInv'
  BY <1>1, Zenon DEF Published, DurableInv, OwnStepOf
<1> QED BY <1>1, <1>2, <1>3, Zenon DEF Published

\* A failing system call, and a kill, leave the files as they are and say so.
LEMMA FailureInv ==
  ASSUME FileInv, NEW v \in Writers, UNCHANGED <<cache, disk>>,
         \/ Running(v) /\ pc' = [pc EXCEPT ![v] = "dead"] /\ UNCHANGED result
         \/ \E s \in PrePublication : pc[v] = s /\ (Unwind(v, s) \/ Return(v, s))
         \/ \E s \in Linked : pc[v] = s /\ Return(v, s)
  PROVE  Published'
<1>t. /\ pc \in [Writers -> Stages \cup {"drop", "returned", "dead"}]
      /\ result \in [Writers -> Stages \cup {"none", "ok"}]
      /\ cache \in FileSystems /\ disk \in FileSystems /\ Published
  BY Zenon DEF FileInv, TypeOK
<1>1. /\ \A w \in Writers \ {v} : pc'[w] = pc[w] /\ result'[w] = result[w]
      /\ \/ pc'[v] = "dead"
         \/ /\ pc'[v] \in {"drop", "returned"} /\ pc[v] \in PrePublication
            /\ result'[v] = pc[v]
         \/ pc'[v] = "returned" /\ pc[v] \in Linked /\ result'[v] = pc[v]
  BY <1>t, Zenon DEF Unwind, Return
<1>2. DataAt(v)' /\ PublicAt(v)'
  BY <1>t, <1>1, Zenon DEF Published, DataAt, PublicAt, PrePublication, Linked
<1>3. DurableAt(v)'
  BY <1>1, Zenon DEF DurableAt, Succeeded, PrePublication, Linked
<1>4. OwnStepOf(v)
  BY <1>1, Zenon DEF OwnStepOf
<1> QED BY <1>t, <1>2, <1>3, <1>4, OwnStep, Zenon

\* Creating the directory changes nothing that counts.
LEMMA CreateParentInv ==
  ASSUME FileInv, NEW v \in Writers, CreateParent(v)
  PROVE  Published'
<1>t. /\ pc \in [Writers -> Stages \cup {"drop", "returned", "dead"}]
      /\ result \in [Writers -> Stages \cup {"none", "ok"}]
      /\ cache \in FileSystems /\ disk \in FileSystems /\ Published
  BY Zenon DEF FileInv, TypeOK
<1>1. CASE UNCHANGED cache /\ UNCHANGED disk /\ Return(v, "CreateParent")
  BY <1>1, FailureInv, Zenon DEF CreateParent, PrePublication, Linked
<1>2. CASE disk' = disk /\ cache' = [cache EXCEPT !.parent = TRUE] /\ Goto(v, "CreateTemporaryFile")
  <2>1. /\ pc[v] = "CreateParent" /\ pc'[v] = "CreateTemporaryFile"
        /\ \A w \in Writers \ {v} : pc'[w] = pc[w] /\ result'[w] = result[w]
    BY <1>2, <1>t, Zenon DEF CreateParent, Goto, Return
  <2>2. /\ disk' = disk /\ cache'.parent = TRUE
        /\ cache'.public = cache.public /\ cache'.tmp = cache.tmp /\ cache'.data = cache.data
    BY <1>2, <1>t, Zenon DEF FileSystems
  <2>3. DataAt(v)' /\ PublicAt(v)'
    BY <1>t, <2>1, <2>2, ZenonT(40) DEF Published, DataAt, PublicAt, Linked, PrePublication
  <2>4. DurableAt(v)'
    BY <1>t, <2>1, <2>2, Zenon DEF DurableAt, Succeeded, Published, PublicAt, Linked, PrePublication
  <2>5. OwnStepOf(v)
    BY <1>t, <2>1, <2>2, Zenon DEF OwnStepOf
  <2> QED BY <1>t, <2>3, <2>4, <2>5, OwnStep, Zenon
<1> QED BY <1>1, <1>2, Zenon DEF CreateParent

\* Neither does naming a temporary file.
LEMMA CreateTemporaryFileInv ==
  ASSUME FileInv, NEW v \in Writers, CreateTemporaryFile(v)
  PROVE  Published'
<1>t. /\ pc \in [Writers -> Stages \cup {"drop", "returned", "dead"}]
      /\ result \in [Writers -> Stages \cup {"none", "ok"}]
      /\ cache \in FileSystems /\ disk \in FileSystems /\ Published
  BY Zenon DEF FileInv, TypeOK
<1>1. CASE UNCHANGED cache /\ UNCHANGED disk /\ Return(v, "CreateTemporaryFile")
  BY <1>1, FailureInv, Zenon DEF CreateTemporaryFile, PrePublication, Linked
<1>2. CASE disk' = disk /\ cache' = [cache EXCEPT !.tmp[v] = TRUE] /\ Goto(v, "Write")
  <2>1. /\ pc[v] = "CreateTemporaryFile" /\ pc'[v] = "Write"
        /\ \A w \in Writers \ {v} : pc'[w] = pc[w] /\ result'[w] = result[w]
    BY <1>2, <1>t, Zenon DEF CreateTemporaryFile, Goto, Return
  <2>2. /\ disk' = disk /\ cache'.parent = cache.parent
        /\ cache'.public = cache.public /\ cache'.data = cache.data
        /\ \A w \in Writers \ {v} : cache'.tmp[w] = cache.tmp[w]
    BY <1>2, <1>t, Zenon DEF FileSystems
  <2>3. DataAt(v)' /\ PublicAt(v)'
    BY <1>t, <2>1, <2>2, Zenon DEF Published, DataAt, PublicAt, Linked, PrePublication
  <2>4. DurableAt(v)'
    BY <1>t, <2>1, <2>2, Zenon DEF DurableAt, Succeeded, Published, PublicAt, Linked, PrePublication
  <2>5. OwnStepOf(v)
    BY <1>t, <2>1, <2>2, Zenon DEF OwnStepOf
  <2> QED BY <1>t, <2>3, <2>4, <2>5, OwnStep, Zenon
<1> QED BY <1>1, <1>2, Zenon DEF CreateTemporaryFile

\* A program writes to a file that is not linked yet.
LEMMA WriteInv ==
  ASSUME FileInv, NEW v \in Writers, Write(v)
  PROVE  Published'
<1>t. /\ pc \in [Writers -> Stages \cup {"drop", "returned", "dead"}]
      /\ result \in [Writers -> Stages \cup {"none", "ok"}]
      /\ cache \in FileSystems /\ disk \in FileSystems /\ Published
  BY Zenon DEF FileInv, TypeOK
<1>1. CASE UNCHANGED cache /\ UNCHANGED disk /\ Unwind(v, "Write")
  BY <1>1, FailureInv, Zenon DEF Write, PrePublication, Linked
<1>2. CASE disk' = disk /\ cache' = [cache EXCEPT !.data[v] = "partial"] /\ UNCHANGED <<pc, result>>
  <2>1. /\ pc[v] = "Write" /\ pc'[v] = "Write"
        /\ \A w \in Writers \ {v} : pc'[w] = pc[w] /\ result'[w] = result[w]
    BY <1>2, <1>t, Zenon DEF Write, Goto, Return
  <2>2. /\ disk' = disk /\ cache'.parent = cache.parent
        /\ cache'.public = cache.public /\ cache'.tmp = cache.tmp
        /\ \A w \in Writers \ {v} : cache'.data[w] = cache.data[w]
    BY <1>2, <1>t, Zenon DEF FileSystems
  <2>3. DataAt(v)' /\ PublicAt(v)'
    BY <1>t, <2>1, <2>2, Zenon DEF Published, DataAt, PublicAt, Linked, PrePublication
  <2>4. DurableAt(v)'
    BY <1>t, <2>1, <2>2, Zenon DEF DurableAt, Succeeded, Published, PublicAt, Linked, PrePublication
  <2>5. OwnStepOf(v)
    BY <1>t, <2>1, <2>2, Zenon DEF OwnStepOf
  <2> QED BY <1>t, <2>3, <2>4, <2>5, OwnStep, Zenon
<1>3. CASE disk' = disk /\ cache' = [cache EXCEPT !.data[v] = "full"] /\ Goto(v, "SyncFile")
  <2>1. /\ pc[v] = "Write" /\ pc'[v] = "SyncFile"
        /\ \A w \in Writers \ {v} : pc'[w] = pc[w] /\ result'[w] = result[w]
    BY <1>3, <1>t, Zenon DEF Write, Goto, Return
  <2>2. /\ disk' = disk /\ cache'.parent = cache.parent
        /\ cache'.public = cache.public /\ cache'.tmp = cache.tmp
        /\ cache'.data[v] = "full"
        /\ \A w \in Writers \ {v} : cache'.data[w] = cache.data[w]
    BY <1>3, <1>t, Zenon DEF FileSystems
  <2>3. DataAt(v)' /\ PublicAt(v)'
    BY <1>t, <2>1, <2>2, Zenon DEF Published, DataAt, PublicAt, Linked, PrePublication
  <2>4. DurableAt(v)'
    BY <1>t, <2>1, <2>2, Zenon DEF DurableAt, Succeeded, Published, PublicAt, Linked, PrePublication
  <2>5. OwnStepOf(v)
    BY <1>t, <2>1, <2>2, Zenon DEF OwnStepOf
  <2> QED BY <1>t, <2>3, <2>4, <2>5, OwnStep, Zenon
<1> QED BY <1>1, <1>2, <1>3, Zenon DEF Write

\* Syncing the file puts all of it on the disk.
LEMMA SyncFileInv ==
  ASSUME FileInv, NEW v \in Writers, SyncFile(v)
  PROVE  Published'
<1>t. /\ pc \in [Writers -> Stages \cup {"drop", "returned", "dead"}]
      /\ result \in [Writers -> Stages \cup {"none", "ok"}]
      /\ cache \in FileSystems /\ disk \in FileSystems /\ Published
  BY Zenon DEF FileInv, TypeOK
<1>1. CASE UNCHANGED cache /\ UNCHANGED disk /\ Unwind(v, "SyncFile")
  BY <1>1, FailureInv, Zenon DEF SyncFile, PrePublication, Linked
<1>2. CASE cache' = cache /\ disk' = [disk EXCEPT !.data[v] = cache.data[v]] /\ Goto(v, "Publish")
  <2>1. /\ pc[v] = "SyncFile" /\ pc'[v] = "Publish"
        /\ \A w \in Writers \ {v} : pc'[w] = pc[w] /\ result'[w] = result[w]
    BY <1>2, <1>t, Zenon DEF SyncFile, Goto, Return
  <2>2. /\ cache' = cache /\ disk'.parent = disk.parent
        /\ disk'.public = disk.public /\ disk'.tmp = disk.tmp
        /\ disk'.data[v] = cache.data[v]
        /\ \A w \in Writers \ {v} : disk'.data[w] = disk.data[w]
    BY <1>2, <1>t, Zenon DEF FileSystems
  <2>3. DataAt(v)' /\ PublicAt(v)'
    BY <1>t, <2>1, <2>2, Zenon DEF Published, DataAt, PublicAt, Linked, PrePublication
  <2>4. DurableAt(v)'
    BY <1>t, <2>1, <2>2, Zenon DEF DurableAt, Succeeded, Published, PublicAt, Linked, PrePublication
  <2>5. OwnStepOf(v)
    BY <1>t, <2>1, <2>2, Zenon DEF OwnStepOf
  <2> QED BY <1>t, <2>3, <2>4, <2>5, OwnStep, Zenon
<1> QED BY <1>1, <1>2, Zenon DEF SyncFile

\* Only a synced file is linked, and only where nothing was.
LEMMA PublishInv ==
  ASSUME FileInv, NEW v \in Writers, Publish(v)
  PROVE  Published'
<1>t. /\ pc \in [Writers -> Stages \cup {"drop", "returned", "dead"}]
      /\ result \in [Writers -> Stages \cup {"none", "ok"}]
      /\ cache \in FileSystems /\ disk \in FileSystems /\ Published
  BY Zenon DEF FileInv, TypeOK
<1>1. CASE UNCHANGED cache /\ UNCHANGED disk /\ Unwind(v, "Publish")
  BY <1>1, FailureInv, Zenon DEF Publish, PrePublication, Linked
<1>2. CASE disk' = disk /\ cache.public = Nobody /\ cache' = [cache EXCEPT !.public = v]
          /\ Goto(v, "RemoveTemporaryFile")
  <2>1. /\ pc[v] = "Publish" /\ pc'[v] = "RemoveTemporaryFile"
        /\ \A w \in Writers \ {v} : pc'[w] = pc[w] /\ result'[w] = result[w]
    BY <1>2, <1>t, Zenon DEF Publish, Goto, Return
  <2>2. /\ disk' = disk /\ cache.public = Nobody /\ cache'.public = v
        /\ cache'.parent = cache.parent /\ cache'.tmp = cache.tmp /\ cache'.data = cache.data
    BY <1>2, <1>t, Zenon DEF FileSystems
  <2>3. DataAt(v)' /\ PublicAt(v)'
    BY <1>t, <2>1, <2>2, ZenonT(40) DEF Published, DataAt, PublicAt, Linked, PrePublication
  <2>4. DurableAt(v)'
    BY <1>t, <2>1, <2>2, Zenon DEF DurableAt, Succeeded, Published, PublicAt, Linked, PrePublication
  <2>5. OwnStepOf(v)
    BY <1>t, <2>1, <2>2, Zenon DEF OwnStepOf
  <2> QED BY <1>t, <2>3, <2>4, <2>5, OwnStep, Zenon
<1> QED BY <1>1, <1>2, Zenon DEF Publish

\* Removing the temporary name leaves the linked one.
LEMMA RemoveTemporaryFileInv ==
  ASSUME FileInv, NEW v \in Writers, RemoveTemporaryFile(v)
  PROVE  Published'
<1>t. /\ pc \in [Writers -> Stages \cup {"drop", "returned", "dead"}]
      /\ result \in [Writers -> Stages \cup {"none", "ok"}]
      /\ cache \in FileSystems /\ disk \in FileSystems /\ Published
  BY Zenon DEF FileInv, TypeOK
<1>1. CASE UNCHANGED cache /\ UNCHANGED disk /\ Return(v, "RemoveTemporaryFile")
  BY <1>1, FailureInv, Zenon DEF RemoveTemporaryFile, PrePublication, Linked
<1>2. CASE disk' = disk /\ cache' = [cache EXCEPT !.tmp[v] = FALSE] /\ Goto(v, "SyncParent")
  <2>1. /\ pc[v] = "RemoveTemporaryFile" /\ pc'[v] = "SyncParent"
        /\ \A w \in Writers \ {v} : pc'[w] = pc[w] /\ result'[w] = result[w]
    BY <1>2, <1>t, Zenon DEF RemoveTemporaryFile, Goto, Return
  <2>2. /\ disk' = disk /\ cache'.parent = cache.parent
        /\ cache'.public = cache.public /\ cache'.data = cache.data
        /\ cache'.tmp[v] = FALSE
        /\ \A w \in Writers \ {v} : cache'.tmp[w] = cache.tmp[w]
    BY <1>2, <1>t, Zenon DEF FileSystems
  <2>3. DataAt(v)' /\ PublicAt(v)'
    BY <1>t, <2>1, <2>2, Zenon DEF Published, DataAt, PublicAt, Linked, PrePublication
  <2>4. DurableAt(v)'
    BY <1>t, <2>1, <2>2, Zenon DEF DurableAt, Succeeded, Published, PublicAt, Linked, PrePublication
  <2>5. OwnStepOf(v)
    BY <1>t, <2>1, <2>2, Zenon DEF OwnStepOf
  <2> QED BY <1>t, <2>3, <2>4, <2>5, OwnStep, Zenon
<1> QED BY <1>1, <1>2, Zenon DEF RemoveTemporaryFile

\* Syncing the directory puts the linked name on the disk and takes the temporary one off.
LEMMA SyncParentInv ==
  ASSUME FileInv, NEW v \in Writers, SyncParent(v)
  PROVE  Published'
<1>t. /\ pc \in [Writers -> Stages \cup {"drop", "returned", "dead"}]
      /\ result \in [Writers -> Stages \cup {"none", "ok"}]
      /\ cache \in FileSystems /\ disk \in FileSystems /\ Published
  BY Zenon DEF FileInv, TypeOK
<1>1. CASE UNCHANGED cache /\ UNCHANGED disk /\ Return(v, "SyncParent")
  BY <1>1, FailureInv, Zenon DEF SyncParent, PrePublication, Linked
<1>2. CASE /\ cache' = cache /\ Return(v, "ok")
          /\ disk' = [disk EXCEPT !.public = cache.public, !.tmp = cache.tmp]
  <2>1. /\ pc[v] = "SyncParent" /\ pc'[v] = "returned" /\ result'[v] = "ok"
        /\ \A w \in Writers \ {v} : pc'[w] = pc[w] /\ result'[w] = result[w]
    BY <1>2, <1>t, Zenon DEF SyncParent, Goto, Return
  <2>2. /\ cache' = cache /\ disk'.parent = disk.parent /\ disk'.data = disk.data
        /\ disk'.public = cache.public /\ disk'.tmp = cache.tmp
    BY <1>2, <1>t, Zenon DEF FileSystems
  <2>3. DataAt(v)' /\ PublicAt(v)'
    BY <1>t, <2>1, <2>2, ZenonT(40) DEF Published, DataAt, PublicAt, Linked, PrePublication
  <2>4. DurableAt(v)'
    BY <1>t, <2>1, <2>2, Zenon DEF DurableAt, Succeeded, Published, PublicAt, Linked, PrePublication
  <2>5. OwnStepOf(v)
    BY <1>t, <2>1, <2>2, Zenon DEF OwnStepOf
  <2> QED BY <1>t, <2>3, <2>4, <2>5, OwnStep, Zenon
<1> QED BY <1>1, <1>2, Zenon DEF SyncParent

\* Dropping a temporary file does not touch the path.
LEMMA DropTemporaryInv ==
  ASSUME FileInv, NEW v \in Writers, DropTemporary(v)
  PROVE  Published'
<1>t. /\ pc \in [Writers -> Stages \cup {"drop", "returned", "dead"}]
      /\ result \in [Writers -> Stages \cup {"none", "ok"}]
      /\ cache \in FileSystems /\ disk \in FileSystems /\ Published
  BY Zenon DEF FileInv, TypeOK
<1>1. CASE disk' = disk /\ cache' = [cache EXCEPT !.tmp[v] = FALSE]
  <2>1. /\ pc[v] = "drop" /\ pc'[v] = "returned" /\ result' = result
        /\ \A w \in Writers \ {v} : pc'[w] = pc[w] /\ result'[w] = result[w]
    BY <1>1, <1>t, Zenon DEF DropTemporary, Goto, Return
  <2>2. /\ disk' = disk /\ cache'.parent = cache.parent
        /\ cache'.public = cache.public /\ cache'.data = cache.data
        /\ \A w \in Writers \ {v} : cache'.tmp[w] = cache.tmp[w]
    BY <1>1, <1>t, Zenon DEF FileSystems
  <2>3. DataAt(v)' /\ PublicAt(v)'
    BY <1>t, <2>1, <2>2, Zenon DEF Published, DataAt, PublicAt, Linked, PrePublication
  <2>4. DurableAt(v)'
    BY <1>t, <2>1, <2>2, Zenon DEF DurableAt, Succeeded, Published, PublicAt, Linked, PrePublication
  <2>5. OwnStepOf(v)
    BY <1>t, <2>1, <2>2, Zenon DEF OwnStepOf
  <2> QED BY <1>t, <2>3, <2>4, <2>5, OwnStep, Zenon
<1>2. CASE disk' = disk /\ cache' = cache
  <2>1. /\ pc[v] = "drop" /\ pc'[v] = "returned" /\ result' = result
        /\ \A w \in Writers \ {v} : pc'[w] = pc[w] /\ result'[w] = result[w]
    BY <1>2, <1>t, Zenon DEF DropTemporary, Goto, Return
  <2>2. disk' = disk /\ cache' = cache
    BY <1>2, <1>t, Zenon DEF FileSystems
  <2>3. DataAt(v)' /\ PublicAt(v)'
    BY <1>t, <2>1, <2>2, Zenon DEF Published, DataAt, PublicAt, Linked, PrePublication
  <2>4. DurableAt(v)'
    BY <1>t, <2>1, <2>2, Zenon DEF DurableAt, Succeeded, Published, PublicAt, Linked, PrePublication
  <2>5. OwnStepOf(v)
    BY <1>t, <2>1, <2>2, Zenon DEF OwnStepOf
  <2> QED BY <1>t, <2>3, <2>4, <2>5, OwnStep, Zenon
<1> QED BY <1>1, <1>2, Zenon DEF DropTemporary

\* What the file system writes to the disk was in the cache before.
LEMMA WriteBackInv ==
  ASSUME FileInv, WriteBack
  PROVE  Published'
<1>t. /\ pc \in [Writers -> Stages \cup {"drop", "returned", "dead"}]
      /\ result \in [Writers -> Stages \cup {"none", "ok"}]
      /\ cache \in FileSystems /\ disk \in FileSystems /\ Published
  BY Zenon DEF FileInv, TypeOK
<1>1. pc' = pc /\ result' = result /\ cache' = cache
  BY Zenon DEF WriteBack
<1> DEFINE Lagging ==
      /\ \A w \in Writers : /\ disk'.data[w] = disk.data[w] \/ disk'.data[w] = cache.data[w]
                            /\ disk'.tmp[w] = disk.tmp[w] \/ disk'.tmp[w] = cache.tmp[w]
      /\ disk'.public = disk.public \/ disk'.public = cache.public
      /\ disk'.parent = disk.parent \/ disk'.parent = cache.parent
<1>2. Lagging
  <2>1. CASE disk' = [disk EXCEPT !.parent = cache.parent]
    BY <2>1, <1>t, Zenon DEF FileSystems
  <2>2. CASE disk' = [disk EXCEPT !.public = cache.public]
    BY <2>2, <1>t, Zenon DEF FileSystems
  <2>3. ASSUME NEW v \in Writers, disk' = [disk EXCEPT !.tmp[v] = cache.tmp[v]] PROVE Lagging
    BY <2>3, <1>t, Zenon DEF FileSystems
  <2>4. ASSUME NEW v \in Writers, disk' = [disk EXCEPT !.data[v] = cache.data[v]] PROVE Lagging
    BY <2>4, <1>t, Zenon DEF FileSystems
  <2> QED BY <2>1, <2>2, <2>3, <2>4, Zenon DEF WriteBack
<1>3. ASSUME NEW w \in Writers PROVE DataAt(w)' /\ PublicAt(w)' /\ (DurableAt(w) => DurableAt(w)')
  <2>1. DataAt(w)' /\ PublicAt(w)'
    BY <1>t, <1>1, <1>2, Untouched, Zenon
  <2>2. ASSUME DurableAt(w) PROVE DurableAt(w)'
    BY <1>1, <1>2, <2>2, DurableUntouched, Zenon
  <2> QED BY <2>1, <2>2, Zenon
<1>4. DiskInv'
  BY <1>t, <1>1, <1>2, Zenon DEF Published, DiskInv
<1>5. DurableInv'
  BY <1>t, <1>1, <1>2, <1>3, Zenon DEF Published, DurableInv
<1> QED BY <1>3, <1>4, <1>5, Zenon DEF Published

\* After a power failure no program is between two stages, and what is left was synced.
LEMMA PowerFailureInv ==
  ASSUME FileInv, PowerFailure
  PROVE  Published'
<1>t. /\ pc \in [Writers -> Stages \cup {"drop", "returned", "dead"}]
      /\ result \in [Writers -> Stages \cup {"none", "ok"}]
      /\ cache \in FileSystems /\ disk \in FileSystems /\ Published
  BY Zenon DEF FileInv, TypeOK
<1>1. /\ pc' = [w \in Writers |-> IF Running(w) THEN "dead" ELSE pc[w]]
      /\ result' = result /\ disk' = cache'
  BY Zenon DEF PowerFailure
<1>2. /\ cache'.data = disk.data /\ cache'.public \in {Nobody, disk.public}
      /\ disk.parent => cache' = disk
  BY <1>t, Zenon DEF PowerFailure, FileSystems
<1>3. ASSUME NEW w \in Writers PROVE DataAt(w)' /\ PublicAt(w)'
  <2>1. /\ pc'[w] \notin Linked \cup {"SyncFile", "Publish", "drop"}
        /\ pc'[w] = pc[w] \/ pc'[w] = "dead"
    BY <1>1, Zenon DEF Running, Linked
  <2>2. w # Nobody /\ (cache'.public = w => cache.public = w)
    BY <1>t, <1>2, FileAssumption, Zenon DEF Published, DiskInv
  <2> QED BY <1>t, <1>1, <1>2, <2>1, <2>2, Zenon DEF Published, DataAt, PublicAt, Linked
<1>4. DiskInv'
  BY <1>1, Zenon DEF DiskInv
<1>5. DurableInv'
  <2>1. ASSUME NEW w \in Writers, cache' = disk, DurableAt(w) PROVE DurableAt(w)'
    BY <1>1, <2>1, Zenon DEF DurableAt, Succeeded, Running
  <2> QED BY <1>t, <1>1, <1>2, <2>1, Zenon DEF Published, DurableInv
<1> QED BY <1>3, <1>4, <1>5, Zenon DEF Published

\* Every step keeps the invariant.
LEMMA FileInvNext == FileInv /\ [Next]_vars => FileInv'
<1> SUFFICES ASSUME FileInv, [Next]_vars PROVE FileInv'
  OBVIOUS
<1>1. TypeOK'
  BY TypeNext, Zenon DEF FileInv
<1>2. ASSUME NEW v \in Writers, Kill(v) PROVE Published'
  BY <1>2, FailureInv, Zenon DEF Kill
<1>3. ASSUME NEW v \in Writers, Step(v) PROVE Published'
  BY <1>3, CreateParentInv, CreateTemporaryFileInv, WriteInv, SyncFileInv, PublishInv,
     RemoveTemporaryFileInv, SyncParentInv, DropTemporaryInv, Zenon, Zenon DEF Step
<1>4. ASSUME UNCHANGED vars PROVE Published'
  <2>1. pc' = pc /\ result' = result /\ cache' = cache /\ disk' = disk /\ Published
    BY <1>4, Zenon DEF vars, FileInv
  <2>2. ASSUME NEW w \in Writers PROVE DataAt(w)' /\ PublicAt(w)'
    BY <2>1, Untouched, Zenon
  <2>3. DiskInv' /\ DurableInv'
    BY <2>1, Zenon DEF Published, DiskInv, DurableInv, DurableAt, Succeeded
  <2> QED BY <2>2, <2>3, Zenon DEF Published
<1> QED BY <1>1, <1>2, <1>3, <1>4, WriteBackInv, PowerFailureInv, Zenon DEF Next, FileInv

----------------------------------------------------------------------------
(* What follows for every behaviour *)

\* The invariant of a publication.
LEMMA FileInvariant == Spec => []FileInv
<1> QED BY FileInvInit, FileInvNext, PTL DEF Spec

\* The files, and the programs that publish into them, keep their types, and a program that
\* is back has a result.
THEOREM TypeCorrect == Spec => []TypeOK
<1>1. FileInv => TypeOK
  BY Zenon DEF FileInv
<1> QED BY <1>1, FileInvariant, PTL

\* Nobody ever reads evidence that is incomplete, for any number of programs, whichever
\* system calls fail and whenever the power does: write_new_evidence links only what it has
\* synced.
THEOREM EvidenceIsComplete == Spec => []CompleteEvidence
<1>1. FileInv => CompleteEvidence
  BY Zenon DEF FileInv, Published, PublicAt, CompleteEvidence
<1> QED BY <1>1, FileInvariant, PTL

\* If the directory existed before, evidence whose publication was reported stays.
THEOREM ReportedStays ==
  ASSUME FreshParents \subseteq {FALSE}
  PROVE  Spec => []ReportedEvidenceStays
<1>1. FileInv => ReportedEvidenceStays
  BY Zenon DEF FileInv, Published, DurableInv, DurableAt, ReportedEvidenceStays
<1> QED BY <1>1, FileInvariant, PTL

\* If the directory existed before, a success leaves no temporary name behind.
THEOREM NoTemporaryLeft ==
  ASSUME FreshParents \subseteq {FALSE}
  PROVE  Spec => []NoTemporaryAfterSuccess
<1>1. FileInv => NoTemporaryAfterSuccess
  BY Zenon DEF FileInv, Published, DurableInv, DurableAt, NoTemporaryAfterSuccess
<1> QED BY <1>1, FileInvariant, PTL

----------------------------------------------------------------------------
(* The path is a register that is written once *)

AnswerOf(w) ==
  IF pc[w] # "returned" THEN "none"
  ELSE IF result[w] = "ok" THEN "confirmed"
  ELSE IF result[w] \in PrePublication THEN "refused" ELSE "unconfirmed"

\* A reader of the path sees what it names.
LEMMA VisibleIsPublic ==
  /\ FileInv => Visible = cache.public
  /\ FileInv' => Visible' = cache'.public
BY Zenon DEF FileInv, Published, PublicAt, Visible

\* Steps that return nothing answer nothing.
LEMMA NothingAnswered ==
  ASSUME \A w \in Writers : AnswerOf(w)' = AnswerOf(w)
  PROVE  Answers' = Answers
BY Zenon DEF Answers, AnswerOf

\* A program that returns is answered, and no other.
LEMMA OneAnswered ==
  ASSUME NEW v \in Writers, NEW a, pc[v] # "returned", AnswerOf(v)' = a,
         \A w \in Writers \ {v} : AnswerOf(w)' = AnswerOf(w)
  PROVE  Register!Answer(v, a)
BY Zenon DEF Answers, AnswerOf, Register!Answer

\* A return reports what happened to the path.
LEMMA ReturnRefines ==
  ASSUME FileInv, FileInv', NEW v \in Writers, cache'.public = cache.public,
         pc[v] \notin {"returned", "dead"}, pc'[v] = "returned",
         \A w \in Writers \ {v} : pc'[w] = pc[w] /\ result'[w] = result[w],
         \/ pc[v] = "SyncParent" /\ result'[v] = "ok"
         \/ pc[v] \in Linked /\ result'[v] \in Linked
         \/ pc[v] \notin Linked /\ result'[v] \in PrePublication
  PROVE  Register!Next
<1>1. Visible' = Visible /\ Visible = cache.public
  BY VisibleIsPublic, Zenon
<1>2. (pc[v] \in Linked) <=> cache.public = v
  BY Zenon DEF FileInv, Published, PublicAt
<1>3. \A w \in Writers \ {v} : AnswerOf(w)' = AnswerOf(w)
  BY Zenon DEF AnswerOf
<1>4. CASE pc[v] = "SyncParent" /\ result'[v] = "ok"
  <2>1. AnswerOf(v)' = "confirmed"
    BY <1>4, Zenon DEF AnswerOf
  <2>2. Register!Confirm(v)
    BY <1>1, <1>2, <1>3, <1>4, <2>1, OneAnswered, Zenon DEF Register!Confirm, Linked
  <2> QED BY <2>2, Zenon DEF Register!Next
<1>5. CASE pc[v] \in Linked /\ result'[v] \in Linked
  <2>1. AnswerOf(v)' = "unconfirmed"
    BY <1>5, Zenon DEF AnswerOf, Linked, PrePublication
  <2>2. Register!Doubt(v)
    BY <1>1, <1>2, <1>3, <1>5, <2>1, OneAnswered, Zenon DEF Register!Doubt
  <2> QED BY <2>2, Zenon DEF Register!Next
<1>6. CASE pc[v] \notin Linked /\ result'[v] \in PrePublication
  <2>1. AnswerOf(v)' = "refused"
    BY <1>6, Zenon DEF AnswerOf, PrePublication
  <2>2. Register!Refuse(v)
    BY <1>1, <1>2, <1>3, <1>6, <2>1, OneAnswered, Zenon DEF Register!Refuse
  <2> QED BY <2>2, Zenon DEF Register!Next
<1> QED BY <1>4, <1>5, <1>6, Zenon

\* A step that leaves the path alone and returns nothing is invisible.
LEMMA StutterRefines ==
  ASSUME FileInv, FileInv', cache'.public = cache.public,
         \A w \in Writers : \/ pc[w] # "returned" /\ pc'[w] # "returned"
                            \/ pc'[w] = pc[w] /\ result'[w] = result[w]
  PROVE  UNCHANGED <<Visible, Answers>>
<1>1. \A w \in Writers : AnswerOf(w)' = AnswerOf(w)
  BY Zenon DEF AnswerOf
<1> QED BY <1>1, NothingAnswered, VisibleIsPublic, Zenon

\* Every stage of write_new_evidence is a step of the register, or none.
LEMMA StepRefines ==
  ASSUME FileInv, FileInv', NEW v \in Writers, Step(v)
  PROVE  [Register!Next]_<<Visible, Answers>>
<1>t. /\ pc \in [Writers -> Stages \cup {"drop", "returned", "dead"}]
      /\ result \in [Writers -> Stages \cup {"none", "ok"}]
      /\ cache \in FileSystems /\ PublicAt(v)
  BY Zenon DEF FileInv, Published, TypeOK
<1>1. ASSUME NEW s \in PrePublication, pc[v] = s, cache' = cache, Return(v, s) PROVE Register!Next
  BY <1>1, <1>t, ReturnRefines, Zenon DEF Return, PrePublication, Linked
<1>2. ASSUME NEW s \in Linked, pc[v] = s, cache' = cache, Return(v, s) PROVE Register!Next
  BY <1>2, <1>t, ReturnRefines, Zenon DEF Return, Linked
<1>3. ASSUME NEW s \in PrePublication, pc[v] = s, cache' = cache, Unwind(v, s)
      PROVE  UNCHANGED <<Visible, Answers>>
  BY <1>3, <1>t, StutterRefines, Zenon DEF Unwind, PrePublication
<1>4. ASSUME NEW s \in Stages, NEW r \in Stages, pc[v] = r, cache'.public = cache.public, Goto(v, s)
      PROVE  UNCHANGED <<Visible, Answers>>
  BY <1>4, <1>t, StutterRefines, Zenon DEF Goto, Stages
<1>5. CASE CreateParent(v) \/ CreateTemporaryFile(v)
  <2>1. CASE cache' = cache
    BY <1>5, <2>1, <1>1, <1>4, Zenon DEF CreateParent, CreateTemporaryFile, PrePublication, Stages
  <2>2. CASE cache' # cache
    <3>1. cache'.public = cache.public
      BY <1>5, <2>2, <1>t, Zenon DEF CreateParent, CreateTemporaryFile, FileSystems
    <3> QED BY <1>5, <2>2, <3>1, <1>4, Zenon DEF CreateParent, CreateTemporaryFile, Stages
  <2> QED BY <2>1, <2>2, Zenon
<1>6. CASE Write(v)
  <2>1. cache'.public = cache.public
    BY <1>6, <1>t, Zenon DEF Write, FileSystems
  <2>2. ASSUME UNCHANGED <<pc, result>> PROVE UNCHANGED <<Visible, Answers>>
    BY <2>1, <2>2, StutterRefines, Zenon
  <2> QED BY <1>6, <2>1, <2>2, <1>3, <1>4, Zenon DEF Write, PrePublication, Stages
<1>7. CASE SyncFile(v)
  BY <1>7, <1>3, <1>4, Zenon DEF SyncFile, PrePublication, Stages
<1>8. CASE Publish(v)
  <2>1. CASE cache.public = Nobody /\ cache' = [cache EXCEPT !.public = v]
          /\ Goto(v, "RemoveTemporaryFile")
    <3>1. cache'.public = v /\ pc[v] = "Publish" /\ result' = result
          /\ pc'[v] = "RemoveTemporaryFile" /\ \A w \in Writers \ {v} : pc'[w] = pc[w]
      BY <1>8, <2>1, <1>t, Zenon DEF Publish, Goto, FileSystems
    <3>2. \A w \in Writers : AnswerOf(w)' = AnswerOf(w)
      BY <3>1, Zenon DEF AnswerOf
    <3>3. Answers' = Answers /\ Answers[v] = "none"
      BY <3>1, <3>2, NothingAnswered, Zenon DEF Answers
    <3>4. Register!Take(v)
      BY <2>1, <3>1, <3>3, VisibleIsPublic, Zenon DEF Register!Take
    <3> QED BY <3>4, Zenon DEF Register!Next
  <2> QED BY <1>8, <2>1, <1>3, Zenon DEF Publish, PrePublication
<1>9. CASE RemoveTemporaryFile(v)
  <2>1. cache'.public = cache.public
    BY <1>9, <1>t, Zenon DEF RemoveTemporaryFile, FileSystems
  <2> QED BY <1>9, <2>1, <1>2, <1>4, Zenon DEF RemoveTemporaryFile, Linked, Stages
<1>10. CASE SyncParent(v)
  <2>1. ASSUME Return(v, "ok") PROVE Register!Next
    BY <1>10, <2>1, <1>t, ReturnRefines, Zenon DEF SyncParent, Return, Linked
  <2> QED BY <1>10, <2>1, <1>2, Zenon DEF SyncParent, Linked
<1>11. CASE DropTemporary(v)
  <2>1. cache'.public = cache.public /\ result' = result /\ pc[v] = "drop" /\ pc'[v] = "returned"
        /\ result[v] \in PrePublication /\ \A w \in Writers \ {v} : pc'[w] = pc[w]
    BY <1>11, <1>t, Zenon DEF DropTemporary, FileSystems, PublicAt
  <2> QED BY <2>1, ReturnRefines, Zenon DEF Linked
<1> QED BY <1>5, <1>6, <1>7, <1>8, <1>9, <1>10, <1>11, Zenon DEF Step

\* A power failure takes from the path only what nobody was promised.
LEMMA PowerFailureRefines ==
  ASSUME FreshParents \subseteq {FALSE}, FileInv, FileInv', PowerFailure
  PROVE  [Register!Next]_<<Visible, Answers>>
<1>1. /\ cache' = disk /\ result' = result
      /\ pc' = [w \in Writers |-> IF Running(w) THEN "dead" ELSE pc[w]]
  BY Zenon DEF PowerFailure, FileInv, Published, DurableInv
<1>2. \A w \in Writers : \/ pc[w] # "returned" /\ pc'[w] # "returned"
                         \/ pc'[w] = pc[w] /\ result'[w] = result[w]
  BY <1>1, Zenon DEF Running
<1>3. CASE disk.public = cache.public
  BY <1>1, <1>2, <1>3, StutterRefines, Zenon
<1>4. CASE disk.public # cache.public
  <2>1. disk.public = Nobody /\ cache.public \in Writers /\ ~Succeeded(cache.public)
    BY <1>4, Zenon DEF FileInv, TypeOK, FileSystems, Published, DiskInv, DurableInv, DurableAt
  <2>2. \A w \in Writers : AnswerOf(w)' = AnswerOf(w)
    BY <1>2, Zenon DEF AnswerOf
  <2>3. Answers' = Answers /\ Answers[cache.public] # "confirmed"
    BY <2>1, <2>2, NothingAnswered, Zenon DEF Answers, Succeeded
  <2>4. Register!Lose
    BY <1>1, <2>1, <2>3, VisibleIsPublic, Zenon DEF Register!Lose
  <2> QED BY <2>4, Zenon DEF Register!Next
<1> QED BY <1>3, <1>4, Zenon

\* If the directory existed before, the path is, for any number of programs, faults and power
\* failures, a register that is written once, and every answer of write_new_evidence tells
\* what became of it.
THEOREM PathIsWrittenOnce ==
  ASSUME FreshParents \subseteq {FALSE}
  PROVE  Spec => WrittenOnce
<1>1. Init => Register!Init
  <2> SUFFICES ASSUME Init PROVE Register!Init
    OBVIOUS
  <2>1. Visible = cache.public
    BY FileInvInit, VisibleIsPublic, Zenon
  <2>2. cache.public \in {Nobody, Earlier}
    BY DEF Init, Files
  <2>3. Answers = [w \in Writers |-> "none"]
    BY Zenon DEF Init, Answers
  <2> QED BY <2>1, <2>2, <2>3, Zenon DEF Register!Init
<1>2. FileInv /\ FileInv' /\ [Next]_vars => [Register!Next]_<<Visible, Answers>>
  <2> SUFFICES ASSUME FileInv, FileInv', [Next]_vars PROVE [Register!Next]_<<Visible, Answers>>
    OBVIOUS
  <2>t. pc \in [Writers -> Stages \cup {"drop", "returned", "dead"}]
    BY Zenon DEF FileInv, TypeOK
  <2>1. ASSUME NEW v \in Writers, Kill(v) PROVE UNCHANGED <<Visible, Answers>>
    BY <2>1, <2>t, StutterRefines, Zenon DEF Kill, Running
  <2>2. ASSUME WriteBack \/ UNCHANGED vars PROVE UNCHANGED <<Visible, Answers>>
    <3>1. pc' = pc /\ result' = result /\ cache' = cache
      BY <2>2, Zenon DEF WriteBack, vars
    <3> QED BY <3>1, StutterRefines, Zenon
  <2> QED BY <2>1, <2>2, StepRefines, PowerFailureRefines, Zenon DEF Next
<1> QED BY <1>1, <1>2, FileInvariant, PTL DEF Spec, WrittenOnce, Register!Spec

============================================================================

-------------------------- MODULE BundlePublication --------------------------
(* The commands of catalog-bench-contract that write and check the bundles
   below results/v1 and the pages made from them (main.rs, legacy_commit.rs,
   contention_bundle.rs, phase1_bundle.rs, engine_bundle.rs, bundle.rs,
   community_publication.rs), run by processes that share the repository and
   may be interrupted anywhere, while its maintainers edit it.

   A command is the sequence of its reads and writes, in the order of the
   code.  Rendering happens in memory: reading the sources is one step. *)
EXTENDS ResultBundle

CONSTANTS
  Procs,    \* processes that run a command at a time
  Settings  \* initial repositories, the commands of each process, and how many
            \* commands, interruptions and edits there are

VARIABLES
  setting,
  contract,    \* the profile and scenario files, by version
  evidence,    \* the transcripts each bundle is made from
  review,      \* what the review or the importer says they were
  tree,        \* the directory of each bundle
  pages,       \* INDEX.md and KNOWN-GAPS.md
  proc,        \* the processes
  imported,    \* the bundles an import has reported as written or checked
  budget

vars == <<setting, contract, evidence, review, tree, pages, proc, imported, budget>>
sources == <<contract, evidence, review>>

Source(k) == [contract |-> contract, evidence |-> evidence[k], review |-> review[k]]

-----------------------------------------------------------------------------
(* Commands as sequences of steps. *)

Step(op, k, f) == [op |-> op, kind |-> k, file |-> f]
Do(op, k) == Step(op, k, "")

\* One step for each file, in the order of the sequence.
EachFile(op, k, files) == [i \in DOMAIN files |-> Step(op, k, files[i])]

\* fs::write opens the file with truncation and then writes it; write_new_file
\* creates it and refuses one that exists.
WriteFile(op, k, f) == <<Step(op, k, f), Step("fill", k, f)>>
WriteFiles(op, k, files) ==
  [i \in 1..(2 * Len(files)) |-> IF i % 2 = 1 THEN Step(op, k, files[(i + 1) \div 2])
                                              ELSE Step("fill", k, files[i \div 2])]

LoadBundle(k) == <<Do("load_manifest", k), Do("load_context", k),
                   Step("load_result", k, "a"), Step("load_result", k, "z")>>

CheckHistorical == <<Do("generate", "historical")>> \o EachFile("compare", "historical", FileOrder("historical"))

WriteHistorical == <<Do("generate", "historical"), Do("create_dir_all", "historical")>>
                   \o WriteFiles("truncate", "historical", FileOrder("historical"))

CheckContention == <<Do("generate", "contention")>> \o EachFile("compare", "contention", FileOrder("contention"))
                   \o LoadBundle("contention") \o <<Step("compare", "contention", "matrix")>>

\* Nothing is cleared away before a directory is written again.
MutantStopAtDirectory ==
  <<Do("generate", "contention"), Do("create_dir", "contention")>>
  \o WriteFiles("truncate", "contention", FileOrder("contention"))
  \o LoadBundle("contention") \o WriteFile("truncate", "contention", "matrix")

WriteContention == <<Do("generate", "contention"), Do("create_dir_all", "contention")>>
                   \o WriteFiles("truncate", "contention", FileOrder("contention"))
                   \o LoadBundle("contention") \o WriteFile("truncate", "contention", "matrix")

\* The directory is compared file by file, and not listed.
MutantUnlisted == <<Do("generate", "phase1")>> \o EachFile("compare", "phase1", FileOrder("phase1"))
                  \o LoadBundle("phase1")

CheckPhase1 == <<Do("generate", "phase1"), Do("list", "phase1")>>
               \o EachFile("compare", "phase1", FileOrder("phase1")) \o LoadBundle("phase1")

\* The look at the directory is trusted when it is created.
MutantLookedAtOnce == <<Do("generate", "phase1"), Do("refuse_existing", "phase1"), Do("create_dir_all", "phase1")>>
                      \o WriteFiles("truncate", "phase1", FileOrder("phase1")) \o CheckPhase1

WritePhase1 == <<Do("generate", "phase1"), Do("refuse_existing", "phase1"), Do("create_dir", "phase1")>>
               \o WriteFiles("truncate", "phase1", FileOrder("phase1")) \o CheckPhase1

CheckEngine == <<Do("generate", "engine")>> \o EachFile("compare", "engine", FileOrder("engine"))
               \o LoadBundle("engine") \o <<Step("compare", "engine", "matrix"), Do("list", "engine")>>

WriteEngine == <<Do("generate", "engine"), Do("create_dir", "engine")>>
               \o WriteFiles("create_new", "engine", FileOrder("engine"))
               \o LoadBundle("engine") \o WriteFile("create_new", "engine", "matrix") \o CheckEngine

Write(k) == CASE k = "historical" -> WriteHistorical [] k = "contention" -> WriteContention
              [] k = "phase1" -> WritePhase1 [] k = "engine" -> WriteEngine
Check(k) == CASE k = "historical" -> CheckHistorical [] k = "contention" -> CheckContention
              [] k = "phase1" -> CheckPhase1 [] k = "engine" -> CheckEngine

RenderPublication == <<Do("discover", "publication"), Do("render", "publication")>>

CheckPublication(profile) ==
  (IF profile = "full" THEN CheckHistorical \o CheckContention \o CheckPhase1 ELSE <<>>)
  \o RenderPublication \o EachFile("compare", "publication", <<"index", "gaps">>)

WritePublication(profile) ==
  RenderPublication \o WriteFiles("truncate", "publication", <<"index", "gaps">>)
  \o CheckPublication(profile)

\* run in main.rs; an import command loads the bundle once more at its end.
Program(c) ==
  CASE c.name = "import write" -> Write(c.kind) \o LoadBundle(c.kind)
    [] c.name = "import check" -> Check(c.kind) \o LoadBundle(c.kind)
    [] c.name = "bundle validate" -> LoadBundle(c.kind)
    [] c.name = "matrix write" -> LoadBundle(c.kind) \o WriteFile("truncate", c.kind, "matrix")
    [] c.name = "matrix check" -> LoadBundle(c.kind) \o <<Step("compare", c.kind, "matrix")>>
    [] c.name = "publication write" -> WritePublication(c.kind)
    [] c.name = "publication check" -> CheckPublication(c.kind)

-----------------------------------------------------------------------------
(* The repository and the processes. *)

NoFiles == [f \in Files |-> Absent]
Missing == [exists |-> FALSE, files |-> NoFiles]
Complete(k, src) ==
  [exists |-> TRUE,
   files |-> [Rendered(k, src) EXCEPT !["matrix"] =
                IF k = "phase1" THEN Absent
                ELSE MatrixOf(k, [c \in Catalogs |-> Record(k, src, c)])]]

Shelved(m, results) ==
  [tag |-> "bundle", contract |-> m.contract, evidence |-> m.evidence, results |-> results]

Idle == [status |-> "idle", command |-> [name |-> "", kind |-> ""], calm |-> TRUE, todo |-> <<>>,
         render |-> NoFiles, manifest |-> Absent, results |-> [c \in Catalogs |-> Absent],
         shelf |-> [k \in Kinds |-> Absent], page |-> [f \in Pages |-> Absent]]

Init ==
  /\ setting \in Settings
  /\ contract = [source |-> 1, publication |-> 1]
  /\ evidence = setting.evidence
  /\ review = [k \in Kinds |-> [evidence |-> evidence[k], contract |-> contract,
                                failures |-> {c \in Catalogs : evidence[k][c].verdict # "pass"}]]
  /\ tree = [k \in Kinds |-> IF k \in setting.present THEN Complete(k, Source(k)) ELSE Missing]
  /\ pages = LET shelf == [k \in Kinds |-> IF k \in setting.present
                                            THEN Shelved(tree[k].files["manifest"], tree[k].files["manifest"].results)
                                            ELSE Absent]
             IN  [f \in Pages |-> Page(f, shelf)]
  /\ proc = [p \in Procs |-> Idle]
  /\ imported = setting.present
  /\ budget = setting.budget

-----------------------------------------------------------------------------
(* How a step ends.  A process is calm as long as no one else has changed
   anything since its command began; what a finished command found is
   forgotten when something changes. *)

Finished(r, status) == [Idle EXCEPT !.status = status, !.command = r.command, !.calm = r.calm]
Advance(r) == IF Len(r.todo) = 1 THEN Finished(r, "ok") ELSE [r EXCEPT !.todo = Tail(@)]
Disturbed(r) == IF r.status = "running" THEN [r EXCEPT !.calm = FALSE] ELSE Idle

Imports(p, ok) ==
  IF ok /\ Len(proc[p].todo) = 1 /\ proc[p].command.name \in {"import write", "import check"}
  THEN {proc[p].command.kind} ELSE {}

At(p, op) == proc[p].status = "running" /\ Head(proc[p].todo).op = op
Now(p) == Head(proc[p].todo)

\* p reads: it goes on as r, or stops with an error.
Reads(p, ok, r) ==
  /\ proc' = [proc EXCEPT ![p] = IF ok THEN Advance(r) ELSE Finished(@, "failed")]
  /\ imported' = imported \cup Imports(p, ok)
  /\ UNCHANGED <<setting, sources, tree, pages, budget>>

\* p writes, if it may.
Writes(p, ok, newtree, newpages) ==
  /\ tree' = IF ok THEN newtree ELSE tree
  /\ pages' = IF ok THEN newpages ELSE pages
  /\ proc' = IF ok THEN [q \in Procs |-> IF q = p THEN Advance(proc[p]) ELSE Disturbed(proc[q])]
                   ELSE [proc EXCEPT ![p] = Finished(@, "failed")]
  /\ imported' = imported \cup Imports(p, ok)
  /\ UNCHANGED <<setting, sources, budget>>

Found(s) == IF s.kind = "publication" THEN pages[s.file] ELSE tree[s.kind].files[s.file]

Wanted(p, s) ==
  CASE s.kind = "publication" -> proc[p].page[s.file]
    [] s.file = "matrix" -> MatrixOf(s.kind, proc[p].results)
    [] OTHER -> proc[p].render[s.file]

PutFile(p, s, ok, content) ==
  IF s.kind = "publication" THEN Writes(p, ok, tree, [pages EXCEPT ![s.file] = content])
  ELSE Writes(p, ok, [tree EXCEPT ![s.kind].files[s.file] = content], pages)

-----------------------------------------------------------------------------
(* The steps. *)

Start(p, c) ==
  /\ proc[p].status # "running" /\ budget.commands > 0
  /\ proc' = [proc EXCEPT ![p] = [Idle EXCEPT !.status = "running", !.command = c, !.todo = Program(c)]]
  /\ budget' = [budget EXCEPT !.commands = @ - 1]
  /\ UNCHANGED <<setting, sources, tree, pages, imported>>

Generate(p) ==
  /\ At(p, "generate")
  /\ LET k == Now(p).kind
     IN  Reads(p, Admits(k, Source(k)), [proc[p] EXCEPT !.render = Rendered(k, Source(k))])

RefuseExisting(p) ==
  /\ At(p, "refuse_existing")
  /\ Reads(p, ~tree[Now(p).kind].exists, proc[p])

CreateDir(p) ==
  /\ At(p, "create_dir")
  /\ Writes(p, ~tree[Now(p).kind].exists, [tree EXCEPT ![Now(p).kind].exists = TRUE], pages)

CreateDirAll(p) ==
  /\ At(p, "create_dir_all")
  /\ Writes(p, TRUE, [tree EXCEPT ![Now(p).kind].exists = TRUE], pages)

Truncate(p) == At(p, "truncate") /\ PutFile(p, Now(p), TRUE, Torn)

CreateNew(p) == At(p, "create_new") /\ PutFile(p, Now(p), Found(Now(p)) = Absent, Torn)

Fill(p) == At(p, "fill") /\ PutFile(p, Now(p), TRUE, Wanted(p, Now(p)))

Compare(p) ==
  /\ At(p, "compare")
  /\ Reads(p, Found(Now(p)) = Wanted(p, Now(p)), proc[p])

Listed(k) ==
  /\ tree[k].exists
  /\ {f \in Files : tree[k].files[f] # Absent} =
       {FileOrder(k)[i] : i \in DOMAIN FileOrder(k)} \cup (IF k = "engine" THEN {"matrix"} ELSE {})

List(p) == At(p, "list") /\ Reads(p, Listed(Now(p).kind), proc[p])

\* load_bundle: the manifest, then what it names, each with its digest.
LoadManifest(p) ==
  /\ At(p, "load_manifest")
  /\ LET m == tree[Now(p).kind].files["manifest"]
     IN  Reads(p, m.tag = "manifest", [proc[p] EXCEPT !.manifest = m])

\* The evidence a bundle names is on disk as it was; an engine bundle has its
\* own copies.
EvidenceVerified(k, wanted) ==
  IF k = "engine"
  THEN tree[k].files["source"].tag = "source" /\ tree[k].files["source"].evidence = wanted
  ELSE \A c \in DOMAIN wanted : evidence[k][c] = wanted[c]

ContractVerified(k, wanted) ==
  IF k = "engine"
  THEN tree[k].files["source"].tag = "source" /\ tree[k].files["source"].contract = wanted
  ELSE IF k = "phase1" THEN contract.publication = wanted.publication
  ELSE contract = wanted

LoadContext(p) ==
  /\ At(p, "load_context")
  /\ LET k == Now(p).kind
         m == proc[p].manifest
     IN  Reads(p, ContractVerified(k, m.contract) /\ EvidenceVerified(k, m.evidence), proc[p])

\* A result is what is found under its name.
MutantByName(k, m, c, found) == found.tag = "result" /\ EvidenceVerified(k, found.bound)

ResultVerified(k, m, c, found) ==
  /\ found = m.results[c]
  /\ ValidResult(k, found.transcript)
  /\ found.contract = m.contract
  /\ EvidenceVerified(k, found.bound)

LoadResult(p) ==
  /\ At(p, "load_result")
  /\ LET s == Now(p)
     IN  Reads(p, ResultVerified(s.kind, proc[p].manifest, s.file, Found(s)),
               [proc[p] EXCEPT !.results[s.file] = Found(s)])

HasManifest(k) == tree[k].files["manifest"] # Absent

\* The directories with a manifest, by name.
DirectoryOrder == <<"historical", "contention", "phase1", "engine">>
DiscoverManifests == SelectSeq(DirectoryOrder, HasManifest)

LoadAndScan(found) ==
  IF found = <<>> THEN <<>>
  ELSE [i \in 1..(5 * Len(found)) |->
          LET k == found[((i - 1) \div 5) + 1]
          IN  (LoadBundle(k) \o <<Do("scan", k)>>)[((i - 1) % 5) + 1]]

Discover(p) ==
  /\ At(p, "discover")
  /\ LET r == proc[p]
     IN  Reads(p, DiscoverManifests # <<>>,
               [r EXCEPT !.todo = <<Head(@)>> \o LoadAndScan(DiscoverManifests) \o Tail(@)])

\* scan_bundle reads the files of the bundle once more.
Scanned(k) ==
  IF k = "engine"
  THEN tree[k].files["source"].tag = "source" =>
         \A c \in Catalogs : tree[k].files["source"].evidence[c].secrets # "hidden"
  ELSE \A c \in Catalogs : evidence[k][c].secrets # "hidden"

Scan(p) ==
  /\ At(p, "scan")
  /\ LET k == Now(p).kind
     IN  Reads(p, Scanned(k), [proc[p] EXCEPT !.shelf[k] = Shelved(proc[p].manifest, proc[p].results)])

Render(p) ==
  /\ At(p, "render")
  /\ Reads(p, TRUE, [proc[p] EXCEPT !.page = [f \in Pages |-> Page(f, proc[p].shelf)],
                                    !.shelf = Idle.shelf])

\* The process is killed, or its disk is full.
Interrupt(p) ==
  /\ proc[p].status = "running" /\ budget.interrupts > 0
  /\ proc' = [proc EXCEPT ![p] = Idle]
  /\ budget' = [budget EXCEPT !.interrupts = @ - 1]
  /\ UNCHANGED <<setting, sources, tree, pages, imported>>

-----------------------------------------------------------------------------
(* The maintainers. *)

Edit ==
  /\ budget.edits > 0
  /\ budget' = [budget EXCEPT !.edits = @ - 1]
  /\ proc' = [p \in Procs |-> Disturbed(proc[p])]
  /\ UNCHANGED <<setting, pages, imported>>

\* A new scenario changes both; the two profiles of phase 1 change apart.
EditContract(parts) ==
  /\ parts = {"source", "publication"} \/ "phase1" \in setting.edited
  /\ Edit
  /\ contract' = [part \in DOMAIN contract |-> IF part \in parts THEN 2 ELSE contract[part]]
  /\ UNCHANGED <<evidence, review, tree>>

EditEvidence(k, c, t) ==
  Edit /\ evidence' = [evidence EXCEPT ![k][c] = t] /\ UNCHANGED <<contract, review, tree>>

\* New transcripts of a run, and its review with them.
NewEvidence(k, c, t) ==
  /\ k \in {"phase1", "engine"} /\ Edit
  /\ evidence' = [evidence EXCEPT ![k][c] = t]
  /\ review' = [review EXCEPT ![k].evidence[c] = t, ![k].contract = contract]
  /\ UNCHANGED <<contract, tree>>

AddStray(k) ==
  /\ tree[k].exists /\ Edit
  /\ tree' = [tree EXCEPT ![k].files["stray"] = [tag |-> "stray"]]
  /\ UNCHANGED sources

ProcStep(p) ==
  \/ \E c \in setting.commands[p] : Start(p, c)
  \/ Generate(p) \/ RefuseExisting(p) \/ CreateDir(p) \/ CreateDirAll(p)
  \/ Truncate(p) \/ CreateNew(p) \/ Fill(p) \/ Compare(p) \/ List(p)
  \/ LoadManifest(p) \/ LoadContext(p) \/ LoadResult(p)
  \/ Discover(p) \/ Scan(p) \/ Render(p) \/ Interrupt(p)

Maintain ==
  \/ \E parts \in {{"source"}, {"publication"}, {"source", "publication"}} : EditContract(parts)
  \/ \E k \in setting.edited : AddStray(k)
  \/ \E k \in setting.edited, c \in Catalogs, t \in setting.transcripts :
       EditEvidence(k, c, t) \/ NewEvidence(k, c, t)

Next == Maintain \/ \E p \in Procs : ProcStep(p)

Spec == Init /\ [][Next]_vars

-----------------------------------------------------------------------------
(* Properties.  Done(p, names) is a command of one of these names that has
   just reported success and that nobody interfered with. *)

Ended(p, status, names) == proc[p].status = status /\ proc[p].calm /\ proc[p].command.name \in names
Done(p, names) == Ended(p, "ok", names)
Publishing == {"publication write", "publication check"}
Importing == {"import write", "import check"}

\* A bundle that load_bundle accepts for the publication is one rendering:
\* every result is what an importer makes of the contracts and the evidence
\* that the manifest names, even when it is read while an import overwrites
\* the directory, or after one was interrupted between two files.
OneGeneration ==
  \A p \in Procs, k \in Kinds : LET b == proc[p].shelf[k] IN
    b # Absent => \A c \in Catalogs : b.results[c] = Record(k, b, c)

Exact(k) ==
  /\ \A i \in DOMAIN FileOrder(k) :
       tree[k].files[FileOrder(k)[i]] = Rendered(k, Source(k))[FileOrder(k)[i]]
  /\ k \in {"contention", "engine"} => tree[k].files["matrix"] = Complete(k, Source(k)).files["matrix"]
  /\ k \in {"phase1", "engine"} => tree[k].files["stray"] = Absent

\* An import that reports success leaves, or has found, exactly the files that
\* the present sources give: every record, the manifest and the matrix, and in
\* the bundles that are never overwritten nothing else.
ImportIsExact ==
  \A p \in Procs : Done(p, Importing) => Exact(proc[p].command.kind)

\* No record, manifest or source copy of an engine or a phase 1 bundle changes
\* once it is written, whoever imports what at the same time: write_new_file
\* and create_dir refuse what exists.
PublishedStays ==
  [][\A k \in {"phase1", "engine"}, f \in Files \ {"matrix"} :
       tree[k].files[f].tag \notin {"absent", "torn"} => tree'[k].files[f] = tree[k].files[f]]_vars

\* What an interrupted command leaves behind does not stop the next one: an
\* import that overwrites its directory only fails when its sources are not
\* admitted, and the pages are only refused for a bundle that is not whole, or
\* that the secret scan rejects.
RerunRepairs ==
  \A p \in Procs :
    /\ Ended(p, "failed", {"import write"}) /\ proc[p].command.kind \in {"historical", "contention"}
         => ~Admits(proc[p].command.kind, Source(proc[p].command.kind))
    /\ Ended(p, "failed", {"publication write"}) /\ proc[p].command.kind = "smoke"
         => \A k \in Kinds : ~HasManifest(k) \/ \E b \in Kinds :
              /\ HasManifest(b)
              /\ \/ ~Scanned(b)
                 \/ LET m == tree[b].files["manifest"]
                    IN  \/ m.tag = "torn"
                        \/ ~ContractVerified(b, m.contract)
                        \/ ~EvidenceVerified(b, m.evidence)
                        \/ \E c \in Catalogs : tree[b].files[c] # m.results[c]

\* The results that INDEX.md counts as passes are those whose required
\* assertions passed in the transcript they were made from.
PassesAreEarned ==
  \A p \in Procs : Done(p, Publishing) =>
    \A k \in DOMAIN pages["index"].rows :
      pages["index"].rows[k].pass =
        Cardinality({c \in Catalogs : tree[k].files[c].transcript.verdict = "pass"
                                       /\ tree[k].files[c].transcript.required = "pass"})

\* After a publication command that succeeds, KNOWN-GAPS.md names every result
\* of a published bundle that failed, was not tested, or left an assertion
\* that did not pass, an optional one included.
GapsAreComplete ==
  \A p \in Procs : Done(p, Publishing) =>
    \A k \in Kinds, c \in Catalogs :
      LET t == tree[k].files[c].transcript
      IN  HasManifest(k) /\ (t.verdict # "pass" \/ \E x \in Assertions(k) : t[x] # "pass")
            => \E row \in pages["gaps"].rows : row.kind = k /\ row.catalog = c

\* A bundle that an import has reported is on every page that a publication
\* command accepts afterwards: a damaged one is an error, not an omission.
NothingIsDropped ==
  \A p \in Procs : Done(p, Publishing) => imported \subseteq DOMAIN pages["index"].rows

\* The pages tell what the bundles hold: whatever a publication command accepts
\* shows every bundle that was imported, counts as passes what passed, and
\* names every gap (render_publication).
PagesTellTheBundles == PassesAreEarned /\ GapsAreComplete /\ NothingIsDropped

\* "use `./publish-results.sh full` to recompute every source-backed checked-in
\* bundle first" (INDEX.md).
FullRecomputes ==
  \A p \in Procs : Done(p, Publishing) /\ proc[p].command.kind = "full" =>
    \A k \in DOMAIN pages["index"].rows : Exact(k)
=============================================================================

------------------------ MODULE MCBundlePublication ------------------------
(* Instances of BundlePublication for TLC: repositories in which one bundle is
   imported, or imported again, while the pages are written. *)
EXTENDS BundlePublication, TLC

CONSTANTS p1, p2

Good == Transcript("pass", "pass", "pass")
Limited == Transcript("pass", "pass", "not-evaluated")
Failing == Transcript("fail", "fail", "pass")
Unfinished == Transcript("fail", "pass", "pass")
Collided == Transcript("collision", "not-evaluated", "not-evaluated")
Overclaimed == Transcript("pass", "fail", "pass")
Leaking == [Good EXCEPT !.secrets = "hidden"]
Unsanitized == [Good EXCEPT !.secrets = "declared"]

Usual == [k \in Kinds |-> CASE k = "phase1" -> [c \in Catalogs |-> IF c = "a" THEN Good ELSE Limited]
                            [] k = "engine" -> [c \in Catalogs |-> Good]
                            [] OTHER -> [c \in Catalogs |-> IF c = "a" THEN Good ELSE Failing]]

Command(name, kind) == [name |-> name, kind |-> kind]

CommandsOf(k) ==
  {Command(n, k) : n \in {"import write", "import check", "bundle validate"}}
  \cup {Command(n, x) : n \in {"matrix write", "matrix check"}, x \in {k} \ {"phase1"}}
  \cup {Command("publication write", "smoke"), Command("publication write", "full"),
        Command("publication check", "full")}

Setting(k, present, t, first, second, limits) ==
  [evidence |-> [Usual EXCEPT ![k]["a"] = t], present |-> present,
   edited |-> {k}, transcripts |-> {Failing},
   commands |-> p1 :> first @@ p2 :> second, budget |-> limits]

Budget(commands, interrupts, edits) == [commands |-> commands, interrupts |-> interrupts, edits |-> edits]

\* One command after the other, with an interruption and an edit.
Sequential(k, present) == Setting(k, present, Good, CommandsOf(k), {}, Budget(3, 1, 1))

\* A first import of transcripts that are not all good.
Unusual(k, transcripts) ==
  {Setting(k, Kinds \ {k}, t, CommandsOf(k), {}, Budget(2, 0, 0)) : t \in transcripts}

\* An import of k, or a publication, while another process runs a command.
Concurrent(k, present, interrupts, edits) ==
  Setting(k, present, Good, {Command("import write", k), Command("publication write", "smoke")}, CommandsOf(k),
          Budget(2, interrupts, edits))

Overwritten == {"historical", "contention"}
Immutable == {"phase1", "engine"}

MCSettings ==
  {Sequential(k, Kinds) : k \in Overwritten} \cup {Sequential(k, Kinds \ {k}) : k \in Immutable}
  \cup UNION {Unusual(k, {Failing, Unfinished, Collided, Overclaimed, Leaking, Unsanitized}) : k \in Immutable}
  \cup UNION {Unusual(k, {Unfinished, Overclaimed, Unsanitized}) : k \in Overwritten}
  \cup {Concurrent(k, Kinds \ {k}, 1, 0) : k \in Kinds}
  \cup {Concurrent("historical", Kinds, 0, 1), Concurrent("contention", Kinds, 0, 0)}
=============================================================================

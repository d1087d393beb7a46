---------------------------- MODULE RestCatalog ----------------------------
(* What the conformance probes see of a catalog behind the Iceberg REST
   protocol: which objects exist and how a request changes and reads them.
   The catalog is not code of this repository; it is described by the
   requests the probes send and the answers their checks accept.

   An object is a namespace or a table.  Its entry says who created it, its
   UUID, the metadata pointer (which every change of a table replaces by a new
   one), the current schema and the properties that are set on it. *)
EXTENDS Naturals, FiniteSets

Root == "root"
Namespaces == {"primary", "sibling", "child", "namespace"}
Tables == {"table", "other", "renamed", "registered"}
Objects == Namespaces \cup Tables

Parent(object) ==
  CASE object = "child" -> "primary"
    [] object \in Tables -> "namespace"
    [] OTHER -> Root

Absent == [owner |-> "nobody", uuid |-> 0, pointer |-> 0, schema |-> 0, props |-> {}]

\* objects: the entries; clock: the UUIDs and pointers handed out; kept: what
\* the idempotency key stands for, once it was used.
NothingKept == [change |-> "none", entry |-> Absent]
EmptyCatalog == [objects |-> [object \in Objects |-> Absent], clock |-> 0, kept |-> NothingKept]

Exists(cat, object) == object = Root \/ (object \in Objects /\ cat.objects[object] # Absent)
Children(cat, object) == {child \in Objects : Exists(cat, child) /\ Parent(child) = object}

-----------------------------------------------------------------------------
(* Requests and answers. *)

NoChange == [name |-> "none", remove |-> {}, add |-> {}, schema |-> 0]

\* A request names an object; a rename also a destination, a registration the
\* metadata it registers, a commit the schema it requires, the change it makes
\* and whether it carries the idempotency key, a page request its token.
Request(act, object) ==
  [act |-> act, object |-> object, to |-> object, entry |-> Absent,
   needs |-> 0, change |-> NoChange, keyed |-> FALSE, token |-> ""]

NoToken == "no token"

\* json: there is a body, and it has the shape the request calls for.
Answer(status, type, entry) ==
  [status |-> status, json |-> TRUE, type |-> type, entry |-> entry, names |-> {}, token |-> NoToken]
Listing(names, token) ==
  [status |-> "200", json |-> TRUE, type |-> "", entry |-> Absent, names |-> names, token |-> token]
ServerError == Answer("500", "InternalServerError", Absent)
Missing(object) ==
  Answer("404", IF object \in Tables \cup {"missing table"} THEN "NoSuchTableException" ELSE "NoSuchNamespaceException", Absent)

-----------------------------------------------------------------------------
(* The effect of a request on the catalog and its answer. *)

Put(cat, object, entry) ==
  [cat EXCEPT !.objects[object] = entry, !.clock = cat.clock + 1]

Created(cat, request, owner) ==
  [owner |-> owner, uuid |-> cat.clock + 1, pointer |-> cat.clock + 1,
   schema |-> 0, props |-> request.change.add]

Changed(cat, request) ==
  LET before == cat.objects[request.object]
  IN  [before EXCEPT !.pointer = cat.clock + 1,
                     !.schema = request.change.schema,
                     !.props = (@ \ request.change.remove) \cup request.change.add]

Granted(cat, answer) == [cat |-> cat, answer |-> answer]

Create(cat, request, owner) ==
  CASE ~Exists(cat, Parent(request.object)) -> Granted(cat, Missing(Parent(request.object)))
    [] Exists(cat, request.object) -> Granted(cat, Answer("409", "AlreadyExistsException", Absent))
    [] OTHER -> LET entry == Created(cat, request, owner)
                IN  Granted(Put(cat, request.object, entry), Answer("200", "", entry))

Load(cat, request) ==
  IF Exists(cat, request.object)
  THEN Granted(cat, Answer("200", "", cat.objects[request.object]))
  ELSE Granted(cat, Missing(request.object))

List(cat, request) ==
  IF Exists(cat, request.object)
  THEN Granted(cat, Listing(Children(cat, request.object), NoToken))
  ELSE Granted(cat, Missing(request.object))

Drop(cat, request) ==
  CASE ~Exists(cat, request.object) -> Granted(cat, Missing(request.object))
    [] Children(cat, request.object) # {} -> Granted(cat, Answer("409", "NamespaceNotEmptyException", Absent))
    [] OTHER -> Granted(Put(cat, request.object, Absent), Answer("204", "", Absent))

\* A commit is applied when the table has the schema it requires.
Commit(cat, request) ==
  CASE ~Exists(cat, request.object) -> Granted(cat, Missing(request.object))
    [] cat.objects[request.object].schema # request.needs -> Granted(cat, Answer("409", "CommitFailedException", Absent))
    [] OTHER -> LET entry == Changed(cat, request)
                IN  Granted(Put(cat, request.object, entry), Answer("200", "", entry))

\* With the idempotency key: the first use applies the commit and keeps its
\* result, the same commit again gets that result, another one is rejected.
KeyedCommit(cat, request) ==
  CASE cat.kept = NothingKept ->
         LET first == Commit(cat, request)
         IN  IF first.answer.status = "200"
             THEN Granted([first.cat EXCEPT !.kept = [change |-> request.change.name, entry |-> first.answer.entry]], first.answer)
             ELSE first
    [] cat.kept.change = request.change.name -> Granted(cat, Answer("200", "", cat.kept.entry))
    [] OTHER -> Granted(cat, Answer("409", "IdempotencyKeyConflictException", Absent))

Rename(cat, request) ==
  CASE ~Exists(cat, request.object) -> Granted(cat, Missing(request.object))
    [] Exists(cat, request.to) -> Granted(cat, Answer("409", "AlreadyExistsException", Absent))
    [] OTHER -> Granted([cat EXCEPT !.objects[request.to] = cat.objects[request.object],
                                    !.objects[request.object] = Absent], Answer("204", "", Absent))

Register(cat, request) ==
  CASE ~Exists(cat, Parent(request.object)) -> Granted(cat, Missing(Parent(request.object)))
    [] Exists(cat, request.object) -> Granted(cat, Answer("409", "AlreadyExistsException", Absent))
    [] OTHER -> Granted(Put(cat, request.object, request.entry), Answer("200", "", request.entry))

Execute(cat, request) ==
  CASE request.act = "create" -> Create(cat, request, "probe")
    [] request.act = "load" -> Load(cat, request)
    [] request.act = "list" -> List(cat, request)
    [] request.act = "drop" -> Drop(cat, request)
    [] request.act = "commit" -> IF request.keyed THEN KeyedCommit(cat, request) ELSE Commit(cat, request)
    [] request.act = "rename" -> Rename(cat, request)
    [] request.act = "register" -> Register(cat, request)

\* The effect with every check of the catalog left out: a create replaces what
\* is there, a commit is applied whatever it requires and whatever its key.
Forced(cat, request) ==
  CASE request.act = "create" /\ Exists(cat, request.object) -> Put(cat, request.object, Created(cat, request, "probe"))
    [] request.act = "commit" /\ Exists(cat, request.object) -> Put(cat, request.object, Changed(cat, request))
    [] OTHER -> cat

Mutating(request) == request.act \notin {"load", "list"}
=============================================================================

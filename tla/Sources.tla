------------------------------ MODULE Sources ------------------------------
(***************************************************************************)
(* What a scan makes of a source tree: services/scanner.py reads the       *)
(* files, parsers/ turns each into entities, relations and frontend        *)
(* requests, frontend_request.py resolves the requests with what all       *)
(* frontend files declare, relation_builder.py joins the files, and        *)
(* _replace_index writes rows.  ProjectIndex says when a scan runs and     *)
(* what becomes of its transaction.                                        *)
(*                                                                         *)
(* A file is what its parser sees in it, not text: the nodes of a Python   *)
(* tree, the classes of a Java file, the calls, constants and wrappers of  *)
(* a frontend file.  Names are sequences of their parts.                   *)
(***************************************************************************)
EXTENDS Naturals, Sequences, FiniteSets, SequencesExt, FiniteSetsExt, ApiPaths,
        Ascending

CONSTANTS
  Trees,      \* the source trees: sets of files
  Ignored,    \* IGNORED_DIRECTORIES
  Languages,  \* EXTENSION_LANGUAGES: extension -> language
  MaxBytes,   \* max_source_bytes
  Broken,     \* a string literal that "unicode_escape" does not decode
  Absent      \* what is not there: an argument, a path, a verb

Verbs == {"GET", "POST", "PUT", "PATCH", "DELETE"}
Frontend == {"vue", "javascript", "typescript"}

ASSUME SourcesAssumption ==
  /\ MaxBytes \in Nat \ {0}
  /\ \A tree \in Trees :
       /\ IsFiniteSet(tree)
       /\ \A f \in tree : f.id \in Nat
       /\ \A f, g \in tree : f.id = g.id => f = g

VARIABLES
  tree,      \* the source tree
  stage,     \* discover, read, parse, write, ready or failed
  todo,      \* files to read or to parse, in the order of their paths
  files,     \* files that were read
  entities, relations, requests,  \* what the parsers found
  issues     \* scan issues: [file, type, reason], at for a request's

treeVars == <<tree, stage, todo, files, entities, relations, requests, issues>>

-----------------------------------------------------------------------------
(* Entities                                                                *)

Entity(file, type, qualified, line) ==
  [file |-> file, type |-> type, qualified |-> qualified, line |-> line,
   at |-> 0, owner |-> <<>>, verb |-> Absent, path |-> <<>>, service |-> FALSE,
   calls |-> {}]

\* The namespaced local_key, by which relations name their ends.
LocalKey(e) ==
  <<e.file, e.type, IF e.type = "frontend_api_call" THEN <<>> ELSE e.qualified,
    e.line, e.at, e.owner>>

\* entity_key, unique in a project.
EntityKey(e) == <<e.type, e.file, e.qualified, e.line>>

Relation(source, target, type, confidence) ==
  [source |-> LocalKey(source), target |-> LocalKey(target), type |-> type,
   confidence |-> confidence]

Issue(file, type, reason, at) ==
  [file |-> file, type |-> type, reason |-> reason, at |-> at]

-----------------------------------------------------------------------------
(* ProjectScanner                                                          *)

\* _discover_files: neither ignored nor linked directories are entered.
Discovered ==
  {f \in tree : /\ f.dirs \cap Ignored = {} /\ ~f.linked
                /\ f.ext \in DOMAIN Languages}

\* _read_file: why the file is skipped; no reason when it is read.
Skipped(f, readable) ==
  IF f.symlink THEN {"SYMLINK_FILE"}
  ELSE IF f.size > MaxBytes THEN {"FILE_TOO_LARGE"}
  ELSE IF ~readable THEN {"READ_ERROR"}
  ELSE IF f.nul THEN {"BINARY_FILE"}
  ELSE IF ~f.utf8 THEN {"DECODE_ERROR"}
  ELSE {}

-----------------------------------------------------------------------------
(* PythonParser                                                            *)

Names(scopes) == [i \in DOMAIN scopes |-> scopes[i].name]

\* visit_ClassDef and _visit_function for a class or function inside scopes.
PythonEntity(f, scopes, node) ==
  Entity(f.id, IF node.kind = "class" THEN "python_class" ELSE "python_function",
         Append(Names(scopes), node.name), node.line)

PythonEntities(f) ==
  {PythonEntity(f, n.scopes, n) : n \in f.syntax.nodes}

\* A class contains the functions whose innermost scope it is.
PythonRelations(f) ==
  {Relation(PythonEntity(f, Front(n.scopes), Last(n.scopes)),
            PythonEntity(f, n.scopes, n), "CONTAINS", 100) :
     n \in {m \in f.syntax.nodes : /\ m.kind = "function" /\ m.scopes # <<>>
                                   /\ Last(m.scopes).kind = "class"}}

-----------------------------------------------------------------------------
(* JavaParser                                                              *)

ClassName(c) == Append(c.scopes, c.name)
IsController(c) == c.annotations \cap {"Controller", "RestController"} # {}

ClassEntity(f, c) ==
  [Entity(f.id, "java_class", ClassName(c), c.line) EXCEPT
     !.service = "Service" \in c.annotations]

\* _injected_dependencies and _constructor_dependencies: the type of a field
\* that is annotated, or assigned from a parameter of the constructor.
Receivers(c, name) ==
  LET assigned == {a \in c.constructor : a.field = name}
      annotated == {x \in c.fields : x.name = name /\ x.injected}
  IN IF assigned # {} THEN {a.type : a \in assigned}
     ELSE {x.type : x \in annotated}

\* _visit_method, with _service_invocations: the calls on injected fields.
MethodEntity(f, c, m) ==
  [Entity(f.id, "java_method", Append(ClassName(c), m.name), m.line) EXCEPT
     !.calls = UNION {{[receiver |-> type, method |-> call.method] :
                         type \in Receivers(c, call.on)} : call \in m.calls}]

\* _add_api: a route is where its method is.
RouteEntity(f, c, m, base, path, verb) ==
  [Entity(f.id, "backend_api", <<verb>> \o base \o path, m.line) EXCEPT
     !.owner = Append(ClassName(c), m.name), !.verb = verb,
     !.path = NormalizePath([segments |-> base \o path])]

\* _class_paths, _annotation_paths, _annotation_methods and _join_paths: a
\* route for every base path, path and verb of a mapping.
Routes(f, c, m) ==
  IF ~IsController(c) THEN {}
  ELSE UNION {
    {RouteEntity(f, c, m, base, path, verb) :
       base \in IF c.bases = {} THEN {<<>>} ELSE c.bases,
       path \in mapping.paths,
       verb \in IF mapping.verbs = {} THEN {"ANY"} ELSE mapping.verbs} :
    mapping \in m.mappings}

JavaEntities(f) ==
  UNION {{ClassEntity(f, c)}
           \cup UNION {{MethodEntity(f, c, m)} \cup Routes(f, c, m) :
                         m \in c.methods} :
         c \in f.syntax.classes}

JavaRelations(f) ==
  UNION {{Relation(ClassEntity(f, c), MethodEntity(f, c, m), "CONTAINS", 100) :
            m \in c.methods}
           \cup UNION {{Relation(route, MethodEntity(f, c, m), "DEFINES_API", 100) :
                          route \in Routes(f, c, m)} : m \in c.methods} :
         c \in f.syntax.classes}

-----------------------------------------------------------------------------
(* VueParser                                                               *)

Clients == {"axios", "request", "http", "service"}

\* A call as the resolver gets it; its offset at tells it from the others of
\* the file, whose calls the code also tells apart by line and callee.
Candidate(f, c, callee, url, method) ==
  [file |-> f.id, line |-> c.line, at |-> c.at, callee |-> callee, url |-> url,
   method |-> method]

\* _request_candidate and _object_request_candidate.  A call is that of
\* client.property or, without a property, of the function client; first is
\* its first argument and options the method of an object after it.
Requests(f, c) ==
  IF c.property \in Verbs /\ c.client \in Clients
    THEN {Candidate(f, c, c.property, arg.expr, [kind |-> "name", value |-> c.property]) :
            arg \in c.first}
  ELSE IF c.property = "request" \/ (c.property = Absent /\ c.client \in {"axios", "request"})
    THEN {Candidate(f, c, IF c.property = Absent THEN c.client ELSE c.property,
                    arg.url, arg.method) :
            arg \in {a \in c.first : a.object /\ a.url # Absent}}
  ELSE IF c.property = Absent /\ c.client = "fetch"
    THEN {Candidate(f, c, "fetch", arg.expr,
                    IF c.options = Absent THEN [kind |-> "name", value |-> "GET"]
                    ELSE c.options) : arg \in c.first}
  ELSE {}

\* ParserRegistry.parse: what the parser of the language finds in a file.
Parsed(f) ==
  LET language == Languages[f.ext]
  IN CASE language = "java" ->
            [entities |-> JavaEntities(f), relations |-> JavaRelations(f), requests |-> {}]
       [] language = "python" ->
            [entities |-> PythonEntities(f), relations |-> PythonRelations(f),
             requests |-> {}]
       [] language \in Frontend ->
            [entities |-> {}, relations |-> {},
             requests |-> UNION {Requests(f, c) : c \in f.syntax.calls}]
       [] OTHER -> [entities |-> {}, relations |-> {}, requests |-> {}]

\* A text is finite, lines and offsets are numbers, and a literal has a value.
ASSUME ParserAssumption ==
  \A source \in Trees : \A f \in source :
    /\ IsFiniteSet(Parsed(f).entities) /\ IsFiniteSet(Parsed(f).relations)
    /\ IsFiniteSet(Parsed(f).requests)
    /\ \A r \in Parsed(f).requests :
         /\ r.line \in Nat /\ r.at \in Nat
         /\ r.url.kind = "literal" => r.url.value # Absent
    /\ Languages[f.ext] \in Frontend =>
         /\ \A c \in f.syntax.constants : c.value # Absent
         /\ \A w \in f.syntax.wrappers : Len(w.body) = 1 => Head(w.body) # Absent

-----------------------------------------------------------------------------
(* FrontendRequestResolver                                                 *)

FrontendFiles(read) == {f \in read : Languages[f.ext] \in Frontend}

\* _constant_catalog: the values object.property has in any frontend file.
Constants(read, key) ==
  {c.value : c \in {d \in UNION {f.syntax.constants : f \in FrontendFiles(read)} :
                      d.key = key}}

\* _wrapper_catalog: the verbs of the wrappers of a name that call once.
Wrappers(read, name) ==
  {Head(w.body) : w \in {x \in UNION {f.syntax.wrappers : f \in FrontendFiles(read)} :
                           x.name = name /\ Len(x.body) = 1}}

\* _resolve_path: the path, or why it is not known.
ResolvePath(read, url) ==
  LET values == Constants(read, url.value)
  IN IF url.kind = "literal" THEN [value |-> url.value, reason |-> Absent]
     ELSE IF url.kind # "constant" \/ values = {}
       THEN [value |-> Absent, reason |-> "dynamic_url"]
     ELSE IF Cardinality(values) > 1
       THEN [value |-> Absent, reason |-> "ambiguous_constant"]
     ELSE [value |-> CHOOSE v \in values : TRUE, reason |-> Absent]

\* _resolve_method: the verb that is written, or the one of the wrapper.
ResolveMethod(read, request) ==
  LET verbs == Wrappers(read, request.callee)
  IN IF request.method # Absent
       THEN IF request.method.value \in Verbs
              THEN [value |-> request.method.value, reason |-> Absent]
              ELSE [value |-> Absent, reason |-> "dynamic_method"]
     ELSE IF Cardinality(verbs) = 1
       THEN [value |-> CHOOSE v \in verbs : TRUE, reason |-> Absent]
     ELSE [value |-> Absent, reason |-> "unknown_wrapper"]

\* The decoding of a literal raises, in a request or in a constant.
Undecodable(read, found) ==
  \/ \E f \in FrontendFiles(read) : \E c \in f.syntax.constants : c.value = Broken
  \/ \E r \in found : \/ r.url.kind = "literal" /\ r.url.value = Broken
                      \/ r.method # Absent /\ r.method.value = Broken

\* The entity of a request that is resolved.
RequestEntity(request, verb, path) ==
  [Entity(request.file, "frontend_api_call", <<verb>> \o path.segments, request.line)
     EXCEPT !.at = request.at, !.owner = <<request.callee>>, !.verb = verb,
            !.path = NormalizePath(path)]

\* resolve: one entity or one warning for a request.
Resolution(read, request) ==
  LET path == ResolvePath(read, request.url)
      verb == ResolveMethod(read, request)
  IN IF path.value = Absent \/ verb.value = Absent
       THEN [entities |-> {},
             issues |-> {Issue(request.file, "analysis_warning",
                               IF path.reason # Absent THEN path.reason ELSE verb.reason,
                               request.at)}]
       ELSE [entities |-> {RequestEntity(request, verb.value, path.value)},
             issues |-> {}]

-----------------------------------------------------------------------------
(* build_relations                                                         *)

OfType(found, type) == {e \in found : e.type = type}
Serving(found, path, verb) ==
  {e \in OfType(found, "backend_api") : e.path = path /\ e.verb = verb}

\* Mutant of RequestRelations: ANY is matched although the verb has a route.
RequestRelationsAny(found) ==
  UNION {{Relation(call, route, "REQUESTS_API",
                   IF route.verb = call.verb THEN 100 ELSE 80) :
            route \in Serving(found, call.path, call.verb)
                        \cup Serving(found, call.path, "ANY")} :
         call \in OfType(found, "frontend_api_call")}

\* A request asks the routes of its path and verb, else those of any verb.
RequestRelations(found) ==
  UNION {LET exact == Serving(found, call.path, call.verb)
         IN IF exact # {}
              THEN {Relation(call, route, "REQUESTS_API", 100) : route \in exact}
              ELSE {Relation(call, route, "REQUESTS_API", 80) :
                      route \in Serving(found, call.path, "ANY")} :
         call \in OfType(found, "frontend_api_call")}

ServiceClasses(found) ==
  {e.qualified : e \in {c \in OfType(found, "java_class") : c.service}}

\* service_aliases: the service classes a type may name.
Named(found, type) ==
  {class \in ServiceClasses(found) : class = type \/ <<Last(class)>> = type}

\* methods_by_class_and_name, for the classes a receiver may be of.
Callees(found, call) ==
  {m \in OfType(found, "java_method") :
     /\ Front(m.qualified) \in Named(found, call.receiver)
     /\ Last(m.qualified) = call.method}

\* Mutant of CallRelations: an ambiguous call is guessed.
CallRelationsGuessed(found) ==
  UNION {{Relation(method, CHOOSE m \in Callees(found, call) : TRUE, "CALLS_METHOD", 80) :
            call \in {c \in method.calls : Callees(found, c) # {}}} :
         method \in OfType(found, "java_method")}

\* _append_method_calls: a call is kept when one method can be meant.
CallRelations(found) ==
  UNION {{Relation(method, CHOOSE m \in Callees(found, call) : TRUE, "CALLS_METHOD", 80) :
            call \in {c \in method.calls : Cardinality(Callees(found, c)) = 1}} :
         method \in OfType(found, "java_method")}

-----------------------------------------------------------------------------
TreeInit ==
  /\ tree \in Trees /\ stage = "discover" /\ todo = <<>>
  /\ files = {} /\ entities = {} /\ relations = {} /\ requests = {} /\ issues = {}

Ordered(found) ==
  LET ids == Ascending({f.id : f \in found})
  IN [i \in DOMAIN ids |-> CHOOSE f \in found : f.id = ids[i]]

\* scan begins: _discover_files.
Discover ==
  /\ stage = "discover" /\ stage' = "read"
  /\ todo' = Ordered(Discovered)
  /\ UNCHANGED <<tree, files, entities, relations, requests, issues>>

\* scan takes the next file, which may have become unreadable.
ReadFile ==
  /\ stage = "read" /\ todo # <<>> /\ todo' = Tail(todo)
  /\ \E readable \in BOOLEAN :
       LET f == Head(todo)
           reasons == Skipped(f, readable)
       IN /\ files' = IF reasons = {} THEN files \cup {f} ELSE files
          /\ issues' = issues \cup {Issue(f.id, "skipped", reason, 0) : reason \in reasons}
  /\ UNCHANGED <<tree, stage, entities, relations, requests>>

\* scan returns and _parse_files begins.
Scanned ==
  /\ stage = "read" /\ todo = <<>> /\ stage' = "parse"
  /\ todo' = Ordered(files)
  /\ UNCHANGED <<tree, files, entities, relations, requests, issues>>

\* Mutant of ParseFile: what a parser raises is passed over.
ParseFileSilent ==
  /\ stage = "parse" /\ todo # <<>> /\ todo' = Tail(todo)
  /\ LET f == Head(todo)
         found == IF f.raises THEN [entities |-> {}, relations |-> {}, requests |-> {}]
                  ELSE Parsed(f)
     IN /\ entities' = entities \cup found.entities
        /\ relations' = relations \cup found.relations
        /\ requests' = requests \cup found.requests
  /\ UNCHANGED <<tree, stage, files, issues>>

\* _parse_files takes the next file; a parser that raises costs one file.
ParseFile ==
  /\ stage = "parse" /\ todo # <<>> /\ todo' = Tail(todo)
  /\ LET f == Head(todo)
     IN IF f.raises
          THEN /\ issues' = issues \cup {Issue(f.id, "parse_error", "PARSER_ERROR", 0)}
               /\ UNCHANGED <<entities, relations, requests>>
          ELSE /\ entities' = entities \cup Parsed(f).entities
               /\ relations' = relations \cup Parsed(f).relations
               /\ requests' = requests \cup Parsed(f).requests
               /\ UNCHANGED issues
  /\ UNCHANGED <<tree, stage, files>>

\* The resolver is built of all files that were read and resolves what the
\* parsers found; build_relations joins the files.
Resolve ==
  /\ stage = "parse" /\ todo = <<>> /\ ~Undecodable(files, requests)
  /\ LET resolved == {Resolution(files, r) : r \in requests}
         found == entities \cup UNION {r.entities : r \in resolved}
     IN /\ entities' = found
        /\ relations' = relations \cup RequestRelations(found) \cup CallRelations(found)
        /\ issues' = issues \cup UNION {r.issues : r \in resolved}
  /\ stage' = "write"
  /\ UNCHANGED <<tree, todo, files, requests>>

\* The row an entity is written to; of two with one local key, one is.
Rows == {CHOOSE e \in entities : LocalKey(e) = key : key \in {LocalKey(e) : e \in entities}}

Conflict == \E e, g \in Rows : e # g /\ EntityKey(e) = EntityKey(g)

\* _replace_index commits; a relation without both ends is not written.
Write ==
  /\ stage = "write" /\ ~Conflict /\ stage' = "ready"
  /\ entities' = Rows
  /\ relations' = {r \in relations : {r.source, r.target} \subseteq {LocalKey(e) : e \in Rows}}
  /\ UNCHANGED <<tree, todo, files, requests, issues>>

\* The scan fails: _mark_failed, and the old index stays.
Fail ==
  /\ \/ stage = "parse" /\ todo = <<>> /\ Undecodable(files, requests)
     \/ stage = "write" /\ Conflict
  /\ stage' = "failed"
  /\ UNCHANGED <<tree, todo, files, entities, relations, requests, issues>>

Done == stage \in {"ready", "failed"} /\ UNCHANGED treeVars

TreeNext == Discover \/ ReadFile \/ Scanned \/ ParseFile \/ Resolve \/ Write \/ Fail \/ Done

TreeSpec == TreeInit /\ [][TreeNext]_treeVars

-----------------------------------------------------------------------------
(* Properties                                                              *)

OfFile(set, f) == {x \in set : x.file = f.id}

\* What the scan made of a request: an entity where it stands, or a warning.
Outcomes(request) ==
  {e \in OfType(entities, "frontend_api_call") :
     e.file = request.file /\ e.line = request.line /\ e.at = request.at}
    \cup {i \in issues : /\ i.file = request.file /\ i.at = request.at
                         /\ i.type = "analysis_warning"}

\* In a finished index nothing of the tree is missing without a word: a
\* discovered file is skipped with one reason, or its parser failed and it
\* has no entity, or all its entities have rows of their own and each of its
\* requests is one entity or one warning (scan, _parse_files, resolve and the
\* local keys of _namespace_result).
EveryFileAccounted ==
  stage = "ready" => \A f \in Discovered :
    LET problems == {i \in OfFile(issues, f) : i.type # "analysis_warning"}
    IN \/ /\ f \notin files /\ Cardinality(problems) = 1
          /\ \A i \in problems : i.type = "skipped"
          /\ OfFile(entities, f) = {}
       \/ /\ f \in files /\ OfFile(entities, f) = {}
          /\ {i.type : i \in problems} = {"parse_error"}
       \/ /\ f \in files /\ problems = {}
          /\ Parsed(f).entities \subseteq entities
          /\ \A r \in Parsed(f).requests : Cardinality(Outcomes(r)) = 1

\* The row a local key names.
RowOf(key) == CHOOSE e \in entities : LocalKey(e) = key

LinksOf(type) ==
  {[from |-> RowOf(r.source), to |-> RowOf(r.target), confidence |-> r.confidence] :
     r \in {x \in relations : x.type = type}}

\* Wherever its file stands in the tree, a request is linked to every route
\* that answers its path and verb, to routes of any verb with less confidence
\* only when there is none, and to nothing else; it stays unmatched only
\* when no route of the tree answers it (build_relations).
RequestsReachRoutes ==
  stage = "ready" => \A call \in OfType(entities, "frontend_api_call") :
    LET links == {l \in LinksOf("REQUESTS_API") : l.from = call}
        answering == {e \in OfType(entities, "backend_api") :
                        e.path = call.path /\ e.verb \in {call.verb, "ANY"}}
    IN /\ {l.to : l \in links} \subseteq answering
       /\ links = {} => answering = {}
       /\ \A l \in links : \/ l.to.verb = call.verb /\ l.confidence = 100
                           \/ /\ l.confidence = 80
                              /\ \A e \in answering : e.verb = "ANY"
       /\ \A l \in links, e \in answering : e.verb = l.to.verb => e \in {k.to : k \in links}

\* An ambiguous call of a service method is left out, never guessed: no two
\* methods of the index could be meant by a call that is linked, be it
\* overloads, classes of one name or services of one simple name
\* (_append_method_calls).
CallsUnambiguous ==
  stage = "ready" => \A l \in LinksOf("CALLS_METHOD") :
    \E call \in l.from.calls :
      /\ Last(l.to.qualified) = call.method
      /\ \A m \in OfType(entities, "java_method") :
           /\ Last(m.qualified) = call.method
           /\ Front(m.qualified) \in ServiceClasses(entities)
           /\ \/ Front(m.qualified) = call.receiver
              \/ <<Last(Front(m.qualified))>> = call.receiver
           => m = l.to

\* The tree of a project does not decide whether it can be scanned: what is
\* wrong with one file is recorded and the scan goes on.  The code breaks
\* this (see README.md, findings).
OneFileNeverAborts == stage # "failed"
=============================================================================

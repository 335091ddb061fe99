------------------------------ MODULE Answers ------------------------------
(***************************************************************************)
(* One request that reads an index: POST /search/keyword, /search/hybrid,  *)
(* GET /graph/api-chain, POST /graph/search-chain, /agent/code-qa and      *)
(* /agent/trace, and the task that POST /agent/chat plans for a question.  *)
(* HybridSearchService, GraphRagRetriever, CodeQaService, TraceService and *)
(* ChangePlanService are followed call by call; every call that leaves the *)
(* process (the vector store, the embedding service, the database, the     *)
(* language model) may fail.  AgentChat says what becomes of the answer.   *)
(***************************************************************************)
EXTENDS LexicalSearch, CodeGraph, ApiPaths

CONSTANTS
  Indexes,        \* the indexes of the project: [entities, relations]
  Queries,        \* the texts asked for, see LexicalSearch, with cjk
  VectorAnswers,  \* what the collection returns: sequences of hits
  Kinds,          \* the kinds of request
  Hints,          \* sets of keyword groups that a question contains
  Limits,         \* limit of a request
  Depths,         \* max_depth of a request
  ApiKeys,        \* entity id -> [method, path] of a backend_api, or None
  ApiRequests,    \* [method, path], the path raw
  Files,          \* entity id -> [dir, base, from, to]
  Drafts,         \* what the language model writes
  None

\* Every entity has a text, and an id that is a number.
EntityIds == DOMAIN Size

\* The schemas bound the limit of a task by 20 and max_results is 30.  The
\* collection has one point for an entity.
ASSUME AnswersAssumption ==
  /\ Kinds \subseteq {"keyword", "hybrid", "api_chain", "search_chain",
                      "code_qa", "trace", "chat"}
  /\ Limits \subseteq 1..MaxResults /\ Depths \subseteq 0..2
  /\ EntityIds \subseteq Nat
  /\ \A i \in Indexes : /\ i.entities \subseteq EntityIds
                         /\ IsFiniteSet(i.entities) /\ IsFiniteSet(i.relations)
  /\ \A q \in Queries : q.whole \in Words /\ q.tokens \in Seq(Tokens)
  /\ \A answer \in VectorAnswers :
       /\ answer \in Seq([entity : EntityIds, score : Int])
       /\ \A i, j \in DOMAIN answer : answer[i].entity = answer[j].entity => i = j
  /\ \A e \in EntityIds : ApiKeys[e] # None =>
       ApiKeys[e] = [method |-> ApiKeys[e].method, path |-> ApiKeys[e].path]
  /\ \A a \in ApiRequests :
       None # [method |-> a.method, path |-> NormalizePath(a.path)]

VARIABLES
  index,      \* the project's entities and relations
  request,    \* [kind, hints, query, limit, depth, api]
  pc,         \* the next call
  down,       \* calls that failed and were survived
  vector,     \* hits of the vector branch
  hits,       \* hits of the search
  next,       \* the hit to traverse from
  results,    \* results of GraphRagRetriever, a set while it collects them
  graph,      \* the graph of a chain or of the expansion
  context,    \* the context given to the language model
  response    \* what the client gets, None before

vars == <<index, request, pc, down, vector, hits, next, results, graph,
          context, response>>

Tasks == {"code_qa", "trace", "change_plan"}

-----------------------------------------------------------------------------
(* SimpleAgentPlanner                                                      *)

\* plan: the first group of keywords that the question contains.
PlanTask(hints) ==
  IF "change" \in hints THEN "change_plan"
  ELSE IF "trace" \in hints THEN "trace" ELSE "code_qa"

-----------------------------------------------------------------------------
(* AnswerEvidenceValidator, _ground_files, the relationship limits         *)

Cited(refs) == {refs[i].entity : i \in DOMAIN refs}

\* The references a mentioned file may be: a bare name matches in every
\* directory.
Matching(place, refs) ==
  {e \in Cited(refs) : /\ Files[e].base = place.base
                       /\ place.dir \in {None, Files[e].dir}}

\* _path_is_supported and _line_range_is_supported.
Supported(place, refs) ==
  \E e \in Matching(place, refs) :
    \/ place.from = None
    \/ Files[e].from <= place.from /\ place.to <= Files[e].to

\* validate.
Valid(text, refs) ==
  /\ text.cites \subseteq {refs[i].citation : i \in DOMAIN refs}
  /\ \A place \in text.places : Supported(place, refs)

\* _resolve_entity_id: a number, or the one entity of that file whose name
\* the identifier contains.
Resolve(item, refs) ==
  LET named == {e \in Cited(refs) :
                  /\ <<item.dir, item.base>> = <<Files[e].dir, Files[e].base>>
                  /\ e \in item.named}
  IN IF item.entity # None THEN item.entity
     ELSE IF Cardinality(named) = 1 THEN CHOOSE e \in named : TRUE ELSE None

\* _ground_files: the affected files that stay.
GroundFiles(items, refs) ==
  {i \in items : \E e \in Cited(refs) :
     /\ Resolve(i, refs) = e
     /\ <<i.dir, i.base>> = <<Files[e].dir, Files[e].base>>}

\* The text of an answer: the model's own words and, in a change plan, the
\* paths of the files that stay.
AnswerText(task, draft, refs) ==
  [cites |-> draft.cites,
   places |-> draft.places \cup
     IF task # "change_plan" THEN {}
     ELSE {[dir |-> i.dir, base |-> i.base, from |-> None, to |-> None] :
             i \in GroundFiles(draft.files, refs)}]

\* _uncertainties and _relationship_uncertainties: the relation types of
\* which no relation was found.
Missing(g) == ChainTypes \ {r.type : r \in g.edges}

-----------------------------------------------------------------------------
Init ==
  /\ index \in Indexes
  /\ \E kind \in Kinds, query \in Queries, limit \in Limits :
       \E hints \in IF kind = "chat" THEN Hints ELSE {{}},
          depth \in IF kind \in {"search_chain", "trace"} THEN Depths ELSE {2},
          api \in IF kind = "api_chain" THEN ApiRequests ELSE {None} :
         request = [kind |-> kind, hints |-> hints, query |-> query,
                    limit |-> limit, depth |-> depth, api |-> api]
  /\ pc = CASE request.kind = "chat" -> "plan"
            [] request.kind = "api_chain" -> "match"
            [] request.kind = "keyword" -> "keyword"
            [] OTHER -> "collection"
  /\ down = {} /\ vector = <<>> /\ hits = <<>> /\ next = 1 /\ results = {}
  /\ graph = EmptyGraph /\ context = NoContext
  /\ response = None

\* An answer that is not the model's words, or no answer.
Fixed(name) == [is |-> name]

\* The request is answered; sets what the client gets.
Respond(status, answer, refs, files, told) ==
  /\ response' = [status |-> status, answer |-> answer, refs |-> refs,
                  files |-> files, told |-> told]
  /\ pc' = "done"

Fail(status) == Respond(status, Fixed("none"), <<>>, {}, {})
NoEvidence(refs, told) == Respond("ok", Fixed("no_evidence"), refs, {}, told)

\* AgentExecutor hands the question to the service of the planned task.
Plan ==
  /\ pc = "plan"
  /\ request' = [request EXCEPT !.kind = PlanTask(request.hints), !.hints = {}]
  /\ pc' = "collection"
  /\ UNCHANGED <<index, down, vector, hits, next, results, graph, context,
                 response>>
-----------------------------------------------------------------------------
(* HybridSearchService                                                     *)

\* has_collection: without a collection the search is refused, when it
\* cannot be asked the vector branch is down.
CheckCollection ==
  /\ pc = "collection"
  /\ \/ /\ Fail("VECTOR_INDEX_NOT_FOUND")
        /\ UNCHANGED down
     \/ /\ pc' = "rewrite"
        /\ down' \in {{}, {"vector"}}
        /\ UNCHANGED response
  /\ UNCHANGED <<index, request, vector, hits, next, results, graph, context>>

\* rewrite: a Chinese question is replaced by what the model makes of it, or
\* stays when it makes nothing or fails.
Rewrite ==
  /\ pc = "rewrite"
  /\ \E query \in IF request.query.cjk THEN Queries ELSE {request.query} :
       request' = [request EXCEPT !.query = query]
  /\ pc' = IF "vector" \in down THEN "keyword" ELSE "vector"
  /\ UNCHANGED <<index, down, vector, hits, next, results, graph, context,
                 response>>

\* embed_query and the vector store's search, either of which may raise.
SearchVectors ==
  /\ pc = "vector"
  /\ \/ /\ \E answer \in VectorAnswers :
             vector' = FirstN([i \in DOMAIN answer |->
                                Hit(answer[i].entity, answer[i].score, "vector")],
                              2 * request.limit)
        /\ UNCHANGED down
     \/ /\ down' = down \cup {"vector"}
        /\ UNCHANGED vector
  /\ pc' = "keyword"
  /\ UNCHANGED <<index, request, hits, next, results, graph, context, response>>

\* What follows a search that found list.
Found(list) ==
  /\ hits' = list
  /\ CASE request.kind \in {"keyword", "hybrid"} ->
            Respond("ok", Fixed("none"), <<>>, {}, {}) /\ UNCHANGED context
       [] request.kind = "code_qa" ->
            LET built == PlainContext(list)
                told == UNION {list[i].uncertain : i \in DOMAIN list}
            IN IF built.refs = <<>>
               THEN NoEvidence(<<>>, told) /\ UNCHANGED context
               ELSE /\ context' = built
                    /\ pc' = "generate" /\ UNCHANGED response
       [] request.kind = "search_chain" ->
            pc' = "expand" /\ UNCHANGED <<context, response>>
       [] OTHER -> IF list = <<>>
                   THEN NoEvidence(<<>>, {"no_evidence"}) /\ UNCHANGED context
                   ELSE pc' = "traverse" /\ UNCHANGED <<context, response>>
  /\ results' = IF request.kind \in {"trace", "change_plan"}
                THEN {Direct(list[i]) : i \in DOMAIN list} ELSE {}

\* Mutant of Fallback: nothing tells that a branch is missing.
FallbackSilent(list, source, notice) == FirstN(list, request.limit)

\* The hits of the branch that is left.
Fallback(list, source, notice) == Degraded(list, request.limit, source, notice)

\* The end of HybridSearchService.search.
Combine(keyword, failed) ==
  IF "vector" \in down
  THEN IF keyword = <<>>
       THEN /\ Fail("RETRIEVAL_UNAVAILABLE")
            /\ UNCHANGED <<hits, results, context>>
       ELSE Found(Fallback(keyword, "keyword_fallback", "vector"))
  ELSE IF failed
  THEN IF vector = <<>>
       THEN /\ Fail("RETRIEVAL_UNAVAILABLE")
            /\ UNCHANGED <<hits, results, context>>
       ELSE Found(Fallback(vector, "vector_fallback", "keyword"))
  ELSE Found(Fuse(vector, keyword, request.limit))

\* The keyword search, alone or as the second branch; the project may be
\* gone, and the database may fail.
SearchKeywords ==
  /\ pc = "keyword"
  /\ \/ /\ IF request.kind = "keyword"
           THEN Found(KeywordHits(index.entities, request.query, request.limit))
           ELSE Combine(KeywordHits(index.entities, request.query,
                                    2 * request.limit), FALSE)
        /\ UNCHANGED down
     \/ /\ Fail("PROJECT_NOT_FOUND")
        /\ UNCHANGED <<down, hits, results, context>>
     \/ /\ down' = down \cup {"keyword"}
        /\ IF request.kind = "keyword"
           THEN Fail("error") /\ UNCHANGED <<hits, results, context>>
           ELSE Combine(<<>>, TRUE)
  /\ UNCHANGED <<index, request, vector, next, graph>>
-----------------------------------------------------------------------------
(* GraphRagRetriever and GraphQueryService                                 *)

\* The traversal from one hit.  It raises for an entity that is no longer in
\* the index, and may fail; the hit stays and says so.
TraverseHit ==
  /\ pc = "traverse"
  /\ LET hit == hits[next] IN
       \/ /\ hit.entity \in index.entities
          /\ results' = Improve(results,
               Expansion(hit, Traverse(index, hit.entity, request.depth),
                         request.depth))
          /\ UNCHANGED down
       \/ /\ results' = {IF r.entity = hit.entity
                         THEN [r EXCEPT !.uncertain = @ \cup {"traversal"}]
                         ELSE r : r \in results}
          /\ down' = down \cup {"traversal"}
  /\ next' = next + 1
  /\ pc' = IF next = Len(hits) THEN "expand" ELSE "traverse"
  /\ UNCHANGED <<index, request, vector, hits, graph, context, response>>

\* The results retrieve returns.
Ranked == FirstN(Ordered(results, Nearer), MaxResults)

\* What the search, the traversals and the expansion leave uncertain, and the
\* relation types that were not found.
Uncertainties(g, failed) ==
  (UNION {Ranked[i].uncertain : i \in DOMAIN Ranked})
    \cup IF failed THEN {"expansion"} ELSE Missing(g)

\* The graph of all results' seeds, and the context built from both.
ExpandTask ==
  /\ pc = "expand" /\ request.kind \in {"trace", "change_plan"}
  /\ LET seeds == {Ranked[i].seed : i \in DOMAIN Ranked}
         Built(g, failed) ==
           LET built == GraphContext(Ranked, g) IN
             /\ graph' = g
             /\ context' = built
             /\ IF built.refs # <<>>
                THEN pc' = "generate" /\ UNCHANGED response
                ELSE NoEvidence(<<>>,
                       IF request.kind = "trace"
                       THEN Uncertainties(g, failed) \cup {"budget"}
                       ELSE {"no_evidence"})
     IN \/ /\ Expandable(index, seeds)
           /\ Built(ExpandEntities(index, seeds, request.depth), FALSE)
           /\ UNCHANGED down
        \/ /\ Built(EmptyGraph, TRUE)
           /\ down' = down \cup {"expansion"}
  /\ UNCHANGED <<index, request, vector, hits, next, results>>

\* POST /graph/search-chain: one hit that is not in the index any more is
\* enough for a 404.
ExpandChain ==
  /\ pc = "expand" /\ request.kind = "search_chain"
  /\ \/ /\ Expandable(index, Ids(hits))
        /\ graph' = ExpandEntities(index, Ids(hits), request.depth)
        /\ Respond("ok", Fixed("none"), <<>>, {}, {})
     \/ /\ Fail(IF Expandable(index, Ids(hits)) THEN "error"
                ELSE "ENTITY_NOT_FOUND")
        /\ UNCHANGED graph
  /\ UNCHANGED <<index, request, down, vector, hits, next, results, context>>

\* find_api_chain: the routes with the request's method and normalised path.
MatchApi ==
  /\ pc = "match"
  /\ LET wanted == [method |-> request.api.method,
                    path |-> NormalizePath(request.api.path)]
         found == {e \in index.entities : ApiKeys[e] = wanted}
     IN IF found = {} THEN Fail("API_NOT_FOUND") /\ UNCHANGED graph
        ELSE /\ graph' = ExpandEntities(index, found, 2)
             /\ Respond("ok", Fixed("none"), <<>>, {}, {})
  /\ UNCHANGED <<index, request, down, vector, hits, next, results, context>>

-----------------------------------------------------------------------------
(* CodeQaService, TraceService and ChangePlanService                       *)

\* The answer made of a draft.  The relation types that are missing from the
\* graph are added to its text, unless there is no graph.
Answer(draft) ==
  [is |-> "model", text |-> AnswerText(request.kind, draft, context.refs),
   limits |-> IF request.kind = "code_qa" \/ "expansion" \in down THEN {}
              ELSE Missing(graph)]

Affected(draft) ==
  IF request.kind = "change_plan" THEN GroundFiles(draft.files, context.refs)
  ELSE {}

Told(draft) ==
  IF request.kind = "code_qa"
  THEN UNION {hits[i].uncertain : i \in DOMAIN hits}
  ELSE Uncertainties(graph, "expansion" \in down)
         \cup IF request.kind = "change_plan" /\ Affected(draft) # draft.files
              THEN {"ungrounded"} ELSE {}

Accept(draft) ==
  Respond("ok", Answer(draft), context.refs, Affected(draft), Told(draft))

Acceptable(draft) == Valid(Answer(draft).text, context.refs)

\* The call fails, or the model's change plan is not the JSON it has to be.
ModelFails ==
  \E status \in IF request.kind = "change_plan"
               THEN {"error", "CHANGE_PLAN_RESPONSE_INVALID"} ELSE {"error"} :
    Fail(status)

\* The first draft; one that does not pass is repaired.
Generate ==
  /\ pc = "generate"
  /\ \/ \E draft \in Drafts :
          IF Acceptable(draft) THEN Accept(draft)
          ELSE pc' = "repair" /\ UNCHANGED response
     \/ ModelFails
  /\ UNCHANGED <<index, request, down, vector, hits, next, results, graph,
                 context>>

\* Mutant of Repair: the second draft is not validated again.
RepairTrusted ==
  /\ pc = "repair"
  /\ (\E draft \in Drafts : Accept(draft)) \/ ModelFails
  /\ UNCHANGED <<index, request, down, vector, hits, next, results, graph,
                 context>>

\* The second and last one; if it does not pass either, the client gets the
\* fixed text with the references and what was wrong.
Repair ==
  /\ pc = "repair"
  /\ \/ \E draft \in Drafts :
          IF Acceptable(draft) THEN Accept(draft)
          ELSE Respond("ok", Fixed("guard"), context.refs, Affected(draft),
                       Told(draft) \cup {"invalid"})
     \/ ModelFails
  /\ UNCHANGED <<index, request, down, vector, hits, next, results, graph,
                 context>>

Done == pc = "done" /\ UNCHANGED vars

Next ==
  \/ Plan \/ CheckCollection \/ Rewrite \/ SearchVectors \/ SearchKeywords
  \/ TraverseHit \/ ExpandTask \/ ExpandChain \/ MatchApi
  \/ Generate \/ Repair \/ Done

Spec == Init /\ [][Next]_vars
-----------------------------------------------------------------------------
(* Properties                                                              *)

Searched == hits # <<>> /\ request.kind # "keyword"

\* a is found by both branches at least as well as b is, and better by one.
Dominates(keyword, a, b) ==
  /\ ScoreIn(vector, a) >= ScoreIn(vector, b)
  /\ ScoreIn(keyword, a) >= ScoreIn(keyword, b)
  /\ \/ ScoreIn(vector, a) > ScoreIn(vector, b)
     \/ ScoreIn(keyword, a) > ScoreIn(keyword, b)

\* The hits are the best limit distinct entities of found: none is before
\* another one that dominates it.
BestFound(keyword, found) ==
  /\ Ids(hits) \subseteq found
  /\ Cardinality(Ids(hits)) = Len(hits)
  /\ Len(hits) = Min({request.limit, Cardinality(found)})
  /\ \A i \in DOMAIN hits :
       \A e \in found \ {hits[j].entity : j \in 1..i} :
         ~Dominates(keyword, e, hits[i].entity)

\* A query that is one identifier or path, and no stopword, finds nothing but
\* the entities that contain it, as long as the project has any.
Undiluted(keyword, tokens) ==
  /\ Len(tokens) = 1 /\ tokens[1].text = request.query.whole
  /\ request.query.whole \notin Stopwords
  /\ \E e \in index.entities : FieldScore(e, request.query.whole) > 0
  => \A e \in Ids(keyword) : FieldScore(e, request.query.whole) > 0

SoundSearch(keyword) ==
  /\ Searched /\ down \cap {"vector", "keyword"} = {}
       => BestFound(keyword, Ids(vector) \cup Ids(keyword))
  /\ Undiluted(keyword, request.query.tokens)

\* A hybrid search that lost no branch returns limit distinct entities of
\* those the branches found, or all of them, and puts none before one that
\* dominates it; and a query that is one identifier or path is not diluted by
\* the entities that only contain its parts.
SearchExact ==
  SoundSearch(KeywordHits(index.entities, request.query, 2 * request.limit))

\* A walk of at most d chain relations, in any direction, through entities
\* of the project.
Within(e, f, d) ==
  \E n \in 0..d : \E walk \in [0..n -> index.entities] :
    /\ walk[0] = e /\ walk[n] = f
    /\ \A i \in 0..(n - 1) : \E r \in index.relations :
         r.type \in ChainTypes /\ Ends(r) = {walk[i], walk[i + 1]}

\* The seeds of the graph of the response.
Seeds ==
  CASE request.kind = "api_chain" ->
         {e \in index.entities : /\ ApiKeys[e] # None
            /\ ApiKeys[e].method = request.api.method
            /\ ApiKeys[e].path = NormalizePath(request.api.path)}
    [] request.kind = "search_chain" -> Ids(hits)
    [] OTHER -> {Ranked[i].seed : i \in DOMAIN Ranked}

\* The graph of a chain, a trace or a change plan consists of the entities
\* within max_depth relations of a seed and of the relations met on the way:
\* none is missed behind a cycle or a second relation of the same pair, and
\* none hangs in the air.
GraphExact ==
  graph # EmptyGraph =>
    /\ graph.nodes = {e \in index.entities :
                        \E s \in Seeds : Within(s, e, request.depth)}
    /\ graph.edges = {r \in index.relations :
         /\ r.type \in ChainTypes /\ request.depth > 0
         /\ \E s \in Seeds :
              /\ \A e \in Ends(r) : Within(s, e, request.depth)
              /\ \E e \in Ends(r) : Within(s, e, request.depth - 1)}

\* When all hits have been traversed, the evidence of a trace or a change
\* plan is every entity within reach of a hit, at its least distance and
\* with the score of the best hit at that distance.
EvidenceNearest ==
  pc = "expand" /\ request.kind # "search_chain" /\ "traversal" \notin down =>
    LET Distances(e) == {d \in 0..request.depth :
                          \E h \in Ids(hits) : Within(h, e, d)}
        At(e, d) == {hits[i].score : i \in {j \in DOMAIN hits :
                                             Within(hits[j].entity, e, d)}}
    IN {<<r.entity, r.depth, r.score>> : r \in results} =
       {<<e, Min(Distances(e)), Max(At(e, Min(Distances(e))))>> :
          e \in {x \in index.entities : Distances(x) # {}}}

\* An answer of a task says which of the calls behind it failed: a failing
\* branch or traversal is survived, never hidden.  The answer of a change
\* plan that no reference fits into is the exception.
DegradationTold ==
  response # None =>
    /\ request.kind \in Tasks /\ response.status = "ok"
         /\ ~(request.kind = "change_plan" /\ response.refs = <<>>)
         => down \subseteq response.told
    /\ request.kind = "hybrid" /\ response.status = "ok" /\ down # {} =>
         \A i \in DOMAIN hits :
           hits[i].source \in {"keyword_fallback", "vector_fallback"}

\* What a client reads rests on the references it gets with it: their numbers
\* are those of the context, which is within its budget; every citation,
\* every file and every line range of an answer is in one of them, and every
\* file of a change plan is one of theirs.  The relation types that the graph
\* lacks are named in it.
GroundedAnswers ==
  /\ context.length <= Budget
  /\ \A i \in DOMAIN context.refs :
       /\ context.refs[i].citation = i
       /\ context.refs[i].entity \in
            IF request.kind = "code_qa" THEN Ids(hits)
            ELSE {r.entity : r \in results}
  /\ response # None /\ response.status = "ok" /\ response.answer.is \in
       {"model", "guard"} =>
       LET cited == Cited(response.refs) IN
         /\ response.refs = context.refs /\ response.refs # <<>>
         /\ \A i \in response.files : \E e \in cited :
              Files[e].dir = i.dir /\ Files[e].base = i.base
         /\ response.answer.is = "model" =>
              /\ response.answer.text.cites \subseteq 1..Len(response.refs)
              /\ \A place \in response.answer.text.places : \E e \in cited :
                   /\ Files[e].base = place.base
                   /\ place.dir # None => place.dir = Files[e].dir
                   /\ place.from # None => place.from >= Files[e].from
                                           /\ place.to <= Files[e].to
              /\ request.kind # "code_qa" /\ "expansion" \notin down =>
                   response.answer.limits = ChainTypes
                     \ {r.type : r \in graph.edges}
=============================================================================

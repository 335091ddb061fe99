----------------------------- MODULE CodeGraph -----------------------------
(***************************************************************************)
(* graph/query_service.py and the operators of rag/graph_retriever.py,     *)
(* rag/context_builder.py and rag/graph_context_builder.py.                *)
(*                                                                         *)
(* An index is a set of entity ids and a set of relations [id, source,     *)
(* target, type].  A relation may have an end that is no entity of the     *)
(* project: the foreign keys are not enforced and a scan replaces entities *)
(* between two SELECTs.  A graph is a set of nodes and a set of relations; *)
(* their order in a response is left out.                                  *)
(***************************************************************************)
EXTENDS Integers, Sequences, FiniteSets, FiniteSetsExt, SequencesExt

CONSTANTS
  ChainTypes,  \* CHAIN_RELATION_TYPES
  Size,        \* entity id -> length of its block in a context
  EdgeSize,    \* length of the edge section's heading, and of each line
  Budget,      \* max_context_chars
  MaxResults   \* max_results of GraphRagRetriever

ASSUME CodeGraphAssumption ==
  /\ Budget \in Nat \ {0} /\ MaxResults \in Nat \ {0} /\ EdgeSize \in Nat
  /\ \A e \in DOMAIN Size : Size[e] \in Nat \ {0}

EmptyGraph == [nodes |-> {}, edges |-> {}]
Ends(r) == {r.source, r.target}
EndsOf(relations) == UNION {Ends(r) : r \in relations}

-----------------------------------------------------------------------------
(* GraphQueryService                                                       *)

\* _adjacent_relations.
Adjacent(index, frontier) ==
  {r \in index.relations : r.type \in ChainTypes /\ Ends(r) \cap frontier # {}}

\* Mutant of Wider: only outgoing relations lead on.
WiderOut(index, level) ==
  LET found == {r \in Adjacent(index, level.frontier) : r.source \in level.frontier}
      new == ({r.target : r \in found} \cap index.entities) \ level.seen
  IN [seen |-> level.seen \cup new, frontier |-> new,
      edges |-> level.edges \cup
        {r \in found : Ends(r) \subseteq level.seen \cup new}]

\* The next level of a traversal.
Wider(index, level) ==
  LET found == Adjacent(index, level.frontier)
      new == (EndsOf(found) \cap index.entities) \ level.seen
  IN [seen |-> level.seen \cup new, frontier |-> new,
      edges |-> level.edges \cup
        {r \in found : Ends(r) \subseteq level.seen \cup new}]

\* traverse, level by level from an entity of the project.
Traverse(index, seed, depth) ==
  LET start == [seen |-> {seed}, frontier |-> {seed}, edges |-> {}]
      level[d \in 0..depth] == IF d = 0 THEN start ELSE Wider(index, level[d - 1])
  IN [nodes |-> level[depth].seen, edges |-> level[depth].edges]

\* _merge.
Merge(graphs) ==
  [nodes |-> UNION {g.nodes : g \in graphs},
   edges |-> UNION {g.edges : g \in graphs}]

\* expand_entities; it raises for a seed that is not in the project.
Expandable(index, seeds) == seeds \subseteq index.entities
ExpandEntities(index, seeds, depth) ==
  Merge({Traverse(index, s, depth) : s \in seeds})

-----------------------------------------------------------------------------
(* GraphRagRetriever                                                       *)

Result(entity, score, depth, seed, uncertain) ==
  [entity |-> entity, score |-> score, depth |-> depth, seed |-> seed,
   uncertain |-> uncertain]

\* _direct_result.
Direct(hit) == Result(hit.entity, hit.score, 0, hit.entity, hit.uncertain)

\* _expand: breadth first through the traversed graph.
Expansion(hit, graph, depth) ==
  LET level[d \in 0..depth] ==
        IF d = 0 THEN {hit.entity}
        ELSE LET near == {r \in graph.edges : Ends(r) \cap level[d - 1] # {}}
             IN level[d - 1] \cup (EndsOf(near) \cap graph.nodes)
  IN {Result(e, hit.score, Min({d \in 0..depth : e \in level[d]}),
             hit.entity, hit.uncertain) : e \in level[depth] \ {hit.entity}}

\* _rank.
Nearer(a, b) ==
  \/ a.depth < b.depth
  \/ a.depth = b.depth /\ a.score > b.score
  \/ a.depth = b.depth /\ a.score = b.score /\ a.entity < b.entity
  \/ /\ a.depth = b.depth /\ a.score = b.score /\ a.entity = b.entity
     /\ a.seed < b.seed

\* Mutant of Improve: what was found first stays.
ImproveNever(results, candidates) ==
  results \cup {c \in candidates : \A r \in results : r.entity # c.entity}

\* The candidates of one seed, which reach an entity once each, replace
\* results of the same entity that rank behind them.
Improve(results, candidates) ==
  {r \in results : ~\E c \in candidates : c.entity = r.entity /\ Nearer(c, r)}
    \cup {c \in candidates : \A r \in results :
                               r.entity = c.entity => Nearer(c, r)}

-----------------------------------------------------------------------------
(* The context builders                                                    *)

Reference(citation, entity) == [citation |-> citation, entity |-> entity]
NoContext == [refs |-> <<>>, edges |-> {}, length |-> 0]

\* The length with one more section, which a blank line separates.
Extended(context, size) ==
  context.length + (IF context.refs = <<>> THEN 0 ELSE 2) + size

Cite(context, entity) ==
  [context EXCEPT
     !.refs = Append(@, Reference(Len(@) + 1, entity)),
     !.length = Extended(context, Size[entity])]

\* RagContextBuilder.build: hits in their order up to the first that does
\* not fit.
PlainContext(hits) ==
  LET at[n \in 0..Len(hits)] ==
        IF n = 0 THEN NoContext ELSE Cite(at[n - 1], hits[n].entity)
  IN at[Max({0} \cup {n \in 1..Len(hits) : at[n].length <= Budget})]

\* GraphContextBuilder.build: results that do not fit are passed over, the
\* others are numbered as they come, and the relations between them follow
\* if they fit.
GraphContext(results, graph) ==
  LET at[n \in 0..Len(results)] ==
        IF n = 0 THEN NoContext
        ELSE LET entity == results[n].entity
             IN IF Extended(at[n - 1], Size[entity]) > Budget THEN at[n - 1]
                ELSE Cite(at[n - 1], entity)
      blocks == at[Len(results)]
      included == {blocks.refs[i].entity : i \in DOMAIN blocks.refs}
      edges == {r \in graph.edges : Ends(r) \subseteq included \cap graph.nodes}
      length == Extended(blocks, EdgeSize * (1 + Cardinality(edges)))
  IN IF edges = {} \/ length > Budget THEN blocks
     ELSE [blocks EXCEPT !.edges = edges, !.length = length]
=============================================================================

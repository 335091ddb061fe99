------------------------- MODULE EvaluationVariants -------------------------
(***************************************************************************)
(* How the evaluation runs the retrieval of one case: stage2b_retrieval.py *)
(* calls the product's branches itself, to fuse them with other weights.   *)
(* What it records is a function of the same index, the same answer of the *)
(* vector store and the same failures as the request that Answers follows: *)
(* TOP_K is the limit of the request.  RetrievalRun says which cases are   *)
(* evaluated when.                                                         *)
(***************************************************************************)
EXTENDS Answers

CONSTANTS
  Variants,   \* name -> [mode, fusion, vector, keyword], weights in twentieths
  Product     \* the name of the variant with the weights of the product

\* VARIANTS and WEIGHT_SWEEP_VARIANTS: both branches have a weight.
ASSUME VariantsAssumption ==
  /\ \A name \in DOMAIN Variants :
       Variants[name].vector \in Nat \ {0} /\ Variants[name].keyword \in Nat \ {0}
  /\ Product \in DOMAIN Variants
  /\ Variants[Product].mode = "hybrid" /\ Variants[Product].fusion = "weighted"
  /\ Variants[Product].vector = 3 * Variants[Product].keyword

-----------------------------------------------------------------------------
(* Fusion                                                                  *)

\* Mutant of WeightedFusion: the score of the keyword branch replaces the
\* other one.
WeightedFusionReplaced(v, vectorHits, keywordHits, limit) ==
  LET Score(e) == IF e \in Ids(keywordHits)
                  THEN v.keyword * ScoreIn(keywordHits, e) * Maximum(vectorHits)
                  ELSE v.vector * ScoreIn(vectorHits, e) * Maximum(keywordHits)
  IN Best({Hit(e, Score(e), "fused") : e \in Ids(vectorHits) \cup Ids(keywordHits)},
          limit)

\* weighted_fusion, over the common denominator of both branches.
WeightedFusion(v, vectorHits, keywordHits, limit) ==
  LET Score(e) == v.vector * ScoreIn(vectorHits, e) * Maximum(keywordHits)
                  + v.keyword * ScoreIn(keywordHits, e) * Maximum(vectorHits)
  IN Best({Hit(e, Score(e), "fused") : e \in Ids(vectorHits) \cup Ids(keywordHits)},
          limit)

RankConstant == 60

\* The product of the denominators of the first n ranks.
Denominator(n) ==
  LET product[i \in 0..n] ==
        IF i = 0 THEN 1 ELSE product[i - 1] * (RankConstant + i)
  IN product[n]

\* 1 / (RankConstant + rank), in parts of unit.
Points(list, e, unit) ==
  IF e \in Ids(list)
  THEN unit \div (RankConstant + CHOOSE i \in DOMAIN list : list[i].entity = e)
  ELSE 0

\* reciprocal_rank_fusion.
RankFusion(vectorHits, keywordHits, limit) ==
  LET Score(e) == Points(vectorHits, e, Denominator(2 * limit))
                  + Points(keywordHits, e, Denominator(2 * limit))
  IN Best({Hit(e, Score(e), "fused") : e \in Ids(vectorHits) \cup Ids(keywordHits)},
          limit)

-----------------------------------------------------------------------------
(* The record of a case.  An entity has a stable key when it is a row of   *)
(* the database; _stable_hit_key raises for another one.                   *)

Keyed(list) == Ids(list) \subseteq index.entities

\* _sorted_vector_hits; the order of ids stands for the one of keys.
SortedVector(list) == Best({list[i] : i \in DOMAIN list}, Len(list))

\* _branch_diagnostics
BranchDiagnostics(vectorHits, keywordHits, fused) ==
  LET overlap == Cardinality(Ids(vectorHits) \cap Ids(keywordHits))
      Entities(list) == [i \in DOMAIN list |-> list[i].entity]
  IN [vector |-> Len(vectorHits), keyword |-> Len(keywordHits),
      overlap |-> overlap,
      keywordOnly |-> Cardinality(Ids(keywordHits) \ Ids(vectorHits)),
      changed |-> Entities(fused) #
                    FirstN(Entities(SortedVector(vectorHits)), request.limit)]

Record(status, list, diagnostics) ==
  [status |-> status, hits |-> list, diagnostics |-> diagnostics]
Error == Record("error", <<>>, None)

\* _product_source_hits: what each branch is left with, and whether the case
\* falls back to one of them.  A branch that failed has no hits.
ProductSources(keywordHits, failed) ==
  [vector |-> IF "vector" \in failed THEN <<>>
              ELSE IF "keyword" \in failed
              THEN Degraded(vector, Len(vector), "vector_fallback", "keyword")
              ELSE vector,
   keyword |-> IF "keyword" \in failed THEN <<>>
               ELSE IF "vector" \in failed
               THEN Degraded(keywordHits, Len(keywordHits), "keyword_fallback", "vector")
               ELSE keywordHits]

\* _direct_hits: the list of a case, from what its branches are left with.
DirectHits(v, vectorHits, keywordHits, failed) ==
  IF "vector" \in failed THEN FirstN(keywordHits, request.limit)
  ELSE IF "keyword" \in failed THEN FirstN(vectorHits, request.limit)
  ELSE IF v.fusion = "rrf" THEN RankFusion(vectorHits, keywordHits, request.limit)
  ELSE WeightedFusion(v, vectorHits, keywordHits, request.limit)

\* The record of a case that uses both branches.
HybridCase(v, vectorHits, keywordHits, list, failed) ==
  IF {"vector", "keyword"} \subseteq failed
     \/ ~Keyed(vectorHits) \/ ~Keyed(keywordHits)
  THEN Error
  ELSE Record("ok", list, BranchDiagnostics(vectorHits, keywordHits, list))

\* evaluate_case for a variant without a graph.
Evaluated(v, found, failed) ==
  IF v.mode = "vector"
  THEN IF "vector" \in failed \/ ~Keyed(vector) THEN Error
       ELSE Record("ok", FirstN(SortedVector(vector), request.limit), None)
  ELSE HybridCase(v, found.vector, found.keyword,
                  DirectHits(v, found.vector, found.keyword, failed), failed)

\* CapturingGraphTraversal.merged for a variant with a graph: what the
\* traversals of all hits returned.
Captured(traversed) ==
  Merge({Traverse(index, e, request.depth) : e \in traversed})

\* The direct results, which are recorded as the hits of the case.
DirectResults ==
  SubSequence(Ranked, {i \in DOMAIN Ranked : Ranked[i].depth = 0})

-----------------------------------------------------------------------------
(* compute_stage2b_metrics.py                                              *)

\* The part of _validate_retrieval_only_integrity on the diagnostics.
DiagnosticsAccepted(d) ==
  /\ d.overlap <= Min({d.vector, d.keyword})
  /\ d.keywordOnly = d.keyword - d.overlap

-----------------------------------------------------------------------------
(* Properties                                                              *)

\* The hybrid search the product has answered, and what the case of a variant
\* records of it.
Answered == pc = "done" /\ request.kind = "hybrid"
              /\ response.status \in {"ok", "RETRIEVAL_UNAVAILABLE"}

Keywords == IF "keyword" \in down THEN <<>>
            ELSE KeywordHits(index.entities, request.query, 2 * request.limit)

Case(v, keywordHits) == Evaluated(v, ProductSources(keywordHits, down), down)

\* The entities of a list with what is uncertain about them.
Listed(list) ==
  [i \in DOMAIN list |-> <<list[i].entity, list[i].uncertain>>]

\* The case with the weights of the product lists what the product answers.
ListsAnswer(case) ==
  /\ case.status = "ok" /\ response.status = "ok" => Listed(case.hits) = Listed(hits)
  /\ response.status # "ok" => case.hits = <<>>

\* The list has b only after a.
Ahead(list, a, b) ==
  \A j \in DOMAIN list : list[j].entity = b =>
    \E i \in 1..(j - 1) : list[i].entity = a

\* Both branches prefer a to b: by its rank, if the variant looks at nothing
\* else, or by its score.
Preferred(v, keywordHits, a, b) ==
  IF v.fusion = "rrf" THEN Ahead(vector, a, b) /\ Ahead(keywordHits, a, b)
  ELSE Dominates(keywordHits, a, b)

\* The case of a variant is scored for what it found: it lists entities of the
\* index, puts none first that both branches prefer another to, and passes the
\* scorer's checks.  It is an error only for a reason.
CaseSound(v, case, keywordHits) ==
  /\ case.status = "ok" =>
       /\ Ids(case.hits) \subseteq index.entities
       /\ case.diagnostics # None => DiagnosticsAccepted(case.diagnostics)
       /\ down = {} /\ v.mode = "hybrid" /\ case.hits # <<>> =>
            \A e \in index.entities :
              ~Preferred(v, keywordHits, e, case.hits[1].entity)
  /\ case.status = "error" =>
       \/ "vector" \in down /\ v.mode = "vector"
       \/ {"vector", "keyword"} \subseteq down
       \/ ~Ids(vector) \subseteq index.entities

CasesSound(keywordHits) ==
  \A name \in DOMAIN Variants :
    LET v == Variants[name] IN
      /\ CaseSound(v, Case(v, keywordHits), keywordHits)
      /\ name = Product => ListsAnswer(Case(v, keywordHits))

\* What the evaluation measures is the product.  With the weights of the
\* product a case lists what the product answers, through the loss of either
\* branch and with the same uncertainties; when the product has no answer it
\* lists nothing, and a hit that is not in the index any more makes the case
\* an error instead of a result.  Whatever its weights, a variant puts none
\* first that both branches prefer another entity to, by score or, for
\* reciprocal ranks, by rank, which differs among equal scores; and the scorer
\* accepts its diagnostics whichever branch it lost.  The graph of a case is
\* the one the product answers from (weighted_fusion, reciprocal_rank_fusion,
\* _product_source_hits and CapturingGraphTraversal against
\* HybridSearchService.search and GraphContextBuilder).
EvaluationMatchesProduct ==
  /\ Answered => CasesSound(Keywords)
  /\ pc = "generate" /\ request.kind \in {"trace", "change_plan"} =>
       /\ {DirectResults[i].entity : i \in DOMAIN DirectResults} = Ids(hits)
       /\ down \cap {"traversal", "expansion"} = {} => Captured(Ids(hits)) = graph
=============================================================================

--------------------------- MODULE LexicalSearch ---------------------------
(***************************************************************************)
(* retrieval/lexical_query.py, retrieval/keyword_search.py and the fusion  *)
(* of retrieval/hybrid_search.py as operators.                             *)
(*                                                                         *)
(* A query is what the regular expressions of parse_lexical_terms find in  *)
(* it: whole is its stripped and folded text, tokens are its API paths and *)
(* identifiers in order.  A token has its text and its segments, between   *)
(* slashes or dots, and each segment its text and its parts, between       *)
(* underscores and capitals; a plain word has no segments.  Texts are      *)
(* folded, as add() and _normalize_text fold them.                         *)
(*                                                                         *)
(* Scores are integers: the legacy score of one term in hundredths, that   *)
(* of several in a unit that is the same for every entity of a query.      *)
(***************************************************************************)
EXTENDS Integers, Sequences, FiniteSets, FiniteSetsExt, SequencesExt, Ascending

CONSTANTS
  Words,           \* the texts of queries, tokens, segments and parts
  Stopwords,       \* _STOPWORDS and the empty text
  SafeSymbols,     \* _SAFE_STANDALONE_SYMBOLS and the backslash
  LowInformation,  \* _LOW_INFORMATION_TERMS
  PathTerms,       \* terms that start with a slash
  MaxTerms,        \* max_terms
  Fields           \* entity id -> its name, and the terms each field contains

ASSUME LexicalAssumption ==
  /\ MaxTerms \in Nat \ {0}
  /\ \A e \in DOMAIN Fields :
       DOMAIN Fields[e] = {"name", "inName", "inQualified", "inMetadata",
                           "inPath", "inContent"}

Tokens == [path : BOOLEAN, text : Words,
           segments : Seq([text : Words, parts : Seq(Words)])]

FirstN(s, n) == SubSeq(s, 1, IF n < Len(s) THEN n ELSE Len(s))

\* The members of S in the strict order Before.
Ordered(S, Before(_, _)) ==
  [i \in 1..Cardinality(S) |->
    CHOOSE x \in S : Cardinality({y \in S : Before(y, x)}) = i - 1]

-----------------------------------------------------------------------------
(* parse_lexical_terms                                                     *)

\* The complete path, then each segment and the parts of its name.
PathCandidates(token) ==
  <<token.text>> \o FlattenSeq([i \in DOMAIN token.segments |->
     <<token.segments[i].text>> \o token.segments[i].parts])

\* The complete identifier, its dotted segments when there are several, and
\* the parts of each.
WordCandidates(token) ==
  <<token.text>> \o FlattenSeq([i \in DOMAIN token.segments |->
     (IF Len(token.segments) > 1 THEN <<token.segments[i].text>> ELSE <<>>)
       \o token.segments[i].parts])

TokenCandidates(tokens, path) ==
  LET chosen == SubSequence(tokens, {i \in DOMAIN tokens : tokens[i].path = path})
  IN FlattenSeq([i \in DOMAIN chosen |->
       IF path THEN PathCandidates(chosen[i]) ELSE WordCandidates(chosen[i])])

\* Paths come before identifiers; a term is taken once and only the first
\* MaxTerms are.
Terms(q) ==
  LET all == TokenCandidates(q.tokens, TRUE) \o TokenCandidates(q.tokens, FALSE)
      new == {i \in DOMAIN all : /\ all[i] \notin Stopwords
                                 /\ \A j \in 1..(i - 1) : all[j] # all[i]}
  IN IF q.whole \in SafeSymbols THEN <<q.whole>>
     ELSE FirstN(SubSequence(all, new), MaxTerms)

-----------------------------------------------------------------------------
(* KeywordSearchService                                                    *)

\* _legacy_field_score, in hundredths.
FieldScore(e, term) ==
  LET f == Fields[e]
      points == {<<100, term = f.name>>, <<90, term \in f.inQualified>>,
                 <<85, term \in PathTerms
                         /\ term \in f.inMetadata \cup f.inName>>,
                 <<75, term \in f.inName>>, <<60, term \in f.inPath>>,
                 <<40, term \in f.inContent>>}
  IN Max({0} \cup {p[1] : p \in {q \in points : q[2]}})

\* A term's weight, in quarters.
Weight(term) == IF term \in LowInformation THEN 1 ELSE 4

\* _score_lexical_fields: 0.6 for the share of the terms that match and 0.4
\* for how well, over the total weight, which is left out.
TermScore(e, term) ==
  LET score == FieldScore(e, term)
  IN IF score > 0 THEN Weight(term) * (600 + 4 * score) ELSE 0

LexicalScore(e, terms) ==
  LET sum[n \in 0..Len(terms)] ==
        IF n = 0 THEN 0 ELSE sum[n - 1] + TermScore(e, terms[n])
  IN IF Len(terms) = 1 THEN FieldScore(e, terms[1]) ELSE sum[Len(terms)]

\* Best first, the smaller id first among equals.
Better(a, b) ==
  \/ a.score > b.score
  \/ a.score = b.score /\ a.entity < b.entity

Best(hits, limit) == FirstN(Ordered(hits, Better), limit)

Hit(e, score, source) ==
  [entity |-> e, score |-> score, source |-> source, uncertain |-> {}]

\* search: when the query is one structured identifier or path and some
\* entity of the project contains it, only that counts; else its parts do.
KeywordHits(entities, q, limit) ==
  LET terms == Terms(q)
      structured == Len(terms) > 1 /\ terms[1] = q.whole
      Complete(e) == LexicalScore(e, <<terms[1]>>)
      Score(e) ==
        IF terms = <<>> THEN 0
        ELSE IF ~structured THEN LexicalScore(e, terms)
        ELSE IF \E x \in entities : Complete(x) > 0 THEN Complete(e)
        ELSE LexicalScore(e, Tail(terms))
  IN Best({Hit(e, Score(e), "keyword") :
             e \in {x \in entities : Score(x) > 0}}, limit)

-----------------------------------------------------------------------------
(* HybridSearchService                                                     *)

\* _normalize: scores that are not positive count as nothing.
Positive(n) == IF n > 0 THEN n ELSE 0

\* _maximum_positive_score; 1 stands for "there is none", when every score
\* of the branch counts as nothing.
Maximum(hits) == Max({1} \cup {hits[i].score : i \in DOMAIN hits})

Ids(hits) == {hits[i].entity : i \in DOMAIN hits}

\* A branch returns an entity at most once.
ScoreIn(hits, e) ==
  IF e \in Ids(hits)
  THEN Positive(hits[CHOOSE i \in DOMAIN hits : hits[i].entity = e].score)
  ELSE 0

\* Mutant of Fuse: an entity that both branches return keeps the score of the
\* vector branch alone.
FuseFirst(vector, keyword, limit) ==
  LET Combined(e) == IF e \in Ids(vector)
                     THEN 3 * ScoreIn(vector, e) * Maximum(keyword)
                     ELSE ScoreIn(keyword, e) * Maximum(vector)
  IN Best({Hit(e, Combined(e), "hybrid") : e \in Ids(vector) \cup Ids(keyword)},
          limit)

\* fuse_search_hits: 0.75 of the normalised vector score and 0.25 of the
\* normalised keyword score, here over their common denominator.
Fuse(vector, keyword, limit) ==
  LET Combined(e) == 3 * ScoreIn(vector, e) * Maximum(keyword)
                     + ScoreIn(keyword, e) * Maximum(vector)
  IN Best({Hit(e, Combined(e), "hybrid") : e \in Ids(vector) \cup Ids(keyword)},
          limit)

\* What is left when one branch failed: the other one's hits, which say so.
Degraded(hits, limit, source, notice) ==
  [i \in 1..Len(FirstN(hits, limit)) |->
    [hits[i] EXCEPT !.source = source, !.uncertain = @ \cup {notice}]]
=============================================================================

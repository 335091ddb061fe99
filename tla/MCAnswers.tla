----------------------------- MODULE MCAnswers -----------------------------
EXTENDS EvaluationVariants

Variant(mode, fusion, vectorWeight, keywordWeight) ==
  [mode |-> mode, fusion |-> fusion, vector |-> vectorWeight, keyword |-> keywordWeight]

\* B2, B3 with A1, A2, A3, A4 and two of the weight sweep.
MCVariants == [B2 |-> Variant("vector", "weighted", 14, 6),
               B3 |-> Variant("hybrid", "weighted", 14, 6),
               A2 |-> Variant("hybrid", "weighted", 10, 10),
               A3 |-> Variant("hybrid", "weighted", 6, 14),
               A4 |-> Variant("hybrid", "rrf", 14, 6),
               W75 |-> Variant("hybrid", "weighted", 15, 5),
               W95 |-> Variant("hybrid", "weighted", 19, 1)]

W(text, segments) == [path |-> FALSE, text |-> text, segments |-> segments]
S(text, parts) == [text |-> text, parts |-> parts]
Q(whole, cjk, tokens) == [whole |-> whole, cjk |-> cjk, tokens |-> tokens]

MCWords == {"get_user", "get", "user", "where user api", "where", "api",
            "/users/{id}", "users", "id", "yonghu"}

\* An identifier, words with a stop word, a path and a Chinese question.
MCQueries == {
  Q("get_user", FALSE, <<W("get_user", <<S("get_user", <<"get", "user">>)>>)>>),
  Q("where user api", FALSE, <<W("where", <<>>), W("user", <<>>), W("api", <<>>)>>),
  Q("/users/{id}", FALSE, <<[path |-> TRUE, text |-> "/users/{id}",
      segments |-> <<S("users", <<"users">>), S("id", <<"id">>)>>]>>),
  Q("yonghu", TRUE, <<W("yonghu", <<>>)>>)}

F(name, inName, inQualified, inContent) ==
  [name |-> name, inName |-> inName, inQualified |-> inQualified,
   inMetadata |-> {"/users/{id}"}, inPath |-> {}, inContent |-> inContent]

MCFields == <<
  F("get_user", {"get_user", "get", "user"}, {"get_user", "get", "user"}, {}),
  F("user", {"user"}, {"user"}, {"get", "api"}),
  F("api", {"api"}, {"api"}, {"get_user", "get", "user", "id"}),
  F("id", {"id"}, {"id"}, {"users"})>>

R(id, source, target, type) ==
  [id |-> id, source |-> source, target |-> target, type |-> type]

\* A cycle, two relations of one pair, one that leads out of the chain and
\* one that may hang in the air.
MCRelations == {
  R(1, 1, 2, "REQUESTS_API"), R(2, 2, 3, "DEFINES_API"),
  R(3, 3, 1, "CALLS_METHOD"), R(4, 2, 1, "CALLS_METHOD"),
  R(5, 1, 3, "IMPORTS"), R(6, 3, 4, "CALLS_METHOD")}

MCIndexes == [entities : {{2, 3}, 1..3, 1..4},
              relations : {{}} \cup {r \in SUBSET MCRelations :
                                       R(2, 2, 3, "DEFINES_API") \in r}]

V(e, s) == [entity |-> e, score |-> s]
MCVectorAnswers == {<<>>, <<V(1, 2), V(3, 1)>>, <<V(2, 2), V(1, 2), V(4, 0)>>,
                    <<V(4, 1), V(3, 1)>>, <<V(1, 2), V(3, 2)>>}

\* The first two fit together with one line of relations, the second and the
\* last only without the blank line between them, the third never.
MCSize == <<4, 5, 16, 10>>
MCFiles == <<[dir |-> "a", base |-> "u", from |-> 1, to |-> 10],
             [dir |-> "b", base |-> "u", from |-> 5, to |-> 20],
             [dir |-> "a", base |-> "x", from |-> 1, to |-> 5],
             [dir |-> "a", base |-> "c", from |-> 1, to |-> 9]>>

MCApiKeys == <<None, [method |-> "GET", path |-> <<"users", "{param}">>],
               [method |-> "GET", path |-> <<"users", "{param}">>],
               [method |-> "POST", path |-> <<"users">>]>>
MCApiRequests == {
  [method |-> "GET", path |-> [segments |-> <<"users", "", ":id">>]],
  [method |-> "POST", path |-> [segments |-> <<"users">>]],
  [method |-> "GET", path |-> [segments |-> <<>>]]}

Place(dir, base, from, to) == [dir |-> dir, base |-> base, from |-> from, to |-> to]
Item(e, named, dir, base) ==
  [entity |-> e, named |-> named, dir |-> dir, base |-> base]
D(cites, places, files) == [cites |-> cites, places |-> places, files |-> files]

\* What may be wrong with a draft: a citation, a file, a line, an affected file.
MCDrafts == {
  D({1}, {Place(None, "u", None, None)}, {Item(1, {}, "a", "u")}),
  D({2}, {Place("b", "u", 12, 15)}, {Item(None, {1, 2}, "b", "u")}),
  D({}, {Place(None, "u", 12, 15), Place("a", "x", None, None)},
    {Item(2, {}, "a", "u"), Item(None, {3}, "a", "x")})}
=============================================================================

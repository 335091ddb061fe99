--------------------------- MODULE AnswersProofs ---------------------------
(***************************************************************************)
(* Theorems about Answers, for any index, any vector answers and any       *)
(* drafts: what a search finds, what a traversal reaches, what the         *)
(* contexts hold, what is told of the calls that failed, and what the      *)
(* evaluation makes of the same request (EvaluationVariants).              *)
(***************************************************************************)
EXTENDS EvaluationVariants, AscendingProofs

-----------------------------------------------------------------------------
(* Traversals                                                              *)

\* What a walk of one relation joins.
Linked(g, f) == \E r \in index.relations : r.type \in ChainTypes /\ Ends(r) = {g, f}

\* The entities within d relations of s, and the relations met on the way.
Ball(s, d) == {f \in index.entities : Within(s, f, d)}
BallEdges(s, d) ==
  {r \in index.relations :
     /\ r.type \in ChainTypes /\ d > 0
     /\ Ends(r) \subseteq Ball(s, d)
     /\ Ends(r) \cap Ball(s, d - 1) # {}}

\* Nothing but itself is within no relation of an entity.
LEMMA BallZero ==
  ASSUME NEW s \in index.entities
  PROVE  Ball(s, 0) = {s}
<1>1. ASSUME NEW f, Within(s, f, 0)
      PROVE  f = s
  BY <1>1 DEF Within
<1>2. Within(s, s, 0)
  <2>1. PICK walk : walk = [i \in 0..0 |-> s]
    OBVIOUS
  <2>2. walk \in [0..0 -> index.entities] /\ walk[0] = s
    BY <2>1
  <2>3. QED
    BY <2>2 DEF Within
<1>3. QED
  BY <1>1, <1>2 DEF Ball

\* What is within d + 1 relations is within d, or linked to what is.
LEMMA BallStep ==
  ASSUME NEW s \in index.entities, NEW d \in Nat
  PROVE  Ball(s, d + 1) =
           Ball(s, d) \cup {f \in index.entities : \E g \in Ball(s, d) : Linked(g, f)}
<1>1. ASSUME NEW f \in Ball(s, d + 1)
      PROVE  f \in Ball(s, d) \/ \E g \in Ball(s, d) : Linked(g, f)
  <2>1. PICK n \in 0..(d + 1) : \E walk \in [0..n -> index.entities] :
           /\ walk[0] = s /\ walk[n] = f
           /\ \A i \in 0..(n - 1) : \E r \in index.relations :
                r.type \in ChainTypes /\ Ends(r) = {walk[i], walk[i + 1]}
    BY <1>1 DEF Ball, Within
  <2>10. PICK walk \in [0..n -> index.entities] :
           /\ walk[0] = s /\ walk[n] = f
           /\ \A i \in 0..(n - 1) : \E r \in index.relations :
                r.type \in ChainTypes /\ Ends(r) = {walk[i], walk[i + 1]}
    BY <2>1
  <2>2. CASE n = d + 1
    <3>1. PICK w : w = [i \in 0..d |-> walk[i]]
      OBVIOUS
    <3>2. w \in [0..d -> index.entities] /\ w[0] = s /\ w[d] = walk[d]
      BY <2>10, <2>2, <3>1
    <3>3. \A i \in 0..(d - 1) : i \in 0..d /\ i + 1 \in 0..d /\ i \in 0..(n - 1)
      BY <2>2
    <3>4. \A i \in 0..(d - 1) : \E r \in index.relations :
            r.type \in ChainTypes /\ Ends(r) = {w[i], w[i + 1]}
      BY <2>10, <3>1, <3>3
    <3>5. Within(s, walk[d], d) /\ walk[d] \in index.entities
      <4>1. d \in 0..n /\ d \in 0..d
        BY <2>2
      <4>2. walk[d] \in index.entities
        BY <2>10, <4>1
      <4>3. QED
        BY <3>2, <3>4, <4>1, <4>2 DEF Within
    <3>6. d \in 0..(n - 1)
      BY <2>2
    <3>7. Linked(walk[d], f)
      BY <2>10, <2>2, <3>6 DEF Linked
    <3>8. QED
      BY <3>5, <3>7 DEF Ball
  <2>3. CASE n # d + 1
    <3>1. n \in 0..d
      BY <2>3
    <3>2. QED
      BY <1>1, <2>10, <3>1 DEF Ball, Within
  <2>4. QED
    BY <2>2, <2>3
<1>2. ASSUME NEW f \in Ball(s, d)
      PROVE  f \in Ball(s, d + 1)
  <2>1. 0..d \subseteq 0..(d + 1)
    OBVIOUS
  <2>2. QED
    BY <1>2, <2>1 DEF Ball, Within
<1>3. ASSUME NEW f \in index.entities, NEW g \in Ball(s, d), Linked(g, f)
      PROVE  f \in Ball(s, d + 1)
  <2>1. PICK n \in 0..d : \E walk \in [0..n -> index.entities] :
           /\ walk[0] = s /\ walk[n] = g
           /\ \A i \in 0..(n - 1) : \E r \in index.relations :
                r.type \in ChainTypes /\ Ends(r) = {walk[i], walk[i + 1]}
    BY <1>3 DEF Ball, Within
  <2>10. PICK walk \in [0..n -> index.entities] :
           /\ walk[0] = s /\ walk[n] = g
           /\ \A i \in 0..(n - 1) : \E r \in index.relations :
                r.type \in ChainTypes /\ Ends(r) = {walk[i], walk[i + 1]}
    BY <2>1
  <2>2. PICK w : w = [i \in 0..(n + 1) |-> IF i = n + 1 THEN f ELSE walk[i]]
    OBVIOUS
  <2>3. \A i \in 0..(n + 1) : i # n + 1 => i \in 0..n
    OBVIOUS
  <2>4. w \in [0..(n + 1) -> index.entities] /\ w[0] = s /\ w[n + 1] = f /\ w[n] = g
    BY <1>3, <2>10, <2>2, <2>3
  <2>5. ASSUME NEW i \in 0..n
        PROVE  \E r \in index.relations :
                 r.type \in ChainTypes /\ Ends(r) = {w[i], w[i + 1]}
    <3>1. CASE i = n
      BY <1>3, <2>4, <3>1 DEF Linked
    <3>2. CASE i # n
      <4>1. i \in 0..(n - 1) /\ i + 1 \in 0..n /\ i + 1 # n + 1 /\ i # n + 1
            /\ i \in 0..(n + 1) /\ i + 1 \in 0..(n + 1)
        BY <3>2
      <4>2. w[i] = walk[i] /\ w[i + 1] = walk[i + 1]
        BY <2>2, <4>1
      <4>3. QED
        BY <2>10, <4>1, <4>2
    <3>3. QED
      BY <3>1, <3>2
  <2>6. n + 1 \in 0..(d + 1) /\ (n + 1) - 1 = n
    OBVIOUS
  <2>7. Within(s, f, d + 1)
    BY <2>4, <2>5, <2>6 DEF Within
  <2>8. QED
    BY <1>3, <2>7 DEF Ball
<1>4. QED
  BY <1>1, <1>2, <1>3 DEF Ball

\* The recursion of Traverse.
LEMMA Levels ==
  ASSUME NEW s, s \in index.entities, NEW N \in Nat
  PROVE  \E g :
           /\ Traverse(index, s, N) = [nodes |-> g[N].seen, edges |-> g[N].edges]
           /\ g[0] = [seen |-> {s}, frontier |-> {s}, edges |-> {}]
           /\ \A d \in 1..N : g[d] = Wider(index, g[d - 1])
<1> DEFINE S == [seen : SUBSET index.entities, frontier : SUBSET index.entities,
                 edges : SUBSET index.relations]
           base == [seen |-> {s}, frontier |-> {s}, edges |-> {}]
           step == {x \in (1..N) \X S \X S : x[3] = Wider(index, x[2])}
           level[d \in 0..N] == IF d = 0 THEN base ELSE Wider(index, level[d - 1])
<1>1. base \in S
  OBVIOUS
<1>2. ASSUME NEW x \in S
      PROVE  Wider(index, x) \in S
  <2> DEFINE found == Adjacent(index, x.frontier)
             new == (EndsOf(found) \cap index.entities) \ x.seen
  <2>1. found \subseteq index.relations
    BY DEF Adjacent
  <2> HIDE DEF found
  <2>2. new \subseteq index.entities
    OBVIOUS
  <2>3. Wider(index, x) = [seen |-> x.seen \cup new, frontier |-> new,
          edges |-> x.edges \cup {r \in found : Ends(r) \subseteq x.seen \cup new}]
    BY DEF Wider, found
  <2> HIDE DEF new
  <2>4. QED
    BY <2>1, <2>2, <2>3
<1>3. \A n \in 1..N, x \in S : <<n, x, Wider(index, x)>> \in step
  <2> HIDE DEF S
  <2>1. QED
    BY <1>2
<1>4. PICK g \in [0..N -> S] :
        g[0] = base /\ \A n \in 1..N : <<n, g[n - 1], g[n]>> \in step
  <2> HIDE DEF S, base, step, level
  <2>1. \A n \in 1..N, x \in S : \E y \in S : <<n, x, y>> \in step
    BY <1>2, <1>3
  <2>2. PICK Q, c, P : Q = S /\ c = base /\ P = step
    OBVIOUS
  <2>3. c \in Q /\ GoesOn(P, Q, N)
    BY <1>1, <2>1, <2>2 DEF GoesOn
  <2>4. Followed(P, Q, N, c)
    BY ONLY <2>3, N \in Nat, RecursionExists
  <2>5. QED
    BY <2>2, <2>4 DEF Followed
<1>5. \A n \in 0..N : n # 0 => n \in 1..N /\ n - 1 \in 0..N
  OBVIOUS
<1>6. \A n \in 0..N : g[n] = IF n = 0 THEN base ELSE Wider(index, g[n - 1])
  <2> HIDE DEF S, base
  <2>1. QED
    BY <1>4, <1>5
<1>7. g = [d \in 0..N |-> IF d = 0 THEN base ELSE Wider(index, g[d - 1])]
  <2> HIDE DEF S, base
  <2>1. QED
    BY <1>4, <1>6
<1>8. level = [d \in 0..N |-> IF d = 0 THEN base ELSE Wider(index, level[d - 1])]
  <2> HIDE DEF S, base
  <2>1. QED
    BY <1>7
<1>9. Traverse(index, s, N) = [nodes |-> level[N].seen, edges |-> level[N].edges]
  BY DEF Traverse
<1>10. \A d \in 0..N : level[d] = IF d = 0 THEN base ELSE Wider(index, level[d - 1])
  <2> HIDE DEF level, base
  <2>1. QED
    BY <1>8
<1>11. 0 \in 0..N /\ \A d \in 1..N : d \in 0..N /\ d # 0
  OBVIOUS
<1>12. QED
  <2> HIDE DEF level
  <2>1. QED
    BY <1>9, <1>10, <1>11

\* A traversal of depth N finds the entities within N relations and the
\* relations met on the way, no more and no less, cycles and parallel
\* relations included.
LEMMA Traversed ==
  ASSUME NEW s \in index.entities, NEW N \in Nat
  PROVE  Traverse(index, s, N) = [nodes |-> Ball(s, N), edges |-> BallEdges(s, N)]
<1>1. PICK g :
        /\ Traverse(index, s, N) = [nodes |-> g[N].seen, edges |-> g[N].edges]
        /\ g[0] = [seen |-> {s}, frontier |-> {s}, edges |-> {}]
        /\ \A d \in 1..N : g[d] = Wider(index, g[d - 1])
  BY Levels
<1> DEFINE Rim(d) == IF d = 0 THEN Ball(s, 0) ELSE Ball(s, d) \ Ball(s, d - 1)
           Right(d) == g[d] = [seen |-> Ball(s, d), frontier |-> Rim(d),
                               edges |-> BallEdges(s, d)]
           T == {d \in Nat : d <= N => Right(d)}
<1>2. 0 \in T
  <2>1. Ball(s, 0) = {s} /\ BallEdges(s, 0) = {}
    BY BallZero DEF BallEdges
  <2>2. QED
    BY <1>1, <2>1
<1>3. ASSUME NEW d \in Nat, d \in T
      PROVE  d + 1 \in T
  <2>1. SUFFICES ASSUME d + 1 <= N
                 PROVE  Right(d + 1)
    OBVIOUS
  <2>2. d + 1 \in 1..N /\ (d + 1) - 1 = d /\ d <= N
    BY <2>1
  <2>3. Right(d) /\ g[d + 1] = Wider(index, g[d])
    BY <1>1, <1>3, <2>2
  <2> DEFINE found == Adjacent(index, Rim(d))
             new == (EndsOf(found) \cap index.entities) \ Ball(s, d)
  <2>4. g[d + 1] = [seen |-> Ball(s, d) \cup new, frontier |-> new,
                    edges |-> BallEdges(s, d) \cup
                      {r \in found : Ends(r) \subseteq Ball(s, d) \cup new}]
    BY <2>3 DEF Wider
  <2>5. Ball(s, d + 1) =
          Ball(s, d) \cup {f \in index.entities : \E h \in Ball(s, d) : Linked(h, f)}
    BY BallStep
  <2>6. d # 0 => Ball(s, d) = Ball(s, d - 1) \cup
          {f \in index.entities : \E h \in Ball(s, d - 1) : Linked(h, f)}
    <3>1. SUFFICES ASSUME d # 0
                   PROVE  Ball(s, d) = Ball(s, d - 1) \cup
                     {f \in index.entities : \E h \in Ball(s, d - 1) : Linked(h, f)}
      OBVIOUS
    <3>2. d - 1 \in Nat /\ (d - 1) + 1 = d
      BY <3>1
    <3>3. Ball(s, (d - 1) + 1) = Ball(s, d - 1) \cup
            {f \in index.entities : \E h \in Ball(s, d - 1) : Linked(h, f)}
      BY <3>2, BallStep
    <3>4. QED
      BY <3>2, <3>3
  <2>7. \A r : Ends(r) = {r.source, r.target}
    BY DEF Ends
  <2>8. found = {r \in index.relations :
                   r.type \in ChainTypes /\ Ends(r) \cap Rim(d) # {}}
    BY DEF Adjacent
  <2>9. Rim(d) \subseteq Ball(s, d) /\ Ball(s, d) \subseteq index.entities
    BY DEF Ball
  <2> HIDE DEF found
  <2>90. \A f : f \in new <=>
          f \in index.entities /\ f \notin Ball(s, d) /\ \E r \in found : f \in Ends(r)
    BY DEF EndsOf
  <2> HIDE DEF new
  <2>10. Ball(s, d) \cup new = Ball(s, d + 1)
    <3>1. ASSUME NEW f \in new
          PROVE  \E h \in Ball(s, d) : Linked(h, f)
      <4>1. PICK r \in found : f \in Ends(r)
        BY <2>90, <3>1
      <4>2. PICK h \in Rim(d) : h \in Ends(r)
        BY <2>8
      <4>3. Ends(r) = {h, f}
        BY <2>7, <2>9, <2>90, <3>1, <4>1, <4>2
      <4>4. QED
        BY <2>8, <2>9, <4>1, <4>2, <4>3 DEF Linked
    <3>2. ASSUME NEW f \in index.entities, NEW h \in Ball(s, d), Linked(h, f),
                 f \notin Ball(s, d)
          PROVE  f \in new
      <4>1. PICK r \in index.relations : r.type \in ChainTypes /\ Ends(r) = {h, f}
        BY <3>2 DEF Linked
      <4>2. h \in Rim(d)
        BY <2>6, <3>2
      <4>3. QED
        BY <2>8, <2>90, <3>2, <4>1, <4>2
    <3>3. QED
      BY <2>5, <2>90, <3>1, <3>2
  <2>11. new = Rim(d + 1)
    <3>1. Rim(d + 1) = Ball(s, d + 1) \ Ball(s, d)
      BY <2>2
    <3>2. new \cap Ball(s, d) = {}
      BY <2>90
    <3> HIDE DEF Rim
    <3>3. QED
      BY <2>10, <3>1, <3>2
  <2>12. BallEdges(s, d + 1) = {r \in index.relations :
           /\ r.type \in ChainTypes /\ Ends(r) \subseteq Ball(s, d + 1)
           /\ Ends(r) \cap Ball(s, d) # {}}
    BY <2>2 DEF BallEdges
  <2>13. BallEdges(s, d) \cup {r \in found : Ends(r) \subseteq Ball(s, d + 1)}
           = BallEdges(s, d + 1)
    <3>1. BallEdges(s, d) \subseteq BallEdges(s, d + 1)
      BY <2>6, <2>10, <2>12, <2>7 DEF BallEdges
    <3>2. {r \in found : Ends(r) \subseteq Ball(s, d + 1)} \subseteq BallEdges(s, d + 1)
      BY <2>8, <2>9, <2>12
    <3>3. ASSUME NEW r \in BallEdges(s, d + 1), r \notin found
          PROVE  r \in BallEdges(s, d)
      <4>1. Ends(r) \cap Rim(d) = {} /\ Ends(r) \cap Ball(s, d) # {}
            /\ Ends(r) \subseteq Ball(s, d + 1)
            /\ r \in index.relations /\ r.type \in ChainTypes
        BY <2>8, <2>12, <3>3
      <4>2. d # 0
        BY <4>1
      <4>3. PICK h \in Ends(r) : h \in Ball(s, d - 1)
        BY <4>1, <4>2
      <4>4. \A f \in Ends(r) : f \in Ball(s, d)
        <5>1. SUFFICES ASSUME NEW f \in Ends(r), f # h
                       PROVE  f \in Ball(s, d)
          BY <2>6, <4>2, <4>3
        <5>2. Ends(r) = {h, f}
          BY <2>7, <5>1
        <5>3. Linked(h, f)
          BY <4>1, <5>2 DEF Linked
        <5>4. f \in index.entities
          BY <4>1 DEF Ball
        <5>5. QED
          BY <2>6, <4>2, <4>3, <5>3, <5>4
      <4>5. QED
        BY <4>1, <4>2, <4>3, <4>4 DEF BallEdges
    <3>4. QED
      BY <2>9, <2>12, <3>1, <3>2, <3>3
  <2>14. QED
    <3> HIDE DEF Rim
    <3>1. QED
      BY <2>4, <2>10, <2>11, <2>13
<1>4. N \in T
  <2> HIDE DEF T
  <2>1. QED
    BY <1>2, <1>3, NatSetInduction
<1>5. QED
  BY <1>1, <1>4

\* The graph of several traversals.
LEMMA Expanded ==
  ASSUME NEW S \in SUBSET index.entities, NEW d \in Nat
  PROVE  ExpandEntities(index, S, d) =
           [nodes |-> {f \in index.entities : \E s \in S : f \in Ball(s, d)},
            edges |-> {r \in index.relations : \E s \in S : r \in BallEdges(s, d)}]
<1>1. \A s \in S : Traverse(index, s, d) = [nodes |-> Ball(s, d), edges |-> BallEdges(s, d)]
  BY Traversed
<1>2. \A s \in S : Traverse(index, s, d).nodes = Ball(s, d)
                   /\ Traverse(index, s, d).edges = BallEdges(s, d)
  BY <1>1
<1>3. \A s : Ball(s, d) \subseteq index.entities /\ BallEdges(s, d) \subseteq index.relations
  BY DEF Ball, BallEdges
<1> DEFINE graphs == {Traverse(index, s, d) : s \in S}
<1>4. UNION {g.nodes : g \in graphs} = {f \in index.entities : \E s \in S : f \in Ball(s, d)}
  BY <1>2, <1>3
<1>5. UNION {g.edges : g \in graphs} = {r \in index.relations : \E s \in S : r \in BallEdges(s, d)}
  BY <1>2, <1>3
<1>6. QED
  BY <1>4, <1>5 DEF ExpandEntities, Merge

-----------------------------------------------------------------------------
(* The graph of a response                                                 *)

Requests ==
  [kind : Kinds \cup Tasks, hints : Hints \cup {{}}, query : Queries,
   limit : Limits, depth : 0..2, api : ApiRequests \cup {None}]

\* What a request is at each point, and where its graph may be there.
BeforeGraph == {"plan", "collection", "rewrite", "vector", "keyword", "traverse",
                "expand", "match"}

Asked ==
  /\ index \in Indexes
  /\ request \in Requests
  /\ pc \in BeforeGraph \cup {"generate", "repair", "done"}
  /\ pc = "plan" => request.kind = "chat"
  /\ pc = "match" => request.kind = "api_chain"
  /\ request.kind = "api_chain" => request.depth = 2 /\ request.api \in ApiRequests

GraphInv ==
  /\ Asked
  /\ pc \in BeforeGraph => graph = EmptyGraph
  /\ graph # EmptyGraph =>
       /\ Seeds \subseteq index.entities
       /\ graph = ExpandEntities(index, Seeds, request.depth)

\* A request starts as one of the schemas allows.
LEMMA AskedInit == Init => Asked
<1>1. SUFFICES ASSUME Init PROVE Asked
  OBVIOUS
<1>2. PICK kind \in Kinds, query \in Queries, limit \in Limits :
        \E hints \in IF kind = "chat" THEN Hints ELSE {{}},
           depth \in IF kind \in {"search_chain", "trace"} THEN Depths ELSE {2},
           api \in IF kind = "api_chain" THEN ApiRequests ELSE {None} :
          request = [kind |-> kind, hints |-> hints, query |-> query,
                     limit |-> limit, depth |-> depth, api |-> api]
  BY <1>1 DEF Init
<1>3. request \in Requests
  <2>1. PICK hints \in IF kind = "chat" THEN Hints ELSE {{}},
             depth \in IF kind \in {"search_chain", "trace"} THEN Depths ELSE {2},
             api \in IF kind = "api_chain" THEN ApiRequests ELSE {None} :
          request = [kind |-> kind, hints |-> hints, query |-> query,
                     limit |-> limit, depth |-> depth, api |-> api]
    BY <1>2
  <2>2. hints \in Hints \cup {{}} /\ api \in ApiRequests \cup {None}
    OBVIOUS
  <2>3. depth \in 0..2
    BY AnswersAssumption
  <2>4. QED
    BY <2>1, <2>2, <2>3 DEF Requests
<1>4. request.kind = "api_chain" => request.depth = 2 /\ request.api \in ApiRequests
  BY <1>2
<1>5. QED
  BY <1>1, <1>3, <1>4 DEF Init, Asked, BeforeGraph

\* No step makes a request of another shape, or asks another index.
LEMMA AskedStep == Asked /\ [Next]_vars => Asked'
<1> SUFFICES ASSUME Asked, [Next]_vars PROVE Asked'
  OBVIOUS
<1> USE DEF Asked, BeforeGraph
<1>1. CASE Plan
  <2>1. PlanTask(request.hints) \in Tasks
    BY DEF PlanTask, Tasks
  <2>2. request' \in Requests /\ request'.kind \in Tasks
    BY <1>1, <2>1 DEF Plan, Requests
  <2>3. QED
    BY <1>1, <2>2 DEF Plan, Tasks
<1>2. CASE Rewrite
  <2>1. PICK query \in Queries : request' = [request EXCEPT !.query = query]
    BY <1>2 DEF Rewrite, Requests
  <2>2. request' \in Requests /\ request'.kind = request.kind
        /\ request'.depth = request.depth /\ request'.api = request.api
    BY <2>1 DEF Requests
  <2>3. QED
    BY <1>2, <2>2 DEF Rewrite
<1>3. CASE CheckCollection
  BY <1>3 DEF CheckCollection, Fail, Respond
<1>4. CASE SearchVectors
  BY <1>4 DEF SearchVectors
<1>5. CASE SearchKeywords
  <2>1. UNCHANGED <<index, request>> /\ pc' \in {"done", "generate", "expand", "traverse"}
    BY <1>5 DEF SearchKeywords, Found, Combine, Fail, Respond, NoEvidence
  <2>2. QED
    BY <2>1
<1>6. CASE TraverseHit
  BY <1>6 DEF TraverseHit
<1>7. CASE ExpandTask
  BY <1>7 DEF ExpandTask, NoEvidence, Respond
<1>8. CASE ExpandChain
  BY <1>8 DEF ExpandChain, Fail, Respond
<1>9. CASE MatchApi
  BY <1>9 DEF MatchApi, Fail, Respond
<1>10. CASE Generate
  BY <1>10 DEF Generate, Accept, ModelFails, Fail, Respond
<1>11. CASE Repair
  BY <1>11 DEF Repair, Accept, ModelFails, Fail, Respond
<1>12. CASE Done \/ UNCHANGED vars
  BY <1>12 DEF Done, vars
<1>13. QED
  BY <1>1, <1>2, <1>3, <1>4, <1>5, <1>6, <1>7, <1>8, <1>9, <1>10, <1>11, <1>12 DEF Next

\* Where the search and the traversals are over, the seeds of the graph stay.
LEMMA SeedsStay ==
  ASSUME Asked, pc' \in {"generate", "repair", "done"},
         UNCHANGED <<index, request, hits, results>>
  PROVE  Seeds' = Seeds
BY DEF Seeds, Ranked, Ids

\* A graph appears only as the expansion of the seeds it is told from.
LEMMA GraphStep == GraphInv /\ [Next]_vars => GraphInv'
<1> SUFFICES ASSUME GraphInv, [Next]_vars PROVE GraphInv'
  OBVIOUS
<1>1. Asked'
  BY AskedStep DEF GraphInv
<1>2. Asked
  BY DEF GraphInv
<1> USE DEF GraphInv, BeforeGraph
<1>3. ASSUME pc \in BeforeGraph, UNCHANGED graph
      PROVE  GraphInv'
  BY <1>1, <1>3
<1>4. ASSUME pc \in {"generate", "repair", "done"},
             pc' \in {"generate", "repair", "done"},
             UNCHANGED <<index, request, hits, results, graph>>
      PROVE  GraphInv'
  BY <1>1, <1>2, <1>4, SeedsStay
<1>5. CASE ExpandTask
  <2> DEFINE seeds == {Ranked[i].seed : i \in DOMAIN Ranked}
  <2>1. pc = "expand" /\ pc' \in {"generate", "done"}
        /\ UNCHANGED <<index, request, hits, results>>
    BY <1>5 DEF ExpandTask, NoEvidence, Respond
  <2>2. Seeds = seeds
    BY <1>5 DEF ExpandTask, Seeds
  <2>3. \/ Expandable(index, seeds) /\ graph' = ExpandEntities(index, seeds, request.depth)
        \/ graph' = EmptyGraph
    BY <1>5 DEF ExpandTask
  <2>4. Seeds' = Seeds
    BY <1>2, <2>1, SeedsStay
  <2> HIDE DEF seeds
  <2>5. QED
    BY <1>1, <2>1, <2>2, <2>3, <2>4 DEF Expandable
<1>6. CASE ExpandChain
  <2>1. pc = "expand" /\ pc' = "done" /\ UNCHANGED <<index, request, hits, results>>
    BY <1>6 DEF ExpandChain, Fail, Respond
  <2>2. Seeds = Ids(hits)
    BY <1>6 DEF ExpandChain, Seeds
  <2>3. \/ Expandable(index, Ids(hits)) /\ graph' = ExpandEntities(index, Ids(hits), request.depth)
        \/ graph' = graph
    BY <1>6 DEF ExpandChain
  <2>4. Seeds' = Seeds
    BY <1>2, <2>1, SeedsStay
  <2>5. QED
    BY <1>1, <2>1, <2>2, <2>3, <2>4 DEF Expandable
<1>7. CASE MatchApi
  <2> DEFINE wanted == [method |-> request.api.method,
                        path |-> NormalizePath(request.api.path)]
             found == {e \in index.entities : ApiKeys[e] = wanted}
  <2>1. pc = "match" /\ pc' = "done" /\ UNCHANGED <<index, request, hits, results>>
    BY <1>7 DEF MatchApi, Fail, Respond
  <2>2. graph' = graph \/ graph' = ExpandEntities(index, found, 2)
    BY <1>7 DEF MatchApi
  <2>3. request.kind = "api_chain" /\ request.depth = 2 /\ request.api \in ApiRequests
    BY <1>2, <2>1 DEF Asked
  <2>4. wanted # None /\ index.entities \subseteq EntityIds
    BY <1>2, <2>3, AnswersAssumption DEF Asked
  <2>5. ASSUME NEW e \in index.entities
        PROVE  ApiKeys[e] = wanted <=>
                 /\ ApiKeys[e] # None
                 /\ ApiKeys[e].method = request.api.method
                 /\ ApiKeys[e].path = NormalizePath(request.api.path)
    <3>1. ApiKeys[e] # None =>
            ApiKeys[e] = [method |-> ApiKeys[e].method, path |-> ApiKeys[e].path]
      BY <2>4, AnswersAssumption
    <3>2. wanted.method = request.api.method
          /\ wanted.path = NormalizePath(request.api.path)
      OBVIOUS
    <3> HIDE DEF wanted
    <3>3. ApiKeys[e] = wanted => ApiKeys[e].method = wanted.method
                                 /\ ApiKeys[e].path = wanted.path
      OBVIOUS
    <3>4. ASSUME ApiKeys[e] # None,
                 ApiKeys[e].method = request.api.method,
                 ApiKeys[e].path = NormalizePath(request.api.path)
          PROVE  ApiKeys[e] = wanted
      BY <3>1, <3>4 DEF wanted
    <3>5. QED
      BY <2>4, <3>2, <3>3, <3>4
  <2>6. Seeds = found
    BY <2>3, <2>5 DEF Seeds
  <2>7. Seeds' = Seeds
    BY <1>2, <2>1, SeedsStay
  <2> HIDE DEF found, wanted
  <2>8. found \subseteq index.entities
    BY DEF found
  <2>9. QED
    BY <1>1, <2>1, <2>2, <2>3, <2>6, <2>7, <2>8
<1>8. CASE Plan \/ CheckCollection \/ Rewrite \/ SearchVectors \/ SearchKeywords
           \/ TraverseHit
  BY <1>3, <1>8 DEF Plan, CheckCollection, Rewrite, SearchVectors, SearchKeywords,
     TraverseHit
<1>9. CASE Generate \/ Repair
  BY <1>4, <1>9 DEF Generate, Repair, Accept, ModelFails, Fail, Respond
<1>10. CASE Done \/ UNCHANGED vars
  <2>1. UNCHANGED <<pc, index, request, hits, results, graph>>
    BY <1>10 DEF Done, vars
  <2>2. QED
    BY <1>2, <1>3, <1>4, <2>1 DEF Asked
<1>11. QED
  BY <1>5, <1>6, <1>7, <1>8, <1>9, <1>10 DEF Next

\* However a response's graph came about, from one route or from the seeds of
\* many results, it is the ball around them: the entities within max_depth
\* relations of one, and every relation met on the way (traverse, _merge,
\* expand_entities and find_api_chain), for an index of any shape.
THEOREM GraphsAreExact == Spec => []GraphExact
<1>1. Init => GraphInv
  BY AskedInit DEF Init, GraphInv
<1>2. GraphInv => GraphExact
  <2>1. SUFFICES ASSUME GraphInv, graph # EmptyGraph
                 PROVE  GraphExact
    BY DEF GraphExact
  <2>2. request.depth \in Nat
    BY <2>1 DEF GraphInv, Asked, Requests
  <2>3. graph = [nodes |-> {f \in index.entities : \E s \in Seeds : f \in Ball(s, request.depth)},
                 edges |-> {r \in index.relations : \E s \in Seeds : r \in BallEdges(s, request.depth)}]
    BY <2>1, <2>2, Expanded DEF GraphInv
  <2>4. graph.nodes = {e \in index.entities : \E s \in Seeds : Within(s, e, request.depth)}
    BY <2>3 DEF Ball
  <2>5. ASSUME NEW s \in Seeds, NEW e, NEW d, Within(s, e, d)
        PROVE  e \in index.entities
    BY <2>5 DEF Within
  <2>6. ASSUME NEW r \in index.relations, NEW s \in Seeds
        PROVE  r \in BallEdges(s, request.depth) <=>
                 /\ r.type \in ChainTypes /\ request.depth > 0
                 /\ \A e \in Ends(r) : Within(s, e, request.depth)
                 /\ \E e \in Ends(r) : Within(s, e, request.depth - 1)
    <3>1. \A d : Ball(s, d) = {e \in index.entities : Within(s, e, d)}
      BY DEF Ball
    <3>2. QED
      BY <2>5, <3>1 DEF BallEdges
  <2>7. graph.edges = {r \in index.relations :
          /\ r.type \in ChainTypes /\ request.depth > 0
          /\ \E s \in Seeds :
               /\ \A e \in Ends(r) : Within(s, e, request.depth)
               /\ \E e \in Ends(r) : Within(s, e, request.depth - 1)}
    BY <2>3, <2>6
  <2>8. QED
    BY <2>4, <2>7 DEF GraphExact
<1>3. QED
  BY <1>1, <1>2, GraphStep, PTL DEF Spec

-----------------------------------------------------------------------------
(* Sorted lists                                                            *)

ByBetter(S) == Ordered(S, Better)
ByNearer(S) == Ordered(S, Nearer)

\* Hits of different entities are sorted without gaps or ties.
LEMMA SortedBetter ==
  ASSUME NEW S, IsFiniteSet(S),
         \A a \in S : a.score \in Int /\ a.entity \in Int,
         \A a, b \in S : a.entity = b.entity => a = b
  PROVE  /\ Cardinality(S) \in Nat
         /\ ByBetter(S) \in [1..Cardinality(S) -> S]
         /\ \A i, j \in 1..Cardinality(S) :
              i < j => Better(ByBetter(S)[i], ByBetter(S)[j])
         /\ \A i, j \in 1..Cardinality(S) : ByBetter(S)[i] = ByBetter(S)[j] => i = j
         /\ \A x \in S : \E i \in 1..Cardinality(S) : ByBetter(S)[i] = x
         /\ \A x \in S :
              /\ Cardinality({y \in S : Better(y, x)}) + 1 \in 1..Cardinality(S)
              /\ ByBetter(S)[Cardinality({y \in S : Better(y, x)}) + 1] = x
<1>1. PICK R : R = {p \in S \X S : Better(p[1], p[2])}
  OBVIOUS
<1>2. \A a, b \in S : <<a, b>> \in R <=> Better(a, b)
  BY <1>1
<1>3. \A x \in S : Before(R, S, x) = {y \in S : Better(y, x)}
  BY <1>2 DEF Before
<1>4. PICK g : g = ByBetter(S)
  OBVIOUS
<1>5. /\ g = [i \in 1..Cardinality(S) |-> g[i]]
      /\ \A i \in 1..Cardinality(S) :
           (\E x \in S : Cardinality(Before(R, S, x)) = i - 1) =>
             g[i] \in S /\ Cardinality(Before(R, S, g[i])) = i - 1
  <2>1. g = [i \in 1..Cardinality(S) |->
              CHOOSE x \in S : Cardinality({y \in S : Better(y, x)}) = i - 1]
    BY <1>4 DEF ByBetter, Ordered
  <2>2. g = [i \in 1..Cardinality(S) |-> g[i]]
    <3> DEFINE e(i) == CHOOSE x \in S : Cardinality({y \in S : Better(y, x)}) = i - 1
    <3>1. g = [i \in 1..Cardinality(S) |-> e(i)]
      BY <2>1
    <3> HIDE DEF e
    <3>2. QED
      BY <3>1
  <2>3. ASSUME NEW i \in 1..Cardinality(S), NEW z \in S,
               Cardinality(Before(R, S, z)) = i - 1
        PROVE  g[i] \in S /\ Cardinality(Before(R, S, g[i])) = i - 1
    <3>1. \E x \in S : Cardinality({y \in S : Better(y, x)}) = i - 1
      BY <1>3, <2>3
    <3>2. g[i] \in S /\ Cardinality({y \in S : Better(y, g[i])}) = i - 1
      BY <2>1, <3>1
    <3>3. QED
      BY <1>3, <3>2
  <2>4. QED
    BY <2>2, <2>3
<1>6. /\ \A x \in S : <<x, x>> \notin R
      /\ \A x, y \in S : x # y => <<x, y>> \in R \/ <<y, x>> \in R
      /\ \A x, y, z \in S : <<x, y>> \in R /\ <<y, z>> \in R => <<x, z>> \in R
  BY <1>2 DEF Better
<1>7. /\ Cardinality(S) \in Nat
      /\ g \in [1..Cardinality(S) -> S]
      /\ \A i, j \in 1..Cardinality(S) : i < j => <<g[i], g[j]>> \in R
      /\ \A i, j \in 1..Cardinality(S) : g[i] = g[j] => i = j
      /\ \A x \in S : /\ Cardinality(Before(R, S, x)) + 1 \in 1..Cardinality(S)
                      /\ g[Cardinality(Before(R, S, x)) + 1] = x
  BY <1>5, <1>6, ListedInOrder
<1>8. QED
  BY <1>2, <1>3, <1>4, <1>7

\* Results of different entities, likewise; how many are nearer is the place.
LEMMA SortedNearer ==
  ASSUME NEW S, IsFiniteSet(S),
         \A a \in S : /\ a.depth \in Int /\ a.score \in Int
                      /\ a.entity \in Int /\ a.seed \in Int,
         \A a, b \in S : a.entity = b.entity => a = b
  PROVE  /\ Cardinality(S) \in Nat
         /\ ByNearer(S) \in [1..Cardinality(S) -> S]
         /\ \A x \in S :
              /\ Cardinality({y \in S : Nearer(y, x)}) + 1 \in 1..Cardinality(S)
              /\ ByNearer(S)[Cardinality({y \in S : Nearer(y, x)}) + 1] = x
<1>1. PICK R : R = {p \in S \X S : Nearer(p[1], p[2])}
  OBVIOUS
<1>2. \A a, b \in S : <<a, b>> \in R <=> Nearer(a, b)
  BY <1>1
<1>3. \A x \in S : Before(R, S, x) = {y \in S : Nearer(y, x)}
  BY <1>2 DEF Before
<1>4. PICK g : g = ByNearer(S)
  OBVIOUS
<1>5. /\ g = [i \in 1..Cardinality(S) |-> g[i]]
      /\ \A i \in 1..Cardinality(S) :
           (\E x \in S : Cardinality(Before(R, S, x)) = i - 1) =>
             g[i] \in S /\ Cardinality(Before(R, S, g[i])) = i - 1
  <2>1. g = [i \in 1..Cardinality(S) |->
              CHOOSE x \in S : Cardinality({y \in S : Nearer(y, x)}) = i - 1]
    BY <1>4 DEF ByNearer, Ordered
  <2>2. g = [i \in 1..Cardinality(S) |-> g[i]]
    <3> DEFINE e(i) == CHOOSE x \in S : Cardinality({y \in S : Nearer(y, x)}) = i - 1
    <3>1. g = [i \in 1..Cardinality(S) |-> e(i)]
      BY <2>1
    <3> HIDE DEF e
    <3>2. QED
      BY <3>1
  <2>3. ASSUME NEW i \in 1..Cardinality(S), NEW z \in S,
               Cardinality(Before(R, S, z)) = i - 1
        PROVE  g[i] \in S /\ Cardinality(Before(R, S, g[i])) = i - 1
    <3>1. \E x \in S : Cardinality({y \in S : Nearer(y, x)}) = i - 1
      BY <1>3, <2>3
    <3>2. g[i] \in S /\ Cardinality({y \in S : Nearer(y, g[i])}) = i - 1
      BY <2>1, <3>1
    <3>3. QED
      BY <1>3, <3>2
  <2>4. QED
    BY <2>2, <2>3
<1>6. /\ \A x \in S : <<x, x>> \notin R
      /\ \A x, y \in S : x # y => <<x, y>> \in R \/ <<y, x>> \in R
      /\ \A x, y, z \in S : <<x, y>> \in R /\ <<y, z>> \in R => <<x, z>> \in R
  <2>1. \A x \in S : ~Nearer(x, x)
    BY DEF Nearer
  <2>2. \A x, y \in S : x # y => Nearer(x, y) \/ Nearer(y, x)
    BY DEF Nearer
  <2>3. \A x, y, z \in S : Nearer(x, y) /\ Nearer(y, z) => Nearer(x, z)
    BY DEF Nearer
  <2>4. QED
    BY <1>2, <2>1, <2>2, <2>3
<1>7. /\ Cardinality(S) \in Nat
      /\ g \in [1..Cardinality(S) -> S]
      /\ \A i, j \in 1..Cardinality(S) : i < j => <<g[i], g[j]>> \in R
      /\ \A i, j \in 1..Cardinality(S) : g[i] = g[j] => i = j
      /\ \A x \in S : /\ Cardinality(Before(R, S, x)) + 1 \in 1..Cardinality(S)
                      /\ g[Cardinality(Before(R, S, x)) + 1] = x
  BY <1>5, <1>6, ListedInOrder
<1>8. QED
  BY <1>3, <1>4, <1>7

\* The first n elements, or all.
LEMMA FirstNType ==
  ASSUME NEW T, NEW s \in Seq(T), NEW n \in Nat
  PROVE  /\ FirstN(s, n) \in Seq(T)
         /\ Len(FirstN(s, n)) = IF n < Len(s) THEN n ELSE Len(s)
         /\ \A i \in 1..Len(FirstN(s, n)) : i \in 1..Len(s) /\ FirstN(s, n)[i] = s[i]
<1>1. PICK m \in Nat : m = (IF n < Len(s) THEN n ELSE Len(s)) /\ m <= Len(s)
  OBVIOUS
<1>2. FirstN(s, n) = SubSeq(s, 1, m)
  BY <1>1 DEF FirstN
<1>3. SubSeq(s, 1, m) \in Seq(T) /\ Len(SubSeq(s, 1, m)) = m
      /\ \A i \in 1..m : SubSeq(s, 1, m)[i] = s[i]
  BY <1>1
<1>4. QED
  BY <1>1, <1>2, <1>3

\* Best takes the best of hits of different entities, and leaves none that is
\* better than one it takes.
LEMMA BestHits ==
  ASSUME NEW S, IsFiniteSet(S), NEW n \in Nat,
         \A a \in S : a.score \in Int /\ a.entity \in Int,
         \A a, b \in S : a.entity = b.entity => a = b
  PROVE  /\ Cardinality(S) \in Nat
         /\ Best(S, n) \in Seq(S)
         /\ Len(Best(S, n)) = IF n < Cardinality(S) THEN n ELSE Cardinality(S)
         /\ \A i, j \in 1..Len(Best(S, n)) : Best(S, n)[i] = Best(S, n)[j] => i = j
         /\ \A i \in 1..Len(Best(S, n)), x \in S :
              \/ \E j \in 1..i : x = Best(S, n)[j]
              \/ Better(Best(S, n)[i], x)
<1>1. /\ Cardinality(S) \in Nat
      /\ ByBetter(S) \in [1..Cardinality(S) -> S]
      /\ \A i, j \in 1..Cardinality(S) : i < j => Better(ByBetter(S)[i], ByBetter(S)[j])
      /\ \A i, j \in 1..Cardinality(S) : ByBetter(S)[i] = ByBetter(S)[j] => i = j
      /\ \A x \in S : \E i \in 1..Cardinality(S) : ByBetter(S)[i] = x
  BY SortedBetter
<1>2. PICK g : g = ByBetter(S)
  OBVIOUS
<1>3. g \in Seq(S) /\ Len(g) = Cardinality(S)
  BY <1>1, <1>2
<1>4. PICK b : b = FirstN(g, n)
  OBVIOUS
<1>5. b = Best(S, n)
  BY <1>2, <1>4 DEF Best, ByBetter
<1>6. /\ b \in Seq(S)
      /\ Len(b) = IF n < Cardinality(S) THEN n ELSE Cardinality(S)
      /\ \A i \in 1..Len(b) : i \in 1..Cardinality(S) /\ b[i] = g[i]
  BY <1>3, <1>4, FirstNType
<1>7. \A i, j \in 1..Len(b) : b[i] = b[j] => i = j
  BY <1>1, <1>2, <1>6
<1>8. ASSUME NEW i \in 1..Len(b), NEW x \in S
      PROVE  (\E j \in 1..i : x = b[j]) \/ Better(b[i], x)
  <2>1. PICK k \in 1..Cardinality(S) : g[k] = x
    BY <1>1, <1>2
  <2>2. i \in Int /\ k \in Int /\ Len(b) \in Nat
    BY <1>1, <1>6
  <2>3. CASE k <= i
    <3>1. k \in 1..i /\ k \in 1..Len(b)
      BY <1>1, <2>2, <2>3
    <3>2. QED
      BY <1>6, <2>1, <3>1
  <2>4. CASE i < k
    BY <1>1, <1>2, <1>6, <2>1, <2>4
  <2>5. QED
    BY <2>2, <2>3, <2>4
<1>9. QED
  BY <1>1, <1>5, <1>6, <1>7, <1>8

-----------------------------------------------------------------------------
(* Terms and scores                                                        *)

\* What a token stands for is a sequence of words, itself the first.
LEMMA CandidatesType ==
  ASSUME NEW token \in Tokens
  PROVE  /\ PathCandidates(token) \in Seq(Words) /\ WordCandidates(token) \in Seq(Words)
         /\ PathCandidates(token) # <<>> /\ PathCandidates(token)[1] = token.text
         /\ WordCandidates(token) # <<>> /\ WordCandidates(token)[1] = token.text
<1> DEFINE segs == token.segments
           pathParts == [i \in DOMAIN segs |-> <<segs[i].text>> \o segs[i].parts]
           wordParts == [i \in DOMAIN segs |->
             (IF Len(segs) > 1 THEN <<segs[i].text>> ELSE <<>>) \o segs[i].parts]
<1>1. segs \in Seq([text : Words, parts : Seq(Words)]) /\ token.text \in Words
  BY DEF Tokens
<1>2. Len(segs) \in Nat /\ DOMAIN segs = 1..Len(segs)
  BY <1>1
<1>3. \A i \in 1..Len(segs) : segs[i].text \in Words /\ segs[i].parts \in Seq(Words)
  <2> HIDE DEF segs
  <2>1. \A i \in 1..Len(segs) : segs[i] \in [text : Words, parts : Seq(Words)]
    <3>1. PICK Q : Q = [text : Words, parts : Seq(Words)]
      OBVIOUS
    <3>2. segs \in Seq(Q)
      BY <1>1, <3>1, Zenon
    <3>3. \A i \in 1..Len(segs) : segs[i] \in Q
      BY <3>2
    <3>4. QED
      BY <3>1, <3>3
  <2>2. \A s \in [text : Words, parts : Seq(Words)] : s.text \in Words /\ s.parts \in Seq(Words)
    OBVIOUS
  <2>3. QED
    BY <2>1, <2>2
<1>4. \A i \in 1..Len(segs) : <<segs[i].text>> \o segs[i].parts \in Seq(Words)
  BY <1>3
<1>5. \A i \in 1..Len(segs) :
        (IF Len(segs) > 1 THEN <<segs[i].text>> ELSE <<>>) \o segs[i].parts \in Seq(Words)
  <2>1. SUFFICES ASSUME NEW i \in 1..Len(segs)
                 PROVE  (IF Len(segs) > 1 THEN <<segs[i].text>> ELSE <<>>)
                          \o segs[i].parts \in Seq(Words)
    OBVIOUS
  <2>2. PICK t, p, h : /\ t = segs[i].text /\ p = segs[i].parts
                       /\ h = IF Len(segs) > 1 THEN <<t>> ELSE <<>>
    OBVIOUS
  <2>3. t \in Words /\ p \in Seq(Words)
    BY <1>3, <2>2
  <2>4. h \in Seq(Words)
    BY <2>2, <2>3
  <2>5. h \o p \in Seq(Words)
    BY <2>3, <2>4
  <2>6. QED
    BY <2>2, <2>5
<1>6. pathParts \in Seq(Seq(Words)) /\ wordParts \in Seq(Seq(Words))
  <2> HIDE DEF segs
  <2>1. QED
    BY <1>2, <1>4, <1>5
<1>7. FlattenSeq(pathParts) \in Seq(Words) /\ FlattenSeq(wordParts) \in Seq(Words)
  <2> HIDE DEF pathParts, wordParts
  <2>1. \A s \in Seq(Seq(Words)) : FlattenSeq(s) \in Seq(Words)
    BY FlattenType, Zenon
  <2>2. QED
    BY <1>6, <2>1
<1>8. /\ PathCandidates(token) = <<token.text>> \o FlattenSeq(pathParts)
      /\ WordCandidates(token) = <<token.text>> \o FlattenSeq(wordParts)
  BY DEF PathCandidates, WordCandidates
<1>9. QED
  <2> HIDE DEF pathParts, wordParts, segs
  <2>1. PICK x, a, b : /\ x = token.text /\ a = FlattenSeq(pathParts)
                       /\ b = FlattenSeq(wordParts)
    OBVIOUS
  <2>2. x \in Words /\ a \in Seq(Words) /\ b \in Seq(Words)
    BY <1>1, <1>7, <2>1
  <2>3. \A c \in Seq(Words) : /\ <<x>> \o c \in Seq(Words)
                              /\ <<x>> \o c # <<>> /\ (<<x>> \o c)[1] = x
    BY <2>2
  <2>4. QED
    BY <1>8, <2>1, <2>2, <2>3

\* What all tokens of a kind stand for is a sequence of words.
LEMMA TokenCandidatesType ==
  ASSUME NEW tokens \in Seq(Tokens), NEW path \in BOOLEAN
  PROVE  TokenCandidates(tokens, path) \in Seq(Words)
<1> DEFINE I == {i \in DOMAIN tokens : tokens[i].path = path}
           chosen == SubSequence(tokens, I)
           parts == [i \in DOMAIN chosen |->
             IF path THEN PathCandidates(chosen[i]) ELSE WordCandidates(chosen[i])]
<1>1. I \in SUBSET DOMAIN tokens
  OBVIOUS
<1>2. chosen \in Seq(Tokens)
  <2> HIDE DEF I
  <2>1. QED
    BY <1>1, SubSequenceType
<1>3. parts \in Seq(Seq(Words))
  <2> HIDE DEF chosen
  <2>1. Len(chosen) \in Nat /\ DOMAIN chosen = 1..Len(chosen)
        /\ \A i \in 1..Len(chosen) : chosen[i] \in Tokens
    BY <1>2
  <2>2. \A i \in 1..Len(chosen) : PathCandidates(chosen[i]) \in Seq(Words)
                                  /\ WordCandidates(chosen[i]) \in Seq(Words)
    BY <2>1, CandidatesType
  <2>3. QED
    BY <2>1, <2>2
<1>4. TokenCandidates(tokens, path) = FlattenSeq(parts)
  BY DEF TokenCandidates
<1>5. \A s \in Seq(Seq(Words)) : FlattenSeq(s) \in Seq(Words)
  BY FlattenType, Zenon
<1>6. QED
  <2> HIDE DEF parts
  <2>1. QED
    BY <1>3, <1>4, <1>5

\* The candidates of a query, and those that are taken.
AllCandidates(q) == TokenCandidates(q.tokens, TRUE) \o TokenCandidates(q.tokens, FALSE)
NewCandidates(all) ==
  {i \in DOMAIN all : /\ all[i] \notin Stopwords
                      /\ \A j \in 1..(i - 1) : all[j] # all[i]}

\* The terms of a query are words.
LEMMA TermsType ==
  ASSUME NEW q, q.whole \in Words, q.tokens \in Seq(Tokens)
  PROVE  Terms(q) \in Seq(Words)
<1>1. PICK all : all = AllCandidates(q)
  OBVIOUS
<1>2. all \in Seq(Words)
  <2>1. TokenCandidates(q.tokens, TRUE) \in Seq(Words)
        /\ TokenCandidates(q.tokens, FALSE) \in Seq(Words)
    BY TokenCandidatesType
  <2>2. PICK a, b : a = TokenCandidates(q.tokens, TRUE) /\ b = TokenCandidates(q.tokens, FALSE)
    OBVIOUS
  <2>3. a \in Seq(Words) /\ b \in Seq(Words)
    BY <2>1, <2>2
  <2>4. all = a \o b
    BY <1>1, <2>2 DEF AllCandidates
  <2>5. QED
    BY <2>3, <2>4
<1>3. PICK new : new = NewCandidates(all)
  OBVIOUS
<1>4. new \in SUBSET DOMAIN all
  BY <1>3 DEF NewCandidates
<1>5. SubSequence(all, new) \in Seq(Words)
  BY <1>2, <1>4, SubSequenceType
<1>6. FirstN(SubSequence(all, new), MaxTerms) \in Seq(Words)
  BY <1>5, FirstNType, LexicalAssumption
<1>7. Terms(q) = IF q.whole \in SafeSymbols THEN <<q.whole>>
                 ELSE FirstN(SubSequence(all, new), MaxTerms)
  BY <1>1, <1>3 DEF Terms, AllCandidates, NewCandidates
<1>8. QED
  BY <1>6, <1>7

\* A field score is a number of hundredths.
LEMMA FieldScoreType ==
  ASSUME NEW e, NEW term
  PROVE  FieldScore(e, term) \in Nat
<1> DEFINE f == Fields[e]
           points == {<<100, term = f.name>>, <<90, term \in f.inQualified>>,
                      <<85, term \in PathTerms
                              /\ term \in f.inMetadata \cup f.inName>>,
                      <<75, term \in f.inName>>, <<60, term \in f.inPath>>,
                      <<40, term \in f.inContent>>}
           S == {0} \cup {p[1] : p \in {q \in points : q[2]}}
<1>1. S \in SUBSET (0..100) /\ S # {}
  OBVIOUS
<1>2. FieldScore(e, term) = Max(S)
  BY DEF FieldScore
<1> HIDE DEF S
<1>3. S \in SUBSET Nat /\ IsFiniteSet(S)
  <2>1. 0 \in Int /\ 100 \in Int /\ \A i \in 0..100 : i \in Nat
    OBVIOUS
  <2>2. IsFiniteSet(0..100)
    BY <2>1, FS_Interval
  <2>3. IsFiniteSet(S)
    BY <1>1, <2>2, FS_Subset
  <2>4. QED
    BY <1>1, <2>1, <2>3
<1>4. PICK m \in S : \A i \in S : i <= m
  BY <1>1, <1>3, LargestExists
<1>5. Max(S) \in S
  BY <1>3, <1>4 DEF Max
<1>6. QED
  BY <1>2, <1>3, <1>5

\* Scores add up to a number.
LEMMA LexicalScoreType ==
  ASSUME NEW e, NEW terms \in Seq(Words)
  PROVE  LexicalScore(e, terms) \in Nat
<1> DEFINE N == Len(terms)
           step == {p \in (1..N) \X Nat \X Nat : p[3] = p[2] + TermScore(e, terms[p[1]])}
           sum[n \in 0..N] == IF n = 0 THEN 0 ELSE sum[n - 1] + TermScore(e, terms[n])
<1>1. N \in Nat
  OBVIOUS
<1>2. \A n \in 1..N : TermScore(e, terms[n]) \in Nat
  BY FieldScoreType DEF TermScore, Weight
<1>3. \A n \in 1..N, x \in Nat : \E y \in Nat : <<n, x, y>> \in step
  <2>1. SUFFICES ASSUME NEW n \in 1..N, NEW x \in Nat
                 PROVE  \E y \in Nat : <<n, x, y>> \in step
    OBVIOUS
  <2>2. x + TermScore(e, terms[n]) \in Nat
    BY <1>2
  <2> HIDE DEF N
  <2>3. QED
    BY <2>2
<1>4. PICK g \in [0..N -> Nat] :
        g[0] = 0 /\ \A n \in 1..N : <<n, g[n - 1], g[n]>> \in step
  <2> HIDE DEF N, step
  <2>1. 0 \in Nat /\ GoesOn(step, Nat, N)
    BY <1>3 DEF GoesOn
  <2>2. Followed(step, Nat, N, 0)
    BY <1>1, <2>1, RecursionExists
  <2>3. QED
    BY <2>2 DEF Followed
<1>5. g = [n \in 0..N |-> IF n = 0 THEN 0 ELSE g[n - 1] + TermScore(e, terms[n])]
  <2>1. \A n \in 1..N : g[n] = g[n - 1] + TermScore(e, terms[n])
    BY <1>4
  <2>2. \A n \in 0..N : n # 0 => n \in 1..N
    BY <1>1
  <2> HIDE DEF N, step
  <2>3. QED
    BY <1>4, <2>1, <2>2
<1>6. sum = [n \in 0..N |-> IF n = 0 THEN 0 ELSE sum[n - 1] + TermScore(e, terms[n])]
  <2> HIDE DEF N
  <2>1. QED
    BY <1>5
<1>7. \A n \in 0..N : sum[n] = IF n = 0 THEN 0 ELSE sum[n - 1] + TermScore(e, terms[n])
  <2> HIDE DEF N, sum
  <2>1. QED
    BY <1>6
<1>8. \A n \in Nat : n \in 0..N => sum[n] \in Nat
  <2> DEFINE U == {n \in Nat : n \in 0..N => sum[n] \in Nat}
  <2>1. 0 \in U
    <3> HIDE DEF sum
    <3>1. QED
      BY <1>1, <1>7
  <2>2. ASSUME NEW n \in Nat, n \in U
        PROVE  n + 1 \in U
    <3> HIDE DEF sum
    <3>1. SUFFICES ASSUME n + 1 \in 0..N
                   PROVE  sum[n + 1] \in Nat
      OBVIOUS
    <3>2. n \in 0..N /\ n + 1 \in 1..N /\ (n + 1) - 1 = n /\ n + 1 # 0
      BY <1>1, <3>1
    <3>3. sum[n] \in Nat /\ sum[n + 1] = sum[n] + TermScore(e, terms[n + 1])
      BY <1>7, <2>2, <3>1, <3>2
    <3>4. QED
      BY <1>2, <3>2, <3>3
  <2>3. \A n \in Nat : n \in U
    <3> HIDE DEF U
    <3>1. QED
      BY <2>1, <2>2, NatSetInduction
  <2> HIDE DEF sum, N
  <2>4. QED
    BY <2>3
<1>9. LexicalScore(e, terms) = IF N = 1 THEN FieldScore(e, terms[1]) ELSE sum[N]
  BY DEF LexicalScore
<1>10. N \in 0..N
  BY <1>1
<1>11. QED
  <2> HIDE DEF sum, N
  <2>1. QED
    BY <1>1, <1>8, <1>9, <1>10, FieldScoreType

-----------------------------------------------------------------------------
(* Lists of hits                                                           *)

HitSources == {"vector", "keyword", "hybrid", "fused", "keyword_fallback",
               "vector_fallback"}
HitRecords == [entity : EntityIds, score : Int, source : HitSources,
               uncertain : SUBSET {"vector", "keyword"}]

\* Hits of different entities.
HitList(list) ==
  /\ list \in Seq(HitRecords)
  /\ \A i, j \in 1..Len(list) : list[i].entity = list[j].entity => i = j

\* The best of one hit for every entity of E.
LEMMA BestOf ==
  ASSUME NEW E \in SUBSET EntityIds, IsFiniteSet(E), NEW f \in [E -> Int],
         NEW src \in HitSources, NEW n \in Nat,
         NEW S,
         \A e \in E : Hit(e, f[e], src) \in S,
         \A h \in S : h.entity \in E /\ h = Hit(h.entity, f[h.entity], src),
         NEW list, list = Best(S, n)
  PROVE  /\ HitList(list)
         /\ Cardinality(E) \in Nat
         /\ Len(list) = IF n < Cardinality(E) THEN n ELSE Cardinality(E)
         /\ \A i \in 1..Len(list) :
              list[i].entity \in E /\ list[i].score = f[list[i].entity]
         /\ \A i \in 1..Len(list), e \in E :
              (\E j \in 1..i : list[j].entity = e) \/ f[list[i].entity] >= f[e]
<1>1. PICK g : g = [e \in E |-> Hit(e, f[e], src)]
  OBVIOUS
<1>2. \A e \in E : f[e] \in Int /\ e \in EntityIds
  OBVIOUS
<1>3. \A e \in E : g[e].entity = e /\ g[e].score = f[e] /\ g[e] \in HitRecords /\ g[e] \in S
  BY <1>1, <1>2 DEF Hit, HitRecords
<1>4. \A h \in S : h.entity \in E /\ h = g[h.entity] /\ h.score = f[h.entity] /\ h \in HitRecords
  <2>1. \A h \in S : h.entity \in E /\ h = g[h.entity]
    BY <1>1
  <2>2. QED
    BY <1>3, <2>1
<1>5. g \in Surjection(E, S) /\ g \in Injection(E, S)
  BY <1>1, <1>3, <1>4 DEF Surjection, Injection, IsInjective
<1>6. IsFiniteSet(S) /\ Cardinality(S) = Cardinality(E)
  BY <1>5, FS_Surjection
<1>7. /\ \A a \in S : a.score \in Int /\ a.entity \in Int
      /\ \A a, b \in S : a.entity = b.entity => a = b
  <2>1. EntityIds \in SUBSET Nat
    BY AnswersAssumption
  <2>2. \A a \in HitRecords : a.score \in Int
    BY DEF HitRecords
  <2>3. \A a \in S : a.score \in Int
    BY <1>4, <2>2
  <2>4. \A a \in S : a.entity \in Int
    <3>1. \A e \in E : e \in Int
      BY <1>2, <2>1
    <3>2. QED
      BY <1>4, <3>1
  <2>5. \A a, b \in S : a.entity = b.entity => a = b
    <3>1. SUFFICES ASSUME NEW a \in S, NEW b \in S, a.entity = b.entity
                   PROVE  a = b
      OBVIOUS
    <3>2. a = g[a.entity] /\ b = g[b.entity]
      BY <1>4
    <3>3. QED
      BY <3>1, <3>2
  <2>6. QED
    BY <2>3, <2>4, <2>5
<1>8. /\ Cardinality(S) \in Nat
      /\ list \in Seq(S)
      /\ Len(list) = IF n < Cardinality(S) THEN n ELSE Cardinality(S)
      /\ \A i, j \in 1..Len(list) : list[i] = list[j] => i = j
      /\ \A i \in 1..Len(list), x \in S :
           (\E j \in 1..i : x = list[j]) \/ Better(list[i], x)
  <2>1. list = Best(S, n)
    OBVIOUS
  <2>2. /\ Cardinality(S) \in Nat
        /\ Best(S, n) \in Seq(S)
        /\ Len(Best(S, n)) = IF n < Cardinality(S) THEN n ELSE Cardinality(S)
        /\ \A i, j \in 1..Len(Best(S, n)) : Best(S, n)[i] = Best(S, n)[j] => i = j
        /\ \A i \in 1..Len(Best(S, n)), x \in S :
             \/ \E j \in 1..i : x = Best(S, n)[j]
             \/ Better(Best(S, n)[i], x)
    BY ONLY <1>6, <1>7, n \in Nat, BestHits
  <2>3. QED
    BY <2>1, <2>2
<1>9. \A i \in 1..Len(list) : list[i] \in S
  BY <1>8
<1>10. HitList(list)
  <2>1. list \in Seq(HitRecords)
    <3>1. \A i \in 1..Len(list) : list[i] \in HitRecords
      BY <1>4, <1>9
    <3>2. QED
      BY <1>8, <3>1
  <2>2. \A i, j \in 1..Len(list) : list[i].entity = list[j].entity => i = j
    BY <1>7, <1>8, <1>9
  <2>3. QED
    BY <2>1, <2>2 DEF HitList
<1>11. ASSUME NEW i \in 1..Len(list), NEW e \in E
       PROVE  (\E j \in 1..i : list[j].entity = e) \/ f[list[i].entity] >= f[e]
  <2>1. g[e] \in S /\ g[e].entity = e /\ g[e].score = f[e]
    BY <1>3
  <2>2. CASE \E j \in 1..i : g[e] = list[j]
    BY <2>1, <2>2
  <2>3. CASE Better(list[i], g[e])
    <3>1. list[i].score = f[list[i].entity] /\ list[i].entity \in E
      BY <1>4, <1>9
    <3>2. list[i].score >= g[e].score
      BY <1>7, <1>9, <2>1, <2>3 DEF Better
    <3>3. QED
      BY <2>1, <3>1, <3>2
  <2>4. QED
    BY <1>8, <2>1, <2>2, <2>3
<1>12. QED
  BY <1>4, <1>6, <1>8, <1>9, <1>10, <1>11

\* What search scores an entity with.
KeywordScore(entities, q, e) ==
  LET terms == Terms(q)
      structured == Len(terms) > 1 /\ terms[1] = q.whole
      Complete(x) == LexicalScore(x, <<terms[1]>>)
  IN IF terms = <<>> THEN 0
     ELSE IF ~structured THEN LexicalScore(e, terms)
     ELSE IF \E x \in entities : Complete(x) > 0 THEN Complete(e)
     ELSE LexicalScore(e, Tail(terms))

KeywordFound(entities, q) == {x \in entities : KeywordScore(entities, q, x) > 0}

\* Every way search counts an entity gives a number.
LEMMA KeywordScoreType ==
  ASSUME NEW entities, NEW q, q.whole \in Words, q.tokens \in Seq(Tokens), NEW e
  PROVE  KeywordScore(entities, q, e) \in Nat
<1>1. PICK terms : terms = Terms(q)
  OBVIOUS
<1>2. terms \in Seq(Words)
  BY <1>1, TermsType
<1>3. terms # <<>> => /\ <<terms[1]>> \in Seq(Words) /\ Tail(terms) \in Seq(Words)
  BY <1>2
<1>4. LexicalScore(e, terms) \in Nat
  BY <1>2, LexicalScoreType
<1>5. terms # <<>> => /\ LexicalScore(e, <<terms[1]>>) \in Nat
                      /\ LexicalScore(e, Tail(terms)) \in Nat
  BY <1>3, LexicalScoreType
<1>6. QED
  BY <1>1, <1>4, <1>5 DEF KeywordScore

\* The hits of the keyword search.
LEMMA KeywordList ==
  ASSUME NEW entities \in SUBSET EntityIds, IsFiniteSet(entities),
         NEW q, q.whole \in Words, q.tokens \in Seq(Tokens), NEW n \in Nat
  PROVE  /\ HitList(KeywordHits(entities, q, n))
         /\ Len(KeywordHits(entities, q, n)) <= n
         /\ \A i \in 1..Len(KeywordHits(entities, q, n)) :
              /\ KeywordHits(entities, q, n)[i].entity \in KeywordFound(entities, q)
<1>1. PICK E : E = KeywordFound(entities, q)
  OBVIOUS
<1>2. E \in SUBSET entities /\ E \in SUBSET EntityIds /\ IsFiniteSet(E)
  <2>1. E \in SUBSET entities
    BY <1>1 DEF KeywordFound
  <2>2. QED
    BY <2>1, FS_Subset
<1>3. PICK f : f = [e \in E |-> KeywordScore(entities, q, e)]
  OBVIOUS
<1>4. f \in [E -> Int]
  <2>1. \A e \in E : KeywordScore(entities, q, e) \in Nat
    BY KeywordScoreType
  <2>2. QED
    BY <1>3, <2>1
<1>5. PICK list : list = KeywordHits(entities, q, n)
  OBVIOUS
<1>6. PICK S : S = {Hit(e, KeywordScore(entities, q, e), "keyword") : e \in E}
  OBVIOUS
<1>7. /\ list = Best(S, n)
      /\ \A e \in E : Hit(e, f[e], "keyword") \in S
      /\ \A h \in S : h.entity \in E /\ h = Hit(h.entity, f[h.entity], "keyword")
  <2>1. list = Best(S, n)
    BY <1>1, <1>5, <1>6 DEF KeywordHits, KeywordScore, KeywordFound
  <2>2. \A e \in E : f[e] = KeywordScore(entities, q, e)
    BY <1>3
  <2>3. \A e, s : Hit(e, s, "keyword").entity = e
    BY DEF Hit
  <2>4. QED
    BY <1>6, <2>1, <2>2, <2>3
<1>8. /\ HitList(list)
      /\ Cardinality(E) \in Nat
      /\ Len(list) = IF n < Cardinality(E) THEN n ELSE Cardinality(E)
      /\ \A i \in 1..Len(list) :
           list[i].entity \in E /\ list[i].score = f[list[i].entity]
      /\ \A i \in 1..Len(list), e \in E :
           (\E j \in 1..i : list[j].entity = e) \/ f[list[i].entity] >= f[e]
  <2>1. PICK src : src = "keyword" /\ src \in HitSources
    BY DEF HitSources
  <2>2. /\ \A e \in E : Hit(e, f[e], src) \in S
        /\ \A h \in S : h.entity \in E /\ h = Hit(h.entity, f[h.entity], src)
    BY <1>7, <2>1
  <2>3. QED
    BY ONLY <1>2, <1>4, <1>7, <2>1, <2>2, n \in Nat, BestOf
<1>9. QED
  BY <1>1, <1>5, <1>8

\* The entities of a list are as many as its hits.
LEMMA IdsFinite ==
  ASSUME NEW list, HitList(list)
  PROVE  /\ Ids(list) \in SUBSET EntityIds /\ IsFiniteSet(Ids(list))
         /\ Cardinality(Ids(list)) = Len(list)
         /\ \A i \in 1..Len(list) : list[i].entity \in Ids(list) /\ list[i].score \in Int
<1>1. Len(list) \in Nat /\ DOMAIN list = 1..Len(list)
      /\ \A i \in 1..Len(list) : list[i] \in HitRecords
  BY DEF HitList
<1>2. \A h \in HitRecords : h.entity \in EntityIds /\ h.score \in Int
  BY DEF HitRecords
<1>3. PICK g : g = [i \in 1..Len(list) |-> list[i].entity]
  OBVIOUS
<1>4. g \in Surjection(1..Len(list), Ids(list)) /\ g \in Injection(1..Len(list), Ids(list))
  BY <1>1, <1>3 DEF Surjection, Injection, IsInjective, Ids, HitList
<1>5. IsFiniteSet(1..Len(list)) /\ Cardinality(1..Len(list)) = Len(list)
  <2>1. PICK n \in Nat : n = Len(list)
    BY <1>1
  <2>2. 1 \in Int /\ n \in Int
    OBVIOUS
  <2>3. IsFiniteSet(1..n) /\ Cardinality(1..n) = IF 1 > n THEN 0 ELSE n - 1 + 1
    BY <2>2, FS_Interval
  <2>4. QED
    BY <2>1, <2>3
<1>6. IsFiniteSet(Ids(list)) /\ Cardinality(Ids(list)) = Len(list)
  BY <1>4, <1>5, FS_Surjection
<1>7. QED
  BY <1>1, <1>2, <1>6 DEF Ids

\* What fuse_search_hits divides by is never zero.
LEMMA MaximumType ==
  ASSUME NEW list, HitList(list)
  PROVE  Maximum(list) \in Int /\ Maximum(list) >= 1
<1>1. PICK S : S = {1} \cup {list[i].score : i \in DOMAIN list}
  OBVIOUS
<1>2. DOMAIN list = 1..Len(list) /\ Len(list) \in Nat
      /\ \A i \in 1..Len(list) : list[i].score \in Int
  BY IdsFinite DEF HitList
<1>3. S \in SUBSET Int /\ 1 \in S
  BY <1>1, <1>2
<1>4. IsFiniteSet(S)
  <2>1. PICK g : g = [i \in 0..Len(list) |-> IF i = 0 THEN 1 ELSE list[i].score]
    OBVIOUS
  <2>2. \A i \in 1..Len(list) : i \in 0..Len(list) /\ i # 0
    BY <1>2
  <2>3. 0 \in 0..Len(list) /\ \A i \in 0..Len(list) : i = 0 \/ i \in 1..Len(list)
    BY <1>2
  <2>4. g \in Surjection(0..Len(list), S)
    <3>1. g \in [0..Len(list) -> S]
      BY <1>1, <1>2, <2>1, <2>3
    <3>2. \A x \in S : \E i \in 0..Len(list) : g[i] = x
      BY <1>1, <1>2, <2>1, <2>2, <2>3
    <3>3. QED
      BY <3>1, <3>2 DEF Surjection
  <2>5. IsFiniteSet(0..Len(list))
    <3>1. 0 \in Int /\ Len(list) \in Int
      BY <1>2
    <3>2. QED
      BY <3>1, FS_Interval
  <2>6. QED
    BY <2>4, <2>5, FS_Surjection
<1>5. PICK P : P = S \cap Nat
  OBVIOUS
<1>6. P \in SUBSET Nat /\ P # {} /\ IsFiniteSet(P)
  <2>1. P \in SUBSET S
    BY <1>5
  <2>2. QED
    BY <1>3, <1>4, <1>5, <2>1, FS_Subset
<1>7. PICK m \in P : \A i \in P : i <= m
  BY <1>6, LargestExists
<1>8. \A i \in S : m >= i
  BY <1>3, <1>5, <1>7
<1>9. m \in S
  BY <1>5
<1>10. Maximum(list) = CHOOSE x \in S : \A y \in S : x >= y
  BY <1>1 DEF Maximum, Max
<1>11. Maximum(list) \in S /\ \A y \in S : Maximum(list) >= y
  BY <1>8, <1>9, <1>10
<1>12. QED
  BY <1>3, <1>11

\* An entity's score in a branch is a number, 0 where it is not returned.
LEMMA ScoreInType ==
  ASSUME NEW list, HitList(list), NEW e
  PROVE  ScoreIn(list, e) \in Nat
<1>1. CASE e \in Ids(list)
  <2>1. PICK i : i = CHOOSE j \in DOMAIN list : list[j].entity = e
    OBVIOUS
  <2>2. i \in DOMAIN list
    BY <1>1, <2>1 DEF Ids
  <2>3. list[i].score \in Int
    BY <2>2, IdsFinite DEF HitList
  <2>4. ScoreIn(list, e) = Positive(list[i].score)
    BY <1>1, <2>1 DEF ScoreIn
  <2>5. QED
    BY <2>3, <2>4 DEF Positive
<1>2. CASE e \notin Ids(list)
  BY <1>2 DEF ScoreIn
<1>3. QED
  BY <1>1, <1>2

FusedScore(v, k, e) == 3 * ScoreIn(v, e) * Maximum(k) + ScoreIn(k, e) * Maximum(v)

\* The hits of two branches together.
LEMMA FusedList ==
  ASSUME NEW v, HitList(v), NEW k, HitList(k), NEW n \in Nat,
         NEW list, list = Fuse(v, k, n)
  PROVE  /\ HitList(list)
         /\ Cardinality(Ids(v) \cup Ids(k)) \in Nat
         /\ Len(list) = IF n < Cardinality(Ids(v) \cup Ids(k)) THEN n
                        ELSE Cardinality(Ids(v) \cup Ids(k))
         /\ \A i \in 1..Len(list) : list[i].entity \in Ids(v) \cup Ids(k)
         /\ \A e : FusedScore(v, k, e) \in Int
         /\ \A i \in 1..Len(list), e \in Ids(v) \cup Ids(k) :
              \/ \E j \in 1..i : list[j].entity = e
              \/ FusedScore(v, k, list[i].entity) >= FusedScore(v, k, e)
<1>1. PICK E : E = Ids(v) \cup Ids(k)
  OBVIOUS
<1>2. E \in SUBSET EntityIds /\ IsFiniteSet(E)
  BY <1>1, IdsFinite, FS_Union
<1>3. \A e : FusedScore(v, k, e) \in Int
  <2>1. SUFFICES ASSUME NEW e PROVE FusedScore(v, k, e) \in Int
    OBVIOUS
  <2>2. PICK a, b, c, d : /\ a = ScoreIn(v, e) /\ b = Maximum(k)
                          /\ c = ScoreIn(k, e) /\ d = Maximum(v)
    OBVIOUS
  <2>3. a \in Int /\ b \in Int /\ c \in Int /\ d \in Int
    BY <2>2, ScoreInType, MaximumType
  <2>4. 3 * a * b + c * d \in Int
    BY <2>3
  <2>5. QED
    BY <2>2, <2>4 DEF FusedScore
<1>4. PICK f : f = [e \in E |-> FusedScore(v, k, e)]
  OBVIOUS
<1>5. f \in [E -> Int]
  BY <1>3, <1>4
<1>50. \A e \in E : f[e] = FusedScore(v, k, e)
  BY <1>4
<1>6. PICK S : S = {Hit(e, FusedScore(v, k, e), "hybrid") : e \in E}
  OBVIOUS
<1>7. list = Best(S, n)
  BY <1>1, <1>6 DEF Fuse, FusedScore
<1>8. PICK src : src = "hybrid" /\ src \in HitSources
  BY DEF HitSources
<1>9. /\ \A e \in E : Hit(e, f[e], src) \in S
      /\ \A h \in S : h.entity \in E /\ h = Hit(h.entity, f[h.entity], src)
  <2>1. \A e, s : Hit(e, s, src).entity = e
    BY DEF Hit
  <2>2. QED
    BY <1>50, <1>6, <1>8, <2>1
<1>10. /\ HitList(list)
       /\ Cardinality(E) \in Nat
       /\ Len(list) = IF n < Cardinality(E) THEN n ELSE Cardinality(E)
       /\ \A i \in 1..Len(list) :
            list[i].entity \in E /\ list[i].score = f[list[i].entity]
       /\ \A i \in 1..Len(list), e \in E :
            (\E j \in 1..i : list[j].entity = e) \/ f[list[i].entity] >= f[e]
  BY ONLY <1>2, <1>5, <1>7, <1>8, <1>9, n \in Nat, BestOf
<1>11. QED
  BY <1>1, <1>3, <1>50, <1>10

\* The hits of one branch, marked.
Marks(marked, list, src, notice) ==
  \A i \in 1..Len(marked) : /\ marked[i].entity = list[i].entity
                             /\ marked[i].score = list[i].score
                             /\ marked[i].source = src
                             /\ notice \in marked[i].uncertain

\* They are the first n of the list.
LEMMA MarkedList ==
  ASSUME NEW list, HitList(list), NEW n \in Nat, NEW src \in HitSources,
         NEW notice \in {"vector", "keyword"},
         NEW marked, marked = Degraded(list, n, src, notice)
  PROVE  /\ HitList(marked)
         /\ Len(marked) = IF n < Len(list) THEN n ELSE Len(list)
         /\ Marks(marked, list, src, notice)
<1>1. PICK m \in Nat : m = Len(FirstN(list, n)) /\ m <= Len(list)
                       /\ m = IF n < Len(list) THEN n ELSE Len(list)
  BY FirstNType DEF HitList
<1>2. marked = [i \in 1..m |->
         [list[i] EXCEPT !.source = src, !.uncertain = @ \cup {notice}]]
  BY <1>1 DEF Degraded
<1>3. \A i \in 1..m : i \in 1..Len(list) /\ list[i] \in HitRecords
  BY <1>1 DEF HitList
<1> DEFINE mark(h) == [h EXCEPT !.source = src, !.uncertain = @ \cup {notice}]
<1>4. \A h \in HitRecords :
        /\ mark(h) \in HitRecords /\ mark(h).entity = h.entity /\ mark(h).score = h.score
        /\ mark(h).source = src /\ notice \in mark(h).uncertain
  BY DEF HitRecords
<1>40. marked = [i \in 1..m |-> mark(list[i])]
  BY <1>2
<1> HIDE DEF mark
<1>5. \A i \in 1..m : /\ marked[i] \in HitRecords
                      /\ marked[i].entity = list[i].entity
                      /\ marked[i].score = list[i].score
                      /\ marked[i].source = src /\ notice \in marked[i].uncertain
  BY <1>3, <1>4, <1>40
<1>6. marked \in Seq(HitRecords) /\ Len(marked) = m
  BY <1>40, <1>5
<1>7. \A i, j \in 1..m : marked[i].entity = marked[j].entity => i = j
  BY <1>3, <1>5 DEF HitList
<1>8. HitList(marked)
  BY ONLY <1>6, <1>7 DEF HitList
<1>9. Marks(marked, list, src, notice)
  BY ONLY <1>5, <1>6 DEF Marks
<1>10. QED
  BY <1>1, <1>6, <1>8, <1>9

-----------------------------------------------------------------------------
(* The evidence around a hit                                               *)

\* Balls grow.
LEMMA BallGrows ==
  ASSUME NEW s, NEW m \in Nat, NEW n \in Nat, m <= n
  PROVE  Ball(s, m) \subseteq Ball(s, n)
<1>1. 0..m \subseteq 0..n
  OBVIOUS
<1>2. QED
  BY <1>1 DEF Ball, Within

\* What the search through a traversed graph reaches in d steps is what the
\* index holds within d relations.
LEMMA ExpansionStep ==
  ASSUME NEW s \in index.entities, NEW N \in Nat, NEW d \in 1..N
  PROVE  LET near == {r \in BallEdges(s, N) : Ends(r) \cap Ball(s, d - 1) # {}}
         IN Ball(s, d - 1) \cup (EndsOf(near) \cap Ball(s, N)) = Ball(s, d)
<1> DEFINE near == {r \in BallEdges(s, N) : Ends(r) \cap Ball(s, d - 1) # {}}
<1>1. /\ d - 1 \in Nat /\ N - 1 \in Nat /\ d \in Nat /\ (d - 1) + 1 = d
      /\ d <= N /\ d - 1 <= N - 1 /\ d - 1 <= d /\ N > 0
  OBVIOUS
<1>2. /\ Ball(s, d - 1) \subseteq Ball(s, N - 1) /\ Ball(s, d) \subseteq Ball(s, N)
      /\ Ball(s, d - 1) \subseteq Ball(s, d)
  BY <1>1, BallGrows
<1>3. Ball(s, d) = Ball(s, d - 1) \cup
        {f \in index.entities : \E g \in Ball(s, d - 1) : Linked(g, f)}
  <2>1. PICK m \in Nat : m = d - 1 /\ m + 1 = d
    BY <1>1
  <2>2. Ball(s, m + 1) = Ball(s, m) \cup
          {f \in index.entities : \E g \in Ball(s, m) : Linked(g, f)}
    BY BallStep
  <2>3. QED
    BY <2>1, <2>2
<1>4. \A r : Ends(r) = {r.source, r.target}
  BY DEF Ends
<1>5. \A f : f \in EndsOf(near) <=> \E r \in near : f \in Ends(r)
  BY DEF EndsOf
<1>6. ASSUME NEW f \in EndsOf(near) \cap Ball(s, N)
      PROVE  f \in Ball(s, d)
  <2>1. PICK r \in near : f \in Ends(r)
    BY <1>5, <1>6
  <2>2. PICK g \in Ends(r) : g \in Ball(s, d - 1)
    OBVIOUS
  <2>3. CASE f = g
    BY <1>2, <2>2, <2>3
  <2>4. CASE f # g
    <3>1. Ends(r) = {g, f}
      BY <1>4, <2>1, <2>2, <2>4
    <3>2. r \in index.relations /\ r.type \in ChainTypes
      BY DEF BallEdges
    <3>3. Linked(g, f) /\ f \in index.entities
      BY <1>6, <3>1, <3>2 DEF Linked, Ball
    <3>4. QED
      BY <1>3, <2>2, <3>3
  <2>5. QED
    BY <2>3, <2>4
<1>7. ASSUME NEW f \in Ball(s, d), f \notin Ball(s, d - 1)
      PROVE  f \in EndsOf(near) \cap Ball(s, N)
  <2>1. PICK g \in Ball(s, d - 1) : Linked(g, f)
    BY <1>3, <1>7
  <2>2. PICK r \in index.relations : r.type \in ChainTypes /\ Ends(r) = {g, f}
    BY <2>1 DEF Linked
  <2>3. g \in Ball(s, N) /\ f \in Ball(s, N) /\ g \in Ball(s, N - 1)
    BY <1>2
  <2>4. r \in BallEdges(s, N)
    BY <1>1, <2>2, <2>3 DEF BallEdges
  <2>5. r \in near /\ f \in Ends(r)
    BY <2>2, <2>4
  <2>6. QED
    BY <1>5, <2>3, <2>5
<1> HIDE DEF near
<1>8. Ball(s, d - 1) \cup (EndsOf(near) \cap Ball(s, N)) = Ball(s, d)
  BY <1>2, <1>6, <1>7
<1>9. QED
  BY <1>8 DEF near

\* How many relations e is away from s, up to N.
Distance(s, e, N) == Min({d \in 0..N : e \in Ball(s, d)})

\* _expand finds every entity of the traversed graph at its least distance.
LEMMA ExpansionExact ==
  ASSUME NEW hit, hit.entity \in index.entities, NEW N \in Nat
  PROVE  Expansion(hit, Traverse(index, hit.entity, N), N) =
           {Result(e, hit.score, Distance(hit.entity, e, N), hit.entity, hit.uncertain) :
              e \in Ball(hit.entity, N) \ {hit.entity}}
<1>1. PICK s : s = hit.entity
  OBVIOUS
<1>2. s \in index.entities
  BY <1>1
<1>3. PICK graph0 : graph0 = Traverse(index, s, N)
  OBVIOUS
<1>4. graph0.nodes = Ball(s, N) /\ graph0.edges = BallEdges(s, N)
  BY <1>2, <1>3, Traversed
<1> DEFINE go(x) == LET near == {r \in graph0.edges : Ends(r) \cap x # {}}
                    IN x \cup (EndsOf(near) \cap graph0.nodes)
           level[d \in 0..N] == IF d = 0 THEN {s} ELSE go(level[d - 1])
           balls == [d \in 0..N |-> Ball(s, d)]
<1>5. \A d \in 1..N : go(Ball(s, d - 1)) = Ball(s, d)
  BY <1>2, <1>4, ExpansionStep
<1>6. Ball(s, 0) = {s}
  BY <1>2, BallZero
<1>7. \A d \in 0..N : d # 0 => d \in 1..N /\ d - 1 \in 0..N
  OBVIOUS
<1> HIDE DEF go
<1>8. balls = [d \in 0..N |-> IF d = 0 THEN {s} ELSE go(balls[d - 1])]
  BY <1>5, <1>6, <1>7
<1>9. level = [d \in 0..N |-> IF d = 0 THEN {s} ELSE go(level[d - 1])]
  <2> HIDE DEF balls
  <2>1. QED
    BY <1>8
<1>10. \A d \in 0..N : level[d] = IF d = 0 THEN {s} ELSE go(level[d - 1])
  <2> HIDE DEF level
  <2>1. QED
    BY <1>9
<1>11. \A d \in 0..N : level[d] = Ball(s, d)
  <2> DEFINE U == {d \in Nat : d \in 0..N => level[d] = Ball(s, d)}
  <2> HIDE DEF level
  <2>1. 0 \in U
    BY <1>6, <1>10
  <2>2. ASSUME NEW d \in Nat, d \in U
        PROVE  d + 1 \in U
    <3>1. SUFFICES ASSUME d + 1 \in 0..N
                   PROVE  level[d + 1] = Ball(s, d + 1)
      OBVIOUS
    <3>2. d \in 0..N /\ d + 1 \in 1..N /\ (d + 1) - 1 = d /\ d + 1 # 0
      BY <3>1
    <3>3. level[d] = Ball(s, d) /\ level[d + 1] = go(level[d])
      BY <1>10, <2>2, <3>1, <3>2
    <3>4. go(Ball(s, d)) = Ball(s, d + 1)
      <4>1. PICK m \in 1..N : m = d + 1 /\ m - 1 = d
        BY <3>2
      <4>2. go(Ball(s, m - 1)) = Ball(s, m)
        BY <1>5
      <4>3. QED
        BY <4>1, <4>2
    <3>5. QED
      BY <3>3, <3>4
  <2>3. \A d \in Nat : d \in U
    <3> HIDE DEF U
    <3>1. QED
      BY <2>1, <2>2, NatSetInduction
  <2>4. QED
    BY <2>3
<1>12. Expansion(hit, graph0, N) =
         {Result(e, hit.score, Min({d \in 0..N : e \in level[d]}), s, hit.uncertain) :
            e \in level[N] \ {s}}
  BY <1>1 DEF Expansion, go
<1>13. N \in 0..N
  OBVIOUS
<1>14. \A e : {d \in 0..N : e \in level[d]} = {d \in 0..N : e \in Ball(s, d)}
  <2> HIDE DEF level
  <2>1. QED
    BY <1>11
<1>15. QED
  <2> HIDE DEF level
  <2>1. level[N] = Ball(s, N)
    BY <1>11, <1>13
  <2>2. \A e : Min({d \in 0..N : e \in level[d]}) = Distance(s, e, N)
    BY <1>14 DEF Distance
  <2>3. Expansion(hit, graph0, N) =
          {Result(e, hit.score, Distance(s, e, N), s, hit.uncertain) : e \in Ball(s, N) \ {s}}
    BY <1>12, <2>1, <2>2
  <2>4. QED
    BY <1>1, <1>3, <2>3

\* The distance is at least 1 and the least.
LEMMA DistanceLeast ==
  ASSUME NEW s, s \in index.entities, NEW N \in Nat, NEW e, e \in Ball(s, N)
  PROVE  /\ Distance(s, e, N) \in 0..N
         /\ e \in Ball(s, Distance(s, e, N))
         /\ \A d \in 0..N : e \in Ball(s, d) => Distance(s, e, N) <= d
         /\ e # s => Distance(s, e, N) >= 1
<1>1. PICK S : S = {d \in 0..N : e \in Ball(s, d)}
  OBVIOUS
<1>2. S \in SUBSET Nat /\ N \in S
  BY <1>1
<1>3. PICK m \in S : \A i \in S : m <= i
  BY <1>2, SmallestExists
<1>4. Distance(s, e, N) = CHOOSE x \in S : \A y \in S : x <= y
  BY <1>1 DEF Distance, Min
<1>5. Distance(s, e, N) \in S /\ \A i \in S : Distance(s, e, N) <= i
  BY <1>3, <1>4
<1>6. e # s => Distance(s, e, N) # 0
  BY <1>1, <1>5, BallZero
<1>7. QED
  BY <1>1, <1>5, <1>6

-----------------------------------------------------------------------------
(* Contexts                                                                *)

\* A context that is within its budget and whose references, numbered as
\* they come, are to entities of E.
ContextRecords(E) ==
  [refs : Seq([citation : Nat, entity : E]), edges : SUBSET index.relations,
   length : Nat]
Numbered(c, E) ==
  /\ c \in ContextRecords(E)
  /\ \A i \in 1..Len(c.refs) : c.refs[i].citation = i

\* The context without a reference is numbered.
LEMMA EmptyContext ==
  ASSUME NEW E
  PROVE  Numbered(NoContext, E) /\ NoContext.length = 0 /\ NoContext.refs = <<>>
BY DEF Numbered, ContextRecords, NoContext

\* One more reference.
LEMMA CiteNumbered ==
  ASSUME NEW E \in SUBSET EntityIds, NEW c, Numbered(c, E), NEW e \in E
  PROVE  /\ Extended(c, Size[e]) \in Nat
         /\ Numbered(Cite(c, e), E)
         /\ Cite(c, e).length = Extended(c, Size[e])
         /\ Cite(c, e).refs # <<>>
<1>1. PICK T : T = [citation : Nat, entity : E]
  OBVIOUS
<1>2. /\ c.refs \in Seq(T) /\ c.length \in Nat /\ c.edges \in SUBSET index.relations
      /\ c = [refs |-> c.refs, edges |-> c.edges, length |-> c.length]
  BY <1>1 DEF Numbered, ContextRecords
<1>3. Size[e] \in Nat
  BY CodeGraphAssumption DEF EntityIds
<1>4. Extended(c, Size[e]) \in Nat
  BY <1>2, <1>3 DEF Extended
<1>5. PICK k \in Nat : k = Len(c.refs) /\ k + 1 = Len(c.refs) + 1
  BY <1>2
<1>6. PICK new : new = Append(c.refs, Reference(k + 1, e))
  OBVIOUS
<1>7. Reference(k + 1, e) \in T /\ Reference(k + 1, e).citation = k + 1
  BY <1>1 DEF Reference
<1>8. new \in Seq(T) /\ Len(new) = k + 1 /\ new[k + 1] = Reference(k + 1, e)
      /\ \A i \in 1..k : new[i] = c.refs[i]
  BY <1>2, <1>5, <1>6, <1>7
<1>9. Cite(c, e) = [refs |-> new, edges |-> c.edges, length |-> Extended(c, Size[e])]
  <2>1. PICK x : x = Extended(c, Size[e])
    OBVIOUS
  <2>2. Cite(c, e) = [c EXCEPT !.refs = new, !.length = x]
    BY <1>5, <1>6, <2>1 DEF Cite
  <2>3. PICK r, d, n : c = [refs |-> r, edges |-> d, length |-> n] /\ d = c.edges
    BY <1>2
  <2>4. QED
    BY <2>1, <2>2, <2>3
<1>10. Cite(c, e) \in ContextRecords(E)
  BY <1>1, <1>2, <1>4, <1>8, <1>9 DEF ContextRecords
<1>11. \A i \in 1..(k + 1) : new[i].citation = i
  <2>1. \A i \in 1..k : c.refs[i].citation = i
    BY <1>5 DEF Numbered
  <2>2. \A i \in 1..(k + 1) : i \in 1..k \/ i = k + 1
    OBVIOUS
  <2>3. QED
    BY <1>7, <1>8, <2>1, <2>2
<1>12. QED
  BY <1>4, <1>8, <1>9, <1>10, <1>11 DEF Numbered

\* RagContextBuilder keeps to its budget and numbers what it keeps.
LEMMA PlainContextNumbered ==
  ASSUME NEW list, HitList(list)
  PROVE  /\ Numbered(PlainContext(list), Ids(list))
         /\ PlainContext(list).length <= Budget
<1> DEFINE N == Len(list)
           E == Ids(list)
           C == {c \in ContextRecords(E) : Numbered(c, E)}
           step == {p \in (1..N) \X C \X C : p[3] = Cite(p[2], list[p[1]].entity)}
           at[n \in 0..N] == IF n = 0 THEN NoContext ELSE Cite(at[n - 1], list[n].entity)
<1>1. N \in Nat /\ E \in SUBSET EntityIds /\ \A n \in 1..N : list[n].entity \in E
  BY IdsFinite DEF HitList
<1>2. \A n \in 1..N, c \in C : Cite(c, list[n].entity) \in C
  BY <1>1, CiteNumbered DEF Numbered
<1>3. NoContext \in C
  BY EmptyContext DEF Numbered
<1>4. \A n \in 1..N, x \in C : \E y \in C : <<n, x, y>> \in step
  <2>1. SUFFICES ASSUME NEW n \in 1..N, NEW x \in C
                 PROVE  \E y \in C : <<n, x, y>> \in step
    OBVIOUS
  <2>2. Cite(x, list[n].entity) \in C
    BY <1>2
  <2> HIDE DEF N, C
  <2>3. QED
    BY <2>2
<1>5. PICK g \in [0..N -> C] :
        g[0] = NoContext /\ \A n \in 1..N : <<n, g[n - 1], g[n]>> \in step
  <2> HIDE DEF N, C, step
  <2>1. PICK Q, c, P : Q = C /\ c = NoContext /\ P = step
    OBVIOUS
  <2>2. c \in Q /\ N \in Nat /\ \A n \in 1..N, x \in Q : \E y \in Q : <<n, x, y>> \in P
    BY <1>1, <1>3, <1>4, <2>1
  <2>3. PICK M : M = N
    OBVIOUS
  <2>4. c \in Q /\ M \in Nat /\ GoesOn(P, Q, M)
    BY <2>2, <2>3 DEF GoesOn
  <2>5. Followed(P, Q, M, c)
    BY ONLY <2>4, RecursionExists
  <2>6. QED
    BY <2>1, <2>3, <2>5 DEF Followed
<1>6. \A n \in 1..N : g[n] = Cite(g[n - 1], list[n].entity)
  BY <1>5
<1>7. \A n \in 0..N : n # 0 => n \in 1..N /\ n - 1 \in 0..N
  BY <1>1
<1>8. g = [n \in 0..N |-> IF n = 0 THEN NoContext ELSE Cite(g[n - 1], list[n].entity)]
  <2> HIDE DEF N, C, step
  <2>1. QED
    BY <1>5, <1>6, <1>7
<1>9. at = [n \in 0..N |-> IF n = 0 THEN NoContext ELSE Cite(at[n - 1], list[n].entity)]
  <2> HIDE DEF N, C, step
  <2>1. QED
    BY <1>8
<1>10. \A n \in 0..N : at[n] = IF n = 0 THEN NoContext ELSE Cite(at[n - 1], list[n].entity)
  <2> HIDE DEF at, N
  <2>1. QED
    BY <1>9
<1>11. \A n \in 0..N : at[n] \in C
  <2> DEFINE U == {n \in Nat : n \in 0..N => at[n] \in C}
  <2> HIDE DEF at, N, C
  <2>1. 0 \in U
    BY <1>3, <1>10
  <2>2. ASSUME NEW n \in Nat, n \in U
        PROVE  n + 1 \in U
    <3>1. SUFFICES ASSUME n + 1 \in 0..N
                   PROVE  at[n + 1] \in C
      OBVIOUS
    <3>2. n \in 0..N /\ n + 1 \in 1..N /\ (n + 1) - 1 = n /\ n + 1 # 0
      BY <1>1, <3>1
    <3>3. at[n] \in C /\ at[n + 1] = Cite(at[n], list[n + 1].entity)
      BY <1>10, <2>2, <3>1, <3>2
    <3>4. QED
      BY <1>2, <3>2, <3>3
  <2>3. \A n \in Nat : n \in U
    <3> HIDE DEF U
    <3>1. QED
      BY <2>1, <2>2, NatSetInduction
  <2>4. QED
    BY <2>3
<1>12. PICK F : F = {0} \cup {n \in 1..N : at[n].length <= Budget}
  OBVIOUS
<1>13. Max(F) \in F
  <2> HIDE DEF at, N
  <2>1. F \in SUBSET (0..N) /\ F \in SUBSET Nat /\ F # {}
    BY <1>1, <1>12
  <2>2. IsFiniteSet(F)
    <3>1. 0 \in Int /\ N \in Int
      BY <1>1
    <3>2. IsFiniteSet(0..N)
      BY <3>1, FS_Interval
    <3>3. QED
      BY <2>1, <3>2, FS_Subset
  <2>3. PICK m \in F : \A i \in F : i <= m
    BY <2>1, <2>2, LargestExists
  <2>4. QED
    BY <2>1, <2>3 DEF Max
<1>14. PlainContext(list) = at[Max(F)]
  BY <1>12 DEF PlainContext
<1>15. PICK n : n = Max(F)
  OBVIOUS
<1>16. n \in 0..N /\ (n = 0 \/ at[n].length <= Budget)
  <2> HIDE DEF at, N
  <2>1. QED
    BY <1>1, <1>12, <1>13, <1>15
<1>17. at[n] \in C /\ at[n].length <= Budget
  <2> HIDE DEF at, N, C
  <2>1. at[n] \in C
    BY <1>11, <1>16
  <2>2. CASE n = 0
    <3>1. at[n] = NoContext
      BY <1>10, <1>16, <2>2
    <3>2. NoContext.length = 0 /\ Budget \in Nat
      BY CodeGraphAssumption DEF NoContext
    <3>3. QED
      BY <2>1, <3>1, <3>2
  <2>3. QED
    BY <1>16, <2>1, <2>2
<1>18. QED
  <2> HIDE DEF at, N
  <2>1. QED
    BY <1>14, <1>15, <1>17

ResultRecords == [entity : EntityIds, score : Int, depth : Nat, seed : EntityIds,
                  uncertain : SUBSET {"vector", "keyword", "traversal"}]

\* GraphContextBuilder keeps to its budget and numbers what it keeps, and its
\* section of relations fits as well.
LEMMA GraphContextNumbered ==
  ASSUME NEW list \in Seq(ResultRecords), NEW E \in SUBSET EntityIds,
         \A n \in 1..Len(list) : list[n].entity \in E,
         NEW g, g.edges \in SUBSET index.relations, IsFiniteSet(g.edges)
  PROVE  /\ Numbered(GraphContext(list, g), E)
         /\ GraphContext(list, g).length <= Budget
<1> DEFINE N == Len(list)
           C == {c \in ContextRecords(E) : Numbered(c, E) /\ c.length <= Budget}
           go(c, n) == LET entity == list[n].entity
                       IN IF Extended(c, Size[entity]) > Budget THEN c ELSE Cite(c, entity)
           step == {p \in (1..N) \X C \X C : p[3] = go(p[2], p[1])}
           at[n \in 0..N] == IF n = 0 THEN NoContext ELSE go(at[n - 1], n)
<1>1. N \in Nat
  OBVIOUS
<1>2. ASSUME NEW n \in 1..N, NEW c \in C
      PROVE  go(c, n) \in C
  <2>1. PICK e \in E : e = list[n].entity
    OBVIOUS
  <2>2. Numbered(c, E) /\ c.length <= Budget
    OBVIOUS
  <2>3. /\ Extended(c, Size[e]) \in Nat /\ Numbered(Cite(c, e), E)
        /\ Cite(c, e).length = Extended(c, Size[e])
    BY <2>2, CiteNumbered
  <2>4. go(c, n) = IF Extended(c, Size[e]) > Budget THEN c ELSE Cite(c, e)
    BY <2>1
  <2>5. Budget \in Nat
    BY CodeGraphAssumption
  <2>6. CASE Extended(c, Size[e]) > Budget
    <3> HIDE DEF go
    <3>1. QED
      BY <2>4, <2>6
  <2>7. CASE ~(Extended(c, Size[e]) > Budget)
    <3>1. go(c, n) = Cite(c, e)
      BY <2>4, <2>7
    <3> HIDE DEF go
    <3>2. Cite(c, e).length <= Budget
      BY <2>3, <2>5, <2>7
    <3>3. QED
      BY <2>3, <3>1, <3>2 DEF Numbered
  <2>8. QED
    BY <2>6, <2>7
<1>3. NoContext \in C
  <2>1. NoContext.length = 0 /\ Budget \in Nat
    BY CodeGraphAssumption DEF NoContext
  <2>2. QED
    BY <2>1, EmptyContext DEF Numbered
<1> HIDE DEF go
<1>4. \A n \in 1..N, x \in C : \E y \in C : <<n, x, y>> \in step
  <2>1. SUFFICES ASSUME NEW n \in 1..N, NEW x \in C
                 PROVE  \E y \in C : <<n, x, y>> \in step
    OBVIOUS
  <2>2. go(x, n) \in C
    BY <1>2
  <2> HIDE DEF N, C
  <2>3. QED
    BY <2>2
<1>5. PICK h \in [0..N -> C] :
        h[0] = NoContext /\ \A n \in 1..N : <<n, h[n - 1], h[n]>> \in step
  <2> HIDE DEF N, C, step
  <2>1. PICK Q, c, P, M : Q = C /\ c = NoContext /\ P = step /\ M = N
    OBVIOUS
  <2>2. c \in Q /\ GoesOn(P, Q, M)
    BY <1>3, <1>4, <2>1 DEF GoesOn
  <2>3. M \in Nat
    BY <1>1, <2>1
  <2>4. Followed(P, Q, M, c)
    BY ONLY <2>2, <2>3, RecursionExists
  <2>5. QED
    BY <2>1, <2>4 DEF Followed
<1>6. \A n \in 1..N : h[n] = go(h[n - 1], n)
  BY <1>5
<1>7. \A n \in 0..N : n # 0 => n \in 1..N /\ n - 1 \in 0..N
  BY <1>1
<1>8. h = [n \in 0..N |-> IF n = 0 THEN NoContext ELSE go(h[n - 1], n)]
  <2> HIDE DEF N, C, step
  <2>1. QED
    BY <1>5, <1>6, <1>7
<1>9. at = [n \in 0..N |-> IF n = 0 THEN NoContext ELSE go(at[n - 1], n)]
  <2> HIDE DEF N, C, step
  <2>1. QED
    BY <1>8
<1>10. \A n \in 0..N : at[n] = IF n = 0 THEN NoContext ELSE go(at[n - 1], n)
  <2> HIDE DEF at, N
  <2>1. QED
    BY <1>9
<1>11. \A n \in 0..N : at[n] \in C
  <2> DEFINE U == {n \in Nat : n \in 0..N => at[n] \in C}
  <2> HIDE DEF at, N, C
  <2>1. 0 \in U
    BY <1>3, <1>10
  <2>2. ASSUME NEW n \in Nat, n \in U
        PROVE  n + 1 \in U
    <3>1. SUFFICES ASSUME n + 1 \in 0..N
                   PROVE  at[n + 1] \in C
      OBVIOUS
    <3>2. n \in 0..N /\ n + 1 \in 1..N /\ (n + 1) - 1 = n /\ n + 1 # 0
      BY <1>1, <3>1
    <3>3. at[n] \in C /\ at[n + 1] = go(at[n], n + 1)
      BY <1>10, <2>2, <3>1, <3>2
    <3>4. QED
      BY <1>2, <3>2, <3>3
  <2>3. \A n \in Nat : n \in U
    <3> HIDE DEF U
    <3>1. QED
      BY <2>1, <2>2, NatSetInduction
  <2>4. QED
    BY <2>3
<1>12. PICK blocks : blocks = at[N]
  OBVIOUS
<1>13. Numbered(blocks, E) /\ blocks.length <= Budget
  <2> HIDE DEF at, N
  <2>1. N \in 0..N
    BY <1>1
  <2>2. QED
    BY <1>11, <1>12, <2>1
<1> DEFINE included == {blocks.refs[i].entity : i \in DOMAIN blocks.refs}
           edges == {r \in g.edges : Ends(r) \subseteq included \cap g.nodes}
           length == Extended(blocks, EdgeSize * (1 + Cardinality(edges)))
<1>14. GraphContext(list, g) =
         IF edges = {} \/ length > Budget THEN blocks
         ELSE [blocks EXCEPT !.edges = edges, !.length = length]
  BY <1>12 DEF GraphContext, go
<1>15. length \in Nat /\ edges \in SUBSET index.relations
  <2>1. edges \in SUBSET g.edges
    OBVIOUS
  <2>2. PICK k \in Nat : k = Cardinality(edges)
    BY <2>1, FS_Subset, FS_CardinalityType
  <2>3. EdgeSize \in Nat
    BY CodeGraphAssumption
  <2>4. EdgeSize * (1 + k) \in Nat
    BY <2>3
  <2>5. blocks.length \in Nat
    BY <1>13 DEF Numbered, ContextRecords
  <2>6. QED
    BY <2>1, <2>2, <2>4, <2>5 DEF Extended
<1> HIDE DEF edges, length, included
<1>16. PICK x : x = [blocks EXCEPT !.edges = edges, !.length = length]
  OBVIOUS
<1>17. x \in ContextRecords(E) /\ x.refs = blocks.refs /\ x.length = length
  <2>1. PICK T : T = Seq([citation : Nat, entity : E])
    OBVIOUS
  <2>2. blocks \in [refs : T, edges : SUBSET index.relations, length : Nat]
    BY <1>13, <2>1 DEF Numbered, ContextRecords
  <2>3. x \in [refs : T, edges : SUBSET index.relations, length : Nat]
        /\ x.refs = blocks.refs /\ x.length = length
    BY <1>15, <1>16, <2>2
  <2>4. QED
    BY <2>1, <2>3 DEF ContextRecords
<1>18. Numbered(x, E)
  BY <1>13, <1>17 DEF Numbered
<1>19. Budget \in Nat
  BY CodeGraphAssumption
<1>20. QED
  BY <1>13, <1>14, <1>15, <1>16, <1>17, <1>18, <1>19

-----------------------------------------------------------------------------
(* Results                                                                 *)

\* Results of different entities.
ResultSet(S) ==
  /\ S \in SUBSET ResultRecords /\ IsFiniteSet(S)
  /\ \A a, b \in S : a.entity = b.entity => a = b

\* The results that a hit's neighbourhood adds.
LEMMA ExpansionResults ==
  ASSUME index \in Indexes, NEW hit \in HitRecords, hit.entity \in index.entities,
         NEW N \in Nat,
         NEW C, C = Expansion(hit, Traverse(index, hit.entity, N), N)
  PROVE  /\ ResultSet(C)
         /\ \A c \in C : /\ c.depth >= 1 /\ c.uncertain = hit.uncertain
                         /\ c.score = hit.score /\ c.entity # hit.entity
                         /\ c.entity \in Ball(hit.entity, N)
                         /\ c.depth = Distance(hit.entity, c.entity, N)
         /\ \A e \in Ball(hit.entity, N) \ {hit.entity} : \E c \in C : c.entity = e
<1>1. PICK s : s = hit.entity
  OBVIOUS
<1>2. PICK E : E = Ball(s, N) \ {s}
  OBVIOUS
<1>3. PICK g : g = [e \in E |-> Result(e, hit.score, Distance(s, e, N), s, hit.uncertain)]
  OBVIOUS
<1>4. C = {g[e] : e \in E}
  <2>1. C = {Result(e, hit.score, Distance(s, e, N), s, hit.uncertain) : e \in E}
    BY <1>1, <1>2, ExpansionExact
  <2>2. QED
    BY <1>3, <2>1
<1>5. E \in SUBSET index.entities /\ index.entities \in SUBSET EntityIds
      /\ IsFiniteSet(index.entities)
  BY <1>2, AnswersAssumption DEF Ball
<1>6. IsFiniteSet(E)
  BY <1>5, FS_Subset
<1>7. \A e \in E : Distance(s, e, N) \in Nat /\ Distance(s, e, N) >= 1
  BY <1>1, <1>2, DistanceLeast
<1>8. hit.score \in Int /\ hit.uncertain \in SUBSET {"vector", "keyword"}
      /\ s \in EntityIds
  BY <1>1 DEF HitRecords
<1>9. \A e \in E : /\ g[e] \in ResultRecords /\ g[e].entity = e
                   /\ g[e].depth = Distance(s, e, N) /\ g[e].uncertain = hit.uncertain
                   /\ g[e].score = hit.score
  <2>1. SUFFICES ASSUME NEW e \in E
                 PROVE  /\ g[e] \in ResultRecords /\ g[e].entity = e
                        /\ g[e].depth = Distance(s, e, N) /\ g[e].uncertain = hit.uncertain
                        /\ g[e].score = hit.score
    OBVIOUS
  <2>2. PICK d \in Nat : d = Distance(s, e, N)
    BY <1>7
  <2>3. e \in EntityIds
    BY <1>5
  <2>4. g[e] = Result(e, hit.score, d, s, hit.uncertain)
    BY <1>3, <2>2
  <2>5. QED
    BY <1>8, <2>2, <2>3, <2>4 DEF Result, ResultRecords
<1>10. IsFiniteSet(C)
  <2>1. g \in Surjection(E, C)
    BY <1>3, <1>4 DEF Surjection
  <2>2. QED
    BY <1>6, <2>1, FS_Surjection
<1>11. ResultSet(C)
  BY <1>4, <1>9, <1>10 DEF ResultSet
<1>12. QED
  BY <1>1, <1>2, <1>4, <1>7, <1>9, <1>11

\* What is at depth 0 stays.
LEMMA ImproveResults ==
  ASSUME NEW S, ResultSet(S), NEW C, ResultSet(C), \A c \in C : c.depth >= 1
  PROVE  /\ ResultSet(Improve(S, C))
         /\ \A r \in S : r.depth = 0 => r \in Improve(S, C)
         /\ \A r \in Improve(S, C) : r \in S \/ (r \in C /\ r.depth # 0)
<1>1. PICK kept : kept = {r \in S : ~\E c \in C : c.entity = r.entity /\ Nearer(c, r)}
  OBVIOUS
<1>2. PICK new : new = {c \in C : \A r \in S : r.entity = c.entity => Nearer(c, r)}
  OBVIOUS
<1>3. PICK I : I = Improve(S, C)
  OBVIOUS
<1>4. I = kept \cup new
  BY <1>1, <1>2, <1>3 DEF Improve
<1>5. kept \in SUBSET S /\ new \in SUBSET C
  BY <1>1, <1>2
<1>6. IsFiniteSet(I)
  BY <1>4, <1>5, FS_Subset, FS_Union DEF ResultSet
<1>7. ASSUME NEW a \in I, NEW b \in I, a.entity = b.entity
      PROVE  a = b
  <2>1. CASE a \in kept /\ b \in kept
    BY <1>5, <1>7, <2>1 DEF ResultSet
  <2>2. CASE a \in new /\ b \in new
    BY <1>5, <1>7, <2>2 DEF ResultSet
  <2>3. CASE a \in kept /\ b \in new
    BY <1>1, <1>2, <1>7, <2>3
  <2>4. CASE a \in new /\ b \in kept
    BY <1>1, <1>2, <1>7, <2>4
  <2>5. QED
    BY <1>4, <2>1, <2>2, <2>3, <2>4
<1>8. I \in SUBSET ResultRecords
  BY <1>4, <1>5 DEF ResultSet
<1>9. ASSUME NEW r \in S, r.depth = 0
      PROVE  r \in I
  <2>1. \A c \in C : c.depth \in Nat /\ c.depth >= 1
    BY DEF ResultSet, ResultRecords
  <2>2. \A c \in C : ~Nearer(c, r)
    BY <1>9, <2>1 DEF Nearer
  <2>3. QED
    BY <1>1, <1>4, <2>2
<1>10. \A c \in C : c.depth # 0
  BY DEF ResultSet, ResultRecords
<1>11. QED
  BY <1>3, <1>4, <1>5, <1>6, <1>7, <1>8, <1>9, <1>10 DEF ResultSet

\* The fields of results.
LEMMA ResultFields ==
  ASSUME NEW S, ResultSet(S)
  PROVE  /\ \A a \in S : /\ a.depth \in Nat /\ a.score \in Int
                         /\ a.entity \in Int /\ a.seed \in Int
                         /\ a.entity \in EntityIds
         /\ \A a, b \in S : a.entity = b.entity => a = b
         /\ IsFiniteSet(S)
<1>1. \A e \in EntityIds : e \in Int
  BY AnswersAssumption
<1>2. \A a \in ResultRecords : /\ a.depth \in Nat /\ a.score \in Int
                               /\ a.entity \in EntityIds /\ a.seed \in EntityIds
  BY DEF ResultRecords
<1>3. \A a \in S : a \in ResultRecords
  BY DEF ResultSet
<1>4. \A a \in S : /\ a.depth \in Nat /\ a.score \in Int
                   /\ a.entity \in EntityIds /\ a.seed \in EntityIds
  BY <1>2, <1>3
<1>5. QED
  BY <1>1, <1>4 DEF ResultSet

\* retrieve returns results.
LEMMA RankedType ==
  ASSUME ResultSet(results)
  PROVE  /\ Ranked \in Seq(results)
         /\ ByNearer(results) \in [1..Cardinality(results) -> results]
         /\ Cardinality(results) \in Nat
         /\ Len(Ranked) = IF MaxResults < Cardinality(results) THEN MaxResults
                          ELSE Cardinality(results)
         /\ \A i \in 1..Len(Ranked) : /\ i \in 1..Cardinality(results)
                                      /\ Ranked[i] = ByNearer(results)[i]
<1>1. ResultSet(results)
  OBVIOUS
<1>2. PICK S : S = results
  OBVIOUS
<1>3. /\ \A a \in S : /\ a.depth \in Int /\ a.score \in Int
                      /\ a.entity \in Int /\ a.seed \in Int
      /\ \A a, b \in S : a.entity = b.entity => a = b
      /\ IsFiniteSet(S)
  BY <1>1, <1>2, ResultFields
<1>4. /\ Cardinality(S) \in Nat /\ ByNearer(S) \in [1..Cardinality(S) -> S]
      /\ \A x \in S :
           /\ Cardinality({y \in S : Nearer(y, x)}) + 1 \in 1..Cardinality(S)
           /\ ByNearer(S)[Cardinality({y \in S : Nearer(y, x)}) + 1] = x
  BY ONLY <1>3, SortedNearer
<1>5. PICK g : g = ByNearer(S)
  OBVIOUS
<1>6. g \in Seq(S) /\ Len(g) = Cardinality(S)
  BY <1>4, <1>5
<1>7. PICK b : b = FirstN(g, MaxResults)
  OBVIOUS
<1>8. /\ b \in Seq(S)
      /\ Len(b) = IF MaxResults < Len(g) THEN MaxResults ELSE Len(g)
      /\ \A i \in 1..Len(b) : i \in 1..Len(g) /\ b[i] = g[i]
  <2>1. MaxResults \in Nat
    BY CodeGraphAssumption
  <2>2. QED
    BY <1>6, <1>7, <2>1, FirstNType
<1>9. Ranked = b
  BY <1>2, <1>5, <1>7 DEF Ranked, ByNearer
<1>10. QED
  BY <1>2, <1>4, <1>5, <1>6, <1>8, <1>9

\* The hits themselves are never cut off.
LEMMA DirectRanked ==
  ASSUME ResultSet(results), HitList(hits), Len(hits) <= MaxResults,
         \A r \in results : r.depth = 0 => r.entity \in Ids(hits),
         NEW x, x \in results, x.depth = 0
  PROVE  \E i \in 1..Len(Ranked) : Ranked[i] = x
<1>1. PICK S : S = results
  OBVIOUS
<1>2. PICK B : B = {y \in S : Nearer(y, x)}
  OBVIOUS
<1>3. /\ \A a \in S : /\ a.depth \in Nat /\ a.score \in Int
                      /\ a.entity \in Int /\ a.seed \in Int
      /\ \A a, b \in S : a.entity = b.entity => a = b
      /\ IsFiniteSet(S)
  BY <1>1, ResultFields
<1>4. /\ Cardinality(S) \in Nat
      /\ Cardinality(B) + 1 \in 1..Cardinality(S)
      /\ ByNearer(S)[Cardinality(B) + 1] = x
  <2>1. /\ \A a \in S : /\ a.depth \in Int /\ a.score \in Int
                        /\ a.entity \in Int /\ a.seed \in Int
        /\ \A a, b \in S : a.entity = b.entity => a = b
        /\ IsFiniteSet(S)
    BY <1>3
  <2>2. /\ Cardinality(S) \in Nat /\ ByNearer(S) \in [1..Cardinality(S) -> S]
        /\ \A z \in S :
             /\ Cardinality({y \in S : Nearer(y, z)}) + 1 \in 1..Cardinality(S)
             /\ ByNearer(S)[Cardinality({y \in S : Nearer(y, z)}) + 1] = z
    BY ONLY <2>1, SortedNearer
  <2>3. x \in S
    BY <1>1
  <2>4. QED
    BY <1>2, <2>2, <2>3
<1>5. \A y \in B : y \in S /\ y.depth = 0 /\ y # x
  BY <1>1, <1>2, <1>3 DEF Nearer
<1>6. PICK I : I = Ids(hits) \ {x.entity}
  OBVIOUS
<1>7. IsFiniteSet(I) /\ Cardinality(I) = Len(hits) - 1
  <2>1. IsFiniteSet(Ids(hits)) /\ Cardinality(Ids(hits)) = Len(hits)
    BY IdsFinite
  <2>2. x.entity \in Ids(hits)
    OBVIOUS
  <2>3. QED
    BY <1>6, <2>1, <2>2, FS_RemoveElement
<1>8. PICK f : f = [y \in B |-> y.entity]
  OBVIOUS
<1>9. f \in Injection(B, I)
  <2>1. \A y \in B : y.entity \in I
    BY <1>1, <1>3, <1>5, <1>6
  <2>2. \A y, z \in B : f[y] = f[z] => y = z
    BY <1>3, <1>5, <1>8
  <2>3. QED
    BY <1>8, <2>1, <2>2 DEF Injection, IsInjective
<1>10. IsFiniteSet(B) /\ Cardinality(B) <= Len(hits) - 1
  BY <1>7, <1>9, FS_Injection
<1>11. Cardinality(B) \in Nat /\ Len(hits) \in Nat /\ MaxResults \in Nat
  BY <1>10, FS_CardinalityType, CodeGraphAssumption DEF HitList
<1>12. PICK i \in Nat : i = Cardinality(B) + 1 /\ i <= MaxResults
  BY <1>10, <1>11
<1>13. /\ Len(Ranked) = IF MaxResults < Cardinality(S) THEN MaxResults ELSE Cardinality(S)
       /\ \A j \in 1..Len(Ranked) : Ranked[j] = ByNearer(S)[j]
  BY <1>1, RankedType
<1>14. i \in 1..Len(Ranked)
  BY <1>4, <1>11, <1>12, <1>13
<1>15. QED
  BY <1>4, <1>12, <1>13, <1>14

-----------------------------------------------------------------------------
(* What every step keeps                                                   *)

Searching == {"plan", "collection", "rewrite", "vector", "keyword", "match"}
Working == {"traverse", "expand", "generate", "repair"}

\* The branches that are lost.
Lost == down \cap {"vector", "keyword"}

\* The lists of hits, and what each hit of a request that goes on says.
SearchInv ==
  /\ Asked
  /\ HitList(vector) /\ HitList(hits) /\ Len(hits) <= request.limit
  /\ pc \in Searching => /\ down \subseteq {"vector"} /\ hits = <<>> /\ results = {}
                         /\ context = NoContext /\ next = 1
  /\ pc # "done" => response = None
  /\ pc \in {"collection", "rewrite", "vector"} =>
       request.kind \in {"hybrid", "search_chain"} \cup Tasks
  /\ pc = "keyword" => request.kind \in {"keyword", "hybrid", "search_chain"} \cup Tasks
  /\ pc \in Working =>
       /\ request.kind \in {"search_chain"} \cup Tasks
       /\ request.kind \in Tasks => hits # <<>>
       /\ \A i \in 1..Len(hits) : Lost \subseteq hits[i].uncertain
       /\ down \subseteq {"vector", "keyword", "traversal", "expansion"}
       /\ request.kind = "code_qa" => down \subseteq {"vector", "keyword"}
  /\ pc = "traverse" => /\ next \in 1..Len(hits)
                        /\ request.kind \in {"trace", "change_plan"}
  /\ pc = "expand" => request.kind # "code_qa"
  /\ pc \in {"traverse", "expand"} => "expansion" \notin down
  /\ pc \in {"generate", "repair"} => request.kind \in Tasks

\* The results of a trace or a change plan: one for every hit, at depth 0, and
\* what was lost is told by those that were there when it was.
EvidenceInv ==
  pc \in Working /\ request.kind \in {"trace", "change_plan"} =>
    /\ ResultSet(results)
    /\ \A r \in results : Lost \subseteq r.uncertain
    /\ \A i \in 1..Len(hits) : \E r \in results :
         r.entity = hits[i].entity /\ r.depth = 0
    /\ \A r \in results : r.depth = 0 => r.entity \in Ids(hits)
    /\ "traversal" \in down => \E r \in results :
         r.depth = 0 /\ "traversal" \in r.uncertain

\* What the context may refer to.
Citable == IF request.kind = "code_qa" THEN Ids(hits) ELSE {r.entity : r \in results}

ContextInv ==
  /\ pc \notin {"generate", "repair", "done"} => context = NoContext
  /\ Numbered(context, Citable)
  /\ context.length <= Budget
  /\ pc \in {"generate", "repair"} => context.refs # <<>>

Fallbacks == {"keyword_fallback", "vector_fallback"}

\* What is known of an index and a request.
LEMMA AskedFacts ==
  ASSUME Asked
  PROVE  /\ index.entities \in SUBSET EntityIds /\ IsFiniteSet(index.entities)
         /\ IsFiniteSet(index.relations)
         /\ request.query.whole \in Words /\ request.query.tokens \in Seq(Tokens)
         /\ request.limit \in Nat /\ request.limit >= 1 /\ request.limit <= MaxResults
         /\ request.depth \in 0..2
<1>1. /\ index \in Indexes /\ request.query \in Queries /\ request.limit \in Limits
      /\ request.depth \in 0..2
  BY DEF Asked, Requests
<1>2. MaxResults \in Nat
  BY CodeGraphAssumption
<1>3. \A l \in Limits : l \in Nat /\ l >= 1 /\ l <= MaxResults
  BY <1>2, AnswersAssumption
<1>4. \A i \in Indexes : /\ i.entities \in SUBSET EntityIds
                         /\ IsFiniteSet(i.entities) /\ IsFiniteSet(i.relations)
  BY AnswersAssumption
<1>5. \A q \in Queries : q.whole \in Words /\ q.tokens \in Seq(Tokens)
  BY AnswersAssumption
<1>6. QED
  BY <1>1, <1>3, <1>4, <1>5

\* How a search ends: it fails, or has a list, and every hit says which branch
\* is missing.
FoundList(list) ==
  /\ HitList(list) /\ Len(list) <= request.limit
  /\ Found(list)
  /\ down' \subseteq {"vector", "keyword"}
  /\ request.kind # "keyword" =>
       /\ down' # {} => list # <<>>
       /\ \A i \in 1..Len(list) : down' \subseteq list[i].uncertain
       /\ down' # {} => \A i \in 1..Len(list) : list[i].source \in Fallbacks

\* What one branch leaves for the other.
LEMMA FallbackFound ==
  ASSUME Asked, NEW list, HitList(list), list # <<>>,
         NEW src \in Fallbacks, NEW notice \in {"vector", "keyword"},
         Found(Fallback(list, src, notice)), down' = {notice}
  PROVE  FoundList(Fallback(list, src, notice))
<1>1. PICK m : m = Fallback(list, src, notice)
  OBVIOUS
<1>2. PICK n \in Nat : n = request.limit /\ n >= 1
  BY AskedFacts
<1>3. src \in HitSources
  BY DEF Fallbacks, HitSources
<1>4. m = Degraded(list, n, src, notice)
  BY <1>1, <1>2 DEF Fallback
<1>5. /\ HitList(m)
      /\ Len(m) = IF n < Len(list) THEN n ELSE Len(list)
      /\ \A i \in 1..Len(m) : m[i].source = src /\ notice \in m[i].uncertain
  <2>1. HitList(list)
    OBVIOUS
  <2>2. notice \in {"vector", "keyword"}
    OBVIOUS
  <2>3. n \in Nat
    BY <1>2
  <2>4. Len(m) = IF n < Len(list) THEN n ELSE Len(list)
    BY ONLY <1>3, <1>4, <2>1, <2>2, <2>3, MarkedList
  <2>5. HitList(m)
    BY ONLY <1>3, <1>4, <2>1, <2>2, <2>3, MarkedList
  <2>6. Marks(m, list, src, notice)
    BY ONLY <1>3, <1>4, <2>1, <2>2, <2>3, MarkedList
  <2>7. QED
    BY <2>4, <2>5, <2>6 DEF Marks
<1>6. Len(list) \in Nat /\ Len(list) >= 1
  BY DEF HitList
<1>7. m # <<>> /\ Len(m) <= n
  BY <1>2, <1>5, <1>6
<1>8. Found(m)
  BY <1>1
<1>9. QED
  BY <1>1, <1>2, <1>5, <1>7, <1>8 DEF FoundList

\* A search fails, or has a list.
LEMMA SearchEnds ==
  ASSUME SearchInv, SearchKeywords
  PROVE  /\ pc = "keyword" /\ UNCHANGED <<index, request, vector, next, graph>>
         /\ \/ /\ \E status \in {"RETRIEVAL_UNAVAILABLE", "PROJECT_NOT_FOUND", "error"} :
                    Fail(status)
               /\ UNCHANGED <<hits, results, context>>
            \/ \E list : FoundList(list)
<1>1. /\ pc = "keyword" /\ UNCHANGED <<index, request, vector, next, graph>>
  BY DEF SearchKeywords
<1>2. PICK n \in Nat : n = request.limit /\ 2 * request.limit \in Nat
  BY AskedFacts DEF SearchInv
<1>3. down \subseteq {"vector"} /\ HitList(vector) /\ Asked
  BY <1>1 DEF SearchInv, Searching
<1> DEFINE kw(m) == KeywordHits(index.entities, request.query, m)
<1>4. \A m \in Nat : HitList(kw(m)) /\ Len(kw(m)) <= m
  BY <1>3, AskedFacts, KeywordList
<1> HIDE DEF kw
<1>5. ASSUME request.kind = "keyword", Found(kw(request.limit)), UNCHANGED down
      PROVE  FoundList(kw(request.limit))
  BY <1>2, <1>3, <1>4, <1>5 DEF FoundList
<1>6. ASSUME NEW list, HitList(list), NEW failed \in BOOLEAN, Combine(list, failed),
             down' = IF failed THEN down \cup {"keyword"} ELSE down,
             failed => list = <<>>
      PROVE  \/ /\ Fail("RETRIEVAL_UNAVAILABLE")
                /\ UNCHANGED <<hits, results, context>>
             \/ \E l : FoundList(l)
  <2>1. CASE "vector" \in down
    <3>1. CASE list = <<>>
      BY <1>6, <2>1, <3>1 DEF Combine
    <3>2. CASE list # <<>>
      <4>1. Found(Fallback(list, "keyword_fallback", "vector"))
        BY <1>6, <2>1, <3>2 DEF Combine
      <4>2. down' = {"vector"}
        BY <1>3, <1>6, <2>1, <3>2
      <4>3. PICK src, notice : src = "keyword_fallback" /\ notice = "vector"
        OBVIOUS
      <4>4. src \in Fallbacks /\ notice \in {"vector", "keyword"} /\ down' = {notice}
            /\ Found(Fallback(list, src, notice))
        BY <4>1, <4>2, <4>3 DEF Fallbacks
      <4>5. FoundList(Fallback(list, src, notice))
        BY <1>3, <1>6, <3>2, <4>4, FallbackFound
      <4>6. QED
        BY <4>5
    <3>3. QED
      BY <3>1, <3>2
  <2>2. CASE "vector" \notin down /\ failed
    <3>1. CASE vector = <<>>
      BY <1>6, <2>2, <3>1 DEF Combine
    <3>2. CASE vector # <<>>
      <4>1. Found(Fallback(vector, "vector_fallback", "keyword"))
        BY <1>6, <2>2, <3>2 DEF Combine
      <4>2. down' = {"keyword"}
        BY <1>3, <1>6, <2>2
      <4>3. PICK src, notice, v : src = "vector_fallback" /\ notice = "keyword" /\ v = vector
        OBVIOUS
      <4>4. src \in Fallbacks /\ notice \in {"vector", "keyword"} /\ down' = {notice}
            /\ Found(Fallback(v, src, notice)) /\ HitList(v) /\ v # <<>>
        BY <1>3, <3>2, <4>1, <4>2, <4>3 DEF Fallbacks
      <4>5. FoundList(Fallback(v, src, notice))
        BY <1>3, <4>4, FallbackFound
      <4>6. QED
        BY <4>5
    <3>3. QED
      BY <3>1, <3>2
  <2>3. CASE "vector" \notin down /\ ~failed
    <3>1. Found(Fuse(vector, list, request.limit))
      BY <1>6, <2>3 DEF Combine
    <3>2. down' = {}
      BY <1>3, <1>6, <2>3
    <3>3. PICK l, v : l = Fuse(v, list, n) /\ v = vector
      OBVIOUS
    <3>4. HitList(l) /\ Cardinality(Ids(v) \cup Ids(list)) \in Nat
          /\ Len(l) = IF n < Cardinality(Ids(v) \cup Ids(list)) THEN n
                      ELSE Cardinality(Ids(v) \cup Ids(list))
      BY <1>3, <1>6, <3>3, FusedList
    <3>5. Len(l) <= n
      BY <3>4
    <3>6. FoundList(l)
      BY <1>2, <3>1, <3>2, <3>3, <3>4, <3>5 DEF FoundList
    <3>7. QED
      BY <3>6
  <2>4. QED
    BY <2>1, <2>2, <2>3
<1>7. CASE request.kind = "keyword"
  <2>1. \/ Found(kw(request.limit)) /\ UNCHANGED down
        \/ Fail("PROJECT_NOT_FOUND") /\ UNCHANGED <<hits, results, context>>
        \/ Fail("error") /\ UNCHANGED <<hits, results, context>>
    BY <1>7 DEF SearchKeywords, kw
  <2>2. QED
    BY <1>1, <1>5, <1>7, <2>1
<1>8. CASE request.kind # "keyword"
  <2>1. \/ Combine(kw(2 * request.limit), FALSE) /\ UNCHANGED down
        \/ Fail("PROJECT_NOT_FOUND") /\ UNCHANGED <<hits, results, context>>
        \/ Combine(<<>>, TRUE) /\ down' = down \cup {"keyword"}
    BY <1>8 DEF SearchKeywords, kw
  <2>2. HitList(kw(2 * request.limit)) /\ HitList(<<>>)
    <3>1. PICK m \in Nat : m = 2 * request.limit
      BY <1>2
    <3>2. HitList(kw(m))
      BY <1>4
    <3>3. HitList(<<>>)
      BY DEF HitList
    <3>4. QED
      BY <3>1, <3>2, <3>3
  <2>3. ASSUME Combine(kw(2 * request.limit), FALSE), UNCHANGED down
        PROVE  \/ /\ Fail("RETRIEVAL_UNAVAILABLE")
                  /\ UNCHANGED <<hits, results, context>>
               \/ \E l : FoundList(l)
    <3>1. PICK list, failed : list = kw(2 * request.limit) /\ failed = FALSE
      OBVIOUS
    <3>2. HitList(list) /\ failed \in BOOLEAN /\ Combine(list, failed)
          /\ down' = (IF failed THEN down \cup {"keyword"} ELSE down)
          /\ (failed => list = <<>>)
      BY <2>2, <2>3, <3>1
    <3>3. QED
      BY <1>6, <3>2
  <2>4. ASSUME Combine(<<>>, TRUE), down' = down \cup {"keyword"}
        PROVE  \/ /\ Fail("RETRIEVAL_UNAVAILABLE")
                  /\ UNCHANGED <<hits, results, context>>
               \/ \E l : FoundList(l)
    <3>1. PICK list, failed : list = <<>> /\ failed = TRUE
      OBVIOUS
    <3>2. HitList(list) /\ failed \in BOOLEAN /\ Combine(list, failed)
          /\ down' = (IF failed THEN down \cup {"keyword"} ELSE down)
          /\ (failed => list = <<>>)
      BY <2>2, <2>4, <3>1
    <3>3. QED
      BY <1>6, <3>2
  <2>5. QED
    BY <1>1, <2>1, <2>3, <2>4
<1>9. QED
  BY <1>7, <1>8

\* Nothing is cited from an empty list.
LEMMA NothingCited ==
  ASSUME NEW list, HitList(list), PlainContext(list).refs # <<>>
  PROVE  list # <<>>
<1>1. PICK c : c = PlainContext(list)
  OBVIOUS
<1>2. PICK T : T = [citation : Nat, entity : Ids(list)]
  OBVIOUS
<1>3. c.refs \in Seq(T)
  BY <1>1, <1>2, PlainContextNumbered DEF Numbered, ContextRecords
<1>4. PICK r : r \in T
  BY <1>1, <1>3
<1>5. Ids(list) # {}
  BY <1>2, <1>4
<1>6. QED
  BY <1>5 DEF Ids

\* Where a search that ended leads.
LEMMA SearchLeads ==
  ASSUME SearchInv, SearchKeywords
  PROVE  SearchInv'
<1>1. /\ pc = "keyword" /\ UNCHANGED <<index, request, vector, next, graph>>
      /\ Asked /\ HitList(vector) /\ HitList(hits) /\ Len(hits) <= request.limit
      /\ next = 1 /\ response = None
      /\ request.kind \in {"keyword", "hybrid", "search_chain"} \cup Tasks
  BY SearchEnds DEF SearchInv, Searching
<1>2. Asked'
  BY <1>1, AskedStep DEF Next
<1>3. CASE \E status \in {"RETRIEVAL_UNAVAILABLE", "PROJECT_NOT_FOUND", "error"} :
             Fail(status) /\ UNCHANGED <<hits, results, context>>
  <2>1. pc' = "done" /\ UNCHANGED hits
    BY <1>3 DEF Fail, Respond
  <2>2. QED
    BY <1>1, <1>2, <2>1 DEF SearchInv, Searching, Working
<1>4. CASE \E list : FoundList(list)
  <2>1. PICK list : FoundList(list)
    BY <1>4
  <2>2. /\ hits' = list /\ HitList(list) /\ Len(list) <= request.limit
        /\ down' \subseteq {"vector", "keyword"}
        /\ request.kind # "keyword" =>
             \A i \in 1..Len(list) : down' \subseteq list[i].uncertain
    BY <2>1 DEF FoundList, Found
  <2>3. Found(list)
    BY <2>1 DEF FoundList
  <2>4. \/ pc' = "done"
        \/ /\ response' = response
           /\ \/ pc' = "generate" /\ request.kind = "code_qa" /\ list # <<>>
              \/ pc' = "expand" /\ request.kind = "search_chain"
              \/ pc' = "traverse" /\ request.kind \in {"trace", "change_plan"} /\ list # <<>>
    <3>1. CASE request.kind \in {"keyword", "hybrid"}
      BY <2>3, <3>1 DEF Found, Respond
    <3>2. CASE request.kind = "code_qa"
      BY <2>2, <2>3, <3>2, NothingCited DEF Found, NoEvidence, Respond
    <3>3. CASE request.kind = "search_chain"
      BY <2>3, <3>3 DEF Found
    <3>4. CASE request.kind \in {"trace", "change_plan"}
      BY <2>3, <3>4 DEF Found, NoEvidence, Respond
    <3>5. QED
      BY <1>1, <3>1, <3>2, <3>3, <3>4 DEF Tasks
  <2>5. list # <<>> => 1 \in 1..Len(list)
    BY <2>2 DEF HitList
  <2>6. Lost' = down'
    BY <2>2 DEF Lost
  <2>7. QED
    BY <1>1, <1>2, <2>2, <2>4, <2>5, <2>6 DEF SearchInv, Searching, Working, Tasks
<1>5. QED
  BY <1>3, <1>4, SearchEnds

\* What the collection returns are hits.
LEMMA VectorList ==
  ASSUME NEW answer \in VectorAnswers, NEW n \in Nat, NEW m,
         m = FirstN([i \in DOMAIN answer |->
                      Hit(answer[i].entity, answer[i].score, "vector")], n)
  PROVE  HitList(m) /\ Len(m) <= n
<1> DEFINE list == [i \in DOMAIN answer |->
                     Hit(answer[i].entity, answer[i].score, "vector")]
<1>1. /\ answer \in Seq([entity : EntityIds, score : Int])
      /\ \A i, j \in DOMAIN answer : answer[i].entity = answer[j].entity => i = j
  BY AnswersAssumption
<1>2. DOMAIN answer = 1..Len(answer) /\ Len(answer) \in Nat
  BY <1>1
<1>30. PICK Q : Q = [entity : EntityIds, score : Int]
  OBVIOUS
<1>31. answer \in Seq(Q)
  BY <1>1, <1>30, Zenon
<1>32. \A i \in 1..Len(answer) : answer[i] \in Q
  BY <1>31
<1>3. \A i \in 1..Len(answer) : answer[i].entity \in EntityIds /\ answer[i].score \in Int
  BY <1>30, <1>32
<1>4. "vector" \in HitSources
  BY DEF HitSources
<1>5. \A i \in 1..Len(answer) : list[i] \in HitRecords /\ list[i].entity = answer[i].entity
  BY <1>2, <1>3, <1>4 DEF Hit, HitRecords
<1>6. list = [i \in 1..Len(answer) |-> list[i]]
  BY <1>2
<1> HIDE DEF list
<1>7. list \in Seq(HitRecords) /\ Len(list) = Len(answer)
  BY <1>2, <1>5, <1>6
<1>8. m = FirstN(list, n)
  BY DEF list
<1>9. /\ m \in Seq(HitRecords)
      /\ \A i \in 1..Len(m) : i \in 1..Len(answer) /\ m[i] = list[i]
      /\ Len(m) = IF n < Len(answer) THEN n ELSE Len(answer)
  BY ONLY <1>7, <1>8, n \in Nat, FirstNType
<1>10. HitList(m)
  <2>1. \A i \in 1..Len(m) : i \in 1..Len(answer) /\ m[i].entity = answer[i].entity
    BY ONLY <1>5, <1>9
  <2>2. \A i, j \in 1..Len(answer) : answer[i].entity = answer[j].entity => i = j
    BY ONLY <1>1, <1>2
  <2>3. \A i, j \in 1..Len(m) : m[i].entity = m[j].entity => i = j
    BY ONLY <2>1, <2>2
  <2>4. QED
    BY ONLY <1>9, <2>3 DEF HitList
<1>11. Len(m) <= n
  BY <1>2, <1>9
<1>12. QED
  BY <1>10, <1>11

\* How a search begins.
LEMMA SearchStarts == Init => SearchInv
<1>1. SUFFICES ASSUME Init PROVE SearchInv
  OBVIOUS
<1>2. Asked /\ request.kind \in Kinds /\ request.limit \in Nat /\ request.limit >= 1
  <2>1. Asked
    BY <1>1, AskedInit
  <2>2. request.kind \in Kinds
    BY <1>1 DEF Init
  <2>3. QED
    BY <2>1, <2>2, AskedFacts
<1>3. HitList(<<>>) /\ Len(<<>>) = 0
  BY DEF HitList
<1>4. /\ down = {} /\ vector = <<>> /\ hits = <<>> /\ next = 1 /\ results = {}
      /\ context = NoContext /\ response = None
  BY <1>1 DEF Init
<1>5. \/ pc = "plan" /\ request.kind = "chat"
      \/ pc = "match" /\ request.kind = "api_chain"
      \/ pc = "keyword" /\ request.kind = "keyword"
      \/ pc = "collection" /\ request.kind \notin {"chat", "api_chain", "keyword"}
  <2>1. pc = CASE request.kind = "chat" -> "plan"
               [] request.kind = "api_chain" -> "match"
               [] request.kind = "keyword" -> "keyword"
               [] OTHER -> "collection"
    BY <1>1 DEF Init
  <2>2. QED
    BY <2>1
<1>6. Kinds \subseteq {"keyword", "hybrid", "api_chain", "search_chain",
                       "code_qa", "trace", "chat"}
  BY AnswersAssumption
<1>7. HitList(vector) /\ HitList(hits) /\ Len(hits) <= request.limit
  BY <1>2, <1>3, <1>4
<1>8. request.kind \in {"keyword", "hybrid", "api_chain", "search_chain",
                        "code_qa", "trace", "chat"}
  BY <1>2, <1>6
<1>9. QED
  BY <1>2, <1>4, <1>5, <1>7, <1>8 DEF SearchInv, Searching, Working, Tasks

\* What is found once, and what is lost, stays so.
LEMMA SearchStep == SearchInv /\ [Next]_vars => SearchInv'
<1> SUFFICES ASSUME SearchInv, [Next]_vars PROVE SearchInv'
  OBVIOUS
<1>1. Asked /\ Asked'
  BY AskedStep DEF SearchInv
<1>2. request.limit \in Nat
  BY <1>1, AskedFacts
<1>3. \A i \in 1..Len(hits) : Lost \subseteq hits[i].uncertain =>
        (down \cup {"traversal"}) \cap {"vector", "keyword"} \subseteq hits[i].uncertain
  BY DEF Lost
<1> USE DEF Searching, Working
<1>4. CASE Plan
  <2>1. PlanTask(request.hints) \in Tasks
    BY DEF PlanTask, Tasks
  <2>2. request'.kind \in Tasks /\ request'.limit = request.limit
    BY <1>1, <1>4, <2>1 DEF Plan, Asked, Requests
  <2>3. QED
    BY <1>1, <1>4, <2>2 DEF Plan, SearchInv, Lost
<1>5. CASE CheckCollection
  BY <1>1, <1>5 DEF CheckCollection, SearchInv, Lost, Fail, Respond
<1>6. CASE Rewrite
  <2>1. PICK query : request' = [request EXCEPT !.query = query]
    BY <1>6 DEF Rewrite
  <2>2. request'.kind = request.kind /\ request'.limit = request.limit
    BY <1>1, <2>1 DEF Asked, Requests
  <2>3. QED
    BY <1>1, <1>6, <2>2 DEF Rewrite, SearchInv, Lost
<1>7. CASE SearchVectors
  <2>1. 2 * request.limit \in Nat
    BY <1>2
  <2>2. HitList(vector')
    BY <1>7, <2>1, VectorList DEF SearchVectors, SearchInv
  <2>3. QED
    BY <1>1, <1>7, <2>2 DEF SearchVectors, SearchInv, Lost
<1>8. CASE SearchKeywords
  BY <1>8, SearchLeads
<1>9. CASE TraverseHit
  <2>1. /\ down' \in {down, down \cup {"traversal"}} /\ next' = next + 1
        /\ UNCHANGED <<index, request, vector, hits, graph, context, response>>
        /\ pc = "traverse"
        /\ pc' = IF next = Len(hits) THEN "expand" ELSE "traverse"
    BY <1>9 DEF TraverseHit
  <2>2. Lost' = Lost
    BY <2>1 DEF Lost
  <2>3. next # Len(hits) => next + 1 \in 1..Len(hits)
    BY <2>1 DEF SearchInv, HitList
  <2>4. QED
    BY <1>1, <2>1, <2>2, <2>3 DEF SearchInv, Tasks
<1>10. CASE ExpandTask
  <2>1. /\ pc = "expand" /\ request.kind \in {"trace", "change_plan"}
        /\ down' \in {down, down \cup {"expansion"}}
        /\ \/ pc' = "generate" /\ UNCHANGED response
           \/ pc' = "done"
        /\ UNCHANGED <<index, request, vector, hits, next, results>>
    BY <1>10 DEF ExpandTask, NoEvidence, Respond
  <2>2. Lost' = Lost
    BY <2>1 DEF Lost
  <2>3. QED
    BY <1>1, <2>1, <2>2 DEF SearchInv, Tasks
<1>11. CASE ExpandChain
  BY <1>1, <1>11 DEF ExpandChain, SearchInv, Fail, Respond
<1>12. CASE MatchApi
  BY <1>1, <1>12 DEF MatchApi, SearchInv, Fail, Respond
<1>13. CASE Generate \/ Repair
  <2>1. /\ pc \in {"generate", "repair"}
        /\ \/ pc' = "repair" /\ UNCHANGED response
           \/ pc' = "done"
        /\ UNCHANGED <<index, request, down, vector, hits, next, results, context>>
    BY <1>13 DEF Generate, Repair, Accept, ModelFails, Fail, Respond
  <2>2. QED
    BY <1>1, <2>1 DEF SearchInv, Lost
<1>14. CASE Done \/ UNCHANGED vars
  BY <1>1, <1>14 DEF Done, vars, SearchInv, Lost
<1>15. QED
  BY <1>4, <1>5, <1>6, <1>7, <1>8, <1>9, <1>10, <1>11, <1>12, <1>13, <1>14 DEF Next

-----------------------------------------------------------------------------
(* The evidence of a trace or a change plan                                *)

\* The values of a function on a finite set.
LEMMA ImageFinite ==
  ASSUME NEW S, IsFiniteSet(S), NEW f, NEW T, T = {f[x] : x \in S}
  PROVE  IsFiniteSet(T)
<1>1. PICK g : g = [x \in S |-> f[x]]
  OBVIOUS
<1>2. g \in Surjection(S, T)
  BY <1>1 DEF Surjection
<1>3. QED
  BY <1>2, FS_Surjection

\* The results a list of hits starts with.
LEMMA DirectSet ==
  ASSUME NEW list, HitList(list), NEW S, S = {Direct(list[i]) : i \in DOMAIN list}
  PROVE  /\ ResultSet(S)
         /\ \A i \in 1..Len(list) : \E r \in S : r.entity = list[i].entity /\ r.depth = 0
         /\ \A r \in S : r.depth = 0 /\ r.entity \in Ids(list)
         /\ \A r \in S : \E i \in 1..Len(list) : r = Direct(list[i])
         /\ \A i \in 1..Len(list) : Direct(list[i]).uncertain = list[i].uncertain
<1>1. DOMAIN list = 1..Len(list) /\ Len(list) \in Nat
      /\ \A i \in 1..Len(list) : list[i] \in HitRecords
  BY DEF HitList
<1>2. \A h \in HitRecords : /\ h.entity \in EntityIds /\ h.score \in Int
                            /\ h.uncertain \in SUBSET {"vector", "keyword"}
  BY DEF HitRecords
<1>3. \A h \in HitRecords :
        /\ Direct(h) \in ResultRecords
        /\ Direct(h).entity = h.entity /\ Direct(h).depth = 0
        /\ Direct(h).uncertain = h.uncertain
  <2>1. SUFFICES ASSUME NEW h \in HitRecords
                 PROVE  /\ Direct(h) \in ResultRecords
                        /\ Direct(h).entity = h.entity /\ Direct(h).depth = 0
                        /\ Direct(h).uncertain = h.uncertain
    OBVIOUS
  <2>2. h.uncertain \in SUBSET {"vector", "keyword", "traversal"}
    BY <1>2
  <2>3. QED
    BY <1>2, <2>2 DEF Direct, Result, ResultRecords
<1>4. PICK I : I = 1..Len(list)
  OBVIOUS
<1>5. PICK f : f = [i \in I |-> Direct(list[i])]
  OBVIOUS
<1>6. IsFiniteSet(I)
  BY <1>1, <1>4, FS_Interval
<1>7. S = {f[i] : i \in I}
  BY <1>1, <1>4, <1>5
<1>8. IsFiniteSet(S)
  BY <1>6, <1>7, ImageFinite
<1>9. \A r \in S : \E i \in I : r = Direct(list[i])
  BY <1>5, <1>7
<1>10. \A i \in I : Direct(list[i]) \in S
  BY <1>5, <1>7
<1>11. \A a, b \in S : a.entity = b.entity => a = b
  BY <1>1, <1>3, <1>4, <1>9 DEF HitList
<1>12. S \in SUBSET ResultRecords
  BY <1>1, <1>3, <1>4, <1>9
<1>13. \A r \in S : r.depth = 0 /\ r.entity \in Ids(list)
  BY <1>1, <1>3, <1>4, <1>9 DEF Ids
<1>14. QED
  BY <1>1, <1>3, <1>4, <1>8, <1>9, <1>10, <1>11, <1>12, <1>13 DEF ResultSet

\* A traversal that succeeds.
LEMMA TraversalAdds ==
  ASSUME SearchInv, EvidenceInv, pc = "traverse",
         NEW hit, hit = hits[next], hit.entity \in index.entities,
         results' = Improve(results,
           Expansion(hit, Traverse(index, hit.entity, request.depth), request.depth)),
         UNCHANGED <<down, hits, request>>
  PROVE  EvidenceInv'
<1>1. /\ Asked /\ HitList(hits) /\ next \in 1..Len(hits)
      /\ \A i \in 1..Len(hits) : Lost \subseteq hits[i].uncertain
      /\ request.kind \in {"trace", "change_plan"}
  BY DEF SearchInv, Working
<1>2. /\ ResultSet(results)
      /\ \A r \in results : Lost \subseteq r.uncertain
      /\ \A i \in 1..Len(hits) : \E r \in results :
           r.entity = hits[i].entity /\ r.depth = 0
      /\ \A r \in results : r.depth = 0 => r.entity \in Ids(hits)
      /\ "traversal" \in down => \E r \in results :
           r.depth = 0 /\ "traversal" \in r.uncertain
  BY <1>1 DEF EvidenceInv, Working
<1>3. hit \in HitRecords /\ Lost \subseteq hit.uncertain
  BY <1>1 DEF HitList
<1>4. index \in Indexes
  BY <1>1 DEF Asked
<1>5. PICK N \in Nat : N = request.depth
  BY <1>1, AskedFacts
<1>6. PICK C : C = Expansion(hit, Traverse(index, hit.entity, N), N)
  OBVIOUS
<1>7. ResultSet(C) /\ \A c \in C : c.depth >= 1 /\ c.uncertain = hit.uncertain
  BY <1>3, <1>4, <1>6, ExpansionResults
<1>8. PICK S, T : S = results /\ T = Improve(S, C)
  OBVIOUS
<1>9. /\ ResultSet(T)
      /\ \A r \in S : r.depth = 0 => r \in T
      /\ \A r \in T : r \in S \/ (r \in C /\ r.depth # 0)
  BY <1>2, <1>7, <1>8, ImproveResults
<1>10. results' = T /\ Lost' = Lost
  BY <1>5, <1>6, <1>8 DEF Lost
<1>11. \A r \in T : Lost \subseteq r.uncertain
  BY <1>2, <1>3, <1>7, <1>8, <1>9
<1>12. QED
  BY <1>2, <1>8, <1>9, <1>10, <1>11 DEF EvidenceInv, Ids

\* A traversal that fails.
LEMMA TraversalMarks ==
  ASSUME SearchInv, EvidenceInv, pc = "traverse",
         NEW hit, hit = hits[next],
         results' = {IF r.entity = hit.entity
                     THEN [r EXCEPT !.uncertain = @ \cup {"traversal"}]
                     ELSE r : r \in results},
         down' = down \cup {"traversal"}, UNCHANGED <<hits, request>>
  PROVE  EvidenceInv'
<1> DEFINE mark(r) == IF r.entity = hit.entity
                      THEN [r EXCEPT !.uncertain = @ \cup {"traversal"}] ELSE r
<1>1. /\ HitList(hits) /\ next \in 1..Len(hits)
      /\ request.kind \in {"trace", "change_plan"}
  BY DEF SearchInv
<1>2. /\ ResultSet(results)
      /\ \A r \in results : Lost \subseteq r.uncertain
      /\ \A i \in 1..Len(hits) : \E r \in results :
           r.entity = hits[i].entity /\ r.depth = 0
      /\ \A r \in results : r.depth = 0 => r.entity \in Ids(hits)
  BY <1>1 DEF EvidenceInv, Working
<1>3. \A r \in ResultRecords :
        /\ mark(r) \in ResultRecords
        /\ mark(r).entity = r.entity /\ mark(r).depth = r.depth
        /\ r.uncertain \subseteq mark(r).uncertain
        /\ r.entity = hit.entity => "traversal" \in mark(r).uncertain
  BY DEF ResultRecords
<1>4. results' = {mark(r) : r \in results}
  OBVIOUS
<1> HIDE DEF mark
<1>5. PICK S : S = results
  OBVIOUS
<1>6. PICK f : f = [r \in S |-> mark(r)]
  OBVIOUS
<1>7. PICK T : T = {f[r] : r \in S}
  OBVIOUS
<1>8. results' = T
  BY <1>4, <1>5, <1>6, <1>7
<1>9. IsFiniteSet(T)
  BY <1>2, <1>5, <1>7, ImageFinite DEF ResultSet
<1>10. \A r \in S : mark(r) \in T /\ r \in ResultRecords
  BY <1>2, <1>5, <1>6, <1>7 DEF ResultSet
<1>11. \A x \in T : \E r \in S : x = mark(r)
  BY <1>6, <1>7
<1>12. ResultSet(T)
  BY <1>2, <1>3, <1>5, <1>9, <1>10, <1>11 DEF ResultSet
<1>13. Lost' = Lost
  BY DEF Lost
<1>14. \A x \in T : Lost \subseteq x.uncertain
  BY <1>2, <1>3, <1>5, <1>10, <1>11
<1>15. \A i \in 1..Len(hits) : \E x \in T : x.entity = hits[i].entity /\ x.depth = 0
  BY <1>2, <1>3, <1>5, <1>10
<1>16. \A x \in T : x.depth = 0 => x.entity \in Ids(hits)
  BY <1>2, <1>3, <1>5, <1>10, <1>11
<1>17. \E x \in T : x.depth = 0 /\ "traversal" \in x.uncertain
  <2>1. PICK r \in S : r.entity = hit.entity /\ r.depth = 0
    BY <1>1, <1>2, <1>5
  <2>2. QED
    BY <1>3, <1>10, <2>1
<1>18. QED
  BY <1>8, <1>12, <1>13, <1>14, <1>15, <1>16, <1>17 DEF EvidenceInv, Ids

\* The evidence keeps one result for every hit, and what was lost.
LEMMA EvidenceStep ==
  SearchInv /\ EvidenceInv /\ [Next]_vars => EvidenceInv'
<1> SUFFICES ASSUME SearchInv, EvidenceInv, [Next]_vars PROVE EvidenceInv'
  OBVIOUS
<1>1. CASE Plan \/ CheckCollection \/ Rewrite \/ SearchVectors \/ MatchApi \/ ExpandChain
  <2>1. pc' \notin Working
    BY <1>1 DEF Plan, CheckCollection, Rewrite, SearchVectors, MatchApi, ExpandChain,
       Fail, Respond, Working
  <2>2. QED
    BY <2>1 DEF EvidenceInv
<1>2. CASE SearchKeywords
  <2>1. CASE \E status : Fail(status)
    BY <2>1 DEF Fail, Respond, EvidenceInv, Working
  <2>2. CASE \E list : FoundList(list)
    <3>1. PICK list : FoundList(list)
      BY <2>2
    <3>2. SUFFICES ASSUME request'.kind \in {"trace", "change_plan"}
                   PROVE  EvidenceInv'
      BY DEF EvidenceInv
    <3>3. request' = request /\ request.kind \in {"trace", "change_plan"}
      BY <1>2, <3>2 DEF SearchKeywords
    <3>4. /\ hits' = list /\ results' = {Direct(list[i]) : i \in DOMAIN list}
          /\ HitList(list) /\ down' \subseteq {"vector", "keyword"}
          /\ \A i \in 1..Len(list) : down' \subseteq list[i].uncertain
      BY <3>1, <3>3 DEF FoundList, Found
    <3>40. HitList(list)
      BY <3>4
    <3>5. PICK S : S = {Direct(list[i]) : i \in DOMAIN list}
      OBVIOUS
    <3>6. /\ ResultSet(S)
          /\ \A i \in 1..Len(list) : \E r \in S : r.entity = list[i].entity /\ r.depth = 0
          /\ \A r \in S : r.depth = 0 /\ r.entity \in Ids(list)
          /\ \A r \in S : \E i \in 1..Len(list) : r = Direct(list[i])
          /\ \A i \in 1..Len(list) : Direct(list[i]).uncertain = list[i].uncertain
      BY ONLY <3>40, <3>5, DirectSet
    <3>7. Lost' \subseteq down' /\ "traversal" \notin down'
      BY <3>4 DEF Lost
    <3>8. \A r \in S : Lost' \subseteq r.uncertain
      BY <3>4, <3>6, <3>7
    <3>9. results' = S /\ hits' = list
      BY <3>4, <3>5
    <3>10. QED
      BY <3>6, <3>7, <3>8, <3>9 DEF EvidenceInv, Ids
  <2>3. QED
    BY <1>2, <2>1, <2>2, SearchEnds
<1>3. CASE TraverseHit
  <2>1. PICK hit : hit = hits[next]
    OBVIOUS
  <2>2. pc = "traverse" /\ UNCHANGED <<hits, request>>
    BY <1>3 DEF TraverseHit
  <2>3. \/ /\ hit.entity \in index.entities
           /\ results' = Improve(results,
                Expansion(hit, Traverse(index, hit.entity, request.depth),
                          request.depth))
           /\ UNCHANGED down
        \/ /\ results' = {IF r.entity = hit.entity
                          THEN [r EXCEPT !.uncertain = @ \cup {"traversal"}]
                          ELSE r : r \in results}
           /\ down' = down \cup {"traversal"}
    BY <1>3, <2>1 DEF TraverseHit
  <2>4. QED
    BY <2>1, <2>2, <2>3, TraversalAdds, TraversalMarks
<1>4. CASE ExpandTask \/ Generate \/ Repair
  <2>1. /\ pc \in Working /\ UNCHANGED <<request, hits, results>>
        /\ down' \in {down, down \cup {"expansion"}}
    BY <1>4 DEF ExpandTask, Generate, Repair, Working
  <2>2. Lost' = Lost /\ ("traversal" \in down' => "traversal" \in down)
    BY <2>1 DEF Lost
  <2>3. QED
    BY <2>1, <2>2 DEF EvidenceInv, Ids
<1>5. CASE Done \/ UNCHANGED vars
  BY <1>5 DEF Done, vars, EvidenceInv, Lost, Ids
<1>6. QED
  BY <1>1, <1>2, <1>3, <1>4, <1>5 DEF Next

-----------------------------------------------------------------------------
(* The context and what is made of it                                      *)

\* A step that sets a numbered context.
LEMMA NumberedNext ==
  ASSUME UNCHANGED index, NEW c, NEW E, Numbered(c, E), context' = c, Citable' = E
  PROVE  Numbered(context, Citable)'
BY DEF Numbered, ContextRecords

\* A context that is not built yet.
LEMMA NothingBuilt ==
  ASSUME UNCHANGED index, context' = NoContext, pc' \notin {"generate", "repair"}
  PROVE  ContextInv'
<1>1. PICK E : E = Citable'
  OBVIOUS
<1>2. Numbered(NoContext, E) /\ NoContext.length = 0
  BY EmptyContext
<1>3. Numbered(context, Citable)'
  BY <1>1, <1>2, NumberedNext
<1>4. NoContext.length <= Budget
  BY <1>2, CodeGraphAssumption
<1>5. QED
  BY <1>3, <1>4 DEF ContextInv

\* The context of the task, built from the best results and a graph of the
\* index.
LEMMA TaskContext ==
  ASSUME SearchInv, EvidenceInv, ExpandTask
  PROVE  /\ Numbered(context', {r.entity : r \in results})
         /\ context'.length <= Budget
<1>1. pc = "expand" /\ request.kind \in {"trace", "change_plan"}
  BY DEF ExpandTask
<1>2. ResultSet(results) /\ Asked
  BY <1>1 DEF EvidenceInv, SearchInv, Working
<1>3. PICK S : S = results
  OBVIOUS
<1>4. Ranked \in Seq(S)
  BY <1>2, <1>3, RankedType
<1>5. PICK list : list = Ranked
  OBVIOUS
<1>6. S \in SUBSET ResultRecords
  BY <1>2, <1>3 DEF ResultSet
<1>7. list \in Seq(ResultRecords) /\ \A n \in 1..Len(list) : list[n] \in S
  BY <1>4, <1>5, <1>6
<1>8. PICK E : E = {r.entity : r \in S}
  OBVIOUS
<1>9. E \in SUBSET EntityIds
  BY <1>2, <1>3, <1>8, ResultFields
<1>10. \A n \in 1..Len(list) : list[n].entity \in E
  BY <1>7, <1>8
<1>11. PICK N \in Nat : N = request.depth
  BY <1>2, AskedFacts
<1> DEFINE seeds == {Ranked[i].seed : i \in DOMAIN Ranked}
<1>12. \/ /\ seeds \subseteq index.entities
          /\ context' = GraphContext(Ranked, ExpandEntities(index, seeds, request.depth))
       \/ context' = GraphContext(Ranked, EmptyGraph)
  BY DEF ExpandTask, Expandable
<1>13. \/ \E Z \in SUBSET index.entities :
            context' = GraphContext(list, ExpandEntities(index, Z, N))
       \/ context' = GraphContext(list, EmptyGraph)
  <2> HIDE DEF seeds
  <2>1. QED
    BY <1>5, <1>11, <1>12
<1>14. PICK g : /\ context' = GraphContext(list, g)
                /\ \/ \E Z \in SUBSET index.entities : g = ExpandEntities(index, Z, N)
                   \/ g = EmptyGraph
  BY <1>13
<1>15. g.edges \in SUBSET index.relations
  <2>1. CASE g = EmptyGraph
    BY <2>1 DEF EmptyGraph
  <2>2. CASE \E Z \in SUBSET index.entities : g = ExpandEntities(index, Z, N)
    <3>1. PICK Z : Z \in SUBSET index.entities /\ g = ExpandEntities(index, Z, N)
      BY <2>2
    <3>2. PICK R : R = {r \in index.relations : \E s \in Z : r \in BallEdges(s, N)}
      OBVIOUS
    <3>3. PICK V : V = {f \in index.entities : \E s \in Z : f \in Ball(s, N)}
      OBVIOUS
    <3>4. ExpandEntities(index, Z, N) = [nodes |-> V, edges |-> R]
      BY <3>1, <3>2, <3>3, Expanded
    <3>5. g.edges = R
      BY <3>1, <3>4
    <3>6. QED
      BY <3>2, <3>5
  <2>3. QED
    BY <1>14, <2>1, <2>2
<1>16. IsFiniteSet(g.edges)
  BY <1>2, <1>15, AskedFacts, FS_Subset
<1>17. /\ Numbered(GraphContext(list, g), E)
       /\ GraphContext(list, g).length <= Budget
  BY <1>7, <1>9, <1>10, <1>15, <1>16, GraphContextNumbered
<1>18. QED
  BY <1>3, <1>8, <1>14, <1>17

\* Whatever the model is given is numbered and fits.
LEMMA ContextStep ==
  SearchInv /\ EvidenceInv /\ ContextInv /\ [Next]_vars => ContextInv'
<1> SUFFICES ASSUME SearchInv, EvidenceInv, ContextInv, [Next]_vars
             PROVE  ContextInv'
  OBVIOUS
<1>1. CASE Plan \/ CheckCollection \/ Rewrite \/ SearchVectors \/ TraverseHit
           \/ ExpandChain \/ MatchApi
  <2>1. pc \in Searching \cup {"traverse", "expand"} /\ UNCHANGED <<index, context>>
        /\ pc' \notin {"generate", "repair"}
    BY <1>1 DEF Plan, CheckCollection, Rewrite, SearchVectors, TraverseHit,
       ExpandChain, MatchApi, Fail, Respond, Searching
  <2>2. context = NoContext
    BY <2>1 DEF ContextInv, Searching
  <2>3. QED
    BY <2>1, <2>2, NothingBuilt
<1>2. CASE SearchKeywords
  <2>1. pc = "keyword" /\ UNCHANGED <<index, request>> /\ context = NoContext
    BY <1>2 DEF SearchKeywords, ContextInv
  <2>2. CASE \E status : Fail(status) /\ UNCHANGED context
    BY <2>1, <2>2, NothingBuilt DEF Fail, Respond
  <2>3. CASE \E list : FoundList(list)
    <3>1. PICK list : FoundList(list)
      BY <2>3
    <3>2. CASE UNCHANGED context /\ pc' # "generate"
      <4>1. pc' # "repair"
        BY <2>1, <1>2, <3>1 DEF FoundList, Found, Respond, NoEvidence
      <4>2. QED
        BY <2>1, <3>2, <4>1, NothingBuilt
    <3>3. CASE /\ request.kind = "code_qa" /\ context' = PlainContext(list)
               /\ hits' = list /\ PlainContext(list).refs # <<>>
      <4>1. HitList(list)
        BY <3>1 DEF FoundList
      <4>2. PICK c, E : c = PlainContext(list) /\ E = Ids(list)
        OBVIOUS
      <4>3. Numbered(c, E) /\ c.length <= Budget
        BY <4>1, <4>2, PlainContextNumbered
      <4>4. Citable' = E
        BY <2>1, <3>3, <4>2 DEF Citable, Ids
      <4>5. Numbered(context, Citable)'
        BY <2>1, <3>3, <4>2, <4>3, <4>4, NumberedNext
      <4>6. pc' = "generate"
        BY <3>1, <3>3 DEF FoundList, Found
      <4>7. QED
        BY <3>3, <4>2, <4>3, <4>5, <4>6 DEF ContextInv
    <3>4. QED
      BY <2>1, <3>1, <3>2, <3>3 DEF FoundList, Found, Respond, NoEvidence
  <2>4. QED
    BY <1>2, <2>2, <2>3, SearchEnds
<1>3. CASE ExpandTask
  <2>1. /\ request.kind \in {"trace", "change_plan"}
        /\ UNCHANGED <<index, request, results>>
        /\ pc' \in {"generate", "done"} /\ (pc' = "generate" => context'.refs # <<>>)
    BY <1>3 DEF ExpandTask, NoEvidence, Respond
  <2>2. PICK c, E : c = context' /\ E = {r.entity : r \in results}
    OBVIOUS
  <2>3. Numbered(c, E) /\ c.length <= Budget
    BY <1>3, <2>2, TaskContext
  <2>4. Citable' = E
    BY <2>1, <2>2 DEF Citable
  <2>5. Numbered(context, Citable)'
    BY <2>1, <2>2, <2>3, <2>4, NumberedNext
  <2>6. QED
    BY <2>1, <2>2, <2>3, <2>5 DEF ContextInv
<1>4. CASE Generate \/ Repair \/ Done \/ UNCHANGED vars
  <2>1. /\ UNCHANGED <<index, request, hits, results, context>>
        /\ \/ pc' = pc
           \/ pc \in {"generate", "repair"} /\ pc' \in {"repair", "done"}
    BY <1>4 DEF Generate, Repair, Done, vars, Accept, ModelFails, Fail, Respond
  <2>2. PICK c, E : c = context /\ E = Citable
    OBVIOUS
  <2>3. Citable' = E
    BY <2>1, <2>2 DEF Citable, Ids
  <2>4. Numbered(c, E)
    BY <2>2 DEF ContextInv
  <2>5. Numbered(context, Citable)'
    BY <2>1, <2>2, <2>3, <2>4, NumberedNext
  <2>6. QED
    BY <2>1, <2>5 DEF ContextInv
<1>5. QED
  BY <1>1, <1>2, <1>3, <1>4 DEF Next

\* What is missing from the evidence of a trace or a change plan is among the
\* uncertainties of its answer: the results of the hits rank first, and none
\* of them is cut off.
LEMMA LostIsTold ==
  ASSUME SearchInv, EvidenceInv, pc \in Working,
         request.kind \in {"trace", "change_plan"}, NEW g, NEW failed
  PROVE  /\ down \ {"expansion"} \subseteq Uncertainties(g, failed)
         /\ failed => "expansion" \in Uncertainties(g, failed)
<1>1. /\ Asked /\ HitList(hits) /\ Len(hits) <= request.limit /\ hits # <<>>
      /\ down \subseteq {"vector", "keyword", "traversal", "expansion"}
  BY DEF SearchInv, Tasks
<1>2. /\ ResultSet(results)
      /\ \A r \in results : Lost \subseteq r.uncertain
      /\ \A i \in 1..Len(hits) : \E r \in results :
           r.entity = hits[i].entity /\ r.depth = 0
      /\ \A r \in results : r.depth = 0 => r.entity \in Ids(hits)
      /\ "traversal" \in down => \E r \in results :
           r.depth = 0 /\ "traversal" \in r.uncertain
  BY DEF EvidenceInv
<1>3. Len(hits) <= MaxResults
  <2>1. PICK n \in Nat : n = Len(hits)
    BY <1>1 DEF HitList
  <2>2. PICK m \in Nat : m = request.limit /\ m <= MaxResults
    BY <1>1, AskedFacts
  <2>3. MaxResults \in Nat /\ n <= m
    BY <1>1, <2>1, <2>2, CodeGraphAssumption
  <2>4. QED
    BY <2>1, <2>2, <2>3
<1>4. PICK told : told = UNION {Ranked[i].uncertain : i \in DOMAIN Ranked}
  OBVIOUS
<1>5. \A x \in results : x.depth = 0 => x.uncertain \subseteq told
  <2>1. SUFFICES ASSUME NEW x \in results, x.depth = 0
                 PROVE  x.uncertain \subseteq told
    OBVIOUS
  <2>2. PICK i \in 1..Len(Ranked) : Ranked[i] = x
    BY <1>1, <1>2, <1>3, <2>1, DirectRanked
  <2>3. DOMAIN Ranked = 1..Len(Ranked)
    BY <1>2, RankedType
  <2>4. QED
    BY <1>4, <2>2, <2>3
<1>6. Lost \subseteq told
  <2>1. 1 \in 1..Len(hits)
    BY <1>1 DEF HitList
  <2>2. QED
    BY <1>2, <1>5, <2>1
<1>7. "traversal" \in down => "traversal" \in told
  BY <1>2, <1>5
<1>8. down \ {"expansion"} \subseteq told
  BY <1>1, <1>6, <1>7 DEF Lost
<1>9. Uncertainties(g, failed) = told \cup (IF failed THEN {"expansion"} ELSE Missing(g))
  BY <1>4 DEF Uncertainties
<1>10. QED
  BY <1>8, <1>9

\* Where there is only a search, the hits say it.
LEMMA LostIsInHits ==
  ASSUME NEW list, HitList(list), NEW lost, lost # {} => list # <<>>,
         \A i \in 1..Len(list) : lost \subseteq list[i].uncertain
  PROVE  lost \subseteq UNION {list[i].uncertain : i \in DOMAIN list}
<1>1. DOMAIN list = 1..Len(list) /\ Len(list) \in Nat
  BY DEF HitList
<1>2. CASE lost = {}
  BY <1>2
<1>3. CASE lost # {}
  <2>1. 1 \in DOMAIN list
    BY <1>1, <1>3 DEF HitList
  <2>2. list[1].uncertain \subseteq UNION {list[i].uncertain : i \in DOMAIN list}
    BY <2>1
  <2>3. QED
    BY <1>1, <2>1, <2>2
<1>4. QED
  BY <1>2, <1>3

\* No step answers without telling what was lost.
LEMMA ToldStep ==
  SearchInv /\ EvidenceInv /\ DegradationTold /\ [Next]_vars => DegradationTold'
<1> SUFFICES ASSUME SearchInv, EvidenceInv, DegradationTold, [Next]_vars
             PROVE  DegradationTold'
  OBVIOUS
<1>1. SearchInv'
  BY SearchStep
<1>2. CASE UNCHANGED vars
  BY <1>2 DEF vars, DegradationTold
<1>3. CASE pc' # "done"
  BY <1>1, <1>3 DEF SearchInv, DegradationTold
<1>4. ASSUME NEW status \in {"VECTOR_INDEX_NOT_FOUND", "RETRIEVAL_UNAVAILABLE",
               "PROJECT_NOT_FOUND", "API_NOT_FOUND", "ENTITY_NOT_FOUND", "error",
               "CHANGE_PLAN_RESPONSE_INVALID"},
             Fail(status)
      PROVE  DegradationTold'
  BY <1>4 DEF Fail, Respond, DegradationTold
<1>5. CASE CheckCollection
  BY <1>3, <1>4, <1>5 DEF CheckCollection
<1>6. CASE ExpandChain \/ MatchApi
  <2>1. request' = request /\ request.kind \in {"search_chain", "api_chain"}
    BY <1>6 DEF ExpandChain, MatchApi, SearchInv, Asked
  <2>2. QED
    BY <2>1 DEF DegradationTold, Tasks
<1>7. CASE Plan \/ Rewrite \/ SearchVectors \/ TraverseHit
  BY <1>3, <1>7 DEF Plan, Rewrite, SearchVectors, TraverseHit
<1>8. CASE SearchKeywords
  <2>1. UNCHANGED request
    BY <1>8 DEF SearchKeywords
  <2>2. CASE \E status \in {"RETRIEVAL_UNAVAILABLE", "PROJECT_NOT_FOUND", "error"} :
               Fail(status)
    BY <1>4, <2>2
  <2>3. CASE \E list : FoundList(list)
    <3>1. PICK list : FoundList(list)
      BY <2>3
    <3>2. HitList(list) /\ hits' = list /\ Found(list)
          /\ (request.kind # "keyword" =>
                /\ down' # {} => list # <<>>
                /\ \A i \in 1..Len(list) : down' \subseteq list[i].uncertain
                /\ down' # {} => \A i \in 1..Len(list) : list[i].source \in Fallbacks)
      BY <3>1 DEF FoundList, Found
    <3>3. CASE request.kind = "hybrid"
      BY <2>1, <3>2, <3>3 DEF DegradationTold, Tasks, HitList, Fallbacks
    <3>4. CASE request.kind = "code_qa"
      <4>1. PICK told : told = UNION {list[i].uncertain : i \in DOMAIN list}
        OBVIOUS
      <4>2. PICK lost : lost = down'
        OBVIOUS
      <4>3. HitList(list) /\ (lost # {} => list # <<>>)
            /\ \A i \in 1..Len(list) : lost \subseteq list[i].uncertain
        BY <3>2, <3>4, <4>2
      <4>4. lost \subseteq told
        BY <4>1, <4>3, LostIsInHits
      <4>5. pc' = "done" => response'.told = told
        BY <3>2, <3>4, <4>1 DEF Found, NoEvidence, Respond
      <4>6. QED
        BY <1>3, <2>1, <3>4, <4>2, <4>4, <4>5 DEF DegradationTold
    <3>5. CASE request.kind \in {"trace", "change_plan"}
      <4>1. pc' = "done" => list = <<>>
        BY <3>2, <3>5 DEF Found
      <4>2. pc' = "done" => down' = {}
        BY <3>2, <3>5, <4>1
      <4>3. QED
        BY <1>3, <2>1, <3>5, <4>2 DEF DegradationTold
    <3>6. QED
      BY <2>1, <3>3, <3>4, <3>5 DEF DegradationTold, Tasks
  <2>4. QED
    BY <1>8, <2>2, <2>3, SearchEnds
<1>9. CASE ExpandTask
  <2>1. /\ pc = "expand" /\ request.kind \in {"trace", "change_plan"}
        /\ UNCHANGED request
    BY <1>9 DEF ExpandTask
  <2>2. "expansion" \notin down
    BY <2>1 DEF SearchInv
  <2>3. CASE request.kind = "trace"
    <3>1. SUFFICES ASSUME pc' = "done" PROVE DegradationTold'
      BY <1>3
    <3>2. PICK g : g = ExpandEntities(index, {Ranked[i].seed : i \in DOMAIN Ranked},
                                      request.depth)
      OBVIOUS
    <3>3. \/ response'.told = Uncertainties(g, FALSE) \cup {"budget"} /\ down' = down
          \/ /\ response'.told = Uncertainties(EmptyGraph, TRUE) \cup {"budget"}
             /\ down' = down \cup {"expansion"}
      <4> DEFINE Built(h, failed) ==
            IF GraphContext(Ranked, h).refs # <<>>
            THEN pc' = "generate"
            ELSE NoEvidence(<<>>, Uncertainties(h, failed) \cup {"budget"})
      <4>1. \/ Built(g, FALSE) /\ down' = down
            \/ Built(EmptyGraph, TRUE) /\ down' = down \cup {"expansion"}
        BY <1>9, <2>3, <3>2 DEF ExpandTask
      <4>2. \A told : NoEvidence(<<>>, told) => response'.told = told
        BY DEF NoEvidence, Respond
      <4>3. Built(g, FALSE) => response'.told = Uncertainties(g, FALSE) \cup {"budget"}
        BY <3>1, <4>2
      <4>4. Built(EmptyGraph, TRUE) =>
              response'.told = Uncertainties(EmptyGraph, TRUE) \cup {"budget"}
        BY <3>1, <4>2
      <4> HIDE DEF Built
      <4>5. QED
        BY <4>1, <4>3, <4>4
    <3>4. /\ down \ {"expansion"} \subseteq Uncertainties(g, FALSE)
          /\ down \ {"expansion"} \subseteq Uncertainties(EmptyGraph, TRUE)
          /\ "expansion" \in Uncertainties(EmptyGraph, TRUE)
      BY <2>1, LostIsTold DEF Working
    <3>5. down' \subseteq response'.told
      BY <2>2, <3>3, <3>4
    <3>6. QED
      BY <2>1, <2>3, <3>5 DEF DegradationTold
  <2>4. CASE request.kind = "change_plan"
    <3>1. pc' = "done" => response'.refs = <<>>
      BY <1>9, <2>4 DEF ExpandTask, NoEvidence, Respond
    <3>2. QED
      BY <1>3, <2>1, <2>4, <3>1 DEF DegradationTold
  <2>5. QED
    BY <2>1, <2>3, <2>4
<1>10. CASE Generate \/ Repair
  <2>1. /\ pc \in {"generate", "repair"} /\ UNCHANGED <<request, down, hits>>
        /\ request.kind \in Tasks
    BY <1>10 DEF Generate, Repair, SearchInv
  <2>2. ASSUME NEW draft
        PROVE  down \subseteq Told(draft)
    <3>1. CASE request.kind = "code_qa"
      <4>1. PICK list, lost : list = hits /\ lost = down
        OBVIOUS
      <4>2. /\ HitList(list) /\ list # <<>>
            /\ \A i \in 1..Len(list) : lost \subseteq list[i].uncertain
        BY <2>1, <3>1, <4>1 DEF SearchInv, Working, Lost
      <4>3. lost \subseteq UNION {list[i].uncertain : i \in DOMAIN list}
        BY <4>2, LostIsInHits
      <4>4. QED
        BY <3>1, <4>1, <4>3 DEF Told
    <3>2. CASE request.kind \in {"trace", "change_plan"}
      <4>1. PICK failed : failed = ("expansion" \in down)
        OBVIOUS
      <4>2. /\ down \ {"expansion"} \subseteq Uncertainties(graph, failed)
            /\ failed => "expansion" \in Uncertainties(graph, failed)
        BY <2>1, <3>2, LostIsTold DEF Working
      <4>3. Uncertainties(graph, failed) \subseteq Told(draft)
        BY <3>2, <4>1 DEF Told
      <4>4. QED
        BY <4>1, <4>2, <4>3
    <3>3. QED
      BY <2>1, <3>1, <3>2 DEF Tasks
  <2>3. \/ pc' = "repair"
        \/ \E status \in {"error", "CHANGE_PLAN_RESPONSE_INVALID"} : Fail(status)
        \/ \E draft : response'.told \in {Told(draft), Told(draft) \cup {"invalid"}}
    BY <1>10 DEF Generate, Repair, ModelFails, Accept, Respond
  <2>4. CASE \E draft : response'.told \in {Told(draft), Told(draft) \cup {"invalid"}}
    <3>1. down' \subseteq response'.told
      BY <2>1, <2>2, <2>4
    <3>2. QED
      BY <2>1, <3>1 DEF DegradationTold, Tasks
  <2>5. QED
    BY <1>3, <1>4, <2>3, <2>4
<1>11. QED
  BY <1>2, <1>5, <1>6, <1>7, <1>8, <1>9, <1>10 DEF Next, Done

\* What an answer that passed the validator rests on, and a guarded one.
Rests(reply, refs) ==
  /\ reply.refs = refs
  /\ \A i \in reply.files : \E e \in Cited(refs) :
       Files[e].dir = i.dir /\ Files[e].base = i.base
  /\ reply.answer.is = "model" =>
       /\ reply.answer.text.cites \subseteq {refs[i].citation : i \in DOMAIN refs}
       /\ \A place \in reply.answer.text.places : Supported(place, refs)

\* A file that a change plan keeps is the file of a reference.
LEMMA AffectedRests ==
  ASSUME NEW draft, NEW i \in Affected(draft)
  PROVE  \E e \in Cited(context.refs) : Files[e].dir = i.dir /\ Files[e].base = i.base
<1>1. i \in GroundFiles(draft.files, context.refs)
  BY DEF Affected
<1>2. PICK e \in Cited(context.refs) :
        <<i.dir, i.base>> = <<Files[e].dir, Files[e].base>>
  BY <1>1 DEF GroundFiles
<1>3. QED
  BY <1>2

\* What the client is told rests on the context, and names the relation types
\* that the graph lacks.
LEMMA AnswersRest ==
  ASSUME SearchInv, Generate \/ Repair, pc' = "done", response'.status = "ok"
  PROVE  /\ Rests(response', context.refs)
         /\ response'.answer.is = "model" /\ request.kind # "code_qa"
              /\ "expansion" \notin down =>
            response'.answer.limits = Missing(graph)
<1>1. PICK draft :
        \/ Acceptable(draft) /\ Accept(draft)
        \/ Respond("ok", Fixed("guard"), context.refs, Affected(draft),
                   Told(draft) \cup {"invalid"})
  BY DEF Generate, Repair, ModelFails, Fail, Respond, SearchInv
<1>2. PICK refs : refs = context.refs
  OBVIOUS
<1>3. \A i \in Affected(draft) : \E e \in Cited(refs) :
        Files[e].dir = i.dir /\ Files[e].base = i.base
  BY <1>2, AffectedRests
<1>4. CASE Respond("ok", Fixed("guard"), context.refs, Affected(draft),
                   Told(draft) \cup {"invalid"})
  <2>1. response'.refs = refs /\ response'.files = Affected(draft)
        /\ response'.answer.is = "guard"
    BY <1>2, <1>4 DEF Respond, Fixed
  <2>2. QED
    BY <1>2, <1>3, <2>1 DEF Rests
<1>5. CASE Acceptable(draft) /\ Accept(draft)
  <2>1. response'.refs = refs /\ response'.files = Affected(draft)
        /\ response'.answer = Answer(draft)
    BY <1>2, <1>5 DEF Accept, Respond
  <2>2. /\ Answer(draft).text.cites \subseteq {refs[i].citation : i \in DOMAIN refs}
        /\ \A place \in Answer(draft).text.places : Supported(place, refs)
    BY <1>2, <1>5 DEF Acceptable, Valid
  <2>3. request.kind # "code_qa" /\ "expansion" \notin down =>
          Answer(draft).limits = Missing(graph)
    BY DEF Answer
  <2>4. QED
    BY <1>2, <1>3, <2>1, <2>2, <2>3 DEF Rests
<1>6. QED
  BY <1>1, <1>4, <1>5

\* A supported file is one of a reference, and its lines are within it.
LEMMA SupportedRests ==
  ASSUME NEW place, NEW refs, Supported(place, refs)
  PROVE  \E e \in Cited(refs) :
           /\ Files[e].base = place.base
           /\ place.dir # None => place.dir = Files[e].dir
           /\ place.from # None => place.from >= Files[e].from
                                   /\ place.to <= Files[e].to
<1>1. PICK e \in Matching(place, refs) :
        \/ place.from = None
        \/ Files[e].from <= place.from /\ place.to <= Files[e].to
  BY DEF Supported
<1>2. e \in Cited(refs) /\ Files[e].base = place.base
      /\ place.dir \in {None, Files[e].dir}
  BY <1>1 DEF Matching
<1>3. place.from # None => place.from >= Files[e].from /\ place.to <= Files[e].to
  BY <1>1
<1>4. QED
  BY <1>2, <1>3

\* What has been answered so far.
ReplyInv ==
  response # None /\ response.status = "ok" /\ response.answer.is \in {"model", "guard"} =>
    /\ Rests(response, context.refs) /\ context.refs # <<>>
    /\ response.answer.is = "model" /\ request.kind # "code_qa"
         /\ "expansion" \notin down =>
       response.answer.limits = Missing(graph)

\* No step gives an answer that does not rest on its references.
LEMMA ReplyStep ==
  SearchInv /\ ContextInv /\ ReplyInv /\ [Next]_vars => ReplyInv'
<1> SUFFICES ASSUME SearchInv, ContextInv, ReplyInv, [Next]_vars
             PROVE  ReplyInv'
  OBVIOUS
<1>1. SearchInv'
  BY SearchStep
<1>2. CASE UNCHANGED vars
  BY <1>2 DEF vars, ReplyInv, Missing, Rests
<1>3. CASE pc' # "done"
  BY <1>1, <1>3 DEF SearchInv, ReplyInv
<1>4. ASSUME response'.answer.is \in {"none", "no_evidence"}
      PROVE  ReplyInv'
  BY <1>4 DEF ReplyInv
<1>5. \A status : Fail(status) => response'.answer.is = "none"
  BY DEF Fail, Respond, Fixed
<1>6. \A refs, told : NoEvidence(refs, told) => response'.answer.is = "no_evidence"
  BY DEF NoEvidence, Respond, Fixed
<1>7. Respond("ok", Fixed("none"), <<>>, {}, {}) => response'.answer.is = "none"
  BY DEF Respond, Fixed
<1>8. CASE CheckCollection \/ ExpandChain \/ MatchApi
  BY <1>3, <1>4, <1>5, <1>7, <1>8 DEF CheckCollection, ExpandChain, MatchApi
<1>9. CASE Plan \/ Rewrite \/ SearchVectors \/ TraverseHit
  BY <1>3, <1>9 DEF Plan, Rewrite, SearchVectors, TraverseHit
<1>10. CASE SearchKeywords
  <2>1. ASSUME NEW list, Found(list)
        PROVE  ReplyInv'
    BY <1>3, <1>4, <1>6, <1>7, <2>1 DEF Found
  <2>2. QED
    BY <1>4, <1>5, <1>10, <2>1, SearchEnds DEF FoundList
<1>11. CASE ExpandTask
  <2>1. pc' = "generate" \/ \E told : NoEvidence(<<>>, told)
    BY <1>11 DEF ExpandTask
  <2>2. QED
    BY <1>3, <1>4, <1>6, <2>1
<1>12. CASE Generate \/ Repair
  <2>1. /\ UNCHANGED <<request, down, graph, context>>
        /\ pc \in {"generate", "repair"}
    BY <1>12 DEF Generate, Repair
  <2>2. context.refs # <<>>
    BY <2>1 DEF ContextInv
  <2>3. SUFFICES ASSUME pc' = "done", response'.status = "ok"
                 PROVE  ReplyInv'
    BY <1>3 DEF ReplyInv
  <2>4. /\ Rests(response', context.refs)
        /\ response'.answer.is = "model" /\ request.kind # "code_qa"
             /\ "expansion" \notin down =>
           response'.answer.limits = Missing(graph)
    BY <1>12, <2>3, AnswersRest
  <2>5. QED
    BY <2>1, <2>2, <2>4 DEF ReplyInv, Rests, Missing
<1>13. QED
  BY <1>2, <1>8, <1>9, <1>10, <1>11, <1>12 DEF Next, Done

\* What the client reads is in the references it gets.
LEMMA RestIsGrounded == ContextInv /\ ReplyInv => GroundedAnswers
<1> SUFFICES ASSUME ContextInv, ReplyInv PROVE GroundedAnswers
  OBVIOUS
<1>1. PICK T : T = [citation : Nat, entity : Citable]
  OBVIOUS
<1>2. /\ context.refs \in Seq(T) /\ context.length <= Budget
      /\ \A i \in 1..Len(context.refs) : context.refs[i].citation = i
  BY <1>1 DEF ContextInv, Numbered, ContextRecords
<1>3. DOMAIN context.refs = 1..Len(context.refs)
      /\ \A i \in 1..Len(context.refs) : context.refs[i] \in T
  BY <1>2
<1>4. \A i \in DOMAIN context.refs : context.refs[i].entity \in Citable
  BY <1>1, <1>3
<1>5. {context.refs[i].citation : i \in DOMAIN context.refs} = 1..Len(context.refs)
  BY <1>2, <1>3
<1>6. ASSUME response # None, response.status = "ok",
             response.answer.is \in {"model", "guard"}
      PROVE  LET cited == Cited(response.refs) IN
         /\ response.refs = context.refs /\ response.refs # <<>>
         /\ \A i \in response.files : \E e \in cited :
              Files[e].dir = i.dir /\ Files[e].base = i.base
         /\ response.answer.is = "model" =>
              /\ response.answer.text.cites \subseteq 1..Len(response.refs)
              /\ \A place \in response.answer.text.places : \E e \in cited :
                   /\ Files[e].base = place.base
                   /\ place.dir # None => place.dir = Files[e].dir
                   /\ place.from # None => place.from >= Files[e].from
                                           /\ place.to <= Files[e].to
              /\ request.kind # "code_qa" /\ "expansion" \notin down =>
                   response.answer.limits = ChainTypes
                     \ {r.type : r \in graph.edges}
  <2>1. /\ Rests(response, context.refs) /\ context.refs # <<>>
        /\ response.answer.is = "model" /\ request.kind # "code_qa"
             /\ "expansion" \notin down =>
           response.answer.limits = Missing(graph)
    BY <1>6 DEF ReplyInv
  <2>2. PICK refs : refs = context.refs
    OBVIOUS
  <2>3. response.refs = refs /\ Rests(response, refs) /\ refs # <<>>
    BY <2>1, <2>2 DEF Rests
  <2>4. \A i \in response.files : \E e \in Cited(refs) :
          Files[e].dir = i.dir /\ Files[e].base = i.base
    BY <2>3 DEF Rests
  <2>5. ASSUME response.answer.is = "model"
        PROVE  /\ response.answer.text.cites \subseteq 1..Len(refs)
               /\ \A place \in response.answer.text.places : Supported(place, refs)
    BY <1>5, <2>2, <2>3, <2>5 DEF Rests
  <2>6. \A place : Supported(place, refs) =>
          \E e \in Cited(refs) :
            /\ Files[e].base = place.base
            /\ place.dir # None => place.dir = Files[e].dir
            /\ place.from # None => place.from >= Files[e].from
                                    /\ place.to <= Files[e].to
    BY SupportedRests
  <2>7. QED
    BY <2>1, <2>2, <2>3, <2>4, <2>5, <2>6 DEF Missing
<1>7. \A i \in DOMAIN context.refs :
        /\ context.refs[i].citation = i
        /\ context.refs[i].entity \in IF request.kind = "code_qa" THEN Ids(hits)
                                       ELSE {r.entity : r \in results}
  BY <1>2, <1>3, <1>4 DEF Citable
<1>8. context.length <= Budget
  BY <1>2
<1>9. QED
  BY ONLY <1>6, <1>7, <1>8 DEF GroundedAnswers

-----------------------------------------------------------------------------

AnswersInv == SearchInv /\ EvidenceInv /\ ContextInv

\* The invariant holds of every request, wherever it is.
LEMMA AnswersKept == Spec => []AnswersInv
<1>1. Init => AnswersInv
  <2>1. SUFFICES ASSUME Init PROVE AnswersInv
    OBVIOUS
  <2>2. SearchInv
    BY <2>1, SearchStarts
  <2>3. pc \in Searching /\ context = NoContext
    BY <2>1, <2>2 DEF Init, Searching
  <2>4. EvidenceInv
    BY <2>3 DEF EvidenceInv, Searching, Working
  <2>5. PICK E : E = Citable
    OBVIOUS
  <2>6. Numbered(NoContext, E) /\ NoContext.length = 0
    BY EmptyContext
  <2>7. NoContext.length <= Budget
    BY <2>6, CodeGraphAssumption
  <2>8. ContextInv
    BY <2>3, <2>5, <2>6, <2>7 DEF ContextInv, Searching
  <2>9. QED
    BY <2>2, <2>4, <2>8 DEF AnswersInv
<1>2. AnswersInv /\ [Next]_vars => AnswersInv'
  BY SearchStep, EvidenceStep, ContextStep DEF AnswersInv
<1>3. QED
  BY <1>1, <1>2, PTL DEF Spec

\* A branch of a search, a traversal or an expansion that failed is named in
\* the answer it was survived for (HybridSearchService.search's fallbacks,
\* GraphRagRetriever.retrieve and the services' uncertainties): it reaches
\* the answer through the hits and the ranked results, whose limit cuts off
\* none that carries it.
THEOREM DegradationIsTold == Spec => []DegradationTold
<1>1. Init => DegradationTold
  BY DEF Init, DegradationTold
<1>2. AnswersInv /\ DegradationTold /\ [Next]_vars => DegradationTold'
  BY ToldStep DEF AnswersInv
<1>3. QED
  BY <1>1, <1>2, AnswersKept, PTL DEF Spec

\* Whatever the language model writes, an answer cites, names and changes
\* only what is in the numbered context it was given, which is within its
\* budget (AnswerEvidenceValidator.validate, _ground_files, the context
\* builders and the repair of a refused draft).
THEOREM AnswersAreGrounded == Spec => []GroundedAnswers
<1>1. Init => ReplyInv
  BY DEF Init, ReplyInv
<1>2. AnswersInv /\ ReplyInv /\ [Next]_vars => ReplyInv'
  BY ReplyStep DEF AnswersInv
<1>3. AnswersInv /\ ReplyInv => GroundedAnswers
  BY RestIsGrounded DEF AnswersInv
<1>4. QED
  BY <1>1, <1>2, <1>3, AnswersKept, PTL DEF Spec

-----------------------------------------------------------------------------
(* Evidence at its least distance                                          *)

\* r is at distance d with that score, or is better.
AtLeast(r, d, score) == r.depth < d \/ (r.depth = d /\ r.score >= score)

\* Within, of an index I.
WithinOf(I, e, f, d) ==
  \E n \in 0..d : \E walk \in [0..n -> I.entities] :
    /\ walk[0] = e /\ walk[n] = f
    /\ \A i \in 0..(n - 1) : \E r \in I.relations :
         r.type \in ChainTypes /\ Ends(r) = {walk[i], walk[i + 1]}

\* The evidence in S once the first n hits of list have been traversed from,
\* to depth D: each result is a hit, or was met on a walk from a hit, with that
\* hit's score, and nothing those walks meet is passed over or shown worse
\* than it is.
NearestOf(I, list, D, S, n) ==
  /\ \A i \in 1..n : list[i].entity \in I.entities
  /\ \A r \in S : \E i \in 1..Len(list) :
       /\ r.score = list[i].score
       /\ \/ r.depth = 0 /\ r.entity = list[i].entity
          \/ r.depth \in 0..D /\ WithinOf(I, list[i].entity, r.entity, r.depth)
  /\ \A i \in 1..Len(list) : \E r \in S :
       r.entity = list[i].entity /\ AtLeast(r, 0, list[i].score)
  /\ \A i \in 1..n, d \in 0..D, e \in I.entities :
       WithinOf(I, list[i].entity, e, d) =>
         \E r \in S : r.entity = e /\ AtLeast(r, d, list[i].score)

NearestAfter(S, n) == NearestOf(index, hits, request.depth, S, n)

NearestInv ==
  /\ pc \in {"traverse", "expand"} /\ request.kind \in {"trace", "change_plan"}
       /\ "traversal" \notin down => NearestAfter(results, next - 1)
  /\ pc = "expand" /\ request.kind \in {"trace", "change_plan"} => next - 1 = Len(hits)

\* A ball holds what is within.
LEMMA BallIs ==
  ASSUME NEW s, NEW d
  PROVE  Ball(s, d) = {e \in index.entities : WithinOf(index, s, e, d)}
BY DEF Ball, Within, WithinOf

\* Of what was there and what a traversal adds, the best of each entity stays.
LEMMA ImproveKeepsBest ==
  ASSUME NEW S, ResultSet(S), NEW C, ResultSet(C), NEW T, T = Improve(S, C),
         NEW x \in S \cup C
  PROVE  \E r \in T : r.entity = x.entity /\ AtLeast(r, x.depth, x.score)
<1>1. /\ \A a \in S \cup C : a.depth \in Nat /\ a.score \in Int
                             /\ a.entity \in Int /\ a.seed \in Int
      /\ \A a, b \in S : a.entity = b.entity => a = b
      /\ \A a, b \in C : a.entity = b.entity => a = b
  BY ResultFields
<1>2. \A r : r \in T <=>
        \/ r \in S /\ ~\E c \in C : c.entity = r.entity /\ Nearer(c, r)
        \/ r \in C /\ \A s \in S : s.entity = r.entity => Nearer(r, s)
  BY DEF Improve
<1>3. \A a, b \in S \cup C :
        Nearer(a, b) \/ a = b => AtLeast(a, b.depth, b.score)
  BY <1>1 DEF Nearer, AtLeast
<1>4. \A a, b \in S \cup C :
        a.entity = b.entity /\ ~Nearer(a, b) => AtLeast(b, a.depth, a.score)
  BY <1>1 DEF Nearer, AtLeast
<1>5. CASE x \in S
  <2>1. CASE x \in T
    BY <1>3, <2>1
  <2>2. CASE x \notin T
    <3>1. PICK c \in C : c.entity = x.entity /\ Nearer(c, x)
      BY <1>2, <1>5, <2>2
    <3>2. \A s \in S : s.entity = c.entity => s = x
      BY <1>1, <1>5, <3>1
    <3>3. c \in T
      BY <1>2, <3>1, <3>2
    <3>4. QED
      BY <1>3, <3>1, <3>3
  <2>3. QED
    BY <2>1, <2>2
<1>6. CASE x \in C
  <2>1. CASE x \in T
    BY <1>3, <2>1
  <2>2. CASE x \notin T
    <3>1. PICK s \in S : s.entity = x.entity /\ ~Nearer(x, s)
      BY <1>2, <1>6, <2>2
    <3>2. \A c \in C : c.entity = s.entity => c = x
      BY <1>1, <1>6, <3>1
    <3>3. s \in T
      BY <1>2, <3>1, <3>2
    <3>4. QED
      BY <1>4, <1>6, <3>1, <3>3
  <2>3. QED
    BY <2>1, <2>2
<1>7. QED
  BY <1>5, <1>6

\* One more hit has been traversed from.
LEMMA NearestAdds ==
  ASSUME SearchInv, EvidenceInv, pc = "traverse", NearestAfter(results, next - 1),
         NEW hit, hit = hits[next], hit.entity \in index.entities,
         NEW T, T = Improve(results,
           Expansion(hit, Traverse(index, hit.entity, request.depth), request.depth))
  PROVE  NearestAfter(T, next)
<1>1. /\ Asked /\ HitList(hits) /\ next \in 1..Len(hits)
      /\ request.kind \in {"trace", "change_plan"}
  BY DEF SearchInv
<1>2. ResultSet(results)
  BY <1>1 DEF EvidenceInv, Working
<1>3. PICK N \in Nat : N = request.depth
  BY <1>1, AskedFacts
<1>4. PICK S, C : S = results /\ C = Expansion(hit, Traverse(index, hit.entity, N), N)
  OBVIOUS
<1>5. hit \in HitRecords /\ index \in Indexes
  BY <1>1 DEF HitList, Asked
<1>6. /\ ResultSet(C)
      /\ \A c \in C : /\ c.depth >= 1 /\ c.uncertain = hit.uncertain
                      /\ c.score = hit.score /\ c.entity # hit.entity
                      /\ c.entity \in Ball(hit.entity, N)
                      /\ c.depth = Distance(hit.entity, c.entity, N)
      /\ \A e \in Ball(hit.entity, N) \ {hit.entity} : \E c \in C : c.entity = e
  BY <1>4, <1>5, ExpansionResults
<1>7. ResultSet(S) /\ T = Improve(S, C)
  BY <1>2, <1>3, <1>4
<1>8. ResultSet(T) /\ \A r \in T : r \in S \/ r \in C
  BY <1>6, <1>7, ImproveResults
<1>9. \A x \in S \cup C : \E r \in T : r.entity = x.entity /\ AtLeast(r, x.depth, x.score)
  BY <1>6, <1>7, ImproveKeepsBest
<1>10. /\ \A i \in 1..(next - 1) : hits[i].entity \in index.entities
       /\ \A r \in S : \E i \in 1..Len(hits) :
            /\ r.score = hits[i].score
            /\ \/ r.depth = 0 /\ r.entity = hits[i].entity
               \/ r.depth \in 0..N /\ WithinOf(index, hits[i].entity, r.entity, r.depth)
       /\ \A i \in 1..Len(hits) : \E r \in S :
            r.entity = hits[i].entity /\ AtLeast(r, 0, hits[i].score)
       /\ \A i \in 1..(next - 1), d \in 0..N, e \in index.entities :
            WithinOf(index, hits[i].entity, e, d) =>
              \E r \in S : r.entity = e /\ AtLeast(r, d, hits[i].score)
  BY <1>3, <1>4 DEF NearestAfter, NearestOf
<1>11. /\ \A r \in S \cup C \cup T : r.depth \in Nat /\ r.score \in Int
       /\ \A i \in 1..Len(hits) : hits[i].score \in Int
  <2>1. \A r \in S \cup C : r.depth \in Nat /\ r.score \in Int
    BY <1>6, <1>7, ResultFields
  <2>2. \A h \in HitRecords : h.score \in Int
    BY DEF HitRecords
  <2>3. \A i \in 1..Len(hits) : hits[i] \in HitRecords
    BY <1>1 DEF HitList
  <2>4. QED
    BY <1>8, <2>1, <2>2, <2>3
<1>12. ASSUME NEW d \in Nat, NEW score \in Int, NEW x \in S \cup C, AtLeast(x, d, score)
       PROVE  \E r \in T : r.entity = x.entity /\ AtLeast(r, d, score)
  BY <1>9, <1>11, <1>12 DEF AtLeast
<1>13. Len(hits) \in Nat /\ next \in Nat
       /\ \A i \in 1..next : i \in 1..Len(hits) /\ (i = next \/ i \in 1..(next - 1))
  BY <1>1 DEF HitList
<1>14. \A i \in 1..next : hits[i].entity \in index.entities
  BY <1>10, <1>13
<1>15. \A r \in T : \E i \in 1..Len(hits) :
         /\ r.score = hits[i].score
         /\ \/ r.depth = 0 /\ r.entity = hits[i].entity
            \/ r.depth \in 0..N /\ WithinOf(index, hits[i].entity, r.entity, r.depth)
  <2>1. ASSUME NEW c \in C
        PROVE  /\ c.score = hits[next].score /\ c.depth \in 0..N
               /\ WithinOf(index, hits[next].entity, c.entity, c.depth)
    <3>1. c.entity \in Ball(hit.entity, N)
      BY <1>6
    <3>2. /\ Distance(hit.entity, c.entity, N) \in 0..N
          /\ c.entity \in Ball(hit.entity, Distance(hit.entity, c.entity, N))
      BY <3>1, DistanceLeast
    <3>3. QED
      BY <1>6, <3>2, BallIs
  <2>2. QED
    BY <1>1, <1>8, <1>10, <2>1
<1>16. \A i \in 1..Len(hits) : \E r \in T :
         r.entity = hits[i].entity /\ AtLeast(r, 0, hits[i].score)
  <2>1. SUFFICES ASSUME NEW i \in 1..Len(hits)
                 PROVE  \E r \in T : r.entity = hits[i].entity
                                     /\ AtLeast(r, 0, hits[i].score)
    OBVIOUS
  <2>2. PICK x \in S : x.entity = hits[i].entity /\ AtLeast(x, 0, hits[i].score)
    BY <1>10
  <2>3. QED
    BY <1>11, <1>12, <2>2
<1>17. ASSUME NEW i \in 1..next, NEW d \in 0..N, NEW e \in index.entities,
              WithinOf(index, hits[i].entity, e, d)
       PROVE  \E r \in T : r.entity = e /\ AtLeast(r, d, hits[i].score)
  <2>1. d \in Nat /\ d <= N /\ hits[i].score \in Int
    BY <1>11, <1>13
  <2>2. CASE i \in 1..(next - 1)
    <3>1. PICK x \in S : x.entity = e /\ AtLeast(x, d, hits[i].score)
      BY <1>10, <1>17, <2>2
    <3>2. QED
      BY <1>12, <2>1, <3>1
  <2>3. CASE i = next /\ e = hit.entity
    <3>1. PICK x \in S : x.entity = e /\ AtLeast(x, 0, hits[i].score)
      BY <1>1, <1>10, <2>3
    <3>2. AtLeast(x, d, hits[i].score)
      BY <1>11, <2>1, <3>1 DEF AtLeast
    <3>3. QED
      BY <1>12, <2>1, <3>1, <3>2
  <2>4. CASE i = next /\ e # hit.entity
    <3>1. e \in Ball(hit.entity, d)
      BY <1>17, <2>4, BallIs
    <3>2. e \in Ball(hit.entity, N)
      BY <2>1, <3>1, BallGrows
    <3>3. PICK c \in C : c.entity = e
      BY <1>6, <2>4, <3>2
    <3>4. Distance(hit.entity, e, N) <= d
      BY <3>1, <3>2, DistanceLeast
    <3>5. c.depth <= d /\ c.score = hits[i].score
      BY <1>6, <2>4, <3>3, <3>4
    <3>6. AtLeast(c, d, hits[i].score)
      BY <1>11, <2>1, <3>5 DEF AtLeast
    <3>7. QED
      BY <1>12, <2>1, <3>3, <3>6
  <2>5. QED
    BY <1>13, <2>2, <2>3, <2>4
<1>18. QED
  BY <1>3, <1>14, <1>15, <1>16, <1>17 DEF NearestAfter, NearestOf

\* Before any traversal.
LEMMA NearestStarts ==
  ASSUME NEW list, HitList(list), NEW S, S = {Direct(list[i]) : i \in DOMAIN list},
         NEW I, NEW D
  PROVE  NearestOf(I, list, D, S, 0)
<1>2. HitList(list) /\ S = {Direct(list[i]) : i \in DOMAIN list}
  OBVIOUS
<1>30. list \in Seq(HitRecords) /\ \A h \in HitRecords : h.score \in Int
  BY <1>2 DEF HitList, HitRecords
<1>31. DOMAIN list = 1..Len(list) /\ \A i \in 1..Len(list) : list[i] \in HitRecords
  BY <1>30
<1>3. DOMAIN list = 1..Len(list) /\ \A i \in 1..Len(list) : list[i].score \in Int
  BY <1>30, <1>31
<1>32. \A r \in S : \E i \in 1..Len(list) : r = Direct(list[i])
  BY <1>2, <1>3
<1>4. \A h : Direct(h).entity = h.entity /\ Direct(h).score = h.score /\ Direct(h).depth = 0
  BY DEF Direct, Result
<1>5. \A r \in S : \E i \in 1..Len(list) :
        r.score = list[i].score /\ r.depth = 0 /\ r.entity = list[i].entity
  BY <1>4, <1>32
<1>6. \A i \in 1..Len(list) : \E r \in S :
        r.entity = list[i].entity /\ AtLeast(r, 0, list[i].score)
  <2>1. SUFFICES ASSUME NEW i \in 1..Len(list)
                 PROVE  \E r \in S : r.entity = list[i].entity
                                     /\ AtLeast(r, 0, list[i].score)
    OBVIOUS
  <2>2. Direct(list[i]) \in S
    BY <1>2, <1>3
  <2>3. AtLeast(Direct(list[i]), 0, list[i].score)
    BY <1>3, <1>4 DEF AtLeast
  <2>4. QED
    BY <1>4, <2>2, <2>3
<1>7. \A i \in 1..0 : FALSE
  OBVIOUS
<1>8. QED
  BY <1>5, <1>6, <1>7 DEF NearestOf

\* Every traversal keeps the evidence at its least distance.
LEMMA NearestStep ==
  SearchInv /\ EvidenceInv /\ NearestInv /\ [Next]_vars => NearestInv'
<1> SUFFICES ASSUME SearchInv, EvidenceInv, NearestInv, [Next]_vars
             PROVE  NearestInv'
  OBVIOUS
<1>2. CASE Plan \/ CheckCollection \/ Rewrite \/ SearchVectors \/ ExpandChain
           \/ MatchApi \/ ExpandTask \/ Generate \/ Repair
  <2>1. pc' \notin {"traverse", "expand"}
    BY <1>2 DEF Plan, CheckCollection, Rewrite, SearchVectors, MatchApi, ExpandChain,
       ExpandTask, Generate, Repair, Accept, ModelFails, NoEvidence, Fail, Respond
  <2>2. QED
    BY <2>1 DEF NearestInv
<1>3. CASE SearchKeywords
  <2>1. pc = "keyword" /\ UNCHANGED <<index, request, next>> /\ next = 1
    BY <1>3 DEF SearchKeywords, SearchInv, Searching
  <2>2. CASE \E status : Fail(status)
    BY <2>2 DEF Fail, Respond, NearestInv
  <2>3. CASE \E list : FoundList(list)
    <3>1. PICK list : FoundList(list)
      BY <2>3
    <3>2. SUFFICES ASSUME request.kind \in {"trace", "change_plan"}
                   PROVE  NearestInv'
      BY <2>1 DEF NearestInv
    <3>3. /\ hits' = list /\ HitList(list) /\ pc' \in {"done", "traverse"}
          /\ results' = {Direct(list[i]) : i \in DOMAIN list}
      BY <3>1, <3>2 DEF FoundList, Found, NoEvidence, Respond
    <3>4. PICK I, D, S : /\ I = index' /\ D = request'.depth
                         /\ S = {Direct(list[i]) : i \in DOMAIN list}
      OBVIOUS
    <3>5. NearestOf(I, list, D, S, 0)
      BY <3>3, <3>4, NearestStarts
    <3>6. results' = S /\ hits' = list /\ next' - 1 = 0
      BY <2>1, <3>3, <3>4
    <3>7. NearestAfter(results, next - 1)'
      BY <3>4, <3>5, <3>6 DEF NearestAfter
    <3>8. QED
      BY <3>3, <3>7 DEF NearestInv
  <2>4. QED
    BY <1>3, <2>2, <2>3, SearchEnds
<1>4. CASE TraverseHit
  <2>1. PICK hit : hit = hits[next]
    OBVIOUS
  <2>2. /\ pc = "traverse" /\ UNCHANGED <<index, hits, request>> /\ next' = next + 1
        /\ pc' = IF next = Len(hits) THEN "expand" ELSE "traverse"
    BY <1>4 DEF TraverseHit
  <2>3. /\ next \in Nat /\ next' - 1 = next /\ request.kind \in {"trace", "change_plan"}
    BY <2>2 DEF SearchInv, HitList
  <2>4. pc' = "expand" => next' - 1 = Len(hits')
    BY <2>2, <2>3
  <2>5. CASE "traversal" \in down'
    BY <2>4, <2>5 DEF NearestInv
  <2>6. CASE "traversal" \notin down'
    <3>1. /\ hit.entity \in index.entities /\ UNCHANGED down
          /\ results' = Improve(results,
               Expansion(hit, Traverse(index, hit.entity, request.depth),
                         request.depth))
      BY <1>4, <2>1, <2>6 DEF TraverseHit
    <3>2. NearestAfter(results, next - 1)
      BY <2>2, <2>3, <2>6, <3>1 DEF NearestInv
    <3>3. PICK T : T = results'
      OBVIOUS
    <3>4. NearestAfter(T, next)
      BY <2>1, <2>2, <3>1, <3>2, <3>3, NearestAdds
    <3>5. NearestAfter(results, next - 1)'
      BY <2>2, <2>3, <3>3, <3>4 DEF NearestAfter
    <3>6. QED
      BY <2>4, <3>5 DEF NearestInv
  <2>7. QED
    BY <2>5, <2>6
<1>5. CASE Done \/ UNCHANGED vars
  <2>1. UNCHANGED <<index, request, pc, down, hits, next, results>>
    BY <1>5 DEF Done, vars
  <2>2. NearestAfter(results, next - 1) => NearestAfter(results, next - 1)'
    BY <2>1 DEF NearestAfter
  <2>3. QED
    BY <2>1, <2>2 DEF NearestInv
<1>6. QED
  BY <1>2, <1>3, <1>4, <1>5 DEF Next

\* The least of a set of numbers is the one that is not above any.
LEMMA MinIs ==
  ASSUME NEW S \in SUBSET Int, NEW m \in S, \A y \in S : m <= y
  PROVE  Min(S) = m
<1>1. Min(S) = CHOOSE x \in S : \A y \in S : x <= y
  BY DEF Min
<1>2. \A x \in S : (\A y \in S : x <= y) => x = m
  OBVIOUS
<1>3. QED
  BY <1>1, <1>2

\* The same of the greatest.
LEMMA MaxIs ==
  ASSUME NEW S \in SUBSET Int, NEW m \in S, \A y \in S : m >= y
  PROVE  Max(S) = m
<1>1. Max(S) = CHOOSE x \in S : \A y \in S : x >= y
  BY DEF Max
<1>2. \A x \in S : (\A y \in S : x >= y) => x = m
  OBVIOUS
<1>3. QED
  BY <1>1, <1>2

\* All hits have been traversed from: the evidence is what is within reach,
\* at its least distance and with the best score there.
LEMMA NearestIsLeast ==
  ASSUME SearchInv, EvidenceInv, NearestInv
  PROVE  EvidenceNearest
<1>1. SUFFICES ASSUME pc = "expand", request.kind # "search_chain",
                      "traversal" \notin down
               PROVE  EvidenceNearest
  BY DEF EvidenceNearest
<1>2. /\ request.kind \in {"trace", "change_plan"} /\ HitList(hits) /\ Asked
  BY <1>1 DEF SearchInv, Tasks, Working
<1>3. ResultSet(results) /\ NearestOf(index, hits, request.depth, results, Len(hits))
  BY <1>1, <1>2 DEF EvidenceInv, NearestInv, NearestAfter, Working
<1>4. PICK N \in Nat : N = request.depth
  BY <1>2, AskedFacts
<1>5. PICK I, E, n : I = 1..Len(hits) /\ E = index.entities /\ n = Len(hits)
  OBVIOUS
<1> DEFINE at(i) == hits[i].entity
           near(i, e, d) == Within(at(i), e, d)
<1>6. \A i, e, d : WithinOf(index, at(i), e, d) <=> near(i, e, d)
  BY DEF Within, WithinOf
<1> HIDE DEF near
<1>7. /\ \A i \in I : at(i) \in E
      /\ \A r \in results : \E i \in I :
           /\ r.score = hits[i].score
           /\ (r.depth = 0 /\ r.entity = at(i)) \/ (r.depth \in 0..N /\ near(i, r.entity, r.depth))
      /\ \A i \in I, d \in 0..N, e \in E :
           near(i, e, d) => \E r \in results : r.entity = e /\ AtLeast(r, d, hits[i].score)
  <2>1. \A i \in I : at(i) \in E
    BY <1>3, <1>5 DEF NearestOf
  <2>2. \A r \in results : \E i \in I :
          /\ r.score = hits[i].score
          /\ (r.depth = 0 /\ r.entity = at(i)) \/ (r.depth \in 0..N /\ near(i, r.entity, r.depth))
    BY <1>3, <1>4, <1>5, <1>6 DEF NearestOf
  <2>3. \A i \in I, d \in 0..N, e \in E :
          near(i, e, d) => \E r \in results : r.entity = e /\ AtLeast(r, d, hits[i].score)
    BY <1>3, <1>4, <1>5, <1>6 DEF NearestOf
  <2>4. QED
    BY <2>1, <2>2, <2>3
<1>8. \A i \in I : near(i, at(i), 0)
  BY <1>7, <1>5, BallZero DEF Ball, near
<1>9. \A i, e, d : near(i, e, d) => e \in E
  <2>1. SUFFICES ASSUME NEW i, NEW e, NEW d, near(i, e, d)
                 PROVE  e \in E
    OBVIOUS
  <2>2. PICK k \in 0..d : \E walk \in [0..k -> index.entities] : walk[k] = e
    BY <2>1 DEF near, Within
  <2>3. QED
    BY <1>5, <2>2
<1> DEFINE Distances(e) == {d \in 0..request.depth :
                            \E h \in Ids(hits) : Within(h, e, d)}
           At(e, d) == {hits[i].score : i \in {j \in DOMAIN hits :
                                               Within(hits[j].entity, e, d)}}
<1>10. DOMAIN hits = I /\ \A i \in I : hits[i].score \in Int
  <2>1. \A h \in HitRecords : h.score \in Int
    BY DEF HitRecords
  <2>2. DOMAIN hits = I /\ \A i \in I : hits[i] \in HitRecords
    BY <1>2, <1>5 DEF HitList
  <2>3. QED
    BY <2>1, <2>2
<1>11. \A e, d : d \in Distances(e) <=> d \in 0..N /\ \E i \in I : near(i, e, d)
  BY <1>4, <1>10 DEF Ids, near
<1>12. \A e, d, s : s \in At(e, d) <=> \E i \in I : near(i, e, d) /\ s = hits[i].score
  BY <1>10 DEF near
<1> HIDE DEF Distances, At
<1>13. \A e, d : Distances(e) \in SUBSET Int /\ At(e, d) \in SUBSET Int
  BY <1>10, <1>11, <1>12
<1>14. /\ \A r \in results : r.depth \in Nat /\ r.score \in Int
       /\ \A a, b \in results : a.entity = b.entity => a = b
  BY <1>3, ResultFields
<1>15. ASSUME NEW r \in results
       PROVE  /\ r.entity \in E /\ Distances(r.entity) # {}
              /\ r.depth = Min(Distances(r.entity))
              /\ r.score = Max(At(r.entity, r.depth))
  <2>1. PICK i \in I : /\ r.score = hits[i].score /\ r.depth \in 0..N
                       /\ near(i, r.entity, r.depth)
    <3>1. PICK i \in I :
            /\ r.score = hits[i].score
            /\ \/ r.depth = 0 /\ r.entity = at(i)
               \/ r.depth \in 0..N /\ near(i, r.entity, r.depth)
      BY <1>7
    <3>2. 0 \in 0..N
      OBVIOUS
    <3>3. QED
      BY <1>8, <3>1, <3>2
  <2>2. r.entity \in E
    BY <1>9, <2>1
  <2>3. r.depth \in Distances(r.entity) /\ r.score \in At(r.entity, r.depth)
    BY <1>11, <1>12, <2>1
  <2>4. ASSUME NEW j \in I, NEW d \in 0..N, near(j, r.entity, d)
        PROVE  AtLeast(r, d, hits[j].score)
    BY <1>7, <1>14, <2>2, <2>4
  <2>5. \A d \in Distances(r.entity) : r.depth <= d
    BY <1>11, <1>14, <2>4 DEF AtLeast
  <2>6. \A s \in At(r.entity, r.depth) : r.score >= s
    BY <1>10, <1>12, <1>14, <2>1, <2>4 DEF AtLeast
  <2>7. Min(Distances(r.entity)) = r.depth
    BY <1>13, <2>3, <2>5, MinIs
  <2>8. Max(At(r.entity, r.depth)) = r.score
    BY <1>13, <2>3, <2>6, MaxIs
  <2>9. QED
    BY <2>2, <2>3, <2>7, <2>8
<1>16. ASSUME NEW e \in E, Distances(e) # {}
       PROVE  \E r \in results : r.entity = e
  BY <1>7, <1>11, <1>16
<1>17. {<<r.entity, r.depth, r.score>> : r \in results} =
       {<<e, Min(Distances(e)), Max(At(e, Min(Distances(e))))>> :
          e \in {x \in E : Distances(x) # {}}}
  <2>1. PICK R : R = results
    OBVIOUS
  <2>2. PICK X : X = {x \in E : Distances(x) # {}}
    OBVIOUS
  <2>3. \A r \in R : /\ r.entity \in X
                     /\ <<r.entity, r.depth, r.score>> =
                        <<r.entity, Min(Distances(r.entity)),
                          Max(At(r.entity, Min(Distances(r.entity))))>>
    BY <1>15, <2>1, <2>2
  <2>4. \A x \in X : \E r \in R : r.entity = x
    BY <1>16, <2>1, <2>2
  <2>5. {<<r.entity, r.depth, r.score>> : r \in R} =
        {<<x, Min(Distances(x)), Max(At(x, Min(Distances(x))))>> : x \in X}
    BY <2>3, <2>4
  <2>6. QED
    BY <2>1, <2>2, <2>5
<1>18. {<<r.entity, r.depth, r.score>> : r \in results} =
       {<<e, Min(Distances(e)), Max(At(e, Min(Distances(e))))>> :
          e \in {x \in index.entities : Distances(x) # {}}}
  BY <1>5, <1>17
<1>19. QED
  BY <1>18 DEF EvidenceNearest, Distances, At

\* When every traversal has succeeded, the evidence is each entity within
\* max_depth relations of a hit, once, at its least distance and with the
\* score of the best hit there, in whatever order the hits were traversed from
\* (GraphRagRetriever.retrieve, _expand and _rank).
THEOREM EvidenceIsNearest == Spec => []EvidenceNearest
<1>1. Init => NearestInv
  <2>1. SUFFICES ASSUME Init PROVE NearestInv
    OBVIOUS
  <2>2. SearchInv
    BY <2>1, SearchStarts
  <2>3. pc \notin {"traverse", "expand"}
    BY <2>1 DEF Init
  <2>4. QED
    BY <2>3 DEF NearestInv
<1>2. AnswersInv /\ NearestInv /\ [Next]_vars => NearestInv'
  BY NearestStep DEF AnswersInv
<1>3. AnswersInv /\ NearestInv => EvidenceNearest
  BY NearestIsLeast DEF AnswersInv
<1>4. QED
  BY <1>1, <1>2, <1>3, AnswersKept, PTL DEF Spec

-----------------------------------------------------------------------------
(* What a search finds                                                     *)

\* What stands for the only token of a query.
LEMMA OneToken ==
  ASSUME NEW tokens \in Seq(Tokens), Len(tokens) = 1, NEW path \in BOOLEAN
  PROVE  TokenCandidates(tokens, path) =
           IF tokens[1].path # path THEN <<>>
           ELSE IF path THEN PathCandidates(tokens[1]) ELSE WordCandidates(tokens[1])
<1> DEFINE I == {i \in DOMAIN tokens : tokens[i].path = path}
           chosen == SubSequence(tokens, I)
           Parts(c) == [i \in DOMAIN c |->
             IF path THEN PathCandidates(c[i]) ELSE WordCandidates(c[i])]
<1>1. DOMAIN tokens = {1}
  OBVIOUS
<1>2. TokenCandidates(tokens, path) = FlattenSeq(Parts(chosen))
  BY DEF TokenCandidates
<1>3. CASE tokens[1].path # path
  <2>1. I = {} /\ I \in SUBSET DOMAIN tokens
    BY <1>1, <1>3
  <2>2. chosen = <<>>
    <3> HIDE DEF I
    <3>1. chosen \in Seq(Tokens) /\ Len(chosen) = Cardinality(I)
      BY <2>1, SubSequenceType
    <3>2. Len(chosen) = 0
      BY <2>1, <3>1, FS_EmptySet
    <3> HIDE DEF chosen
    <3>3. QED
      BY <3>1, <3>2
  <2>3. Parts(<<>>) = <<>>
    OBVIOUS
  <2>4. FlattenSeq(<<>>) = <<>>
    BY DEF FlattenSeq
  <2> HIDE DEF Parts, chosen
  <2>5. QED
    BY <1>2, <1>3, <2>2, <2>3, <2>4
<1>4. CASE tokens[1].path = path
  <2>1. I = DOMAIN tokens
    BY <1>1, <1>4
  <2>2. chosen = tokens
    <3> HIDE DEF I
    <3>1. QED
      BY <2>1, SubSequenceAll
  <2>3. PICK s : s = Parts(tokens)
    OBVIOUS
  <2>4. PICK t : t = IF path THEN PathCandidates(tokens[1]) ELSE WordCandidates(tokens[1])
    OBVIOUS
  <2>5. t \in Seq(Words)
    <3>1. tokens[1] \in Tokens
      <4>1. 1 \in 1..Len(tokens)
        OBVIOUS
      <4>2. \A i \in 1..Len(tokens) : tokens[i] \in Tokens
        OBVIOUS
      <4>3. QED
        BY <4>1, <4>2
    <3>2. QED
      BY <2>4, <3>1, CandidatesType
  <2>6. s = <<t>>
    BY <1>1, <2>3, <2>4
  <2>7. s \in Seq(Seq(Words)) /\ s # <<>> /\ Len(s) = 1 /\ s[1] = t
    BY <2>5, <2>6
  <2>8. FlattenSeq(s) = t
    <3>1. PICK g : /\ FlattenSeq(s) = g[Len(s)]
                   /\ \A i \in 1..Len(s) : g[i] = IF i = 1 THEN s[i] ELSE g[i - 1] \o s[i]
      <4>1. PICK T : T = Words
        OBVIOUS
      <4>2. s \in Seq(Seq(T)) /\ s # <<>>
        BY <2>7, <4>1
      <4>3. QED
        BY ONLY <4>2, Flattened
    <3>2. QED
      BY <2>7, <3>1
  <2> HIDE DEF Parts, chosen
  <2>9. QED
    BY <1>2, <1>4, <2>2, <2>3, <2>4, <2>8
<1>5. QED
  BY <1>3, <1>4

\* The first candidate of a query that is one token is the token.
LEMMA FirstCandidate ==
  ASSUME NEW q, q.tokens \in Seq(Tokens), Len(q.tokens) = 1
  PROVE  /\ AllCandidates(q) \in Seq(Words) /\ Len(AllCandidates(q)) >= 1
         /\ AllCandidates(q)[1] = q.tokens[1].text
<1>1. PICK tokens, t : tokens = q.tokens /\ t = q.tokens[1]
  OBVIOUS
<1>20. tokens \in Seq(Tokens) /\ Len(tokens) = 1 /\ t = tokens[1] /\ 1 \in 1..Len(tokens)
  BY <1>1
<1>21. \A i \in 1..Len(tokens) : tokens[i] \in Tokens
  BY <1>20
<1>22. \A x \in Tokens : x.path \in BOOLEAN
  BY DEF Tokens
<1>2. /\ tokens \in Seq(Tokens) /\ Len(tokens) = 1 /\ t = tokens[1]
      /\ t \in Tokens /\ t.path \in BOOLEAN
  BY <1>20, <1>21, <1>22
<1>3. PICK a, b : a = TokenCandidates(tokens, TRUE) /\ b = TokenCandidates(tokens, FALSE)
  OBVIOUS
<1>4. /\ a = IF t.path # TRUE THEN <<>> ELSE PathCandidates(t)
      /\ b = IF t.path # FALSE THEN <<>> ELSE WordCandidates(t)
  BY <1>2, <1>3, OneToken
<1>5. PICK p, w : p = PathCandidates(t) /\ w = WordCandidates(t)
  OBVIOUS
<1>6. /\ p \in Seq(Words) /\ p # <<>> /\ p[1] = t.text
      /\ w \in Seq(Words) /\ w # <<>> /\ w[1] = t.text
  BY <1>2, <1>5, CandidatesType
<1>7. PICK x : x = t.text
  OBVIOUS
<1>8. AllCandidates(q) = a \o b
  BY <1>1, <1>3 DEF AllCandidates
<1>9. (a = p /\ b = <<>>) \/ (a = <<>> /\ b = w)
  BY <1>2, <1>4, <1>5
<1>10. p \o <<>> = p /\ <<>> \o w = w /\ Len(p) >= 1 /\ Len(w) >= 1
  BY <1>6
<1>11. a \o b \in Seq(Words) /\ Len(a \o b) >= 1 /\ (a \o b)[1] = x
  BY <1>6, <1>7, <1>9, <1>10
<1>12. QED
  BY <1>1, <1>7, <1>8, <1>11

\* A query that is one token, and no stopword, is its own first term.
LEMMA FirstTerm ==
  ASSUME NEW q, q.whole \in Words, q.tokens \in Seq(Tokens), Len(q.tokens) = 1,
         q.tokens[1].text = q.whole, q.whole \notin Stopwords
  PROVE  Terms(q) # <<>> /\ Terms(q)[1] = q.whole
<1>1. PICK all, w : all = AllCandidates(q) /\ w = q.whole
  OBVIOUS
<1>2. all \in Seq(Words) /\ Len(all) >= 1 /\ all[1] = w /\ w \notin Stopwords
  BY <1>1, FirstCandidate
<1>3. PICK new : new = NewCandidates(all)
  OBVIOUS
<1>4. DOMAIN all = 1..Len(all) /\ Len(all) \in Nat /\ 1 \in DOMAIN all
  BY <1>2
<1>5. new \in SUBSET DOMAIN all
  BY <1>3 DEF NewCandidates
<1>6. 1 \in new
  BY <1>2, <1>3, <1>4 DEF NewCandidates
<1>7. new \in SUBSET Nat /\ IsFiniteSet(new)
  <2>1. 1 \in Int /\ Len(all) \in Int
    BY <1>4
  <2>2. IsFiniteSet(1..Len(all))
    BY <2>1, FS_Interval
  <2>3. new \in SUBSET (1..Len(all))
    BY <1>4, <1>5
  <2>4. new \in SUBSET Nat
    BY <1>4, <2>3
  <2>5. QED
    BY <2>2, <2>3, <2>4, FS_Subset
<1>8. Below(new, 1) = {}
  BY <1>4, <1>5 DEF Below
<1>9. Cardinality(Below(new, 1)) = 0
  BY <1>8, FS_EmptySet
<1>10. Cardinality(new) \in Nat /\ 1 \in 1..Cardinality(new) /\ Ascending(new)[1] = 1
  <2>1. \A i \in new : /\ Cardinality(Below(new, i)) + 1 \in 1..Cardinality(new)
                       /\ Ascending(new)[Cardinality(Below(new, i)) + 1] = i
    BY <1>7, AscendingOrder
  <2>2. Cardinality(new) \in Nat
    BY <1>7, FS_CardinalityType
  <2>3. 0 + 1 \in 1..Cardinality(new) /\ Ascending(new)[0 + 1] = 1
    BY <1>6, <1>9, <2>1
  <2>4. QED
    BY <2>2, <2>3
<1>11. PICK s : s = SubSequence(all, new)
  OBVIOUS
<1>12. s \in Seq(Words) /\ Len(s) = Cardinality(new)
  BY <1>2, <1>5, <1>11, SubSequenceType
<1>13. s[1] = w
  BY <1>2, <1>10, <1>11 DEF SubSequence
<1>14. PICK t : t = FirstN(s, MaxTerms)
  OBVIOUS
<1>15. MaxTerms \in Nat /\ MaxTerms >= 1
  BY LexicalAssumption
<1>16. /\ t \in Seq(Words) /\ Len(t) = IF MaxTerms < Len(s) THEN MaxTerms ELSE Len(s)
       /\ \A i \in 1..Len(t) : t[i] = s[i]
  BY <1>12, <1>14, <1>15, FirstNType
<1>17. t # <<>> /\ t[1] = w
  <2>1. Len(t) \in Nat /\ Len(t) >= 1
    BY <1>10, <1>12, <1>15, <1>16
  <2>2. QED
    BY <1>13, <1>16, <2>1
<1>18. Terms(q) = IF w \in SafeSymbols THEN <<w>> ELSE t
  BY <1>1, <1>3, <1>11, <1>14 DEF Terms, AllCandidates, NewCandidates
<1>19. QED
  BY <1>1, <1>17, <1>18

\* While some entity contains such a query, only those that do are found.
LEMMA CompleteFirst ==
  ASSUME NEW q, q.whole \in Words, q.tokens \in Seq(Tokens), Len(q.tokens) = 1,
         q.tokens[1].text = q.whole, q.whole \notin Stopwords,
         NEW entities, NEW x \in entities, FieldScore(x, q.whole) > 0,
         NEW e, KeywordScore(entities, q, e) > 0
  PROVE  FieldScore(e, q.whole) > 0
<1>1. PICK terms, w : terms = Terms(q) /\ w = q.whole
  OBVIOUS
<1>2. terms # <<>> /\ terms[1] = w /\ terms \in Seq(Words)
  BY <1>1, FirstTerm, TermsType
<1>3. \A y : LexicalScore(y, <<w>>) = FieldScore(y, w)
  BY DEF LexicalScore
<1>4. CASE Len(terms) = 1
  <2>1. LexicalScore(e, terms) = FieldScore(e, w)
    BY <1>2, <1>4 DEF LexicalScore
  <2>2. KeywordScore(entities, q, e) = LexicalScore(e, terms)
    BY <1>1, <1>2, <1>4 DEF KeywordScore
  <2>3. QED
    BY <1>1, <2>1, <2>2
<1>5. CASE Len(terms) # 1
  <2>1. Len(terms) > 1
    BY <1>2, <1>5
  <2>2. LexicalScore(x, <<terms[1]>>) > 0
    BY <1>1, <1>2, <1>3
  <2>3. KeywordScore(entities, q, e) = LexicalScore(e, <<terms[1]>>)
    BY <1>1, <1>2, <2>1, <2>2 DEF KeywordScore
  <2>4. QED
    BY <1>1, <1>2, <1>3, <2>3
<1>6. QED
  BY <1>4, <1>5

\* What dominates is fused to a better score.
LEMMA FusedOrder ==
  ASSUME NEW v, HitList(v), NEW k, HitList(k), NEW a, NEW b,
         ScoreIn(v, a) >= ScoreIn(v, b), ScoreIn(k, a) >= ScoreIn(k, b),
         ScoreIn(v, a) > ScoreIn(v, b) \/ ScoreIn(k, a) > ScoreIn(k, b)
  PROVE  FusedScore(v, k, a) > FusedScore(v, k, b)
<1>1. PICK va \in Nat, vb \in Nat, ka \in Nat, kb \in Nat :
        /\ va = ScoreIn(v, a) /\ vb = ScoreIn(v, b)
        /\ ka = ScoreIn(k, a) /\ kb = ScoreIn(k, b)
  BY ScoreInType
<1>2. PICK m \in Int, n \in Int : m = Maximum(k) /\ n = Maximum(v) /\ m >= 1 /\ n >= 1
  BY MaximumType
<1>3. va >= vb /\ ka >= kb /\ (va > vb \/ ka > kb)
  BY <1>1
<1>4. \A i \in Nat, j \in Nat, l \in Int :
        l >= 1 /\ i >= j => i * l >= j * l /\ (i > j => i * l > j * l)
  OBVIOUS
<1>5. /\ va * m >= vb * m /\ (va > vb => va * m > vb * m)
      /\ ka * n >= kb * n /\ (ka > kb => ka * n > kb * n)
  BY <1>2, <1>3, <1>4
<1>6. 3 * (va * m) + ka * n > 3 * (vb * m) + kb * n
  <2>1. PICK p \in Int, r \in Int, s \in Int, t \in Int :
          p = va * m /\ r = vb * m /\ s = ka * n /\ t = kb * n
    BY <1>2
  <2>2. p >= r /\ s >= t /\ (p > r \/ s > t)
    BY <1>3, <1>5, <2>1
  <2>3. 3 * p + s > 3 * r + t
    BY <2>2
  <2>4. QED
    BY <2>1, <2>3
<1>7. 3 * va * m = 3 * (va * m) /\ 3 * vb * m = 3 * (vb * m)
  BY <1>2
<1>8. QED
  BY <1>1, <1>2, <1>6, <1>7 DEF FusedScore

\* What a hybrid search that lost no branch finds in index I with the answer
\* v of the collection.
FusedHits(I, q, n, v) == Fuse(v, KeywordHits(I.entities, q, 2 * n), n)

HybridInv ==
  hits # <<>> /\ request.kind # "keyword" /\ Lost = {} =>
    hits = FusedHits(index, request.query, request.limit, vector)

\* The hits stay those of the fusion.
LEMMA HybridStep == SearchInv /\ HybridInv /\ [Next]_vars => HybridInv'
<1> SUFFICES ASSUME SearchInv, HybridInv, [Next]_vars PROVE HybridInv'
  OBVIOUS
<1>1. CASE Plan \/ CheckCollection \/ Rewrite \/ SearchVectors
  <2>1. hits = <<>> /\ UNCHANGED hits
    BY <1>1 DEF Plan, CheckCollection, Rewrite, SearchVectors, SearchInv, Searching
  <2>2. QED
    BY <2>1 DEF HybridInv
<1>2. CASE SearchKeywords
  <2>1. /\ hits = <<>> /\ down \subseteq {"vector"}
        /\ UNCHANGED <<index, request, vector>>
    BY <1>2 DEF SearchKeywords, SearchInv, Searching
  <2>2. SUFFICES ASSUME hits' # <<>>, request.kind # "keyword", Lost' = {}
                 PROVE  hits' = FusedHits(index, request.query, request.limit, vector)
    BY <2>1 DEF HybridInv
  <2>3. "keyword" \notin down' /\ "vector" \notin down'
    BY <2>2 DEF Lost
  <2>4. /\ Combine(KeywordHits(index.entities, request.query, 2 * request.limit), FALSE)
        /\ UNCHANGED down
    BY <1>2, <2>1, <2>2, <2>3 DEF SearchKeywords
  <2>5. QED
    BY <2>3, <2>4 DEF Combine, Found, FusedHits
<1>3. CASE TraverseHit \/ ExpandTask \/ ExpandChain \/ MatchApi \/ Generate \/ Repair
           \/ Done \/ UNCHANGED vars
  <2>1. UNCHANGED <<index, request, vector, hits>> /\ down \subseteq down'
    BY <1>3 DEF TraverseHit, ExpandTask, ExpandChain, MatchApi, Generate, Repair, Done, vars
  <2>2. QED
    BY <2>1 DEF HybridInv, Lost
<1>4. QED
  BY <1>1, <1>2, <1>3 DEF Next

\* The list of the fusion is the best of what both branches found.
LEMMA FusedIsExact ==
  ASSUME SearchInv, HybridInv
  PROVE  SearchExact
<1>1. /\ Asked /\ HitList(vector) /\ HitList(hits)
  BY DEF SearchInv
<1>2. /\ index.entities \in SUBSET EntityIds /\ IsFiniteSet(index.entities)
      /\ request.query.whole \in Words /\ request.query.tokens \in Seq(Tokens)
      /\ request.limit \in Nat
  BY <1>1, AskedFacts
<1>3. PICK v, q, n, E : /\ v = vector /\ q = request.query /\ n = request.limit
                        /\ E = index.entities
  OBVIOUS
<1>30. n \in Nat
  BY <1>2, <1>3
<1>4. 2 * n \in Nat
  BY <1>30
<1>5. PICK k : k = KeywordHits(E, q, 2 * n)
  OBVIOUS
<1>6. HitList(v) /\ HitList(k)
      /\ \A i \in 1..Len(k) : k[i].entity \in KeywordFound(E, q)
  BY <1>1, <1>2, <1>3, <1>4, <1>5, KeywordList
<1>7. PICK F : F = Ids(v) \cup Ids(k)
  OBVIOUS
<1>8. ASSUME Searched, down \cap {"vector", "keyword"} = {}
      PROVE  /\ Ids(hits) \subseteq F
             /\ Cardinality(Ids(hits)) = Len(hits)
             /\ Len(hits) = Min({n, Cardinality(F)})
             /\ \A i \in DOMAIN hits : \A e \in F \ {hits[j].entity : j \in 1..i} :
                  ~Dominates(k, e, hits[i].entity)
  <2>1. PICK list : list = hits
    OBVIOUS
  <2>2. list = Fuse(v, k, n) /\ HitList(list)
    BY <1>1, <1>3, <1>5, <1>8, <2>1 DEF HybridInv, FusedHits, Searched, Lost
  <2>3. /\ Cardinality(F) \in Nat
        /\ Len(list) = IF n < Cardinality(F) THEN n ELSE Cardinality(F)
        /\ \A i \in 1..Len(list) : list[i].entity \in F
        /\ \A e : FusedScore(v, k, e) \in Int
        /\ \A i \in 1..Len(list), e \in F :
             (\E j \in 1..i : list[j].entity = e)
               \/ FusedScore(v, k, list[i].entity) >= FusedScore(v, k, e)
    BY <1>6, <1>7, <1>30, <2>2, FusedList
  <2>4. DOMAIN list = 1..Len(list)
    BY <2>2 DEF HitList
  <2>5. Ids(list) \subseteq F
    BY <2>3, <2>4 DEF Ids
  <2>6. Cardinality(Ids(list)) = Len(list)
    BY <2>2, IdsFinite
  <2>7. Len(list) = Min({n, Cardinality(F)})
    <3>1. PICK c \in Nat : c = Cardinality(F)
      BY <2>3
    <3>2. PICK m \in {n, c} : m = (IF n < c THEN n ELSE c) /\ \A y \in {n, c} : m <= y
      BY <1>30
    <3>3. {n, c} \in SUBSET Int
      BY <1>30
    <3>4. Min({n, c}) = m
      BY <3>2, <3>3, MinIs
    <3>5. QED
      BY <2>3, <3>1, <3>2, <3>4
  <2>8. ASSUME NEW i \in 1..Len(list), NEW e \in F \ {list[j].entity : j \in 1..i},
               Dominates(k, e, list[i].entity)
        PROVE  FALSE
    <3>1. FusedScore(v, k, list[i].entity) >= FusedScore(v, k, e)
      BY <2>3, <2>8
    <3>2. PICK b : b = list[i].entity
      OBVIOUS
    <3>3. /\ ScoreIn(v, e) >= ScoreIn(v, b) /\ ScoreIn(k, e) >= ScoreIn(k, b)
          /\ ScoreIn(v, e) > ScoreIn(v, b) \/ ScoreIn(k, e) > ScoreIn(k, b)
      BY <1>3, <2>8, <3>2 DEF Dominates
    <3>4. FusedScore(v, k, e) > FusedScore(v, k, b)
      BY <1>6, <3>3, FusedOrder
    <3>5. FusedScore(v, k, e) \in Int /\ FusedScore(v, k, b) \in Int
      BY <2>3
    <3>6. QED
      BY <3>1, <3>2, <3>4, <3>5
  <2>9. QED
    BY <2>1, <2>4, <2>5, <2>6, <2>7, <2>8
<1>9. ASSUME Len(q.tokens) = 1, q.tokens[1].text = q.whole, q.whole \notin Stopwords,
             NEW x \in E, FieldScore(x, q.whole) > 0,
             NEW e \in Ids(k)
      PROVE  FieldScore(e, q.whole) > 0
  <2>1. q.whole \in Words /\ q.tokens \in Seq(Tokens)
    BY <1>2, <1>3
  <2>2. KeywordScore(E, q, e) > 0
    BY <1>6 DEF Ids, KeywordFound, HitList
  <2>3. QED
    BY <1>9, <2>1, <2>2, CompleteFirst
<1>10. Searched /\ down \cap {"vector", "keyword"} = {} => BestFound(k, F)
  BY <1>3, <1>8 DEF BestFound
<1>11. Undiluted(k, q.tokens)
  BY <1>3, <1>9 DEF Undiluted
<1>12. SoundSearch(k)
  BY <1>3, <1>7, <1>10, <1>11 DEF SoundSearch
<1>13. QED
  BY <1>3, <1>5, <1>12 DEF SearchExact

\* A hybrid search that lost no branch returns the best of what the two found,
\* as many as asked for and each once, whatever the scores of the collection
\* are: none before another that both branches rank as high and one higher
\* (fuse_search_hits); and a complete match of an identifier or a path is
\* never diluted by what only matches its parts (KeywordSearchService.search).
THEOREM SearchIsExact == Spec => []SearchExact
<1>1. Init => HybridInv
  BY DEF Init, HybridInv
<1>2. AnswersInv /\ HybridInv /\ [Next]_vars => HybridInv'
  BY HybridStep DEF AnswersInv
<1>3. AnswersInv /\ HybridInv => SearchExact
  BY FusedIsExact DEF AnswersInv
<1>4. QED
  BY <1>1, <1>2, <1>3, AnswersKept, PTL DEF Spec

-----------------------------------------------------------------------------
(* The evaluation's fusions                                                *)

\* The hits that stand for the entities of E with the scores f.
Stands(S, E, f, src) ==
  /\ \A e \in E : Hit(e, f[e], src) \in S
  /\ \A h \in S : h.entity \in E /\ h = Hit(h.entity, f[h.entity], src)

\* They are one for each.
LEMMA StandsFor ==
  ASSUME NEW E \in SUBSET EntityIds, IsFiniteSet(E), NEW f \in [E -> Int],
         NEW src, NEW S, Stands(S, E, f, src),
         NEW s, s = [e \in E |-> Hit(e, f[e], src)]
  PROVE  /\ s \in Surjection(E, S) /\ s \in Injection(E, S)
         /\ IsFiniteSet(S) /\ Cardinality(S) = Cardinality(E)
         /\ \A e \in E : /\ s[e] \in S /\ s[e].entity = e /\ s[e].score = f[e]
                         /\ s[e].uncertain = {}
         /\ \A a \in S : /\ a.score \in Int /\ a.entity \in Int
                         /\ a.entity \in E /\ a = s[a.entity]
         /\ \A a, b \in S : a.entity = b.entity => a = b
<1>1. \A e \in E : e \in Int /\ f[e] \in Int
  BY AnswersAssumption
<1>2. \A e \in E : /\ s[e] \in S /\ s[e].entity = e /\ s[e].score = f[e]
                   /\ s[e].uncertain = {}
  BY DEF Stands, Hit
<1>3. \A a \in S : a.entity \in E /\ a = s[a.entity]
  BY DEF Stands
<1>4. s \in Surjection(E, S) /\ s \in Injection(E, S)
  <2>1. s \in [E -> S]
    BY <1>2
  <2>2. \A a, b \in E : s[a] = s[b] => a = b
    BY <1>2
  <2>3. s \in Surjection(E, S)
    <3>1. \A a \in S : \E e \in E : s[e] = a
      BY <1>3
    <3>2. QED
      BY <2>1, <3>1 DEF Surjection
  <2>4. s \in Injection(E, S)
    BY <2>1, <2>2 DEF Injection, IsInjective
  <2>5. QED
    BY <2>3, <2>4
<1>5. IsFiniteSet(S) /\ Cardinality(S) = Cardinality(E)
  BY <1>4, FS_Surjection
<1>6. \A a \in S : a.score \in Int /\ a.entity \in Int
  BY <1>1, <1>2, <1>3
<1>7. \A a, b \in S : a.entity = b.entity => a = b
  BY <1>3
<1>8. QED
  BY <1>2, <1>3, <1>4, <1>5, <1>6, <1>7

\* Scores of the same order, and lists of the same entities with nothing
\* uncertain.
SameOrder(E, f, g) ==
  /\ f \in [E -> Int] /\ g \in [E -> Int]
  /\ \A a, b \in E : f[a] > f[b] <=> g[a] > g[b]

SameList(one, two) ==
  /\ Len(one) = Len(two)
  /\ DOMAIN one = 1..Len(one) /\ DOMAIN two = 1..Len(two)
  /\ \A i \in 1..Len(one) : /\ one[i].entity = two[i].entity
                            /\ one[i].uncertain = {} /\ two[i].uncertain = {}

\* The order of hits depends on the order of their scores alone.
LEMMA BestSame ==
  ASSUME NEW E, E \in SUBSET EntityIds, IsFiniteSet(E), NEW n, n \in Nat,
         NEW f, NEW g, SameOrder(E, f, g), NEW src, NEW other,
         NEW S, Stands(S, E, f, src), NEW T, Stands(T, E, g, other)
  PROVE  SameList(Best(S, n), Best(T, n))
<1>0. f \in [E -> Int] /\ g \in [E -> Int]
  BY DEF SameOrder
<1>1. PICK s, t : /\ s = [e \in E |-> Hit(e, f[e], src)]
                  /\ t = [e \in E |-> Hit(e, g[e], other)]
  OBVIOUS
<1>2. /\ s \in Surjection(E, S) /\ s \in Injection(E, S)
      /\ IsFiniteSet(S) /\ Cardinality(S) = Cardinality(E)
      /\ \A e \in E : /\ s[e] \in S /\ s[e].entity = e /\ s[e].score = f[e]
                      /\ s[e].uncertain = {}
      /\ \A a \in S : /\ a.score \in Int /\ a.entity \in Int
                      /\ a.entity \in E /\ a = s[a.entity]
      /\ \A a, b \in S : a.entity = b.entity => a = b
  BY <1>0, <1>1, StandsFor
<1>3. /\ t \in Surjection(E, T) /\ t \in Injection(E, T)
      /\ IsFiniteSet(T) /\ Cardinality(T) = Cardinality(E)
      /\ \A e \in E : /\ t[e] \in T /\ t[e].entity = e /\ t[e].score = g[e]
                      /\ t[e].uncertain = {}
      /\ \A a \in T : /\ a.score \in Int /\ a.entity \in Int
                      /\ a.entity \in E /\ a = t[a.entity]
      /\ \A a, b \in T : a.entity = b.entity => a = b
  BY <1>0, <1>1, StandsFor
<1>4. ASSUME NEW a \in E, NEW b \in E
      PROVE  Better(s[a], s[b]) <=> Better(t[a], t[b])
  <2>1. f[a] \in Int /\ f[b] \in Int /\ g[a] \in Int /\ g[b] \in Int
    BY <1>0
  <2>2. (f[a] > f[b] <=> g[a] > g[b]) /\ (f[b] > f[a] <=> g[b] > g[a])
    BY DEF SameOrder
  <2>3. f[a] = f[b] <=> g[a] = g[b]
    BY <2>1, <2>2
  <2>4. QED
    BY <1>2, <1>3, <2>2, <2>3 DEF Better
<1>5. ASSUME NEW e \in E
      PROVE  Cardinality({y \in S : Better(y, s[e])}) = Cardinality({y \in T : Better(y, t[e])})
  <2>1. PICK A, B : A = {y \in S : Better(y, s[e])} /\ B = {y \in T : Better(y, t[e])}
    OBVIOUS
  <2>2. PICK h : h = [y \in A |-> t[y.entity]]
    OBVIOUS
  <2>3. \A y \in A : y \in S /\ y.entity \in E /\ y = s[y.entity] /\ h[y] \in B
    BY <1>2, <1>3, <1>4, <2>1, <2>2
  <2>4. \A y \in B : s[y.entity] \in A /\ h[s[y.entity]] = y
    BY <1>2, <1>3, <1>4, <2>1, <2>2
  <2>5. \A y, z \in A : h[y] = h[z] => y = z
    BY <1>3, <2>2, <2>3
  <2>6. h \in Surjection(A, B) /\ h \in Injection(A, B)
    BY <2>2, <2>3, <2>4, <2>5 DEF Surjection, Injection, IsInjective
  <2>7. IsFiniteSet(A)
    BY <1>2, <2>1, FS_Subset
  <2>8. QED
    BY <2>1, <2>6, <2>7, FS_Surjection
<1>6. /\ Cardinality(S) \in Nat
      /\ ByBetter(S) \in [1..Cardinality(S) -> S]
      /\ \A i, j \in 1..Cardinality(S) : ByBetter(S)[i] = ByBetter(S)[j] => i = j
      /\ \A x \in S :
           /\ Cardinality({y \in S : Better(y, x)}) + 1 \in 1..Cardinality(S)
           /\ ByBetter(S)[Cardinality({y \in S : Better(y, x)}) + 1] = x
  BY <1>2, SortedBetter
<1>7. /\ ByBetter(T) \in [1..Cardinality(T) -> T]
      /\ \A x \in T :
           /\ Cardinality({y \in T : Better(y, x)}) + 1 \in 1..Cardinality(T)
           /\ ByBetter(T)[Cardinality({y \in T : Better(y, x)}) + 1] = x
  BY <1>3, SortedBetter
<1>8. PICK p, q, N : p = ByBetter(S) /\ q = ByBetter(T) /\ N = Cardinality(E)
  OBVIOUS
<1>9. N \in Nat /\ p \in Seq(S) /\ q \in Seq(T) /\ Len(p) = N /\ Len(q) = N
  <2>1. N \in Nat /\ p \in [1..N -> S] /\ q \in [1..N -> T]
    BY <1>2, <1>3, <1>6, <1>7, <1>8
  <2>2. QED
    BY ONLY <2>1
<1>10. ASSUME NEW i \in 1..N
       PROVE  /\ p[i].entity = q[i].entity
              /\ p[i].uncertain = {} /\ q[i].uncertain = {}
  <2>1. p[i] \in S
    BY <1>9
  <2>2. PICK e \in E : p[i] = s[e]
    BY <1>2, <2>1
  <2>3. PICK c : c = Cardinality({y \in S : Better(y, s[e])}) + 1
    OBVIOUS
  <2>4. c \in 1..N /\ p[c] = s[e]
    BY <1>2, <1>6, <1>8, <2>3
  <2>5. c = i
    BY <1>2, <1>6, <1>8, <2>2, <2>4
  <2>6. q[c] = t[e]
    BY <1>3, <1>5, <1>7, <1>8, <2>3
  <2>7. QED
    BY <1>2, <1>3, <2>2, <2>5, <2>6
<1>11. PICK a, b : a = FirstN(p, n) /\ b = FirstN(q, n)
  OBVIOUS
<1>12. /\ a \in Seq(S) /\ Len(a) = (IF n < N THEN n ELSE N)
       /\ \A i \in 1..Len(a) : i \in 1..N /\ a[i] = p[i]
  BY <1>9, <1>11, FirstNType
<1>13. /\ b \in Seq(T) /\ Len(b) = (IF n < N THEN n ELSE N)
       /\ \A i \in 1..Len(b) : i \in 1..N /\ b[i] = q[i]
  BY <1>9, <1>11, FirstNType
<1>14. a = Best(S, n) /\ b = Best(T, n)
  BY <1>8, <1>11 DEF Best, ByBetter
<1>15. QED
  BY <1>10, <1>12, <1>13, <1>14 DEF SameList

\* The score of WeightedFusion.
WeightedScore(v, V, K, e) ==
  v.vector * ScoreIn(V, e) * Maximum(K) + v.keyword * ScoreIn(K, e) * Maximum(V)

\* Fused scores are numbers.
LEMMA WeightedType ==
  ASSUME NEW V, HitList(V), NEW K, HitList(K), NEW v,
         v.vector \in Nat, v.keyword \in Nat, NEW e
  PROVE  WeightedScore(v, V, K, e) \in Int
<1>1. PICK a, b, c, d, x, y : /\ a = ScoreIn(V, e) /\ b = Maximum(K)
                              /\ c = ScoreIn(K, e) /\ d = Maximum(V)
                              /\ x = v.vector /\ y = v.keyword
  OBVIOUS
<1>2. a \in Int /\ b \in Int /\ c \in Int /\ d \in Int /\ x \in Int /\ y \in Int
  BY <1>1, ScoreInType, MaximumType
<1>3. x * a * b + y * c * d \in Int
  BY <1>2
<1>4. QED
  BY <1>1, <1>3 DEF WeightedScore

\* With positive weights, what dominates has the better score.
LEMMA WeightedOrder ==
  ASSUME NEW V, HitList(V), NEW K, HitList(K), NEW v,
         v.vector \in Nat \ {0}, v.keyword \in Nat \ {0}, NEW a, NEW b,
         ScoreIn(V, a) >= ScoreIn(V, b), ScoreIn(K, a) >= ScoreIn(K, b),
         ScoreIn(V, a) > ScoreIn(V, b) \/ ScoreIn(K, a) > ScoreIn(K, b)
  PROVE  WeightedScore(v, V, K, a) > WeightedScore(v, V, K, b)
<1>1. PICK va \in Nat, vb \in Nat, ka \in Nat, kb \in Nat :
        /\ va = ScoreIn(V, a) /\ vb = ScoreIn(V, b)
        /\ ka = ScoreIn(K, a) /\ kb = ScoreIn(K, b)
  BY ScoreInType
<1>2. PICK m \in Int, n \in Int : m = Maximum(K) /\ n = Maximum(V) /\ m >= 1 /\ n >= 1
  BY MaximumType
<1>3. PICK x \in Int, y \in Int : x = v.vector /\ y = v.keyword /\ x >= 1 /\ y >= 1
  OBVIOUS
<1>4. va >= vb /\ ka >= kb /\ (va > vb \/ ka > kb)
  BY <1>1
<1>5. \A i \in Int, j \in Int, l \in Int :
        l >= 1 /\ i >= j => i * l >= j * l /\ (i > j => i * l > j * l)
  OBVIOUS
<1>6. \A l \in Int, i \in Int : l * i = i * l
  OBVIOUS
<1>7. /\ x * va >= x * vb /\ (va > vb => x * va > x * vb)
      /\ y * ka >= y * kb /\ (ka > kb => y * ka > y * kb)
  BY <1>3, <1>4, <1>5, <1>6
<1>8. PICK p \in Int, r \in Int, s \in Int, t \in Int :
        p = x * va /\ r = x * vb /\ s = y * ka /\ t = y * kb
  BY <1>3
<1>9. /\ p * m >= r * m /\ (p > r => p * m > r * m)
      /\ s * n >= t * n /\ (s > t => s * n > t * n)
  BY <1>2, <1>5, <1>7, <1>8
<1>10. p > r \/ s > t
  BY <1>4, <1>7, <1>8
<1>11. PICK p1 \in Int, r1 \in Int, s1 \in Int, t1 \in Int :
         p1 = p * m /\ r1 = r * m /\ s1 = s * n /\ t1 = t * n
  BY <1>2
<1>12. p1 + s1 > r1 + t1
  BY <1>9, <1>10, <1>11
<1>13. WeightedScore(v, V, K, a) = p1 + s1 /\ WeightedScore(v, V, K, b) = r1 + t1
  BY <1>1, <1>2, <1>3, <1>8, <1>11 DEF WeightedScore
<1>14. QED
  BY <1>12, <1>13

\* A fusion by scores: hits of both branches' entities, none better than the
\* first.
LEMMA FusionBy ==
  ASSUME NEW V, HitList(V), NEW K, HitList(K), NEW n \in Nat,
         NEW f \in [Ids(V) \cup Ids(K) -> Int],
         NEW S, Stands(S, Ids(V) \cup Ids(K), f, "fused"),
         NEW list, list = Best(S, n)
  PROVE  /\ HitList(list)
         /\ Ids(list) \subseteq Ids(V) \cup Ids(K)
         /\ list # <<>> => /\ list[1].entity \in Ids(V) \cup Ids(K)
                           /\ \A e \in Ids(V) \cup Ids(K) :
                                f[list[1].entity] >= f[e]
<1>1. PICK E : E = Ids(V) \cup Ids(K)
  OBVIOUS
<1>2. E \in SUBSET EntityIds /\ IsFiniteSet(E)
  BY <1>1, IdsFinite, FS_Union
<1>3. PICK src : src = "fused" /\ src \in HitSources
  BY DEF HitSources
<1>4. f \in [E -> Int]
  BY <1>1
<1>5. /\ \A e \in E : Hit(e, f[e], src) \in S
      /\ \A h \in S : h.entity \in E /\ h = Hit(h.entity, f[h.entity], src)
  BY <1>1, <1>3 DEF Stands
<1>6. list = Best(S, n)
  OBVIOUS
<1>7. /\ HitList(list)
      /\ \A i \in 1..Len(list) :
           list[i].entity \in E /\ list[i].score = f[list[i].entity]
      /\ \A i \in 1..Len(list), e \in E :
           (\E j \in 1..i : list[j].entity = e) \/ f[list[i].entity] >= f[e]
  BY ONLY <1>2, <1>3, <1>4, <1>5, <1>6, n \in Nat, BestOf
<1>8. DOMAIN list = 1..Len(list) /\ Len(list) \in Nat
  BY <1>7 DEF HitList
<1>9. Ids(list) \subseteq E
  BY <1>7, <1>8 DEF Ids
<1>10. ASSUME list # <<>>
       PROVE  /\ list[1].entity \in E
              /\ \A e \in E : f[list[1].entity] >= f[e]
  <2>1. 1 \in 1..Len(list)
    BY <1>7, <1>8, <1>10 DEF HitList
  <2>2. list[1].entity \in E
    BY <1>7, <2>1
  <2>3. SUFFICES ASSUME NEW e \in E PROVE f[list[1].entity] >= f[e]
    BY <2>2
  <2>4. f[e] \in Int
    BY <1>4
  <2>5. CASE \E j \in 1..1 : list[j].entity = e
    <3>1. list[1].entity = e
      BY <2>5
    <3>2. QED
      BY <2>4, <3>1
  <2>6. QED
    BY <1>7, <2>1, <2>5
<1>11. QED
  BY <1>1, <1>7, <1>9, <1>10

\* With the product's weights the fusions list the same, in the same order.
LEMMA ProductFusion ==
  ASSUME NEW V, HitList(V), NEW K, HitList(K), NEW n \in Nat, NEW v,
         v.keyword \in Nat \ {0}, v.vector = 3 * v.keyword
  PROVE  Listed(WeightedFusion(v, V, K, n)) = Listed(Fuse(V, K, n))
<1>1. PICK E : E = Ids(V) \cup Ids(K)
  OBVIOUS
<1>2. E \in SUBSET EntityIds /\ IsFiniteSet(E)
  BY <1>1, IdsFinite, FS_Union
<1>3. PICK w \in Int : w = v.keyword /\ w >= 1
  OBVIOUS
<1>4. v.vector \in Nat /\ v.keyword \in Nat
  OBVIOUS
<1>5. PICK f, g : /\ f = [e \in E |-> WeightedScore(v, V, K, e)]
                  /\ g = [e \in E |-> FusedScore(V, K, e)]
  OBVIOUS
<1>6. \A e \in E : FusedScore(V, K, e) \in Int
  <2>1. PICK list : list = Fuse(V, K, n)
    OBVIOUS
  <2>2. \A e : FusedScore(V, K, e) \in Int
    BY ONLY HitList(V), HitList(K), n \in Nat, <2>1, FusedList
  <2>3. QED
    BY <2>2
<1>7. \A e \in E : WeightedScore(v, V, K, e) \in Int
  BY <1>4, WeightedType
<1>8. f \in [E -> Int] /\ g \in [E -> Int]
  BY <1>5, <1>6, <1>7
<1>9. ASSUME NEW e \in E
      PROVE  f[e] = w * g[e]
  <2>1. PICK a \in Int, b \in Int, c \in Int, d \in Int :
          a = ScoreIn(V, e) /\ b = Maximum(K) /\ c = ScoreIn(K, e) /\ d = Maximum(V)
    BY ScoreInType, MaximumType
  <2>2. (3 * w) * a * b + w * c * d = w * (3 * a * b + c * d)
    BY <1>3
  <2>3. QED
    BY <1>3, <1>5, <2>1, <2>2 DEF WeightedScore, FusedScore
<1>10. ASSUME NEW a \in E, NEW b \in E
       PROVE  f[a] > f[b] <=> g[a] > g[b]
  <2>1. PICK x \in Int, y \in Int : x = g[a] /\ y = g[b]
    BY <1>8
  <2>2. x > y => w * x > w * y
    BY <1>3
  <2>3. x <= y => w * x <= w * y
    BY <1>3
  <2>4. f[a] = w * x /\ f[b] = w * y
    BY <1>9, <2>1
  <2>5. w * x \in Int /\ w * y \in Int
    BY <1>3
  <2>6. QED
    BY <2>1, <2>2, <2>3, <2>4, <2>5
<1>11. PICK S, T : /\ S = {Hit(e, WeightedScore(v, V, K, e), "fused") : e \in E}
                   /\ T = {Hit(e, FusedScore(V, K, e), "hybrid") : e \in E}
  OBVIOUS
<1>12. WeightedFusion(v, V, K, n) = Best(S, n) /\ Fuse(V, K, n) = Best(T, n)
  BY <1>1, <1>11 DEF WeightedFusion, WeightedScore, Fuse, FusedScore
<1>13. Stands(S, E, f, "fused") /\ Stands(T, E, g, "hybrid")
  <2>1. \A e, x, src : Hit(e, x, src).entity = e
    BY DEF Hit
  <2>2. /\ \A e \in E : f[e] = WeightedScore(v, V, K, e)
        /\ \A e \in E : g[e] = FusedScore(V, K, e)
    BY <1>5
  <2>3. QED
    BY <1>11, <2>1, <2>2 DEF Stands
<1>14. SameList(Best(S, n), Best(T, n))
  <2>1. SameOrder(E, f, g)
    BY <1>8, <1>10 DEF SameOrder
  <2>2. QED
    BY ONLY <1>2, <1>13, <2>1, n \in Nat, BestSame
<1>15. Listed(Best(S, n)) = Listed(Best(T, n))
  BY <1>14 DEF Listed, SameList
<1>16. QED
  BY <1>12, <1>15

-----------------------------------------------------------------------------
(* Reciprocal ranks                                                        *)

\* The common denominator is divided by each of its factors.
LEMMA DenominatorType ==
  ASSUME NEW N \in Nat
  PROVE  /\ Denominator(N) \in Nat \ {0}
         /\ \A i \in 1..N : \E q \in Nat \ {0} : Denominator(N) = q * (RankConstant + i)
<1> DEFINE step == {p \in (1..N) \X Nat \X Nat : p[3] = p[2] * (RankConstant + p[1])}
           product[i \in 0..N] ==
             IF i = 0 THEN 1 ELSE product[i - 1] * (RankConstant + i)
<1>1. \A n \in 1..N : RankConstant + n \in Nat \ {0}
  BY DEF RankConstant
<1>2. \A n \in 1..N, x \in Nat : \E y \in Nat : <<n, x, y>> \in step
  <2>1. SUFFICES ASSUME NEW n \in 1..N, NEW x \in Nat
                 PROVE  \E y \in Nat : <<n, x, y>> \in step
    OBVIOUS
  <2>2. x * (RankConstant + n) \in Nat
    BY <1>1
  <2>3. QED
    BY <2>2
<1>3. PICK g \in [0..N -> Nat] :
        g[0] = 1 /\ \A n \in 1..N : <<n, g[n - 1], g[n]>> \in step
  <2> HIDE DEF step
  <2>1. 1 \in Nat /\ GoesOn(step, Nat, N)
    BY <1>2 DEF GoesOn
  <2>2. Followed(step, Nat, N, 1)
    BY <2>1, RecursionExists
  <2>3. QED
    BY <2>2 DEF Followed
<1>4. g = [n \in 0..N |-> IF n = 0 THEN 1 ELSE g[n - 1] * (RankConstant + n)]
  <2>1. \A n \in 1..N : g[n] = g[n - 1] * (RankConstant + n)
    BY <1>3
  <2>2. \A n \in 0..N : n # 0 => n \in 1..N
    OBVIOUS
  <2> HIDE DEF step
  <2>3. QED
    BY <1>3, <2>1, <2>2
<1>5. product = [n \in 0..N |-> IF n = 0 THEN 1 ELSE product[n - 1] * (RankConstant + n)]
  BY <1>4
<1>6. \A n \in 0..N : product[n] = IF n = 0 THEN 1 ELSE product[n - 1] * (RankConstant + n)
  <2> HIDE DEF product
  <2>1. QED
    BY <1>5
<1>7. PICK P : P = product
  OBVIOUS
<1> DEFINE Divided(m) ==
             /\ P[m] \in Nat \ {0}
             /\ \A i \in 1..m : \E q \in Nat \ {0} : P[m] = q * (RankConstant + i)
           U == {m \in Nat : m <= N => Divided(m)}
<1>8. 0 \in U
  <2>1. P[0] = 1
    <3> HIDE DEF product
    <3>1. QED
      BY <1>6, <1>7
  <2>2. QED
    BY <2>1
<1>9. ASSUME NEW m \in Nat, m \in U
      PROVE  m + 1 \in U
  <2>1. SUFFICES ASSUME m + 1 <= N PROVE Divided(m + 1)
    OBVIOUS
  <2>2. m \in 0..N /\ m + 1 \in 1..N /\ m + 1 \in 0..N /\ (m + 1) - 1 = m /\ m + 1 # 0
    BY <2>1
  <2>3. Divided(m)
    BY <1>9, <2>2
  <2>4. PICK c \in Nat \ {0} : c = RankConstant + (m + 1)
    BY <1>1, <2>2
  <2>5. P[m + 1] = P[m] * c
    <3> HIDE DEF product
    <3>1. QED
      BY <1>6, <1>7, <2>2, <2>4
  <2>6. \A x \in Nat \ {0}, y \in Nat \ {0} : x * y \in Nat \ {0}
    OBVIOUS
  <2>7. P[m + 1] \in Nat \ {0}
    BY <2>3, <2>4, <2>5, <2>6
  <2>8. ASSUME NEW i \in 1..(m + 1)
        PROVE  \E q \in Nat \ {0} : P[m + 1] = q * (RankConstant + i)
    <3>1. CASE i = m + 1
      BY <2>3, <2>4, <2>5, <3>1
    <3>2. CASE i # m + 1
      <4>1. i \in 1..m
        BY <3>2
      <4>2. PICK q \in Nat \ {0} : P[m] = q * (RankConstant + i)
        BY <2>3, <4>1
      <4>3. PICK d \in Nat : d = RankConstant + i
        BY DEF RankConstant
      <4>4. (q * d) * c = (q * c) * d
        OBVIOUS
      <4>5. q * c \in Nat \ {0}
        BY <2>6
      <4>6. QED
        BY <2>5, <4>2, <4>3, <4>4, <4>5
    <3>3. QED
      BY <3>1, <3>2
  <2>9. QED
    BY <2>7, <2>8
<1>10. N \in U
  <2> HIDE DEF U
  <2>1. QED
    BY <1>8, <1>9, NatSetInduction
<1>11. Denominator(N) = P[N]
  BY <1>7 DEF Denominator
<1>12. QED
  <2>1. Divided(N)
    BY <1>10
  <2> HIDE DEF product
  <2>2. QED
    BY <1>11, <2>1

\* A smaller rank has more points, and every rank has some.
LEMMA SharesFall ==
  ASSUME NEW N \in Nat, NEW i \in 1..N, NEW D, D = Denominator(N)
  PROVE  /\ D \div (RankConstant + i) \in Nat \ {0}
         /\ \A j \in 1..N : i < j =>
              D \div (RankConstant + i) > D \div (RankConstant + j)
<1>1. D \in Nat \ {0}
      /\ \A k \in 1..N : \E q \in Nat \ {0} : D = q * (RankConstant + k)
  BY DenominatorType
<1>2. \A k \in 1..N : RankConstant + k \in Nat \ {0}
  BY DEF RankConstant
<1>3. \A q \in Nat \ {0}, m \in Nat \ {0} : (q * m) \div m = q
  OBVIOUS
<1>4. \A k \in 1..N : /\ D \div (RankConstant + k) \in Nat \ {0}
                      /\ D = (D \div (RankConstant + k)) * (RankConstant + k)
  <2>1. SUFFICES ASSUME NEW k \in 1..N
                 PROVE  /\ D \div (RankConstant + k) \in Nat \ {0}
                        /\ D = (D \div (RankConstant + k)) * (RankConstant + k)
    OBVIOUS
  <2>2. PICK m \in Nat \ {0} : m = RankConstant + k
    BY <1>2
  <2>3. PICK q \in Nat \ {0} : D = q * m
    BY <1>1, <2>2
  <2>4. D \div m = q
    BY <1>3, <2>3
  <2>5. QED
    BY <2>2, <2>3, <2>4
<1>5. ASSUME NEW j \in 1..N, i < j,
             ~ (D \div (RankConstant + i) > D \div (RankConstant + j))
      PROVE  FALSE
  <2>1. PICK m \in Nat \ {0}, k \in Nat \ {0} :
          m = RankConstant + i /\ k = RankConstant + j
    BY <1>2
  <2>2. m < k
    BY <1>5, <2>1 DEF RankConstant
  <2>3. PICK p \in Nat \ {0}, q \in Nat \ {0} : p = D \div m /\ q = D \div k
    BY <1>4, <2>1
  <2>4. D = p * m /\ D = q * k
    BY <1>4, <2>1, <2>3
  <2>5. p <= q
    BY <1>5, <2>1, <2>3
  <2>6. p * m <= q * m
    BY <2>5
  <2>7. q * m < q * k
    BY <2>2
  <2>8. QED
    BY <2>4, <2>6, <2>7
<1>6. QED
  BY <1>4, <1>5

\* What an entity gets from a list.
LEMMA PointsType ==
  ASSUME NEW list, HitList(list), NEW N \in Nat, Len(list) <= N,
         NEW D, D = Denominator(N), NEW e
  PROVE  /\ Points(list, e, D) \in Nat
         /\ e \in Ids(list) => \E i \in 1..Len(list) :
              list[i].entity = e /\ Points(list, e, D) = D \div (RankConstant + i)
         /\ e \notin Ids(list) => Points(list, e, D) = 0
<1>1. DOMAIN list = 1..Len(list) /\ Len(list) \in Nat
  BY DEF HitList
<1>2. CASE e \in Ids(list)
  <2>1. PICK i : i = CHOOSE j \in DOMAIN list : list[j].entity = e
    OBVIOUS
  <2>2. i \in 1..Len(list) /\ list[i].entity = e
    BY <1>1, <1>2, <2>1 DEF Ids
  <2>3. Points(list, e, D) = D \div (RankConstant + i)
    BY <1>2, <2>1 DEF Points
  <2>4. i \in 1..N
    BY <1>1, <2>2
  <2>5. D \div (RankConstant + i) \in Nat \ {0}
    BY <2>4, SharesFall
  <2>6. QED
    BY <1>2, <2>2, <2>3, <2>5
<1>3. CASE e \notin Ids(list)
  BY <1>3 DEF Points
<1>4. QED
  BY <1>2, <1>3

\* What a list has ahead gets more points of it.
LEMMA PointsAhead ==
  ASSUME NEW list, HitList(list), NEW N \in Nat, Len(list) <= N,
         NEW D, D = Denominator(N), NEW a, NEW b, Ahead(list, a, b)
  PROVE  /\ Points(list, a, D) >= Points(list, b, D)
         /\ b \in Ids(list) => Points(list, a, D) > Points(list, b, D)
<1>1. /\ Points(list, a, D) \in Nat
      /\ a \in Ids(list) => \E i \in 1..Len(list) :
           list[i].entity = a /\ Points(list, a, D) = D \div (RankConstant + i)
  BY PointsType
<1>2. /\ b \in Ids(list) => \E j \in 1..Len(list) :
           list[j].entity = b /\ Points(list, b, D) = D \div (RankConstant + j)
      /\ b \notin Ids(list) => Points(list, b, D) = 0
  BY PointsType
<1>3. DOMAIN list = 1..Len(list) /\ Len(list) \in Nat
  BY DEF HitList
<1>4. CASE b \notin Ids(list)
  BY <1>1, <1>2, <1>4
<1>5. CASE b \in Ids(list)
  <2>1. PICK j \in 1..Len(list) :
          list[j].entity = b /\ Points(list, b, D) = D \div (RankConstant + j)
    BY <1>2, <1>5
  <2>2. PICK k \in 1..(j - 1) : list[k].entity = a
    BY <1>3, <2>1 DEF Ahead
  <2>3. k \in 1..Len(list) /\ k < j /\ k \in 1..N /\ j \in 1..N
    BY <1>3, <2>1, <2>2
  <2>4. a \in Ids(list)
    BY <1>3, <2>2, <2>3 DEF Ids
  <2>5. PICK i \in 1..Len(list) :
          list[i].entity = a /\ Points(list, a, D) = D \div (RankConstant + i)
    BY <1>1, <2>4
  <2>6. i = k
    BY <2>2, <2>3, <2>5 DEF HitList
  <2>7. D \div (RankConstant + k) \in Nat /\ D \div (RankConstant + j) \in Nat
        /\ D \div (RankConstant + k) > D \div (RankConstant + j)
    BY <2>3, SharesFall
  <2>8. QED
    BY <2>1, <2>5, <2>6, <2>7
<1>6. QED
  BY <1>4, <1>5

-----------------------------------------------------------------------------
(* What a fusion puts first                                                *)

\* No score is better in both lists than that of the first of a weighted
\* fusion.
LEMMA WeightedFirst ==
  ASSUME NEW V, HitList(V), NEW K, HitList(K), NEW n \in Nat, NEW v,
         v.vector \in Nat \ {0}, v.keyword \in Nat \ {0},
         NEW list, list = WeightedFusion(v, V, K, n)
  PROVE  /\ HitList(list)
         /\ Ids(list) \subseteq Ids(V) \cup Ids(K)
         /\ list # <<>> => \A e :
              ~ (/\ ScoreIn(V, e) >= ScoreIn(V, list[1].entity)
                 /\ ScoreIn(K, e) >= ScoreIn(K, list[1].entity)
                 /\ \/ ScoreIn(V, e) > ScoreIn(V, list[1].entity)
                    \/ ScoreIn(K, e) > ScoreIn(K, list[1].entity))
<1>1. PICK E : E = Ids(V) \cup Ids(K)
  OBVIOUS
<1>2. \A e : WeightedScore(v, V, K, e) \in Int
  BY WeightedType
<1>3. PICK f : f = [e \in E |-> WeightedScore(v, V, K, e)]
  OBVIOUS
<1>4. f \in [Ids(V) \cup Ids(K) -> Int]
  BY <1>1, <1>2, <1>3
<1>5. PICK S : S = {Hit(e, WeightedScore(v, V, K, e), "fused") : e \in E}
  OBVIOUS
<1>6. list = Best(S, n)
  BY <1>1, <1>5 DEF WeightedFusion, WeightedScore
<1>7. Stands(S, Ids(V) \cup Ids(K), f, "fused")
  <2>1. \A e, x, src : Hit(e, x, src).entity = e
    BY DEF Hit
  <2>2. \A e \in E : f[e] = WeightedScore(v, V, K, e)
    BY <1>3
  <2>3. QED
    BY <1>1, <1>5, <2>1, <2>2 DEF Stands
<1>8. /\ HitList(list)
      /\ Ids(list) \subseteq E
      /\ list # <<>> => /\ list[1].entity \in E
                        /\ \A e \in E : f[list[1].entity] >= f[e]
  <2>1. /\ HitList(list)
        /\ Ids(list) \subseteq Ids(V) \cup Ids(K)
        /\ list # <<>> => /\ list[1].entity \in Ids(V) \cup Ids(K)
                          /\ \A e \in Ids(V) \cup Ids(K) : f[list[1].entity] >= f[e]
    BY ONLY HitList(V), HitList(K), n \in Nat, <1>4, <1>6, <1>7, FusionBy
  <2>2. QED
    BY <1>1, <2>1
<1>9. ASSUME list # <<>>, NEW e, NEW b, b = list[1].entity,
             ScoreIn(V, e) >= ScoreIn(V, b), ScoreIn(K, e) >= ScoreIn(K, b),
             ScoreIn(V, e) > ScoreIn(V, b) \/ ScoreIn(K, e) > ScoreIn(K, b)
      PROVE  FALSE
  <2>1. CASE e \in E
    <3>1. WeightedScore(v, V, K, e) > WeightedScore(v, V, K, b)
      BY <1>9, WeightedOrder
    <3>2. f[b] >= f[e] /\ b \in E
      BY <1>8, <1>9, <2>1
    <3>3. WeightedScore(v, V, K, b) >= WeightedScore(v, V, K, e)
      BY <1>3, <2>1, <3>2
    <3>4. QED
      BY <1>2, <3>1, <3>3
  <2>2. CASE e \notin E
    <3>1. ScoreIn(V, e) = 0 /\ ScoreIn(K, e) = 0
      BY <1>1, <2>2 DEF ScoreIn
    <3>2. ScoreIn(V, b) \in Nat /\ ScoreIn(K, b) \in Nat
      BY ScoreInType
    <3>3. QED
      BY <1>9, <3>1, <3>2
  <2>3. QED
    BY <2>1, <2>2
<1>10. QED
  BY <1>1, <1>8, <1>9

\* Nothing is ahead of the first of a fusion by ranks.
LEMMA RankFirst ==
  ASSUME NEW V, HitList(V), NEW K, HitList(K), NEW n \in Nat,
         Len(V) <= 2 * n, Len(K) <= 2 * n,
         NEW list, list = RankFusion(V, K, n)
  PROVE  /\ HitList(list)
         /\ Ids(list) \subseteq Ids(V) \cup Ids(K)
         /\ list # <<>> => \A e :
              ~ (Ahead(V, e, list[1].entity) /\ Ahead(K, e, list[1].entity))
<1>1. PICK E : E = Ids(V) \cup Ids(K)
  OBVIOUS
<1>2. PICK N, D : N = 2 * n /\ D = Denominator(2 * n)
  OBVIOUS
<1>3. N \in Nat /\ Len(V) <= N /\ Len(K) <= N /\ D = Denominator(N)
  BY <1>2
<1>4. \A e : Points(V, e, D) \in Nat /\ Points(K, e, D) \in Nat
  BY <1>3, PointsType
<1>5. PICK f : f = [e \in E |-> Points(V, e, D) + Points(K, e, D)]
  OBVIOUS
<1>6. f \in [Ids(V) \cup Ids(K) -> Int]
  BY <1>1, <1>4, <1>5
<1>7. PICK S : S = {Hit(e, Points(V, e, D) + Points(K, e, D), "fused") : e \in E}
  OBVIOUS
<1>8. list = Best(S, n)
  BY <1>1, <1>2, <1>7 DEF RankFusion
<1>9. Stands(S, Ids(V) \cup Ids(K), f, "fused")
  <2>1. \A e, x, src : Hit(e, x, src).entity = e
    BY DEF Hit
  <2>2. \A e \in E : f[e] = Points(V, e, D) + Points(K, e, D)
    BY <1>5
  <2>3. QED
    BY <1>1, <1>7, <2>1, <2>2 DEF Stands
<1>10. /\ HitList(list)
       /\ Ids(list) \subseteq E
       /\ list # <<>> => /\ list[1].entity \in E
                         /\ \A e \in E : f[list[1].entity] >= f[e]
  <2>1. /\ HitList(list)
        /\ Ids(list) \subseteq Ids(V) \cup Ids(K)
        /\ list # <<>> => /\ list[1].entity \in Ids(V) \cup Ids(K)
                          /\ \A e \in Ids(V) \cup Ids(K) : f[list[1].entity] >= f[e]
    BY ONLY HitList(V), HitList(K), n \in Nat, <1>6, <1>8, <1>9, FusionBy
  <2>2. QED
    BY <1>1, <2>1
<1>11. ASSUME list # <<>>, NEW e, NEW b, b = list[1].entity,
              Ahead(V, e, b), Ahead(K, e, b)
       PROVE  FALSE
  <2>1. b \in E
    BY <1>10, <1>11
  <2>2. e \in E
    <3>1. PICK L : L \in {V, K} /\ b \in Ids(L)
      BY <1>1, <2>1
    <3>2. HitList(L) /\ Ahead(L, e, b)
      BY <1>11, <3>1
    <3>3. DOMAIN L = 1..Len(L) /\ Len(L) \in Nat
      BY <3>2 DEF HitList
    <3>4. PICK j \in 1..Len(L) : L[j].entity = b
      BY <3>1, <3>3 DEF Ids
    <3>5. PICK i \in 1..(j - 1) : L[i].entity = e
      BY <3>2, <3>3, <3>4 DEF Ahead
    <3>6. e \in Ids(L)
      BY <3>3, <3>4, <3>5 DEF Ids
    <3>7. QED
      BY <1>1, <3>1, <3>6
  <2>3. /\ Points(V, e, D) >= Points(V, b, D)
        /\ b \in Ids(V) => Points(V, e, D) > Points(V, b, D)
    BY <1>3, <1>11, PointsAhead
  <2>4. /\ Points(K, e, D) >= Points(K, b, D)
        /\ b \in Ids(K) => Points(K, e, D) > Points(K, b, D)
    BY <1>3, <1>11, PointsAhead
  <2>5. Points(V, e, D) + Points(K, e, D) > Points(V, b, D) + Points(K, b, D)
    BY <1>1, <1>4, <2>1, <2>3, <2>4
  <2>6. f[b] >= f[e]
    BY <1>10, <1>11, <2>2
  <2>7. Points(V, b, D) + Points(K, b, D) >= Points(V, e, D) + Points(K, e, D)
    BY <1>5, <2>1, <2>2, <2>6
  <2>8. QED
    BY <1>4, <2>5, <2>7
<1>12. QED
  BY <1>1, <1>10, <1>11

-----------------------------------------------------------------------------
(* What a case records                                                     *)

\* A list without hits.
LEMMA NoHits == HitList(<<>>) /\ Ids(<<>>) = {} /\ Len(<<>>) = 0
BY DEF HitList, Ids

\* The evaluation marks all hits of the branch that is left and cuts them off
\* later; the product does it the other way round.
LEMMA DegradedWhole ==
  ASSUME NEW list, HitList(list), NEW src, src \in HitSources,
         NEW notice, notice \in {"vector", "keyword"},
         NEW d, d = Degraded(list, Len(list), src, notice)
  PROVE  /\ HitList(d) /\ Ids(d) = Ids(list)
         /\ \A n \in Nat : FirstN(d, n) = Degraded(list, n, src, notice)
<1> DEFINE mark(h) == [h EXCEPT !.source = src, !.uncertain = @ \cup {notice}]
<1>1. Len(list) \in Nat /\ DOMAIN list = 1..Len(list) /\ list \in Seq(HitRecords)
  BY DEF HitList
<1>2. \A n \in Nat : /\ Len(FirstN(list, n)) = (IF n < Len(list) THEN n ELSE Len(list))
                     /\ Len(FirstN(list, n)) \in Nat
  BY <1>1, FirstNType
<1>3. \A n : Degraded(list, n, src, notice) = [i \in 1..Len(FirstN(list, n)) |-> mark(list[i])]
  BY DEF Degraded
<1>4. /\ HitList(d) /\ Len(d) = Len(list)
      /\ Marks(d, list, src, notice)
  <2>1. PICK n \in Nat : n = Len(list)
    BY <1>1
  <2>2. d = Degraded(list, n, src, notice)
    BY <2>1
  <2>3. /\ HitList(d)
        /\ Len(d) = IF n < Len(list) THEN n ELSE Len(list)
        /\ Marks(d, list, src, notice)
    BY ONLY HitList(list), src \in HitSources, notice \in {"vector", "keyword"},
            <2>2, MarkedList
  <2>4. Len(d) = Len(list)
    BY ONLY <2>1, <2>3
  <2>5. QED
    BY ONLY <2>3, <2>4
<1> HIDE DEF mark
<1>5. \A i \in 1..Len(list) : d[i].entity = list[i].entity
  BY <1>4 DEF Marks
<1>6. DOMAIN d = 1..Len(list)
  BY <1>4 DEF HitList
<1>7. Ids(d) = Ids(list)
  BY <1>1, <1>5, <1>6 DEF Ids
<1>8. \A i \in 1..Len(list) : d[i] = mark(list[i])
  <2>1. d = [i \in 1..Len(list) |-> mark(list[i])]
    BY <1>1, <1>2, <1>3
  <2>2. QED
    BY <2>1
<1>9. ASSUME NEW n \in Nat
      PROVE  FirstN(d, n) = Degraded(list, n, src, notice)
  <2>0. PICK l \in Nat : l = Len(list)
    BY <1>1
  <2>1. PICK m \in Nat : m = (IF n < Len(list) THEN n ELSE Len(list)) /\ m <= Len(list)
    <3>1. PICK m \in Nat : m = (IF n < l THEN n ELSE l) /\ m <= l
      OBVIOUS
    <3>2. QED
      BY <2>0, <3>1
  <2>2. PICK a : a = FirstN(d, n)
    OBVIOUS
  <2>3. d \in Seq(HitRecords) /\ Len(d) = Len(list)
    BY <1>4 DEF HitList
  <2>4. a \in Seq(HitRecords) /\ Len(a) = m /\ \A i \in 1..m : a[i] = d[i]
    BY <2>1, <2>2, <2>3, FirstNType
  <2>5. a = [i \in 1..m |-> a[i]]
    BY <2>4
  <2>10. \A i \in 1..m : i \in 1..Len(list)
    BY <2>0, <2>1
  <2>6. \A i \in 1..m : a[i] = mark(list[i])
    BY <1>8, <2>4, <2>10
  <2>7. a = [i \in 1..m |-> mark(list[i])]
    BY <2>5, <2>6
  <2>8. Len(FirstN(list, n)) = m
    BY <1>2, <2>1
  <2>9. QED
    BY <1>3, <2>2, <2>7, <2>8
<1>10. QED
  BY <1>4, <1>7, <1>9

\* The hits of the keyword search that a case sees.
LEMMA KeywordsType ==
  ASSUME Asked
  PROVE  /\ HitList(Keywords) /\ Len(Keywords) <= 2 * request.limit
         /\ Ids(Keywords) \subseteq index.entities
<1>1. PICK E, q, n : E = index.entities /\ q = request.query /\ n = 2 * request.limit
  OBVIOUS
<1>2. /\ E \in SUBSET EntityIds /\ IsFiniteSet(E)
      /\ q.whole \in Words /\ q.tokens \in Seq(Tokens) /\ n \in Nat
  BY <1>1, AskedFacts
<1>3. PICK k : k = KeywordHits(E, q, n)
  OBVIOUS
<1>4. /\ HitList(k) /\ Len(k) <= n
      /\ \A i \in 1..Len(k) : k[i].entity \in KeywordFound(E, q)
  BY <1>2, <1>3, KeywordList
<1>5. Ids(k) \subseteq E
  BY <1>4 DEF Ids, KeywordFound, HitList
<1>6. Keywords = IF "keyword" \in down THEN <<>> ELSE k
  BY <1>1, <1>3 DEF Keywords
<1>7. QED
  BY <1>1, <1>2, <1>4, <1>5, <1>6, NoHits

\* What the branches of a case are left with.
LEMMA SourcesType ==
  ASSUME HitList(vector), NEW K, HitList(K),
         NEW found, found = ProductSources(K, down)
  PROVE  /\ HitList(found.vector) /\ Ids(found.vector) \subseteq Ids(vector)
         /\ HitList(found.keyword) /\ Ids(found.keyword) \subseteq Ids(K)
         /\ down = {} => found.vector = vector /\ found.keyword = K
<1>1. PICK a, b, s, t : /\ a = Degraded(vector, Len(vector), s, "keyword")
                        /\ b = Degraded(K, Len(K), t, "vector")
                        /\ s = "vector_fallback" /\ t = "keyword_fallback"
                        /\ s \in HitSources /\ t \in HitSources
  BY DEF HitSources
<1>2. HitList(a) /\ Ids(a) = Ids(vector)
  BY <1>1, DegradedWhole
<1>3. HitList(b) /\ Ids(b) = Ids(K)
  BY <1>1, DegradedWhole
<1>4. /\ found.vector = IF "vector" \in down THEN <<>>
                        ELSE IF "keyword" \in down THEN a ELSE vector
      /\ found.keyword = IF "keyword" \in down THEN <<>>
                         ELSE IF "vector" \in down THEN b ELSE K
  BY <1>1 DEF ProductSources
<1>5. HitList(found.vector) /\ Ids(found.vector) \subseteq Ids(vector)
  BY <1>2, <1>4, NoHits
<1>6. HitList(found.keyword) /\ Ids(found.keyword) \subseteq Ids(K)
  BY <1>3, <1>4, NoHits
<1>7. QED
  BY <1>4, <1>5, <1>6

\* The counts of what two branches found fit together.
LEMMA DiagnosticsFit ==
  ASSUME NEW V, HitList(V), NEW K, HitList(K), NEW list,
         NEW d, d = BranchDiagnostics(V, K, list)
  PROVE  DiagnosticsAccepted(d)
<1>1. PICK A, B : A = Ids(V) /\ B = Ids(K)
  OBVIOUS
<1>2. /\ IsFiniteSet(A) /\ Cardinality(A) = Len(V)
      /\ IsFiniteSet(B) /\ Cardinality(B) = Len(K)
  BY <1>1, IdsFinite
<1>3. /\ d.vector = Len(V) /\ d.keyword = Len(K)
      /\ d.overlap = Cardinality(A \cap B)
      /\ d.keywordOnly = Cardinality(B \ A)
  BY <1>1 DEF BranchDiagnostics
<1>4. A \cap B \in SUBSET A /\ A \cap B \in SUBSET B /\ B \cap A = A \cap B
  OBVIOUS
<1>5. /\ IsFiniteSet(A \cap B)
      /\ Cardinality(A \cap B) <= Cardinality(A)
      /\ Cardinality(A \cap B) <= Cardinality(B)
  BY <1>2, <1>4, FS_Subset
<1>6. Cardinality(B \ A) = Cardinality(B) - Cardinality(A \cap B)
  BY <1>2, <1>4, FS_Difference
<1>7. PICK x \in Nat, y \in Nat, z \in Nat :
        x = d.vector /\ y = d.keyword /\ z = d.overlap
  BY <1>2, <1>3, <1>5, FS_CardinalityType
<1>8. z <= x /\ z <= y
  BY <1>2, <1>3, <1>5, <1>7
<1>9. PICK m \in {x, y} : m = (IF x < y THEN x ELSE y) /\ \A w \in {x, y} : m <= w
  OBVIOUS
<1>10. Min({x, y}) = m
  <2>1. {x, y} \in SUBSET Int
    OBVIOUS
  <2>2. QED
    BY <1>9, <2>1, MinIs
<1>11. QED
  BY <1>2, <1>3, <1>6, <1>7, <1>8, <1>9, <1>10 DEF DiagnosticsAccepted

-----------------------------------------------------------------------------
(* What the product has answered                                           *)

\* The answer as a function of what the branches found and which was lost.
Replayed(kw) ==
  /\ down \subseteq {"vector", "keyword"}
  /\ response.status = "ok" =>
       /\ down = {} => hits = Fuse(vector, kw, request.limit)
       /\ "vector" \in down => /\ "keyword" \notin down
                               /\ hits = Fallback(kw, "keyword_fallback", "vector")
       /\ "keyword" \in down => hits = Fallback(vector, "vector_fallback", "keyword")
  /\ response.status # "ok" =>
       \/ "vector" \in down /\ ("keyword" \in down \/ kw = <<>>)
       \/ "keyword" \in down /\ vector = <<>>

ReplayInv ==
  /\ Len(vector) <= 2 * request.limit
  /\ Answered =>
       Replayed(KeywordHits(index.entities, request.query, 2 * request.limit))

\* The answer of a hybrid search follows from what its branches found.
LEMMA ReplayEnds ==
  ASSUME SearchInv, SearchKeywords, Answered'
  PROVE  Replayed(KeywordHits(index.entities, request.query, 2 * request.limit))'
<1>1. /\ down \subseteq {"vector"} /\ request.kind = "hybrid"
      /\ UNCHANGED <<index, request, vector>>
  BY DEF SearchInv, Searching, SearchKeywords, Answered
<1>2. PICK kw : kw = KeywordHits(index.entities, request.query, 2 * request.limit)
  OBVIOUS
<1>3. kw = KeywordHits(index.entities, request.query, 2 * request.limit)'
  BY <1>1, <1>2
<1>4. /\ pc' = "done" /\ response'.status \in {"ok", "RETRIEVAL_UNAVAILABLE"}
      /\ request'.kind = "hybrid"
  BY DEF Answered
<1>5. \A list : Found(list) => response'.status = "ok" /\ hits' = list
  BY <1>1 DEF Found, Respond
<1>6. \A status : Fail(status) => response'.status = status
  BY DEF Fail, Respond
<1>7. ~Fail("PROJECT_NOT_FOUND") /\ ~Fail("error")
  BY <1>4, <1>6
<1>8. \/ /\ Combine(kw, FALSE) /\ UNCHANGED down
      \/ /\ Combine(<<>>, TRUE) /\ down' = down \cup {"keyword"}
  BY <1>1, <1>2, <1>7 DEF SearchKeywords
<1>9. PICK n : n = request.limit
  OBVIOUS
<1>10. SUFFICES
         /\ down' \subseteq {"vector", "keyword"}
         /\ response'.status = "ok" =>
              /\ down' = {} => hits' = Fuse(vector, kw, n)
              /\ "vector" \in down' =>
                   /\ "keyword" \notin down'
                   /\ hits' = Fallback(kw, "keyword_fallback", "vector")
              /\ "keyword" \in down' =>
                   hits' = Fallback(vector, "vector_fallback", "keyword")
         /\ response'.status # "ok" =>
              \/ "vector" \in down' /\ ("keyword" \in down' \/ kw = <<>>)
              \/ "keyword" \in down' /\ vector = <<>>
  BY <1>1, <1>3, <1>9 DEF Replayed, Fallback
<1>11. CASE Combine(kw, FALSE) /\ UNCHANGED down
  <2>1. CASE "vector" \in down
    <3>1. CASE kw = <<>>
      BY <1>1, <1>6, <1>11, <2>1, <3>1 DEF Combine
    <3>2. CASE kw # <<>>
      BY <1>1, <1>5, <1>11, <2>1, <3>2 DEF Combine
    <3>3. QED
      BY <3>1, <3>2
  <2>2. CASE "vector" \notin down
    <3>1. hits' = Fuse(vector, kw, n) /\ response'.status = "ok" /\ down' = {}
      BY <1>1, <1>5, <1>9, <1>11, <2>2 DEF Combine
    <3>2. QED
      BY <3>1
  <2>3. QED
    BY <2>1, <2>2
<1>12. CASE Combine(<<>>, TRUE) /\ down' = down \cup {"keyword"}
  <2>1. CASE "vector" \in down
    <3>1. response'.status = "RETRIEVAL_UNAVAILABLE"
      BY <1>6, <1>12, <2>1 DEF Combine
    <3>2. QED
      BY <1>1, <1>12, <2>1, <3>1
  <2>2. CASE "vector" \notin down
    <3>1. \/ response'.status = "RETRIEVAL_UNAVAILABLE" /\ vector = <<>>
          \/ /\ response'.status = "ok"
             /\ hits' = Fallback(vector, "vector_fallback", "keyword")
      BY <1>5, <1>6, <1>12, <2>2 DEF Combine
    <3>2. QED
      BY <1>1, <1>12, <2>2, <3>1
  <2>3. QED
    BY <2>1, <2>2
<1>13. QED
  BY <1>8, <1>11, <1>12

\* The vector branch stays within its limit, and the answer stays.
LEMMA ReplayStep == SearchInv /\ ReplayInv /\ [Next]_vars => ReplayInv'
<1> SUFFICES ASSUME SearchInv, ReplayInv, [Next]_vars PROVE ReplayInv'
  OBVIOUS
<1>1. Asked /\ request.limit \in Nat /\ Len(vector) <= 2 * request.limit
  BY AskedFacts DEF SearchInv, ReplayInv
<1>2. CASE Plan
  <2>1. request'.limit = request.limit /\ vector' = vector /\ pc' # "done"
    BY <1>1, <1>2 DEF Plan, Asked, Requests
  <2>2. QED
    BY <1>1, <2>1 DEF ReplayInv, Answered
<1>3. CASE Rewrite
  <2>1. PICK query : request' = [request EXCEPT !.query = query]
    BY <1>3 DEF Rewrite
  <2>2. request'.limit = request.limit /\ vector' = vector /\ pc' # "done"
    BY <1>1, <1>3, <2>1 DEF Rewrite, Asked, Requests
  <2>3. QED
    BY <1>1, <2>2 DEF ReplayInv, Answered
<1>4. CASE CheckCollection
  <2>1. UNCHANGED <<request, vector>>
        /\ (pc' = "done" => response'.status = "VECTOR_INDEX_NOT_FOUND")
    BY <1>4 DEF CheckCollection, Fail, Respond
  <2>2. QED
    BY <1>1, <2>1 DEF ReplayInv, Answered
<1>5. CASE SearchVectors
  <2>1. PICK n \in Nat : n = 2 * request.limit
    BY <1>1
  <2>2. Len(vector') <= n
    <3>1. CASE vector' = vector
      BY <1>1, <2>1, <3>1
    <3>2. CASE vector' # vector
      BY <1>5, <2>1, <3>2, VectorList DEF SearchVectors
    <3>3. QED
      BY <3>1, <3>2
  <2>3. request' = request /\ pc' # "done"
    BY <1>5 DEF SearchVectors
  <2>4. QED
    BY <2>1, <2>2, <2>3 DEF ReplayInv, Answered
<1>6. CASE SearchKeywords
  <2>1. UNCHANGED <<request, vector>>
    BY <1>6 DEF SearchKeywords
  <2>2. QED
    BY <1>1, <1>6, <2>1, ReplayEnds DEF ReplayInv
<1>7. CASE TraverseHit \/ ExpandTask \/ ExpandChain \/ MatchApi \/ Generate \/ Repair
  <2>1. UNCHANGED <<request, vector>> /\ request.kind # "hybrid"
    BY <1>7 DEF TraverseHit, ExpandTask, ExpandChain, MatchApi, Generate, Repair,
       SearchInv, Asked, Working, Tasks
  <2>2. QED
    BY <1>1, <2>1 DEF ReplayInv, Answered
<1>8. CASE Done \/ UNCHANGED vars
  <2>1. UNCHANGED <<index, request, pc, down, vector, hits, response>>
    BY <1>8 DEF Done, vars
  <2>2. QED
    BY <2>1 DEF ReplayInv, Answered, Replayed, Fallback
<1>9. QED
  BY <1>2, <1>3, <1>4, <1>5, <1>6, <1>7, <1>8 DEF Next

\* A list of no hits is degraded to none.
LEMMA NoneDegraded ==
  ASSUME NEW n \in Nat, NEW src, src \in HitSources,
         NEW notice, notice \in {"vector", "keyword"},
         NEW d, d = Degraded(<<>>, Len(<<>>), src, notice)
  PROVE  FirstN(d, n) = <<>>
<1>1. PICK e : e = FirstN(d, n)
  OBVIOUS
<1>2. HitList(<<>>) /\ Len(<<>>) = 0
  BY NoHits
<1>3. \A m \in Nat : FirstN(d, m) = Degraded(<<>>, m, src, notice)
  BY <1>2, DegradedWhole
<1>4. Len(FirstN(<<>>, n)) = 0
  <2>1. PICK z : z = <<>>
    OBVIOUS
  <2>2. z \in Seq(HitRecords) /\ Len(z) = 0
    BY <2>1
  <2>3. PICK f : f = FirstN(z, n)
    OBVIOUS
  <2>4. Len(f) = IF n < Len(z) THEN n ELSE Len(z)
    BY ONLY n \in Nat, <2>2, <2>3, FirstNType
  <2>5. QED
    BY <2>1, <2>2, <2>3, <2>4
<1>5. e = [i \in 1..0 |-> [(<<>>)[i] EXCEPT !.source = src, !.uncertain = @ \cup {notice}]]
  BY <1>1, <1>3, <1>4 DEF Degraded
<1>6. e = <<>>
  BY <1>5
<1>7. QED
  BY <1>1, <1>6

\* The case with the weights of the product lists its answer.
LEMMA ProductListed ==
  ASSUME SearchInv, NEW kw, Replayed(kw), HitList(kw),
         NEW K, K = (IF "keyword" \in down THEN <<>> ELSE kw),
         NEW v, v.mode = "hybrid", v.fusion = "weighted",
         v.keyword \in Nat \ {0}, v.vector = 3 * v.keyword
  PROVE  ListsAnswer(Case(v, K))
<1>1. HitList(vector) /\ Asked
  BY DEF SearchInv
<1>2. PICK n \in Nat : n = request.limit
  BY <1>1, AskedFacts
<1>3. PICK found, a, b, s, t :
        /\ found = ProductSources(K, down)
        /\ s = "vector_fallback" /\ t = "keyword_fallback"
        /\ a = Degraded(vector, Len(vector), s, "keyword")
        /\ b = Degraded(K, Len(K), t, "vector")
        /\ s \in HitSources /\ t \in HitSources
  BY DEF HitSources
<1>4. /\ found.vector = IF "vector" \in down THEN <<>>
                        ELSE IF "keyword" \in down THEN a ELSE vector
      /\ found.keyword = IF "keyword" \in down THEN <<>>
                         ELSE IF "vector" \in down THEN b ELSE K
  BY <1>3 DEF ProductSources
<1>5. PICK list, case : /\ list = DirectHits(v, found.vector, found.keyword, down)
                        /\ case = Case(v, K)
  OBVIOUS
<1>6. \/ case = Error
      \/ /\ ~({"vector", "keyword"} \subseteq down)
         /\ case.status = "ok" /\ case.hits = list
  BY <1>3, <1>5 DEF Case, Evaluated, HybridCase, Record
<1>7. Error.status = "error" /\ Error.hits = <<>>
  BY DEF Error, Record
<1>8. list = IF "vector" \in down THEN FirstN(found.keyword, n)
             ELSE IF "keyword" \in down THEN FirstN(found.vector, n)
             ELSE WeightedFusion(v, found.vector, found.keyword, n)
  BY <1>2, <1>5 DEF DirectHits
<1>9. ASSUME case.status = "ok", response.status = "ok"
      PROVE  Listed(case.hits) = Listed(hits)
  <2>1. case.hits = list
    BY <1>6, <1>7, <1>9
  <2>2. CASE down = {}
    <3>1. list = WeightedFusion(v, vector, kw, n) /\ hits = Fuse(vector, kw, n)
      BY <1>2, <1>4, <1>8, <1>9, <2>2 DEF Replayed
    <3>2. Listed(WeightedFusion(v, vector, kw, n)) = Listed(Fuse(vector, kw, n))
      BY <1>1, ProductFusion
    <3>3. QED
      BY <2>1, <3>1, <3>2
  <2>3. CASE "vector" \in down
    <3>1. /\ "keyword" \notin down /\ hits = Degraded(kw, n, t, "vector")
          /\ K = kw
      BY <1>2, <1>3, <1>9, <2>3 DEF Replayed, Fallback
    <3>2. list = FirstN(b, n)
      BY <1>4, <1>8, <2>3, <3>1
    <3>3. \A m \in Nat : FirstN(b, m) = Degraded(kw, m, t, "vector")
      BY <1>3, <3>1, DegradedWhole
    <3>4. QED
      BY <2>1, <3>1, <3>2, <3>3
  <2>4. CASE "vector" \notin down /\ "keyword" \in down
    <3>1. hits = Degraded(vector, n, s, "keyword")
      BY <1>2, <1>3, <1>9, <2>4 DEF Replayed, Fallback
    <3>2. list = FirstN(a, n)
      BY <1>4, <1>8, <2>4
    <3>3. \A m \in Nat : FirstN(a, m) = Degraded(vector, m, s, "keyword")
      BY <1>1, <1>3, DegradedWhole
    <3>4. QED
      BY <2>1, <3>1, <3>2, <3>3
  <2>5. down \subseteq {"vector", "keyword"}
    BY DEF Replayed
  <2>6. QED
    BY <2>2, <2>3, <2>4, <2>5
<1>10. ASSUME response.status # "ok"
       PROVE  case.hits = <<>>
  <2>1. CASE {"vector", "keyword"} \subseteq down
    BY <1>6, <1>7, <2>1
  <2>2. CASE ~({"vector", "keyword"} \subseteq down)
    <3>1. SUFFICES ASSUME case.hits = list
                   PROVE  list = <<>>
      BY <1>6, <1>7
    <3>2. CASE "vector" \in down
      <4>1. kw = <<>> /\ K = <<>> /\ list = FirstN(b, n)
        BY <1>4, <1>8, <1>10, <2>2, <3>2 DEF Replayed
      <4>2. b = Degraded(<<>>, Len(<<>>), t, "vector")
        BY <1>3, <4>1
      <4>3. QED
        BY <1>3, <4>1, <4>2, NoneDegraded
    <3>3. CASE "vector" \notin down
      <4>1. vector = <<>> /\ list = FirstN(a, n)
        BY <1>4, <1>8, <1>10, <3>3 DEF Replayed
      <4>2. a = Degraded(<<>>, Len(<<>>), s, "keyword")
        BY <1>3, <4>1
      <4>3. QED
        BY <1>3, <4>1, <4>2, NoneDegraded
    <3>4. QED
      BY <3>2, <3>3
  <2>3. QED
    BY <2>1, <2>2
<1>11. QED
  BY <1>5, <1>9, <1>10 DEF ListsAnswer

\* The entities of the first hits of a list.
LEMMA FirstIds ==
  ASSUME NEW list, HitList(list), NEW n \in Nat, NEW a, a = FirstN(list, n)
  PROVE  Ids(a) \subseteq Ids(list)
<1>1. list \in Seq(HitRecords) /\ DOMAIN list = 1..Len(list)
  BY DEF HitList
<1>2. /\ a \in Seq(HitRecords)
      /\ \A i \in 1..Len(a) : i \in 1..Len(list) /\ a[i] = list[i]
  BY <1>1, FirstNType
<1>3. DOMAIN a = 1..Len(a)
  BY <1>2
<1>4. QED
  BY <1>1, <1>2, <1>3 DEF Ids

\* The entities of the vector branch on its own.
LEMMA SortedIds ==
  ASSUME NEW list, HitList(list), NEW n \in Nat,
         NEW a, a = FirstN(SortedVector(list), n)
  PROVE  Ids(a) \subseteq Ids(list)
<1>1. PICK S, m : S = {list[i] : i \in DOMAIN list} /\ m = Len(list)
  OBVIOUS
<1>2. /\ DOMAIN list = 1..Len(list) /\ m \in Nat
      /\ \A i \in 1..Len(list) : list[i] \in HitRecords
      /\ \A i, j \in 1..Len(list) : list[i].entity = list[j].entity => i = j
  BY <1>1 DEF HitList
<1>3. \A h \in HitRecords : h.score \in Int /\ h.entity \in EntityIds /\ h.entity \in Int
  <2>1. \A h \in HitRecords : h.score \in Int /\ h.entity \in EntityIds
    BY DEF HitRecords
  <2>2. \A e \in EntityIds : e \in Int
    BY AnswersAssumption
  <2>3. QED
    BY <2>1, <2>2
<1>4. \A x \in S : \E i \in 1..Len(list) : x = list[i]
  BY <1>1, <1>2
<1>5. IsFiniteSet(S)
  <2>1. PICK I : I = 1..Len(list)
    OBVIOUS
  <2>2. IsFiniteSet(I)
    <3>1. 1 \in Int /\ m \in Int /\ I = 1..m
      BY <1>1, <1>2, <2>1
    <3>2. QED
      BY <3>1, FS_Interval
  <2>3. S = {list[i] : i \in I}
    BY <1>1, <1>2, <2>1
  <2>4. QED
    BY <2>2, <2>3, ImageFinite
<1>6. \A x \in S : x.score \in Int /\ x.entity \in Int
  BY <1>2, <1>3, <1>4
<1>7. \A x, y \in S : x.entity = y.entity => x = y
  BY <1>2, <1>4
<1>8. PICK b : b = Best(S, m)
  OBVIOUS
<1>9. b \in Seq(S)
  BY ONLY <1>2, <1>5, <1>6, <1>7, <1>8, BestHits
<1>10. a = FirstN(b, n)
  BY <1>1, <1>8 DEF SortedVector
<1>11. /\ a \in Seq(S)
       /\ \A i \in 1..Len(a) : i \in 1..Len(b) /\ a[i] = b[i]
  BY ONLY <1>9, <1>10, n \in Nat, FirstNType
<1>12. DOMAIN a = 1..Len(a) /\ \A i \in 1..Len(a) : a[i] \in S
  BY <1>11
<1>13. QED
  BY <1>2, <1>4, <1>12 DEF Ids

\* What a case of both branches lists.
LEMMA DirectIds ==
  ASSUME SearchInv, down \subseteq {"vector", "keyword"},
         Len(vector) <= 2 * request.limit,
         NEW K, HitList(K), Len(K) <= 2 * request.limit,
         NEW v, v.vector \in Nat \ {0}, v.keyword \in Nat \ {0},
         NEW found, found = ProductSources(K, down),
         NEW list, list = DirectHits(v, found.vector, found.keyword, down)
  PROVE  /\ Ids(list) \subseteq Ids(found.vector) \cup Ids(found.keyword)
         /\ down = {} /\ list # <<>> =>
              \A e : ~Preferred(v, K, e, list[1].entity)
<1>1. HitList(vector) /\ Asked
  BY DEF SearchInv
<1>2. PICK n \in Nat : n = request.limit
  BY <1>1, AskedFacts
<1>3. PICK V, W : V = found.vector /\ W = found.keyword
  OBVIOUS
<1>4. /\ HitList(V) /\ HitList(W)
      /\ down = {} => V = vector /\ W = K
  BY <1>1, <1>3, SourcesType
<1>5. list = IF "vector" \in down THEN FirstN(W, n)
             ELSE IF "keyword" \in down THEN FirstN(V, n)
             ELSE IF v.fusion = "rrf" THEN RankFusion(V, W, n)
             ELSE WeightedFusion(v, V, W, n)
  BY <1>2, <1>3 DEF DirectHits
<1>6. CASE "vector" \in down \/ "keyword" \in down
  BY <1>3, <1>4, <1>5, <1>6, FirstIds
<1>7. CASE down = {} /\ v.fusion = "rrf"
  <2>1. list = RankFusion(V, W, n) /\ V = vector /\ W = K
    BY <1>4, <1>5, <1>7
  <2>2. Len(V) <= 2 * n /\ Len(W) <= 2 * n
    BY <1>2, <2>1
  <2>3. /\ Ids(list) \subseteq Ids(V) \cup Ids(W)
        /\ list # <<>> => \A e :
             ~ (Ahead(V, e, list[1].entity) /\ Ahead(W, e, list[1].entity))
    BY <1>4, <2>1, <2>2, RankFirst
  <2>4. QED
    BY <1>3, <1>7, <2>1, <2>3 DEF Preferred
<1>8. CASE down = {} /\ v.fusion # "rrf"
  <2>1. list = WeightedFusion(v, V, W, n) /\ V = vector /\ W = K
    BY <1>4, <1>5, <1>8
  <2>2. /\ Ids(list) \subseteq Ids(V) \cup Ids(W)
        /\ list # <<>> => \A e :
             ~ (/\ ScoreIn(V, e) >= ScoreIn(V, list[1].entity)
                /\ ScoreIn(W, e) >= ScoreIn(W, list[1].entity)
                /\ \/ ScoreIn(V, e) > ScoreIn(V, list[1].entity)
                   \/ ScoreIn(W, e) > ScoreIn(W, list[1].entity))
    BY <1>4, <2>1, WeightedFirst
  <2>3. QED
    BY <1>3, <1>8, <2>1, <2>2 DEF Preferred, Dominates
<1>9. QED
  BY <1>6, <1>7, <1>8

\* No case is an error without a reason, and the others are scored for what
\* was found.
LEMMA CaseIsSound ==
  ASSUME SearchInv, down \subseteq {"vector", "keyword"},
         Len(vector) <= 2 * request.limit,
         NEW K, K = Keywords,
         NEW v, v.vector \in Nat \ {0}, v.keyword \in Nat \ {0}
  PROVE  CaseSound(v, Case(v, K), K)
<1>1. HitList(vector) /\ Asked
  BY DEF SearchInv
<1>2. PICK n \in Nat : n = request.limit
  BY <1>1, AskedFacts
<1>3. /\ HitList(K) /\ Len(K) <= 2 * request.limit
      /\ Ids(K) \subseteq index.entities
  BY <1>1, KeywordsType
<1>4. PICK found : found = ProductSources(K, down)
  OBVIOUS
<1>5. PICK V, W : V = found.vector /\ W = found.keyword
  OBVIOUS
<1>6. /\ HitList(V) /\ Ids(V) \subseteq Ids(vector)
      /\ HitList(W) /\ Ids(W) \subseteq Ids(K)
  BY <1>1, <1>3, <1>4, <1>5, SourcesType
<1>7. PICK case : case = Case(v, K)
  OBVIOUS
<1>8. Error.status = "error"
  BY DEF Error, Record
<1>9. CASE v.mode = "vector"
  <2>1. PICK list : list = FirstN(SortedVector(vector), n)
    OBVIOUS
  <2>2. \/ /\ case = Error
           /\ "vector" \in down \/ ~ (Ids(vector) \subseteq index.entities)
        \/ /\ Ids(vector) \subseteq index.entities
           /\ case.status = "ok" /\ case.hits = list /\ case.diagnostics = None
    BY <1>2, <1>7, <1>9, <2>1 DEF Case, Evaluated, Record, Keyed
  <2>3. Ids(list) \subseteq Ids(vector)
    BY <1>1, <2>1, SortedIds
  <2>4. QED
    BY <1>7, <1>8, <1>9, <2>2, <2>3 DEF CaseSound
<1>10. CASE v.mode # "vector"
  <2>1. PICK list : list = DirectHits(v, V, W, down)
    OBVIOUS
  <2>2. PICK d : d = BranchDiagnostics(V, W, list)
    OBVIOUS
  <2>3. \/ /\ case = Error
           /\ \/ {"vector", "keyword"} \subseteq down
              \/ ~ (Ids(V) \subseteq index.entities)
              \/ ~ (Ids(W) \subseteq index.entities)
        \/ /\ Ids(V) \subseteq index.entities /\ Ids(W) \subseteq index.entities
           /\ case.status = "ok" /\ case.hits = list /\ case.diagnostics = d
    BY <1>4, <1>5, <1>7, <1>10, <2>1, <2>2
       DEF Case, Evaluated, HybridCase, Record, Keyed
  <2>4. /\ Ids(list) \subseteq Ids(V) \cup Ids(W)
        /\ down = {} /\ list # <<>> =>
             \A e : ~Preferred(v, K, e, list[1].entity)
    BY <1>3, <1>4, <1>5, <2>1, DirectIds
  <2>5. DiagnosticsAccepted(d)
    BY <1>6, <2>2, DiagnosticsFit
  <2>6. Ids(W) \subseteq index.entities
    BY <1>3, <1>6
  <2>7. CASE case = Error
    <3>1. \/ {"vector", "keyword"} \subseteq down
          \/ ~ (Ids(vector) \subseteq index.entities)
      BY <1>6, <1>8, <2>3, <2>6, <2>7
    <3>2. QED
      BY <1>7, <1>8, <2>7, <3>1 DEF CaseSound
  <2>8. CASE case # Error
    <3>1. /\ Ids(case.hits) \subseteq index.entities
          /\ DiagnosticsAccepted(case.diagnostics)
          /\ down = {} /\ case.hits # <<>> =>
               \A e : ~Preferred(v, K, e, case.hits[1].entity)
          /\ case.status = "ok"
      BY <2>3, <2>4, <2>5, <2>8
    <3>2. QED
      BY <1>7, <3>1 DEF CaseSound
  <2>9. QED
    BY <2>7, <2>8
<1>11. QED
  BY <1>9, <1>10

-----------------------------------------------------------------------------
(* The graph of a case                                                     *)

\* The results come from hits, the expanded graph from the results.
SeedInv ==
  pc \in Working /\ request.kind \in {"trace", "change_plan"} =>
    /\ \A r \in results : /\ r.seed \in Ids(hits)
                          /\ r.depth = 0 => r.seed = r.entity
    /\ pc = "generate" /\ "expansion" \notin down =>
         graph = ExpandEntities(index, {Ranked[i].seed : i \in DOMAIN Ranked},
                                request.depth)

\* The results come from the hits, and the expansion from the results.
LEMMA SeedStep == SearchInv /\ EvidenceInv /\ SeedInv /\ [Next]_vars => SeedInv'
<1> SUFFICES ASSUME SearchInv, EvidenceInv, SeedInv, [Next]_vars PROVE SeedInv'
  OBVIOUS
<1>1. CASE Plan \/ CheckCollection \/ Rewrite \/ SearchVectors \/ MatchApi \/ ExpandChain
  <2>1. pc' \notin Working
    BY <1>1 DEF Plan, CheckCollection, Rewrite, SearchVectors, MatchApi, ExpandChain,
       Fail, Respond, Working
  <2>2. QED
    BY <2>1 DEF SeedInv
<1>2. CASE SearchKeywords
  <2>1. CASE \E status : Fail(status)
    BY <2>1 DEF Fail, Respond, SeedInv, Working
  <2>2. CASE \E list : FoundList(list)
    <3>1. PICK list : FoundList(list)
      BY <2>2
    <3>2. SUFFICES ASSUME request'.kind \in {"trace", "change_plan"}
                   PROVE  SeedInv'
      BY DEF SeedInv
    <3>3. request' = request /\ request.kind \in {"trace", "change_plan"}
      BY <1>2, <3>2 DEF SearchKeywords
    <3>4. /\ hits' = list /\ results' = {Direct(list[i]) : i \in DOMAIN list}
          /\ HitList(list) /\ pc' # "generate"
      BY <3>1, <3>3 DEF FoundList, Found, NoEvidence, Respond
    <3>5. \A h : Direct(h).seed = h.entity /\ Direct(h).entity = h.entity
      BY DEF Direct, Result
    <3>6. \A r \in results' : r.seed \in Ids(list) /\ r.seed = r.entity
      BY <3>4, <3>5 DEF Ids
    <3>7. QED
      BY <3>4, <3>6 DEF SeedInv, Ids
  <2>3. QED
    BY <1>2, <2>1, <2>2, SearchEnds
<1>3. CASE TraverseHit
  <2>1. PICK hit : hit = hits[next]
    OBVIOUS
  <2>2. /\ pc = "traverse" /\ UNCHANGED <<hits, request>> /\ pc' # "generate"
        /\ request.kind \in {"trace", "change_plan"} /\ hit.entity \in Ids(hits)
    BY <1>3, <2>1 DEF TraverseHit, SearchInv, HitList, Ids
  <2>3. /\ \A r \in results : /\ r.seed \in Ids(hits)
                              /\ r.depth = 0 => r.seed = r.entity
        /\ ResultSet(results)
    BY <2>2 DEF SeedInv, EvidenceInv, Working
  <2>4. \A r \in results' : /\ r.seed \in Ids(hits)
                            /\ r.depth = 0 => r.seed = r.entity
    <3>1. CASE /\ hit.entity \in index.entities
               /\ results' = Improve(results,
                    Expansion(hit, Traverse(index, hit.entity, request.depth),
                              request.depth))
      <4>1. PICK N \in Nat : N = request.depth
        BY AskedFacts DEF SearchInv
      <4>2. PICK C : C = Expansion(hit, Traverse(index, hit.entity, N), N)
        OBVIOUS
      <4>3. index \in Indexes /\ hit \in HitRecords
        BY <2>1, <2>2 DEF SearchInv, Asked, HitList
      <4>4. ResultSet(C) /\ \A c \in C : c.depth >= 1
        BY <3>1, <4>2, <4>3, ExpansionResults
      <4>5. \A c \in C : c.seed = hit.entity
        <5>1. PICK h : h = hit.entity
          OBVIOUS
        <5>2. C = {Result(e, hit.score, Distance(h, e, N), h, hit.uncertain) :
                     e \in Ball(h, N) \ {h}}
          BY <3>1, <4>2, <5>1, ExpansionExact
        <5>3. \A e, x, d, u : Result(e, x, d, h, u).seed = h
          BY DEF Result
        <5>4. QED
          BY <5>1, <5>2, <5>3
      <4>6. results' = Improve(results, C)
        BY <3>1, <4>1, <4>2
      <4>7. \A r \in results' : r \in results \/ (r \in C /\ r.depth # 0)
        BY <2>3, <4>4, <4>6, ImproveResults
      <4>8. QED
        BY <2>2, <2>3, <4>5, <4>7
    <3>2. CASE results' = {IF r.entity = hit.entity
                           THEN [r EXCEPT !.uncertain = @ \cup {"traversal"}]
                           ELSE r : r \in results}
      <4>1. \A r \in results : r \in ResultRecords
        BY <2>3 DEF ResultSet
      <4>2. \A r \in ResultRecords :
              LET q == [r EXCEPT !.uncertain = @ \cup {"traversal"}]
              IN q.seed = r.seed /\ q.depth = r.depth /\ q.entity = r.entity
        BY DEF ResultRecords
      <4>3. \A q \in results' : \E r \in results :
              q.seed = r.seed /\ q.depth = r.depth /\ q.entity = r.entity
        <5>1. ASSUME NEW q \in results'
              PROVE  \E r \in results :
                       q.seed = r.seed /\ q.depth = r.depth /\ q.entity = r.entity
          <6>1. PICK r \in results :
                  \/ q = r
                  \/ q = [r EXCEPT !.uncertain = @ \cup {"traversal"}]
            BY <3>2, <5>1
          <6>2. QED
            BY <4>1, <4>2, <6>1
        <5>2. QED
          BY <5>1
      <4>4. QED
        BY <2>3, <4>3
    <3>3. QED
      BY <1>3, <2>1, <3>1, <3>2 DEF TraverseHit
  <2>5. QED
    BY <2>2, <2>4 DEF SeedInv, Ids
<1>4. CASE ExpandTask
  <2>1. /\ pc = "expand" /\ request.kind \in {"trace", "change_plan"}
        /\ UNCHANGED <<index, request, hits, results>>
    BY <1>4 DEF ExpandTask
  <2>2. \A r \in results : r.seed \in Ids(hits) /\ (r.depth = 0 => r.seed = r.entity)
    BY <2>1 DEF SeedInv, Working
  <2>3. "expansion" \notin down' =>
          graph' = ExpandEntities(index, {Ranked[i].seed : i \in DOMAIN Ranked},
                                  request.depth)
    BY <1>4 DEF ExpandTask
  <2>4. Ranked' = Ranked
    BY <2>1 DEF Ranked
  <2>5. QED
    BY <2>1, <2>2, <2>3, <2>4 DEF SeedInv, Ids
<1>5. CASE Generate \/ Repair
  <2>1. /\ pc \in Working /\ pc' # "generate" /\ UNCHANGED <<request, hits, results>>
    BY <1>5 DEF Generate, Repair, Accept, ModelFails, Fail, Respond, Working
  <2>2. QED
    BY <2>1 DEF SeedInv, Ids
<1>6. CASE Done \/ UNCHANGED vars
  <2>1. UNCHANGED vars
    BY <1>6 DEF Done
  <2>2. UNCHANGED <<index, request, pc, down, hits, results, graph>>
    BY <2>1 DEF vars
  <2>3. Ranked' = Ranked
    BY <2>2 DEF Ranked
  <2>4. QED
    BY <2>2, <2>3 DEF SeedInv, Ids
<1>7. QED
  BY <1>1, <1>2, <1>3, <1>4, <1>5, <1>6 DEF Next

\* The direct results are the hits, and the graph of a case is the product's.
LEMMA GraphReplayed ==
  ASSUME SearchInv, EvidenceInv, SeedInv,
         pc = "generate", request.kind \in {"trace", "change_plan"}
  PROVE  /\ {DirectResults[i].entity : i \in DOMAIN DirectResults} = Ids(hits)
         /\ down \cap {"traversal", "expansion"} = {} => Captured(Ids(hits)) = graph
<1>1. /\ HitList(hits) /\ Asked /\ Len(hits) <= request.limit
      /\ ResultSet(results)
      /\ \A i \in 1..Len(hits) : \E r \in results :
           r.entity = hits[i].entity /\ r.depth = 0
      /\ \A r \in results : r.depth = 0 => r.entity \in Ids(hits)
      /\ \A r \in results : /\ r.seed \in Ids(hits)
                            /\ r.depth = 0 => r.seed = r.entity
      /\ "expansion" \notin down =>
           graph = ExpandEntities(index, {Ranked[i].seed : i \in DOMAIN Ranked},
                                  request.depth)
  BY DEF SearchInv, EvidenceInv, SeedInv, Working
<1>2. Len(hits) <= MaxResults
  <2>1. Len(hits) \in Nat
    BY <1>1 DEF HitList
  <2>2. MaxResults \in Nat
    BY CodeGraphAssumption
  <2>3. QED
    BY <1>1, <2>1, <2>2, AskedFacts
<1>3. PICK S, L : S = results /\ L = Ranked
  OBVIOUS
<1>4. L \in Seq(S)
  BY <1>1, <1>3, RankedType
<1>5. ASSUME NEW e \in Ids(hits)
      PROVE  \E i \in 1..Len(L) : L[i].entity = e /\ L[i].depth = 0
  <2>1. PICK x \in results : x.entity = e /\ x.depth = 0
    BY <1>1 DEF Ids, HitList
  <2>2. \E i \in 1..Len(Ranked) : Ranked[i] = x
    BY <1>1, <1>2, <2>1, DirectRanked
  <2>3. QED
    BY <1>3, <2>1, <2>2
<1>6. PICK I : I = {i \in DOMAIN L : L[i].depth = 0}
  OBVIOUS
<1>7. DOMAIN L = 1..Len(L) /\ \A i \in 1..Len(L) : L[i] \in S
  BY <1>4
<1>8. PICK D : D = SubSequence(L, I)
  OBVIOUS
<1>9. /\ D \in Seq(S) /\ Len(D) = Cardinality(I)
      /\ \A k \in 1..Cardinality(I) : \E i \in I : D[k] = L[i]
      /\ \A i \in I : \E k \in 1..Cardinality(I) : D[k] = L[i]
  <2>1. I \in SUBSET DOMAIN L
    BY <1>6
  <2>2. QED
    BY ONLY <1>4, <1>8, <2>1, SubSequenceType
<1>10. DOMAIN D = 1..Len(D)
  BY <1>9
<1>11. {D[i].entity : i \in DOMAIN D} = Ids(hits)
  <2>1. \A k \in DOMAIN D : D[k].entity \in Ids(hits)
    BY <1>1, <1>3, <1>6, <1>7, <1>9, <1>10
  <2>2. \A e \in Ids(hits) : \E k \in DOMAIN D : D[k].entity = e
    <3>1. SUFFICES ASSUME NEW e \in Ids(hits)
                   PROVE  \E k \in DOMAIN D : D[k].entity = e
      OBVIOUS
    <3>2. PICK i \in 1..Len(L) : L[i].entity = e /\ L[i].depth = 0
      BY <1>5
    <3>3. i \in I
      BY <1>6, <1>7, <3>2
    <3>4. PICK k \in 1..Cardinality(I) : D[k] = L[i]
      BY <1>9, <3>3
    <3>5. QED
      BY <1>9, <1>10, <3>2, <3>4
  <2>3. QED
    BY <2>1, <2>2
<1>12. DirectResults = D
  BY <1>3, <1>6, <1>8 DEF DirectResults
<1>13. {L[i].seed : i \in DOMAIN L} = Ids(hits)
  <2>1. \A i \in DOMAIN L : L[i].seed \in Ids(hits)
    BY <1>1, <1>3, <1>7
  <2>2. \A e \in Ids(hits) : \E i \in DOMAIN L : L[i].seed = e
    BY <1>1, <1>3, <1>5, <1>7
  <2>3. QED
    BY <2>1, <2>2
<1>14. ASSUME "expansion" \notin down
       PROVE  Captured(Ids(hits)) = graph
  <2>1. graph = ExpandEntities(index, Ids(hits), request.depth)
    BY <1>1, <1>3, <1>13, <1>14
  <2>2. QED
    BY <2>1 DEF Captured, ExpandEntities
<1>15. QED
  BY <1>11, <1>12, <1>14

\* What the evaluation records of a request is what the product makes of it:
\* with the weights of the product a case lists what the product answers,
\* through the loss of either branch; with any weights it puts none first that
\* both branches prefer another to, and its diagnostics and its graph are
\* those of the answer (evaluate_case, weighted_fusion, reciprocal_rank_fusion
\* and CapturingGraphTraversal against HybridSearchService.search and
\* GraphContextBuilder).
THEOREM EvaluationIsFaithful == Spec => []EvaluationMatchesProduct
<1>1. Init => ReplayInv /\ SeedInv
  <2>1. SUFFICES ASSUME Init PROVE ReplayInv /\ SeedInv
    OBVIOUS
  <2>2. vector = <<>> /\ request.limit \in Nat /\ pc \in Searching
    BY <2>1, AskedInit, AskedFacts DEF Init, Searching
  <2>3. QED
    BY <2>2 DEF ReplayInv, SeedInv, Answered, Searching, Working
<1>2. AnswersInv /\ ReplayInv /\ SeedInv /\ [Next]_vars => ReplayInv' /\ SeedInv'
  BY ReplayStep, SeedStep DEF AnswersInv
<1>3. ASSUME AnswersInv, ReplayInv, SeedInv
      PROVE  EvaluationMatchesProduct
  <2>1. SearchInv /\ EvidenceInv /\ Asked
    BY <1>3 DEF AnswersInv, SearchInv
  <2>2. ASSUME Answered
        PROVE  CasesSound(Keywords)
    <3>1. PICK kw, K : /\ kw = KeywordHits(index.entities, request.query, 2 * request.limit)
                       /\ K = Keywords
      OBVIOUS
    <3>2. /\ Replayed(kw) /\ Len(vector) <= 2 * request.limit
          /\ down \subseteq {"vector", "keyword"}
          /\ K = IF "keyword" \in down THEN <<>> ELSE kw
      BY <1>3, <2>2, <3>1 DEF ReplayInv, Replayed, Keywords
    <3>3. HitList(kw)
      <4>1. PICK E, q, n : E = index.entities /\ q = request.query /\ n = 2 * request.limit
        OBVIOUS
      <4>2. /\ E \in SUBSET EntityIds /\ IsFiniteSet(E)
            /\ q.whole \in Words /\ q.tokens \in Seq(Tokens) /\ n \in Nat
        BY <2>1, <4>1, AskedFacts
      <4>3. kw = KeywordHits(E, q, n)
        BY <3>1, <4>1
      <4>4. QED
        BY <4>2, <4>3, KeywordList
    <3>4. ASSUME NEW name \in DOMAIN Variants
          PROVE  /\ CaseSound(Variants[name], Case(Variants[name], K), K)
                 /\ name = Product => ListsAnswer(Case(Variants[name], K))
      <4>1. PICK v : v = Variants[name]
        OBVIOUS
      <4>2. v.vector \in Nat \ {0} /\ v.keyword \in Nat \ {0}
        BY <4>1, VariantsAssumption
      <4>3. CaseSound(v, Case(v, K), K)
        BY <2>1, <3>1, <3>2, <4>2, CaseIsSound
      <4>4. ASSUME name = Product
            PROVE  ListsAnswer(Case(v, K))
        <5>1. v.mode = "hybrid" /\ v.fusion = "weighted" /\ v.vector = 3 * v.keyword
          BY <4>1, <4>4, VariantsAssumption
        <5>2. QED
          BY <2>1, <3>2, <3>3, <4>2, <5>1, ProductListed
      <4>5. QED
        BY <4>1, <4>3, <4>4
    <3>5. QED
      BY <3>1, <3>4 DEF CasesSound
  <2>3. QED
    BY <1>3, <2>1, <2>2, GraphReplayed DEF EvaluationMatchesProduct
<1>4. QED
  BY <1>1, <1>2, <1>3, AnswersKept, PTL DEF Spec
=============================================================================

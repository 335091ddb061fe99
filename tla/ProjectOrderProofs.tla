-------------------------- MODULE ProjectOrderProofs -------------------------
(***************************************************************************)
(* Theorems about ProjectOrder, for any number of projects, of requests    *)
(* and of rows in the database that is migrated.                           *)
(***************************************************************************)
EXTENDS ProjectOrder, FunctionTheorems, FiniteSetTheorems, TLAPS

Plans ==
  [pos : UNION {[S -> Nat] : S \in SUBSET ProjectIds},
   seen : [ProjectIds -> Nat \cup {None}]]

OrderTypes ==
  /\ order \in [ProjectIds -> Nat \cup {None}]
  /\ column \in BOOLEAN
  /\ phase \in {"down", "assign", "up"}
  /\ phase # "down" => column
  /\ plan \in [Reorderers -> Plans \cup {None}]
  /\ IsFiniteSet(Registered)

\* Outside the migration the values differ, and not only while the server is
\* up: it starts with what it finds.
ValuesDiffer ==
  column /\ phase # "assign" =>
    \A p, q \in Registered : order[p] = order[q] => p = q

\* Without a commit in between, a reorder still holds what the table holds,
\* and what was asked of it is an order of the projects there are.
PlansCurrent ==
  /\ \A t \in Reorderers : plan[t] # None =>
       /\ phase = "up"
       /\ plan[t].pos \in Permutation(Registered)
       /\ plan[t].seen = order
  /\ \A t, u \in Reorderers : plan[t] # None /\ plan[u] # None => t = u

QuietInv == OrderTypes /\ ValuesDiffer /\ PlansCurrent

-----------------------------------------------------------------------------
(* Operators of the model.                                                 *)

\* The positions a request asks for are natural numbers.
LEMMA PermutationTypes ==
  ASSUME NEW S \in SUBSET ProjectIds, IsFiniteSet(S), NEW f \in Permutation(S)
  PROVE  /\ f \in [S -> Nat]
         /\ f \in UNION {[T -> Nat] : T \in SUBSET ProjectIds}
<1>1. Cardinality(S) \in Nat
  BY FS_CardinalityType
<1>2. f \in [S -> Nat]
  BY <1>1 DEF Permutation
<1>3. QED
  BY <1>2

\* What a successful write leaves in the table, and which rows there are.
LEMMA WrittenRows ==
  ASSUME OrderTypes, NEW t \in Reorderers, ReorderWrite(t), order' # order
  PROVE  /\ plan[t] \in Plans
         /\ plan[t].pos \in [DOMAIN plan[t].pos -> Nat]
         /\ order' \in [ProjectIds -> Nat \cup {None}]
         /\ \A p \in ProjectIds :
              order'[p] = IF p \in DOMAIN plan[t].pos
                             /\ plan[t].seen[p] # plan[t].pos[p]
                          THEN plan[t].pos[p] ELSE order[p]
         /\ Registered' = Registered
<1>1. plan[t] \in Plans
  BY DEF OrderTypes, ReorderWrite
<1>2. PICK S \in SUBSET ProjectIds : plan[t].pos \in [S -> Nat]
  BY <1>1 DEF Plans
<1>3. PICK Changed : /\ Changed = {p \in DOMAIN plan[t].pos :
                                     plan[t].seen[p] # plan[t].pos[p]}
                     /\ Changed \subseteq Registered
                     /\ order' = [p \in ProjectIds |->
                          IF p \in Changed THEN plan[t].pos[p] ELSE order[p]]
  BY DEF ReorderWrite
<1>4. \A p \in Changed : plan[t].pos[p] \in Nat
  BY <1>2, <1>3
<1>5. order' \in [ProjectIds -> Nat \cup {None}]
  BY <1>3, <1>4 DEF OrderTypes
<1>6. ASSUME NEW p \in ProjectIds
      PROVE  order'[p] = None <=> order[p] = None
  BY <1>3, <1>4, OrderAssumption DEF Registered
<1>7. Registered' = Registered
  BY <1>6 DEF Registered
<1>8. QED
  BY <1>1, <1>2, <1>3, <1>5, <1>7

\* The rows of the older database are there from the start.
LEMMA InitialRows == ASSUME Init PROVE Registered = Legacy
<1>1. 0 # None
  BY OrderAssumption
<1>2. \A p \in ProjectIds : order[p] # None <=> p \in Legacy
  BY <1>1 DEF Init
<1>3. QED
  BY <1>2, OrderAssumption DEF Registered

\* The migration gives every row the number of the rows after it.
LEMMA AssignedRows ==
  ASSUME OrderTypes, AssignOrder
  PROVE  /\ order' \in [ProjectIds -> Nat \cup {None}]
         /\ Registered' = Registered
         /\ \A p \in Registered : order'[p] = Cardinality({q \in Registered : p < q})
<1>1. \A p \in ProjectIds : {q \in Registered : p < q} \in SUBSET Registered
  OBVIOUS
<1>2. \A p \in ProjectIds : Cardinality({q \in Registered : p < q}) \in Nat
  BY <1>1, FS_Subset, FS_CardinalityType DEF OrderTypes
<1>3. order' \in [ProjectIds -> Nat \cup {None}]
  BY <1>2 DEF AssignOrder
<1>4. Registered' = Registered
  BY <1>2, OrderAssumption DEF AssignOrder, Registered
<1>5. QED
  BY <1>3, <1>4 DEF AssignOrder, Registered

\* A creation puts one new row at 0 and shifts all others by one.
LEMMA CreatedRows ==
  ASSUME OrderTypes, Create
  PROVE  /\ order' \in [ProjectIds -> Nat \cup {None}]
         /\ \A q \in Registered : order[q] \in Nat /\ order'[q] = order[q] + 1
         /\ \E p \in ProjectIds \ Registered :
              order'[p] = 0 /\ Registered' = Registered \cup {p}
<1>1. PICK p \in ProjectIds :
        /\ NewId(p)
        /\ order' = [q \in ProjectIds |->
             IF q = p THEN 0
             ELSE IF q \in Registered THEN order[q] + 1 ELSE None]
  BY DEF Create
<1>2. \A q \in Registered : order[q] \in Nat /\ order[q] + 1 \in Nat
  BY DEF Registered, OrderTypes
<1>3. p \notin Registered
  BY <1>1, OrderAssumption DEF NewId, Registered
<1>4. order' \in [ProjectIds -> Nat \cup {None}]
  BY <1>1, <1>2
<1>5. ASSUME NEW q \in ProjectIds
      PROVE  order'[q] # None <=> q \in Registered \/ q = p
  BY <1>1, <1>2, OrderAssumption
<1>6. Registered' = Registered \cup {p}
  BY <1>5 DEF Registered
<1>7. \A q \in Registered : order'[q] = order[q] + 1
  BY <1>1, <1>3 DEF Registered
<1>8. QED
  BY <1>1, <1>2, <1>3, <1>4, <1>6, <1>7

\* A deletion leaves the values of the others alone.
LEMMA DeletedRows ==
  ASSUME OrderTypes, Delete
  PROVE  /\ order' \in [ProjectIds -> Nat \cup {None}]
         /\ Registered' \subseteq Registered
         /\ \A q \in Registered' : order'[q] = order[q]
         /\ IsFiniteSet(Registered')
<1>1. PICK p \in Registered : order' = [order EXCEPT ![p] = None]
  BY DEF Delete
<1>2. Registered' = Registered \ {p}
  BY <1>1 DEF Registered, OrderTypes
<1>3. IsFiniteSet(Registered')
  BY <1>2, FS_RemoveElement DEF OrderTypes
<1>4. QED
  BY <1>1, <1>2, <1>3 DEF OrderTypes, Registered

-----------------------------------------------------------------------------
(* The type invariant holds in every history.                              *)

\* New ids and new values are natural numbers.
LEMMA OrderTypesStep == ASSUME OrderTypes, [Next]_vars
                        PROVE  OrderTypes'
<1> USE DEF OrderTypes
<1>1. CASE AddColumn \/ Start \/ Stop \/ UNCHANGED vars
  BY <1>1 DEF AddColumn, Start, Stop, vars, Registered
<1>2. CASE AssignOrder
  BY <1>2, AssignedRows DEF AssignOrder
<1>3. CASE Create
  <2>1. PICK p \in ProjectIds : Registered' = Registered \cup {p}
    BY <1>3, CreatedRows
  <2>2. IsFiniteSet(Registered')
    BY <2>1, FS_AddElement
  <2>3. QED
    BY <1>3, <2>2, CreatedRows DEF Create
<1>4. CASE Delete
  BY <1>4, DeletedRows DEF Delete
<1>5. ASSUME NEW t \in Reorderers, ReorderRead(t)
      PROVE  OrderTypes'
  <2>1. PICK f \in Permutation(Registered) :
          plan' = [plan EXCEPT ![t] = [pos |-> f, seen |-> order]]
    BY <1>5 DEF ReorderRead
  <2>2. [pos |-> f, seen |-> order] \in Plans
    BY PermutationTypes DEF Plans, Registered
  <2>3. QED
    BY <1>5, <2>1, <2>2 DEF ReorderRead, Registered
<1>6. ASSUME NEW t \in Reorderers, ReorderWrite(t)
      PROVE  OrderTypes'
  <2>1. plan' \in [Reorderers -> Plans \cup {None}]
    BY <1>6 DEF ReorderWrite
  <2>2. CASE order' = order
    BY <1>6, <2>1, <2>2 DEF ReorderWrite, Registered
  <2>3. CASE order' # order
    <3>1. order' \in [ProjectIds -> Nat \cup {None}] /\ Registered' = Registered
      BY <1>6, <2>3, WrittenRows DEF OrderTypes
    <3>2. QED
      BY <1>6, <2>1, <3>1 DEF ReorderWrite
  <2>4. QED
    BY <2>2, <2>3
<1>7. QED
  BY <1>1, <1>2, <1>3, <1>4, <1>5, <1>6 DEF Next

-----------------------------------------------------------------------------
(* Without disturbance the values never collide.                           *)

\* Two reorders never hold a plan at the same time.
LEMMA OneReorder ==
  ASSUME Cardinality(Reordering') <= 1,
         NEW t \in Reorderers, NEW u \in Reorderers,
         plan'[t] # None, plan'[u] # None
  PROVE  t = u
<1>1. Reordering' \in SUBSET Reorderers /\ {t, u} \in SUBSET Reordering'
  BY DEF Reordering
<1>2. IsFiniteSet(Reordering')
  BY <1>1, FS_Subset, OrderAssumption
<1>3. Cardinality(Reordering') \in Nat /\ Cardinality({t, u}) <= Cardinality(Reordering')
  BY <1>1, <1>2, FS_Subset, FS_CardinalityType
<1>4. CASE t # u
  <2>1. IsFiniteSet({t}) /\ Cardinality({t}) = 1
    BY FS_Singleton
  <2>2. Cardinality({t} \cup {u}) = 2
    BY <1>4, <2>1, FS_AddElement
  <2>3. {t} \cup {u} = {t, u}
    OBVIOUS
  <2>4. QED
    BY <1>3, <2>2, <2>3
<1>5. QED
  BY <1>4

\* What a reorder leaves when nothing was committed since it read: exactly
\* the positions asked for, in the rows it wrote and in those it left alone.
LEMMA AskedIsWritten ==
  ASSUME OrderTypes, PlansCurrent, NEW t \in Reorderers, ReorderWrite(t),
         order' # order
  PROVE  /\ Registered' = Registered
         /\ plan[t].pos \in Permutation(Registered)
         /\ \A p \in Registered : order'[p] = plan[t].pos[p]
<1>1. plan[t] # None
  BY DEF ReorderWrite
<1>2. plan[t].pos \in Permutation(Registered) /\ plan[t].seen = order
  BY <1>1 DEF PlansCurrent
<1>3. DOMAIN plan[t].pos = Registered
  BY <1>2 DEF Permutation
<1>4. Registered \subseteq ProjectIds
  BY DEF Registered
<1>5. QED
  BY <1>2, <1>3, <1>4, WrittenRows

\* Ids are distinct numbers, so the rows after one and after another differ
\* in number.
LEMMA AssignedDiffer ==
  ASSUME OrderTypes, NEW p \in Registered, NEW q \in Registered, p # q
  PROVE  Cardinality({r \in Registered : p < r}) # Cardinality({r \in Registered : q < r})
<1>1. Registered \subseteq Nat
  BY OrderAssumption DEF Registered
<1>2. ASSUME NEW x \in Registered, NEW y \in Registered, x < y
      PROVE  Cardinality({r \in Registered : x < r}) # Cardinality({r \in Registered : y < r})
  <2>0. \A r \in Registered : y < r => x < r
    BY <1>1, <1>2
  <2>1. {r \in Registered : y < r} \in SUBSET {r \in Registered : x < r}
    BY <2>0
  <2>2. y \in {r \in Registered : x < r} /\ y \notin {r \in Registered : y < r}
    BY <1>1, <1>2
  <2>3. {r \in Registered : x < r} \in SUBSET Registered
    OBVIOUS
  <2>4. IsFiniteSet({r \in Registered : x < r})
    BY <2>3, FS_Subset DEF OrderTypes
  <2>5. QED
    BY <2>1, <2>2, <2>4, FS_Subset
<1>3. p < q \/ q < p
  BY <1>1
<1>4. QED
  BY <1>2, <1>3

\* Each commit keeps the values apart: the migration numbers, a creation
\* shifts, a reorder writes a permutation over all rows.
LEMMA ValuesDifferStep ==
  ASSUME QuietInv, Next, Undisturbed
  PROVE  ValuesDiffer'
<1> USE DEF QuietInv
<1>1. CASE AddColumn
  BY <1>1 DEF AddColumn, ValuesDiffer
<1>2. CASE AssignOrder
  <2>1. \A p, q \in Registered : order'[p] = order'[q] => p = q
    BY <1>2, AssignedRows, AssignedDiffer
  <2>2. QED
    BY <1>2, <2>1, AssignedRows DEF ValuesDiffer
<1>3. CASE Start
  BY <1>3 DEF Start, ValuesDiffer, Registered
<1>4. CASE Stop
  BY <1>4 DEF Stop, Undisturbed, ValuesDiffer, Registered
<1>5. CASE Create
  <2>1. PICK p \in ProjectIds \ Registered :
          order'[p] = 0 /\ Registered' = Registered \cup {p}
    BY <1>5, CreatedRows
  <2>2. \A q \in Registered : order[q] \in Nat /\ order'[q] = order[q] + 1
    BY <1>5, CreatedRows
  <2>3. \A q, r \in Registered : order[q] = order[r] => q = r
    BY <1>5 DEF Create, ValuesDiffer, OrderTypes
  <2>4. QED
    BY <2>1, <2>2, <2>3 DEF ValuesDiffer
<1>6. CASE Delete
  <2>1. \A q, r \in Registered : order[q] = order[r] => q = r
    BY <1>6 DEF Delete, ValuesDiffer, OrderTypes
  <2>2. QED
    BY <1>6, <2>1, DeletedRows DEF ValuesDiffer
<1>7. ASSUME NEW t \in Reorderers, ReorderRead(t)
      PROVE  ValuesDiffer'
  BY <1>7 DEF ReorderRead, ValuesDiffer, Registered
<1>8. ASSUME NEW t \in Reorderers, ReorderWrite(t)
      PROVE  ValuesDiffer'
  <2>1. CASE order' = order
    BY <1>8, <2>1 DEF ReorderWrite, ValuesDiffer, Registered
  <2>2. CASE order' # order
    <3>1. \A p, q \in Registered : order'[p] = order'[q] => p = q
      BY <1>8, <2>2, AskedIsWritten DEF Permutation
    <3>2. QED
      BY <1>8, <2>2, <3>1, AskedIsWritten DEF ValuesDiffer
  <2>3. QED
    BY <2>1, <2>2
<1>9. QED
  BY <1>1, <1>2, <1>3, <1>4, <1>5, <1>6, <1>7, <1>8 DEF Next

\* A plan stays current: while a reorder holds one, only its own write
\* changes a value, and that write ends it.
LEMMA PlansCurrentStep ==
  ASSUME QuietInv, Next, Undisturbed
  PROVE  PlansCurrent'
<1> USE DEF QuietInv
<1>1. plan \in [Reorderers -> Plans \cup {None}]
  BY DEF OrderTypes
<1>2. \A t, u \in Reorderers : plan'[t] # None /\ plan'[u] # None => t = u
  BY OneReorder DEF Undisturbed
<1>3. SUFFICES ASSUME NEW t \in Reorderers, plan'[t] # None
               PROVE  /\ phase' = "up"
                      /\ plan'[t].pos \in Permutation(Registered')
                      /\ plan'[t].seen = order'
  BY <1>2 DEF PlansCurrent
<1>4. CASE plan'[t] = plan[t]
  <2>1. plan[t].pos \in Permutation(Registered) /\ plan[t].seen = order /\ phase = "up"
    BY <1>3, <1>4 DEF PlansCurrent
  <2>2. t \in Reordering
    BY <1>3, <1>4 DEF Reordering
  <2>3. \A u \in Reorderers : ReorderWrite(u) => u = t
    BY <1>3, <1>4 DEF PlansCurrent, ReorderWrite
  <2>4. ~ ReorderWrite(t)
    BY <1>1, <1>3 DEF ReorderWrite
  <2>5. order' = order
    BY <2>2, <2>3, <2>4 DEF Undisturbed, Reordering
  <2>6. phase' = "up"
    BY <1>3, <2>1, <2>3, <2>4
       DEF Next, AddColumn, AssignOrder, Start, Stop, Create, Delete, ReorderRead
  <2>7. QED
    BY <1>4, <2>1, <2>5, <2>6 DEF Registered
<1>5. CASE plan'[t] # plan[t]
  <2>1. ReorderRead(t)
    BY <1>1, <1>3, <1>5
       DEF Next, AddColumn, AssignOrder, Start, Stop, Create, Delete,
           ReorderRead, ReorderWrite
  <2>2. PICK f \in Permutation(Registered) :
          plan' = [plan EXCEPT ![t] = [pos |-> f, seen |-> order]]
    BY <2>1 DEF ReorderRead
  <2>3. plan'[t] = [pos |-> f, seen |-> order]
    BY <1>1, <2>2
  <2>4. QED
    BY <2>1, <2>3 DEF ReorderRead, Registered
<1>6. QED
  BY <1>4, <1>5

\* QuietInv is inductive, and at the start it holds with whatever rows the
\* older database has.
LEMMA QuietInvHolds == QuietSpec => []QuietInv
<1>1. Init => QuietInv
  <2>1. SUFFICES ASSUME Init PROVE QuietInv
    OBVIOUS
  <2>2. Registered = Legacy
    BY <2>1, InitialRows
  <2>3. OrderTypes
    BY <2>1, <2>2, OrderAssumption DEF Init, OrderTypes
  <2>4. ValuesDiffer
    BY <2>1, <2>2 DEF Init, ValuesDiffer
  <2>5. PlansCurrent
    BY <2>1 DEF Init, PlansCurrent
  <2>6. QED
    BY <2>3, <2>4, <2>5 DEF QuietInv
<1>2. QuietInv /\ [Next /\ Undisturbed]_vars => QuietInv'
  <2>1. CASE UNCHANGED vars
    BY <2>1 DEF QuietInv, OrderTypes, ValuesDiffer, PlansCurrent, Registered, vars
  <2>2. ASSUME QuietInv, Next, Undisturbed PROVE QuietInv'
    BY <2>2, OrderTypesStep, ValuesDifferStep, PlansCurrentStep DEF QuietInv
  <2>3. QED
    BY <2>1, <2>2
<1>3. QED
  BY <1>1, <1>2, PTL DEF QuietSpec

\* No two projects share a sort_order, whatever is created, deleted,
\* reordered and restarted (upgrade_schema, ProjectService.create, delete and
\* reorder), as long as no request commits inside a reorder.
THEOREM QuietOrderUnique == QuietSpec => []OrderUnique
<1>1. QuietInv => OrderUnique
  BY DEF QuietInv, OrderTypes, ValuesDiffer, OrderUnique
<1>2. QED
  BY <1>1, QuietInvHolds, PTL

-----------------------------------------------------------------------------
(* What a reorder leaves in the list.                                      *)

\* In a permutation the element at position k has k elements before it.
LEMMA PermutationPlaces ==
  ASSUME NEW S, IsFiniteSet(S), NEW f \in Permutation(S), NEW p \in S
  PROVE  Cardinality({q \in S : f[q] < f[p]}) = f[p]
<1> DEFINE n == Cardinality(S)
           Before_p == {q \in S : f[q] < f[p]}
           g == [q \in Before_p |-> f[q]]
<1>1. n \in Nat /\ f[p] \in 0..(n - 1)
  BY FS_CardinalityType DEF Permutation
<1>2. f \in Injection(S, 0..(n - 1))
  BY DEF Permutation, Injection, IsInjective
<1>3. IsFiniteSet(0..(n - 1)) /\ Cardinality(0..(n - 1)) = n
  BY <1>1, FS_Interval
<1>4. f \in Surjection(S, 0..(n - 1))
  BY <1>2, <1>3, FS_Injection
<1>5. \A k \in 0..(n - 1) : \E q \in S : f[q] = k
  BY <1>4, Fun_SurjectionProperties
<1>6. \A q \in S : f[q] \in 0..(n - 1)
  BY DEF Permutation
<1>7. g \in [Before_p -> 0..(f[p] - 1)]
  BY <1>1, <1>6
<1>8. \A a, b \in Before_p : g[a] = g[b] => a = b
  BY DEF Permutation
<1>9. \A k \in 0..(f[p] - 1) : \E q \in Before_p : g[q] = k
  <2>1. TAKE k \in 0..(f[p] - 1)
  <2>2. k \in 0..(n - 1) /\ k < f[p]
    BY <1>1
  <2>3. PICK q \in S : f[q] = k
    BY <1>5, <2>2
  <2>4. q \in Before_p /\ g[q] = k
    BY <2>2, <2>3
  <2>5. QED
    BY <2>4
<1>10. g \in Bijection(Before_p, 0..(f[p] - 1))
  <2> HIDE DEF g, Before_p
  <2>1. QED
    BY <1>7, <1>8, <1>9, Fun_IsBij
<1>11. Before_p \in SUBSET S
  OBVIOUS
<1>12. IsFiniteSet(Before_p)
  BY <1>11, FS_Subset
<1>13. Cardinality(0..(f[p] - 1)) = Cardinality(Before_p)
  <2> HIDE DEF g, Before_p
  <2>1. ExistsBijection(Before_p, 0..(f[p] - 1))
    BY <1>10 DEF ExistsBijection
  <2>2. QED
    BY <2>1, <1>12, FS_Bijection
<1>14. Cardinality(0..(f[p] - 1)) = f[p]
  <2>1. PICK b \in Int : b = f[p] - 1
    BY <1>1
  <2>2. 0 \in Int
    OBVIOUS
  <2>3. Cardinality(0..b) = IF 0 > b THEN 0 ELSE b - 0 + 1
    BY <2>2, FS_Interval
  <2>4. QED
    BY <1>1, <2>1, <2>3
<1>15. QED
  BY <1>13, <1>14

\* A reorder that changes the table leaves the list exactly in the order that
\* was asked for, although it writes only the rows whose value differs and
\* the values had gaps (ProjectService.reorder).
THEOREM QuietReorderExact == QuietSpec => ReorderExact
<1> DEFINE Exact == \A t \in Reorderers :
              plan[t] # None /\ order' # order =>
                \A p \in Registered' : Place(p)' = plan[t].pos[p]
<1>1. ASSUME QuietInv, [Next /\ Undisturbed]_vars
      PROVE  [Exact]_vars
  <2>1. SUFFICES ASSUME NEW t \in Reorderers, plan[t] # None, order' # order,
                        NEW p \in Registered'
                 PROVE  Place(p)' = plan[t].pos[p]
    OBVIOUS
  <2>2. Undisturbed
    BY <1>1, <2>1 DEF vars
  <2>3. \E u \in Reordering : ReorderWrite(u)
    BY <2>1, <2>2 DEF Undisturbed, Reordering
  <2>4. ReorderWrite(t)
    BY <1>1, <2>1, <2>3 DEF QuietInv, PlansCurrent, Reordering
  <2>5. /\ Registered' = Registered
        /\ plan[t].pos \in Permutation(Registered)
        /\ \A q \in Registered : order'[q] = plan[t].pos[q]
    BY <1>1, <2>1, <2>4, AskedIsWritten DEF QuietInv
  <2>6. \A q \in Registered : plan[t].pos[q] \in Nat
    BY <1>1, <2>5, PermutationTypes DEF QuietInv, OrderTypes, Registered
  <2>7. \A q \in Registered : Before(q, p)' <=> plan[t].pos[q] < plan[t].pos[p]
    <3>1. TAKE q \in Registered
    <3>2. Before(q, p)' <=> \/ order'[q] < order'[p]
                            \/ order'[q] = order'[p] /\ q < p
      BY DEF Before
    <3>3. plan[t].pos[q] = plan[t].pos[p] => q = p
      BY <2>1, <2>5 DEF Permutation
    <3>4. q = p => ~ (q < p)
      BY OrderAssumption DEF Registered
    <3>5. QED
      BY <2>1, <2>5, <2>6, <3>2, <3>3, <3>4
  <2>8. Place(p)' = Cardinality({q \in Registered : plan[t].pos[q] < plan[t].pos[p]})
    <3>1. Place(p)' = Cardinality({q \in Registered' : Before(q, p)'})
      BY DEF Place
    <3>2. QED
      BY <2>5, <2>7, <3>1
  <2>9. IsFiniteSet(Registered) /\ plan[t].pos \in Permutation(Registered) /\ p \in Registered
    BY <1>1, <2>1, <2>5 DEF QuietInv, OrderTypes
  <2>10. Cardinality({q \in Registered : plan[t].pos[q] < plan[t].pos[p]}) = plan[t].pos[p]
    BY ONLY <2>9, PermutationPlaces
  <2>11. QED
    BY <2>8, <2>10
<1>2. QED
  BY <1>1, QuietInvHolds, PTL DEF QuietSpec, ReorderExact

-----------------------------------------------------------------------------
(* The user's order, in every history.                                     *)

\* OrderTypes is inductive by itself: also when requests commit inside a
\* reorder and when the migration is cut off.
LEMMA TypesHold == Spec => []OrderTypes
<1>1. Init => OrderTypes
  <2>1. SUFFICES ASSUME Init PROVE OrderTypes
    OBVIOUS
  <2>2. Registered = Legacy
    BY <2>1, InitialRows
  <2>3. QED
    BY <2>1, <2>2, OrderAssumption DEF Init, OrderTypes
<1>2. QED
  BY <1>1, OrderTypesStep, PTL DEF Spec

\* Two projects that stay keep their order and a new one comes first, with
\* any interleaving of requests and any crash: only the write of a reorder
\* and the migration may turn two projects around
\* (ProjectService.create and delete, upgrade_schema).
THEOREM OrderKept == Spec => ManualOrderKept
<1> DEFINE Kept ==
      /\ \A p, q \in Registered \cap Registered' :
           Before(p, q) /\ ~Before(p, q)' =>
             phase = "assign" \/ \E t \in Reordering : ReorderWrite(t)
      /\ \A p \in Registered' \ Registered, q \in Registered :
           Before(p, q)'
<1>1. ASSUME OrderTypes, [Next]_vars
      PROVE  [Kept]_vars
  <2>1. CASE order' = order
    BY <2>1 DEF Before, Registered
  <2>2. CASE AssignOrder
    BY <1>1, <2>2, AssignedRows DEF AssignOrder
  <2>3. CASE Create
    <3>1. PICK n \in ProjectIds \ Registered :
            order'[n] = 0 /\ Registered' = Registered \cup {n}
      BY <1>1, <2>3, CreatedRows
    <3>2. \A q \in Registered : order[q] \in Nat /\ order'[q] = order[q] + 1
      BY <1>1, <2>3, CreatedRows
    <3>3. \A p, q \in Registered : Before(p, q) => Before(p, q)'
      BY <3>2 DEF Before
    <3>4. \A q \in Registered : Before(n, q)'
      BY <3>1, <3>2 DEF Before
    <3>5. QED
      BY <3>1, <3>3, <3>4
  <2>4. CASE Delete
    <3>1. Registered' \subseteq Registered
      BY <1>1, <2>4, DeletedRows
    <3>2. \A q \in Registered' : order'[q] = order[q]
      BY <1>1, <2>4, DeletedRows
    <3>3. \A p, q \in Registered' : Before(p, q) => Before(p, q)'
      BY <3>2 DEF Before
    <3>4. QED
      BY <3>1, <3>3
  <2>5. ASSUME NEW t \in Reorderers, ReorderWrite(t), order' # order
        PROVE  [Kept]_vars
    <3>1. Registered' = Registered
      BY <1>1, <2>5, WrittenRows
    <3>2. t \in Reordering
      BY <2>5 DEF ReorderWrite, Reordering
    <3>3. QED
      BY <2>5, <3>1, <3>2
  <2>6. QED
    BY <1>1, <2>1, <2>2, <2>3, <2>4, <2>5
       DEF Next, AddColumn, Start, Stop, ReorderRead, vars
<1>2. QED
  BY <1>1, TypesHold, PTL DEF Spec, ManualOrderKept
=============================================================================

---------------------------- MODULE ProjectOrder -----------------------------
(***************************************************************************)
(* The manual order of the project list: the column projects.sort_order,   *)
(* the startup migration that adds it to an older database, and the        *)
(* requests that write it, POST /projects, PUT /projects/order and         *)
(* DELETE /projects/{id}.                                                  *)
(*                                                                         *)
(* A reorder reads all rows, and later writes, in one transaction, the     *)
(* rows whose value is not the one it read; other requests may commit in   *)
(* between.  A create and a delete change the order at one instant, their  *)
(* commit.  The migration alters the table outside any transaction and     *)
(* assigns the values in one.                                              *)
(***************************************************************************)
EXTENDS Naturals, FiniteSets

CONSTANTS
  ProjectIds,  \* row ids of the table projects
  Legacy,      \* ids of the rows of a database that predates the column
  Reorderers,  \* threads serving PUT /projects/order
  MaxOrder,    \* bounds the values that creations shift upwards
  None         \* no row, no request

ASSUME OrderAssumption ==
  /\ ProjectIds \subseteq Nat
  /\ Legacy \subseteq ProjectIds /\ IsFiniteSet(Legacy)
  /\ IsFiniteSet(Reorderers)
  /\ MaxOrder \in Nat
  /\ None \notin Nat

VARIABLES
  order,   \* sort_order of each project, or None where there is no row
  column,  \* whether the table has the column
  phase,   \* "down", "assign" inside the migration, "up"
  plan     \* per thread: the order asked for and the values read, or None

vars == <<order, column, phase, plan>>

-----------------------------------------------------------------------------
Registered == {p \in ProjectIds : order[p] # None}

\* list_projects: ORDER BY sort_order, id
Before(p, q) == order[p] < order[q] \/ (order[p] = order[q] /\ p < q)
Place(p) == Cardinality({q \in Registered : Before(q, p)})

\* The requests reorder accepts: every registered project exactly once, as
\* the position each of them is to have.
Permutation(S) ==
  {f \in [S -> 0..(Cardinality(S) - 1)] :
     \A p, q \in S : f[p] = f[q] => p = q}

Init ==
  /\ order = [p \in ProjectIds |-> IF p \in Legacy THEN 0 ELSE None]
  /\ column = (Legacy = {})
  /\ phase = "down"
  /\ plan = [t \in Reorderers |-> None]

-----------------------------------------------------------------------------
(* Startup: upgrade_schema, create_all                                     *)

\* ALTER TABLE ... DEFAULT 0: the SQLite driver opens no transaction for it,
\* so the column is there from now on.
AddColumn ==
  /\ phase = "down"
  /\ ~column
  /\ column' = TRUE
  /\ phase' = "assign"
  /\ UNCHANGED <<order, plan>>

\* The newest project first, committed as a whole.  Ids grow with created_at.
AssignOrder ==
  /\ phase = "assign"
  /\ order' = [p \in ProjectIds |->
       IF p \in Registered THEN Cardinality({q \in Registered : p < q})
       ELSE None]
  /\ phase' = "up"
  /\ UNCHANGED <<column, plan>>

\* Mutant of Start: the values are assigned at every startup.
StartAssigning ==
  /\ phase = "down"
  /\ column
  /\ order' = [p \in ProjectIds |->
       IF p \in Registered THEN Cardinality({q \in Registered : p < q})
       ELSE None]
  /\ phase' = "up"
  /\ UNCHANGED <<column, plan>>

\* A table that has the column is left alone.
Start ==
  /\ phase = "down"
  /\ column
  /\ phase' = "up"
  /\ UNCHANGED <<order, column, plan>>

\* The process stops, between or inside requests and inside the migration,
\* whose uncommitted assignments are lost.
Stop ==
  /\ phase # "down"
  /\ phase' = "down"
  /\ plan' = [t \in Reorderers |-> None]
  /\ UNCHANGED <<order, column>>

-----------------------------------------------------------------------------
(* Requests                                                                *)

\* One more than the largest id in use.
NewId(p) ==
  /\ \A q \in Registered : q < p
  /\ \A q \in ProjectIds : q < p => \E r \in Registered : q <= r

\* Mutant of Create: the other rows are not shifted.
CreateUnshifted ==
  /\ phase = "up"
  /\ \E p \in ProjectIds : NewId(p) /\ order' = [order EXCEPT ![p] = 0]
  /\ UNCHANGED <<column, phase, plan>>

\* Every row is shifted and the new one inserted at 0, in one transaction.
Create ==
  /\ phase = "up"
  /\ \A q \in Registered : order[q] < MaxOrder
  /\ \E p \in ProjectIds :
       /\ NewId(p)
       /\ order' = [q \in ProjectIds |->
            IF q = p THEN 0
            ELSE IF q \in Registered THEN order[q] + 1 ELSE None]
  /\ UNCHANGED <<column, phase, plan>>

Delete ==
  /\ phase = "up"
  /\ \E p \in Registered : order' = [order EXCEPT ![p] = None]
  /\ UNCHANGED <<column, phase, plan>>

\* A list that is not a permutation of the rows read is answered 409.
ReorderRead(t) ==
  /\ phase = "up"
  /\ plan[t] = None
  /\ \E f \in Permutation(Registered) :
       plan' = [plan EXCEPT ![t] = [pos |-> f, seen |-> order]]
  /\ UNCHANGED <<order, column, phase>>

\* Mutant of ReorderWrite: a row is written only if its place in the list
\* changes, whatever value it holds.
ReorderWriteMoved(t) ==
  LET Asked == DOMAIN plan[t].pos
      Changed == {p \in Asked : Place(p) # plan[t].pos[p]}
  IN /\ plan[t] # None
     /\ order' = [p \in ProjectIds |->
                    IF p \in Changed \cap Registered THEN plan[t].pos[p]
                    ELSE order[p]]
     /\ plan' = [plan EXCEPT ![t] = None]
     /\ UNCHANGED <<column, phase>>

\* The session updates the rows whose value differs from the one it read.  A
\* row that is gone fails the whole transaction, as a busy database does.
ReorderWrite(t) ==
  /\ plan[t] # None
  /\ LET Changed == {p \in DOMAIN plan[t].pos :
                       plan[t].seen[p] # plan[t].pos[p]}
     IN \/ /\ Changed \subseteq Registered
           /\ order' = [p \in ProjectIds |->
                IF p \in Changed THEN plan[t].pos[p] ELSE order[p]]
        \/ UNCHANGED order
  /\ plan' = [plan EXCEPT ![t] = None]
  /\ UNCHANGED <<column, phase>>

Next ==
  \/ AddColumn \/ AssignOrder \/ Start \/ Stop
  \/ Create \/ Delete
  \/ \E t \in Reorderers : ReorderRead(t) \/ ReorderWrite(t)

Spec == Init /\ [][Next]_vars

\* No request commits while another one is at work, and the migration is not
\* cut off.
Reordering == {t \in Reorderers : plan[t] # None}
Undisturbed ==
  /\ Reordering # {} => order' = order \/ \E t \in Reordering : ReorderWrite(t)
  /\ Cardinality(Reordering') <= 1
  /\ phase = "assign" => phase' # "down"
QuietSpec == Init /\ [][Next /\ Undisturbed]_vars

-----------------------------------------------------------------------------
(* Properties                                                              *)

\* "order values remain unique and deterministic": no two projects share a
\* sort_order once the server is up, across creations, deletions, reorders
\* and restarts (docs/superpowers/specs/
\* 2026-07-06-project-history-management-design.md:70).
OrderUnique ==
  phase = "up" => \A p, q \in Registered : order[p] = order[q] => p = q

\* A reorder that reports success has left the list exactly in the order
\* asked for, although it writes only some rows and the values have gaps
\* after deletions (ProjectService.reorder).
ReorderExact ==
  [][\A t \in Reorderers :
       plan[t] # None /\ order' # order =>
         \A p \in Registered' : Place(p)' = plan[t].pos[p]]_vars

\* The user's order of two projects survives whatever happens to others and
\* every restart: only a reorder changes it, and the migration of an older
\* database; and a new project is listed before all others
\* (upgrade_schema runs at every startup, ProjectService.create and delete).
ManualOrderKept ==
  [][/\ \A p, q \in Registered \cap Registered' :
          Before(p, q) /\ ~Before(p, q)' =>
            phase = "assign" \/ \E t \in Reordering : ReorderWrite(t)
     /\ \A p \in Registered' \ Registered, q \in Registered :
          Before(p, q)']_vars
=============================================================================

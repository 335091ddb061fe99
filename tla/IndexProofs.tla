---------------------------- MODULE IndexProofs -----------------------------
(***************************************************************************)
(* Theorems about ProjectIndex and about VectorIndex, which extends it,    *)
(* for any registry, any directories and any number of threads, and about  *)
(* Sources and IndexReports, for any source trees.                         *)
(***************************************************************************)
EXTENDS VectorIndex, IndexReports, AscendingProofs, SequenceTheorems

-----------------------------------------------------------------------------
(* The registry and the index in the database: ProjectIndex                *)


\* What each thread's locals hold at each point of its handler.
Locals ==
  \A t \in Threads :
    /\ pc[t] \notin {"idle", "create_write"} => pid[t] \in ProjectIds
    /\ pc[t] \in {"create_write", "scan_lock"} \cup Critical => root[t] \in Roots
    /\ pc[t] \in Critical => t \in Scanners

\* The open transaction belongs to the scanner that is inserting.
TxnOwned ==
  \A t \in Threads : pc[t] = "scan_insert" <=> txn # None /\ txn.owner = t

\* No project row changes while a transaction is open: what it will commit
\* is the committed table with its own project marked.
TxnSnapshot ==
  txn # None =>
    /\ pid[txn.owner] \in Registered
    /\ txn.projects = [projects EXCEPT ![pid[txn.owner]].status = "scanning"]

BaseInv == TypeOK /\ Locals /\ TxnOwned /\ LockDiscipline /\ TxnSnapshot

-----------------------------------------------------------------------------
\* The empty registry the server starts with satisfies the base invariant.
LEMMA InitBase == Init => BaseInv
BY NoneAssumption DEF Init, BaseInv, TypeOK, Locals, TxnOwned, LockDiscipline,
   TxnSnapshot, ProjectTable, RowTable, Labels, Critical, Threads

\* The steps of POST /projects preserve the base invariant.
LEMMA CreateBase ==
  ASSUME BaseInv, NEW t \in Creators,
         (\E r \in Roots : CreateCheck(t, r)) \/ CreateWrite(t)
  PROVE  BaseInv'
<1> t \in Threads /\ t \notin Scanners
  BY ThreadAssumption DEF Threads
<1>1. ASSUME NEW r \in Roots, CreateCheck(t, r)
      PROVE  BaseInv'
  <2> USE <1>1 DEF BaseInv, CreateCheck, Goto, dbVars
  <2>1. TypeOK'
    BY DEF TypeOK, Labels
  <2>2. Locals'
    BY DEF Locals, TypeOK, Critical
  <2>3. TxnOwned'
    BY DEF TxnOwned, TypeOK
  <2>4. LockDiscipline'
    BY DEF LockDiscipline, TypeOK, Critical
  <2>5. TxnSnapshot'
    BY DEF TxnSnapshot, TxnOwned, TypeOK, WriteTxn, Threads, Registered
  <2>6. QED
    BY <2>1, <2>2, <2>3, <2>4, <2>5
<1>2. CASE CreateWrite(t)
  <2> USE <1>2 DEF BaseInv, CreateWrite, Finish, Goto
  <2>1. TypeOK'
    <3>1. projects' \in ProjectTable
      BY DEF TypeOK, Locals, ProjectTable, Project, Status, NextId
    <3>2. QED
      BY <3>1 DEF TypeOK, Labels
  <2>2. Locals'
    BY DEF Locals, TypeOK, Critical
  <2>3. TxnOwned'
    BY DEF TxnOwned, TypeOK
  <2>4. LockDiscipline'
    BY DEF LockDiscipline, TypeOK, Critical, Threads
  <2>5. TxnSnapshot'
    BY DEF TxnSnapshot, TxnOwned, TypeOK, WriteTxn, Threads, Registered
  <2>6. QED
    BY <2>1, <2>2, <2>3, <2>4, <2>5
<1>3. QED
  BY <1>1, <1>2

\* The steps of a scan preserve the base invariant.
LEMMA ScanBase ==
  ASSUME BaseInv, NEW t \in Scanners,
         (\E p \in ProjectIds : ScanOpen(t, p)) \/ ScanStep(t)
  PROVE  BaseInv'
<1> t \in Threads /\ t # None
  BY NoneAssumption DEF Threads
<1>1. ASSUME NEW p \in ProjectIds, ScanOpen(t, p)
      PROVE  BaseInv'
  <2> USE <1>1 DEF BaseInv, ScanOpen, Goto, dbVars, Registered
  <2>1. TypeOK'
    <3>1. projects[p].root \in Roots
      BY DEF TypeOK, ProjectTable, Project, Registered
    <3>2. QED
      BY <3>1 DEF TypeOK, Labels
  <2>2. Locals'
    BY DEF Locals, TypeOK, Critical, ProjectTable, Project
  <2>3. TxnOwned'
    BY DEF TxnOwned, TypeOK, Critical
  <2>4. LockDiscipline'
    BY DEF LockDiscipline, TypeOK, Locals, Critical
  <2>5. TxnSnapshot'
    BY DEF TxnSnapshot, TxnOwned, TypeOK, WriteTxn, Threads, Registered
  <2>6. QED
    BY <2>1, <2>2, <2>3, <2>4, <2>5
<1>2. CASE ScanLock(t)
  <2> USE <1>2 DEF BaseInv, ScanLock, Goto, Finish, dbVars
  <2>1. TypeOK'
    BY DEF TypeOK, Labels, Critical
  <2>2. Locals'
    BY DEF Locals, TypeOK, Critical
  <2>3. TxnOwned'
    BY DEF TxnOwned, TypeOK, Critical
  <2>4. LockDiscipline'
    <3> SUFFICES ASSUME NEW p \in ProjectIds, NEW u \in Scanners
                 PROVE  (scanLock[p] = u <=> pc[u] \in Critical /\ pid[u] = p)'
      BY DEF LockDiscipline
    <3> u \in Threads /\ u # None
      BY NoneAssumption DEF Threads
    <3>1. pid[t] \in ProjectIds
      BY DEF Locals, Critical
    <3>2. scanLock[p] = u <=> pc[u] \in Critical /\ pid[u] = p
      BY DEF LockDiscipline
    <3>3. CASE u = t
      BY <3>1, <3>2, <3>3 DEF TypeOK, Critical
    <3>4. CASE u # t
      BY <3>1, <3>2, <3>4 DEF TypeOK, Critical
    <3>5. QED
      BY <3>3, <3>4
  <2>5. TxnSnapshot'
    BY DEF TxnSnapshot, TxnOwned, TypeOK, WriteTxn, Threads, Registered
  <2>6. QED
    BY <2>1, <2>2, <2>3, <2>4, <2>5
<1>3. CASE ScanParse(t)
  <2> USE <1>3 DEF BaseInv, ScanParse, Goto, dbVars
  <2>1. TypeOK'
    BY DEF TypeOK, Labels, Critical
  <2>2. Locals'
    BY DEF Locals, TypeOK, Critical
  <2>3. TxnOwned'
    BY DEF TxnOwned, TypeOK, Critical
  <2>4. LockDiscipline'
    BY DEF LockDiscipline, TypeOK, Locals, Critical
  <2>5. TxnSnapshot'
    BY DEF TxnSnapshot, TxnOwned, TypeOK, WriteTxn, Threads, Registered
  <2>6. QED
    BY <2>1, <2>2, <2>3, <2>4, <2>5
<1>4. CASE ScanReplace(t)
  <2> USE <1>4 DEF BaseInv, ScanReplace, Goto, dbVars
  <2>0. txn' \in WriteTxn
    <3>1. projects[pid[t]] \in Project
      BY DEF TypeOK, ProjectTable, Registered
    <3>2. [projects EXCEPT ![pid[t]].status = "scanning"] \in ProjectTable
      BY <3>1 DEF TypeOK, ProjectTable, Project, Status, Registered
    <3>3. [i \in RowIds |-> IF i \in OwnRows(rows, pid[t])
                            THEN None ELSE rows[i]] \in RowTable
      BY DEF TypeOK, RowTable
    <3>4. QED
      BY <3>2, <3>3 DEF WriteTxn
  <2>1. TypeOK'
    BY <2>0 DEF TypeOK, Labels, Critical
  <2>2. Locals'
    BY DEF Locals, TypeOK, Critical
  <2>3. TxnOwned'
    <3>1. txn' # None /\ txn'.owner = t
      BY NoneAssumption, <2>0 DEF WriteTxn
    <3>2. QED
      BY <3>1 DEF TxnOwned, TypeOK
  <2>4. LockDiscipline'
    BY DEF LockDiscipline, TypeOK, Locals, Critical
  <2>5. TxnSnapshot'
    BY DEF TxnSnapshot, TxnOwned, TypeOK, WriteTxn, Threads, Registered
  <2>6. QED
    BY <2>1, <2>2, <2>3, <2>4, <2>5
<1>5. CASE ScanInsert(t)
  <2> USE <1>5 DEF BaseInv, ScanInsert, dbVars
  <2>0. txn \in WriteTxn /\ txn' \in WriteTxn /\ txn'.owner = txn.owner
    <3>1. txn \in WriteTxn
      BY DEF TypeOK, TxnOwned
    <3>2. PICK e \in parsed[t] \ IndexedEntities(txn.rows, pid[t]),
               i \in NextId(RowIds, {k \in RowIds : txn.rows[k] # None}) :
            txn' = [txn EXCEPT !.rows[i] =
                      [project |-> pid[t], root |-> root[t], entity |-> e,
                       batch |-> parsed[t]]]
      OBVIOUS
    <3>3. [project |-> pid[t], root |-> root[t], entity |-> e,
           batch |-> parsed[t]] \in Row
      BY DEF Row, TypeOK, Locals, Critical
    <3>4. i \in RowIds
      BY DEF NextId
    <3>5. QED
      BY <3>1, <3>2, <3>3, <3>4 DEF WriteTxn, RowTable
  <2>1. TypeOK'
    BY <2>0 DEF TypeOK
  <2>2. Locals'
    BY DEF Locals, TypeOK, Critical
  <2>3. TxnOwned'
    <3>1. txn' # None /\ txn'.owner = txn.owner
      BY NoneAssumption, <2>0 DEF WriteTxn
    <3>2. QED
      BY <3>1 DEF TxnOwned, TypeOK
  <2>4. LockDiscipline'
    BY DEF LockDiscipline, TypeOK, Locals, Critical
  <2>5. TxnSnapshot'
    BY DEF TxnSnapshot, TxnOwned, TypeOK, WriteTxn, Threads, Registered
  <2>6. QED
    BY <2>1, <2>2, <2>3, <2>4, <2>5
<1>6. CASE ScanCommit(t)
  <2> USE <1>6 DEF BaseInv, ScanCommit, Goto
  <2>1. TypeOK'
    <3>1. txn \in WriteTxn
      BY DEF TypeOK, TxnOwned
    <3>2. txn.projects \in ProjectTable /\ txn.rows \in RowTable
      BY <3>1 DEF WriteTxn
    <3>3. projects' \in ProjectTable
      <4>1. /\ pid[t] \in Registered
            /\ txn.projects = [projects EXCEPT ![pid[t]].status = "scanning"]
        BY DEF TxnSnapshot, TxnOwned
      <4>2. projects[pid[t]] \in Project
        BY <4>1 DEF TypeOK, ProjectTable, Registered
      <4>3. QED
        BY <4>1, <4>2 DEF TypeOK, ProjectTable, Project, Status, Registered
    <3>4. QED
      BY <3>2, <3>3 DEF TypeOK, Labels, Critical
  <2>2. Locals'
    BY DEF Locals, TypeOK, Critical
  <2>3. TxnOwned'
    BY DEF TxnOwned, TypeOK, Critical
  <2>4. LockDiscipline'
    BY DEF LockDiscipline, TypeOK, Locals, Critical
  <2>5. TxnSnapshot'
    BY DEF TxnSnapshot, TxnOwned, TypeOK, WriteTxn, Threads, Registered
  <2>6. QED
    BY <2>1, <2>2, <2>3, <2>4, <2>5
<1>7. CASE ScanError(t)
  <2> USE <1>7 DEF BaseInv, ScanError, Goto, dbVars
  <2>1. TypeOK'
    BY DEF TypeOK, Labels, Critical
  <2>2. Locals'
    BY DEF Locals, TypeOK, Critical
  <2>3. TxnOwned'
    BY DEF TxnOwned, TypeOK, Critical
  <2>4. LockDiscipline'
    BY DEF LockDiscipline, TypeOK, Locals, Critical
  <2>5. TxnSnapshot'
    BY DEF TxnSnapshot, TxnOwned, TypeOK, WriteTxn, Threads, Registered
  <2>6. QED
    BY <2>1, <2>2, <2>3, <2>4, <2>5
<1>8. CASE MarkFailed(t)
  <2> USE <1>8 DEF BaseInv, MarkFailed, Goto
  <2>1. TypeOK'
    <3>1. projects' \in ProjectTable
      BY DEF TypeOK, ProjectTable, Project, Status, Registered
    <3>2. QED
      BY <3>1 DEF TypeOK, Labels, Critical
  <2>2. Locals'
    BY DEF Locals, TypeOK, Critical
  <2>3. TxnOwned'
    BY DEF TxnOwned, TypeOK, Critical
  <2>4. LockDiscipline'
    BY DEF LockDiscipline, TypeOK, Locals, Critical
  <2>5. TxnSnapshot'
    BY DEF TxnSnapshot, TxnOwned, TypeOK, WriteTxn, Threads, Registered
  <2>6. QED
    BY <2>1, <2>2, <2>3, <2>4, <2>5
<1>9. CASE ScanRelease(t)
  <2> USE <1>9 DEF BaseInv, ScanRelease, Finish, Goto, dbVars
  <2>1. TypeOK'
    BY DEF TypeOK, Labels, Critical
  <2>2. Locals'
    BY DEF Locals, TypeOK, Critical
  <2>3. TxnOwned'
    BY DEF TxnOwned, TypeOK, Critical
  <2>4. LockDiscipline'
    <3> SUFFICES ASSUME NEW p \in ProjectIds, NEW u \in Scanners
                 PROVE  (scanLock[p] = u <=> pc[u] \in Critical /\ pid[u] = p)'
      BY DEF LockDiscipline
    <3> u \in Threads /\ u # None
      BY NoneAssumption DEF Threads
    <3>1. pid[t] \in ProjectIds
      BY DEF Locals, Critical
    <3>2. scanLock[p] = u <=> pc[u] \in Critical /\ pid[u] = p
      BY DEF LockDiscipline
    <3>3. CASE u = t
      BY <3>1, <3>2, <3>3 DEF TypeOK, Critical
    <3>4. CASE u # t
      <4>1. scanLock[pid[t]] = t
        BY <3>1 DEF LockDiscipline, Critical
      <4>2. QED
        BY <3>1, <3>2, <3>4, <4>1, NoneAssumption DEF TypeOK, Critical
    <3>5. QED
      BY <3>3, <3>4
  <2>5. TxnSnapshot'
    BY DEF TxnSnapshot, TxnOwned, TypeOK, WriteTxn, Threads, Registered
  <2>6. QED
    BY <2>1, <2>2, <2>3, <2>4, <2>5
<1>10. QED
  BY <1>1, <1>2, <1>3, <1>4, <1>5, <1>6, <1>7, <1>8, <1>9 DEF ScanStep

\* The steps of a deletion preserve the base invariant.
LEMMA DeleteBase ==
  ASSUME BaseInv, NEW t \in Deleters,
         \/ \E p \in ProjectIds : DeleteOpen(t, p)
         \/ DeleteCollection(t)
         \/ DeleteLoad(t)
         \/ DeleteCommit(t)
  PROVE  BaseInv'
<1> t \in Threads /\ t \notin Scanners
  BY ThreadAssumption DEF Threads
<1>1. ASSUME NEW p \in ProjectIds, DeleteOpen(t, p)
      PROVE  BaseInv'
  <2> USE <1>1 DEF BaseInv, DeleteOpen, Goto, dbVars
  <2>1. TypeOK'
    BY DEF TypeOK, Labels, Critical
  <2>2. Locals'
    BY DEF Locals, TypeOK, Critical
  <2>3. TxnOwned'
    BY DEF TxnOwned, TypeOK, Critical
  <2>4. LockDiscipline'
    BY DEF LockDiscipline, TypeOK, Locals, Critical, Threads
  <2>5. TxnSnapshot'
    BY DEF TxnSnapshot, TxnOwned, TypeOK, WriteTxn, Threads, Registered
  <2>6. QED
    BY <2>1, <2>2, <2>3, <2>4, <2>5
<1>2. CASE DeleteCollection(t)
  <2> USE <1>2 DEF BaseInv, DeleteCollection, Goto, dbVars
  <2>1. TypeOK'
    BY DEF TypeOK, Labels, Critical
  <2>2. Locals'
    BY DEF Locals, TypeOK, Critical
  <2>3. TxnOwned'
    BY DEF TxnOwned, TypeOK, Critical
  <2>4. LockDiscipline'
    BY DEF LockDiscipline, TypeOK, Locals, Critical, Threads
  <2>5. TxnSnapshot'
    BY DEF TxnSnapshot, TxnOwned, TypeOK, WriteTxn, Threads, Registered
  <2>6. QED
    BY <2>1, <2>2, <2>3, <2>4, <2>5
<1>3. CASE DeleteLoad(t)
  <2> USE <1>3 DEF BaseInv, DeleteLoad, Goto, dbVars, OwnRows
  <2>1. TypeOK'
    BY DEF TypeOK, Labels, Critical
  <2>2. Locals'
    BY DEF Locals, TypeOK, Critical
  <2>3. TxnOwned'
    BY DEF TxnOwned, TypeOK, Critical
  <2>4. LockDiscipline'
    BY DEF LockDiscipline, TypeOK, Locals, Critical, Threads
  <2>5. TxnSnapshot'
    BY DEF TxnSnapshot, TxnOwned, TypeOK, WriteTxn, Threads, Registered
  <2>6. QED
    BY <2>1, <2>2, <2>3, <2>4, <2>5
<1>4. CASE DeleteCommit(t)
  <2> USE <1>4 DEF BaseInv, DeleteCommit, Finish, Goto
  <2>1. TypeOK'
    <3>1. projects' \in ProjectTable /\ rows' \in RowTable
      BY DEF TypeOK, ProjectTable, RowTable
    <3>2. QED
      BY <3>1 DEF TypeOK, Labels, Critical
  <2>2. Locals'
    BY DEF Locals, TypeOK, Critical
  <2>3. TxnOwned'
    BY DEF TxnOwned, TypeOK, Critical
  <2>4. LockDiscipline'
    BY DEF LockDiscipline, TypeOK, Locals, Critical, Threads
  <2>5. TxnSnapshot'
    BY DEF TxnSnapshot, TxnOwned, TypeOK, WriteTxn, Threads, Registered
  <2>6. QED
    BY <2>1, <2>2, <2>3, <2>4, <2>5
<1>5. QED
  BY <1>1, <1>2, <1>3, <1>4

\* A request that fails before its commit preserves the base invariant.
LEMMA ErrorBase ==
  ASSUME BaseInv, NEW t \in Creators \cup Deleters, RequestError(t)
  PROVE  BaseInv'
<1> t \in Threads /\ t \notin Scanners
  BY ThreadAssumption DEF Threads
<1> USE DEF BaseInv, RequestError, Finish, Goto, dbVars
<1>1. TypeOK'
  BY DEF TypeOK, Labels, Critical
<1>2. Locals'
  BY DEF Locals, TypeOK, Critical
<1>3. TxnOwned'
  BY DEF TxnOwned, TypeOK, Critical
<1>4. LockDiscipline'
  BY DEF LockDiscipline, TypeOK, Locals, Critical, Threads
<1>5. TxnSnapshot'
  BY DEF TxnSnapshot, TxnOwned, TypeOK, WriteTxn, Threads, Registered
<1>6. QED
  BY <1>1, <1>2, <1>3, <1>4, <1>5

\* So does a restart of the process.
LEMMA RestartBase == ASSUME BaseInv, Restart PROVE BaseInv'
BY NoneAssumption DEF BaseInv, Restart, dbVars, TypeOK, Locals, TxnOwned,
   LockDiscipline, TxnSnapshot, Labels, Critical, Threads

\* Every step of the server preserves the base invariant.
LEMMA StepBase == ASSUME BaseInv, [Next]_vars PROVE BaseInv'
<1>1. CASE RegistryStep
  BY <1>1, CreateBase, ScanBase, DeleteBase, ErrorBase DEF RegistryStep
<1>2. CASE \E t \in Deleters : DeleteCollection(t)
  BY <1>2, DeleteBase
<1>3. CASE Restart
  BY <1>3, RestartBase
<1>4. CASE UNCHANGED vars
  BY <1>4 DEF vars, dbVars, BaseInv, TypeOK, Locals, TxnOwned, LockDiscipline,
     TxnSnapshot, Registered
<1>5. QED
  BY <1>1, <1>2, <1>3, <1>4 DEF Next

\* The base invariant is inductive.
THEOREM Base == Spec => []BaseInv
<1>1. QED
  BY InitBase, StepBase, PTL DEF Spec

\* Every variable keeps its type: in particular no request ever runs with a
\* project id or a directory it has not read.
THEOREM TypeCorrect == Spec => []TypeOK
<1>1. BaseInv => TypeOK
  BY DEF BaseInv
<1>2. QED
  BY <1>1, Base, PTL

\* One scan per project at a time, and no leaked lock, for any number of
\* scanners, deletions, reused ids and restarts.
THEOREM ScanExclusion == Spec => []LockDiscipline
<1>1. BaseInv => LockDiscipline
  BY DEF BaseInv
<1>2. QED
  BY <1>1, Base, PTL

-----------------------------------------------------------------------------
(* No project is left scanning, no directory is registered twice           *)

RegistryInv == BaseInv /\ NoStuckScanning /\ RootsUnique

\* No step commits the status "scanning" or a directory that is taken: only
\* CreateWrite adds a project, and only ScanCommit and MarkFailed set a status.
LEMMA RegistryStepInv == ASSUME RegistryInv, [Next]_vars PROVE RegistryInv'
<1> USE DEF RegistryInv
<1>1. BaseInv'
  BY StepBase
<1>2. ASSUME UNCHANGED projects
      PROVE  NoStuckScanning' /\ RootsUnique'
  BY <1>2 DEF NoStuckScanning, RootsUnique, Registered
<1>3. ASSUME NEW t \in Creators, CreateWrite(t)
      PROVE  NoStuckScanning' /\ RootsUnique'
  <2>1. ASSUME ~RootTaken(root[t]), NEW p \in ProjectIds,
               projects' = [projects EXCEPT
                 ![p] = [root |-> root[t], status |-> "created"]]
        PROVE  NoStuckScanning' /\ RootsUnique'
    BY <2>1 DEF NoStuckScanning, RootsUnique, Registered, RootTaken, BaseInv,
       TypeOK, ProjectTable
  <2>2. QED
    BY <1>2, <1>3, <2>1 DEF CreateWrite, NextId
<1>4. ASSUME NEW t \in Scanners, ScanCommit(t)
      PROVE  NoStuckScanning' /\ RootsUnique'
  <2>1. /\ pid[t] \in Registered
        /\ txn.projects = [projects EXCEPT ![pid[t]].status = "scanning"]
    BY <1>4 DEF ScanCommit, BaseInv, TxnOwned, TxnSnapshot, Threads
  <2>2. projects[pid[t]] \in Project
    BY <2>1 DEF BaseInv, TypeOK, ProjectTable, Registered
  <2>3. projects' = [projects EXCEPT ![pid[t]].status = "ready"]
    BY <1>4, <2>1, <2>2 DEF ScanCommit, BaseInv, TypeOK, ProjectTable,
       Registered, Project
  <2>4. QED
    BY <2>1, <2>2, <2>3, NoneAssumption DEF NoStuckScanning, RootsUnique,
       Registered, BaseInv, TypeOK, ProjectTable, Project
<1>5. ASSUME NEW t \in Scanners, MarkFailed(t)
      PROVE  NoStuckScanning' /\ RootsUnique'
  <2>1. CASE UNCHANGED projects
    BY <1>2, <2>1
  <2>2. CASE /\ pid[t] \in Registered
             /\ projects' = [projects EXCEPT ![pid[t]].status = "failed"]
    <3>1. projects[pid[t]] \in Project
      BY <2>2 DEF BaseInv, TypeOK, ProjectTable, Registered
    <3>2. QED
      BY <2>2, <3>1, NoneAssumption DEF NoStuckScanning, RootsUnique,
         Registered, BaseInv, TypeOK, ProjectTable, Project
  <2>3. QED
    BY <1>5, <2>1, <2>2 DEF MarkFailed
<1>6. ASSUME NEW t \in Deleters, DeleteCommit(t)
      PROVE  NoStuckScanning' /\ RootsUnique'
  BY <1>6 DEF DeleteCommit, NoStuckScanning, RootsUnique, Registered, BaseInv,
     TypeOK, ProjectTable
<1>7. QED
  <2>1. UNCHANGED projects \/ (\E t \in Creators : CreateWrite(t))
          \/ (\E t \in Scanners : ScanCommit(t) \/ MarkFailed(t))
          \/ (\E t \in Deleters : DeleteCommit(t))
    BY DEF Next, RegistryStep, ScanStep, vars, dbVars, CreateCheck, ScanOpen,
       ScanLock, ScanParse, ScanReplace, ScanInsert, ScanError, ScanRelease,
       DeleteOpen, DeleteCollection, DeleteLoad, RequestError, Restart
  <2>2. QED
    BY <1>1, <1>2, <1>3, <1>4, <1>5, <1>6, <2>1

\* The registry invariant holds in every reachable state.
THEOREM RegistrySafe == Spec => []RegistryInv
<1>1. Init => RegistryInv
  BY InitBase DEF RegistryInv, Init, NoStuckScanning, RootsUnique, Registered
<1>2. QED
  BY <1>1, RegistryStepInv, PTL DEF Spec

\* Whatever fails, is refused or restarts, no committed project row says
\* "scanning".
THEOREM NeverStuckScanning == Spec => []NoStuckScanning
<1>1. RegistryInv => NoStuckScanning
  BY DEF RegistryInv
<1>2. QED
  BY <1>1, RegistrySafe, PTL

\* No interleaving of registrations registers one directory twice.
THEOREM DirectoriesUnique == Spec => []RootsUnique
<1>1. RegistryInv => RootsUnique
  BY DEF RegistryInv
<1>2. QED
  BY <1>1, RegistrySafe, PTL

-----------------------------------------------------------------------------
(* The static index is replaced as a whole.                                *)
(*                                                                         *)
(* IndexWhole is not inductive: what a commit publishes was built by many  *)
(* earlier steps of the transaction.  ScanRoots says a scan still works    *)
(* for the project it read, TxnRows that the open transaction differs from *)
(* the committed rows in its own project only and holds nothing there but  *)
(* rows of its own scan.                                                   *)

ScanRoots ==
  \A t \in Scanners :
    pc[t] \in {"scan_lock"} \cup Critical =>
      pid[t] \in Registered /\ root[t] = projects[pid[t]].root

TxnRows ==
  \A t \in Scanners, i \in RowIds :
    pc[t] = "scan_insert" =>
      /\ rows[i] # None /\ rows[i].project # pid[t] => txn.rows[i] = rows[i]
      /\ i \in OwnRows(txn.rows, pid[t]) =>
           /\ txn.rows[i].root = root[t]
           /\ txn.rows[i].batch = parsed[t]
      /\ txn.rows[i] # None /\ txn.rows[i].project # pid[t] =>
           txn.rows[i] = rows[i]

IndexInv == BaseInv /\ ScanRoots /\ TxnRows /\ IndexWhole /\ NoOrphanRows

\* Two tables that agree on a project's rows agree on its being whole.
LEMMA SameRows ==
  ASSUME NEW a, NEW b, NEW p, NEW r,
         \A i \in RowIds : i \in OwnRows(a, p) \/ i \in OwnRows(b, p) => a[i] = b[i],
         Whole(a, p), OneRoot(a, p, r)
  PROVE  Whole(b, p) /\ OneRoot(b, p, r)
<1>1. OwnRows(a, p) = OwnRows(b, p)
  BY DEF OwnRows
<1>2. IndexedEntities(a, p) = IndexedEntities(b, p)
  BY <1>1 DEF IndexedEntities, OwnRows
<1>3. QED
  BY <1>1, <1>2 DEF Whole, OneRoot, OwnRows

\* Changing a status registers and unregisters nobody and moves no root.
LEMMA StatusChange ==
  ASSUME BaseInv, NEW p \in Registered, NEW s \in Status,
         projects' = [projects EXCEPT ![p].status = s]
  PROVE  /\ Registered' = Registered
         /\ \A q \in Registered : projects'[q].root = projects[q].root
<1>1. projects[p] \in Project /\ p \in ProjectIds
  BY DEF BaseInv, TypeOK, ProjectTable, Registered
<1>2. projects'[p] \in Project /\ projects'[p].root = projects[p].root
  BY <1>1 DEF BaseInv, TypeOK, ProjectTable, Project
<1>3. projects'[p] # None
  BY <1>2, NoneAssumption
<1>4. \A q \in ProjectIds : q # p => projects'[q] = projects[q]
  BY DEF BaseInv, TypeOK, ProjectTable
<1>5. QED
  BY <1>2, <1>3, <1>4 DEF Registered

\* A row the transaction inserts is new: its id is beyond every id in use.
LEMMA NextIdFresh ==
  ASSUME NEW ids \in SUBSET Nat, NEW used \in SUBSET ids,
         NEW i \in NextId(ids, used)
  PROVE  i \in ids /\ i \notin used
BY DEF NextId

\* Steps that touch neither the tables nor the transaction.
LEMMA QuietIndex ==
  ASSUME IndexInv, UNCHANGED <<projects, rows, txn>>, BaseInv', ScanRoots',
         \A t \in Scanners : pc'[t] = "scan_insert" =>
            /\ pc[t] = "scan_insert"
            /\ pid'[t] = pid[t] /\ root'[t] = root[t] /\ parsed'[t] = parsed[t]
  PROVE  IndexInv'
<1>1. TxnRows'
  BY DEF IndexInv, TxnRows, OwnRows
<1>2. IndexWhole'
  BY DEF IndexInv, IndexWhole, Registered, Whole, OneRoot, OwnRows,
     IndexedEntities
<1>3. NoOrphanRows'
  BY DEF IndexInv, NoOrphanRows, Registered
<1>4. QED
  BY <1>1, <1>2, <1>3 DEF IndexInv

\* An INSERT of a scan changes its transaction only, and adds a row of the
\* batch the transaction is made of.
LEMMA ScanInsertIndex ==
  ASSUME IndexInv, BaseInv', NEW t \in Scanners, ScanInsert(t)
  PROVE  IndexInv'
<1> USE DEF IndexInv
<1> t \in Threads
  BY DEF Threads
<1>1. txn \in WriteTxn
  BY DEF BaseInv, TypeOK, TxnOwned, ScanInsert
<1>2. PICK e \in parsed[t] \ IndexedEntities(txn.rows, pid[t]),
           i \in NextId(RowIds, {k \in RowIds : txn.rows[k] # None}) :
        txn' = [txn EXCEPT !.rows[i] =
                  [project |-> pid[t], root |-> root[t], entity |-> e,
                   batch |-> parsed[t]]]
  BY DEF ScanInsert
<1>3. i \in RowIds /\ txn.rows[i] = None
  BY <1>2, IdAssumption, NextIdFresh
<1>4. txn'.rows = [txn.rows EXCEPT ![i] =
                     [project |-> pid[t], root |-> root[t], entity |-> e,
                      batch |-> parsed[t]]]
  BY <1>1, <1>2 DEF WriteTxn
<1>5. ScanRoots'
  BY DEF ScanInsert, ScanRoots, Registered, dbVars
<1>6. TxnRows'
  <2> SUFFICES ASSUME NEW u \in Scanners, NEW k \in RowIds,
                      pc'[u] = "scan_insert"
               PROVE  /\ rows'[k] # None /\ rows'[k].project # pid'[u]
                           => txn'.rows[k] = rows'[k]
                      /\ k \in OwnRows(txn'.rows, pid'[u]) =>
                           /\ txn'.rows[k].root = root'[u]
                           /\ txn'.rows[k].batch = parsed'[u]
                      /\ txn'.rows[k] # None /\ txn'.rows[k].project # pid'[u]
                           => txn'.rows[k] = rows'[k]
    BY DEF TxnRows
  <2>1. u = t
    BY DEF ScanInsert, BaseInv, TxnOwned, Threads
  <2>2. UNCHANGED <<rows, pid, root, parsed>>
    BY DEF ScanInsert, dbVars
  <2>3. txn.rows \in RowTable
    BY <1>1 DEF WriteTxn
  <2>4. CASE k = i
    BY <1>3, <1>4, <2>1, <2>2, <2>3, <2>4, NoneAssumption
       DEF TxnRows, OwnRows, RowTable, ScanInsert
  <2>5. CASE k # i
    BY <1>3, <1>4, <2>1, <2>2, <2>3, <2>5 DEF TxnRows, OwnRows, RowTable, ScanInsert
  <2>6. QED
    BY <2>4, <2>5
<1>7. IndexWhole'
  BY DEF ScanInsert, dbVars, IndexWhole, Registered, Whole, OneRoot, OwnRows,
     IndexedEntities
<1>8. NoOrphanRows'
  BY DEF ScanInsert, dbVars, NoOrphanRows, Registered
<1>9. QED
  BY <1>5, <1>6, <1>7, <1>8

\* Opening the replacement starts a transaction without rows of the project.
LEMMA ScanReplaceIndex ==
  ASSUME IndexInv, BaseInv', NEW t \in Scanners, ScanReplace(t)
  PROVE  IndexInv'
<1> USE DEF IndexInv
<1> t \in Threads
  BY DEF Threads
<1>1. txn'.rows = [i \in RowIds |-> IF i \in OwnRows(rows, pid[t])
                                   THEN None ELSE rows[i]]
  BY DEF ScanReplace
<1>2. ScanRoots'
  BY DEF ScanReplace, ScanRoots, Goto, Registered, dbVars, BaseInv, TypeOK, Critical
<1>3. TxnRows'
  <2>1. \A u \in Scanners : pc'[u] = "scan_insert" => u = t
    BY DEF ScanReplace, Goto, BaseInv, TypeOK, TxnOwned, Threads
  <2>2. QED
    BY <1>1, <2>1 DEF TxnRows, OwnRows, ScanReplace, dbVars
<1>4. IndexWhole'
  BY DEF ScanReplace, dbVars, IndexWhole, Registered, Whole, OneRoot, OwnRows,
     IndexedEntities
<1>5. NoOrphanRows'
  BY DEF ScanReplace, dbVars, NoOrphanRows, Registered
<1>6. QED
  BY <1>2, <1>3, <1>4, <1>5

\* Committing the replacement makes the finished batch the project's index and
\* leaves the index of every other project alone.
LEMMA ScanCommitIndex ==
  ASSUME IndexInv, BaseInv', NEW t \in Scanners, ScanCommit(t)
  PROVE  IndexInv'
<1> USE DEF IndexInv
<1> t \in Threads
  BY DEF Threads
<1>1. /\ pid[t] \in Registered
      /\ txn.projects = [projects EXCEPT ![pid[t]].status = "scanning"]
  BY DEF ScanCommit, BaseInv, TxnOwned, TxnSnapshot
<1>2. projects[pid[t]] \in Project
  BY <1>1 DEF BaseInv, TypeOK, ProjectTable, Registered
<1>3. projects' = [projects EXCEPT ![pid[t]].status = "ready"]
  <2>1. projects' = [txn.projects EXCEPT ![pid[t]].status = "ready"]
    BY DEF ScanCommit
  <2>2. projects \in [ProjectIds -> Project \cup {None}] /\ pid[t] \in ProjectIds
    BY <1>1 DEF BaseInv, TypeOK, ProjectTable, Registered
  <2>3. QED
    BY <1>1, <1>2, <2>1, <2>2 DEF Project
<1>4. /\ Registered' = Registered
      /\ \A p \in Registered : projects'[p].root = projects[p].root
  BY <1>1, <1>3, StatusChange DEF Status
<1>5. ScanRoots'
  BY <1>4 DEF ScanCommit, ScanRoots, Goto, BaseInv, TypeOK, Critical, Threads
<1>6. TxnRows'
  BY DEF ScanCommit, Goto, BaseInv, TypeOK, TxnOwned, TxnRows, Threads
<1>7. IndexWhole'
  <2> SUFFICES ASSUME NEW p \in Registered
               PROVE  Whole(txn.rows, p) /\ OneRoot(txn.rows, p, projects[p].root)
    BY <1>4 DEF IndexWhole, ScanCommit
  <2>1. CASE p = pid[t]
    <3>1. root[t] = projects[p].root
      BY <2>1 DEF ScanRoots, ScanCommit, Critical
    <3>2. QED
      BY <2>1, <3>1 DEF Whole, OneRoot, TxnRows, OwnRows, ScanCommit
  <2>2. CASE p # pid[t]
    <3>1. \A i \in RowIds :
            i \in OwnRows(rows, p) \/ i \in OwnRows(txn.rows, p) =>
              rows[i] = txn.rows[i]
      BY <2>2 DEF TxnRows, OwnRows, ScanCommit
    <3>2. Whole(rows, p) /\ OneRoot(rows, p, projects[p].root)
      BY DEF IndexWhole
    <3>3. QED
      BY <3>1, <3>2, SameRows
  <2>3. QED
    BY <2>1, <2>2
<1>8. NoOrphanRows'
  BY <1>1, <1>4 DEF ScanCommit, NoOrphanRows, TxnRows, OwnRows
<1>9. QED
  BY <1>5, <1>6, <1>7, <1>8

\* Recording a failure changes a status and no row.
LEMMA MarkFailedIndex ==
  ASSUME IndexInv, BaseInv', NEW t \in Scanners, MarkFailed(t)
  PROVE  IndexInv'
<1> USE DEF IndexInv
<1> t \in Threads
  BY DEF Threads
<1>1. /\ Registered' = Registered
      /\ \A p \in Registered : projects'[p].root = projects[p].root
  <2>1. CASE UNCHANGED projects
    BY <2>1 DEF Registered
  <2>2. CASE /\ pid[t] \in Registered
             /\ projects' = [projects EXCEPT ![pid[t]].status = "failed"]
    BY <2>2, StatusChange DEF Status
  <2>3. QED
    BY <2>1, <2>2 DEF MarkFailed
<1>2. ScanRoots'
  BY <1>1 DEF MarkFailed, ScanRoots, Goto, BaseInv, TypeOK, Critical, Threads
<1>3. TxnRows'
  BY DEF MarkFailed, Goto, BaseInv, TypeOK, TxnRows, OwnRows, Threads
<1>4. IndexWhole'
  BY <1>1 DEF MarkFailed, IndexWhole, Whole, OneRoot, OwnRows, IndexedEntities
<1>5. NoOrphanRows'
  BY <1>1 DEF MarkFailed, NoOrphanRows
<1>6. QED
  BY <1>2, <1>3, <1>4, <1>5

\* A project registered now has no rows, as no row is left of an earlier one
\* with its id.
LEMMA CreateIndex ==
  ASSUME IndexInv, BaseInv', NEW t \in Creators, CreateWrite(t)
  PROVE  IndexInv'
<1> USE DEF IndexInv
<1> t \in Threads /\ t \notin Scanners
  BY ThreadAssumption DEF Threads
<1>0. \A u \in Scanners : UNCHANGED <<pc[u], pid[u], root[u], parsed[u]>>
  BY DEF CreateWrite, Finish, Goto, BaseInv, TypeOK, Threads
<1>1. CASE UNCHANGED projects
  <2>1. ScanRoots'
    BY <1>0, <1>1 DEF ScanRoots, Registered
  <2>2. QED
    BY <1>0, <1>1, <2>1, QuietIndex DEF CreateWrite
<1>2. ASSUME NEW p \in NextId(ProjectIds, Registered),
             projects' = [projects EXCEPT
               ![p] = [root |-> root[t], status |-> "created"]]
      PROVE  IndexInv'
  <2>1. p \in ProjectIds /\ p \notin Registered
    BY <1>2, NextIdFresh, IdAssumption DEF Registered
  <2>2. root[t] \in Roots
    BY DEF CreateWrite, BaseInv, Locals
  <2>3. /\ Registered' = Registered \cup {p}
        /\ \A q \in Registered : projects'[q] = projects[q]
    <3>1. [root |-> root[t], status |-> "created"] # None
      BY <2>2, NoneAssumption DEF Project, Status
    <3>2. QED
      BY <1>2, <2>1, <3>1 DEF Registered, BaseInv, TypeOK, ProjectTable
  <2>4. OwnRows(rows, p) = {}
    BY <2>1 DEF OwnRows, NoOrphanRows
  <2>5. ScanRoots'
    BY <1>0, <2>3 DEF ScanRoots
  <2>6. TxnRows'
    BY DEF CreateWrite, Finish, Goto, BaseInv, TypeOK, TxnOwned, TxnRows, Threads
  <2>7. IndexWhole'
    BY <2>3, <2>4 DEF CreateWrite, IndexWhole, Whole, OneRoot, OwnRows,
       IndexedEntities
  <2>8. NoOrphanRows'
    BY <2>3 DEF CreateWrite, NoOrphanRows
  <2>9. QED
    BY <2>5, <2>6, <2>7, <2>8
<1>3. QED
  BY <1>1, <1>2 DEF CreateWrite

DeleterStep(t) ==
  \/ \E p \in ProjectIds : DeleteOpen(t, p)
  \/ DeleteCollection(t)
  \/ DeleteLoad(t)
  \/ DeleteCommit(t)
  \/ RequestError(t)

\* Every step but a deletion's preserves the index invariant.
LEMMA IndexStep ==
  ASSUME IndexInv, [Next]_vars, ~ \E t \in Deleters : DeleterStep(t)
  PROVE  IndexInv'
<1>1. BaseInv'
  BY StepBase DEF IndexInv
<1>2. ASSUME NEW t \in Creators, NEW r \in Roots, CreateCheck(t, r)
      PROVE  IndexInv'
  <2> t \in Threads /\ t \notin Scanners
    BY ThreadAssumption DEF Threads
  <2>1. \A u \in Scanners : UNCHANGED <<pc[u], pid[u], root[u], parsed[u]>>
    BY <1>2 DEF CreateCheck, Goto, IndexInv, BaseInv, TypeOK, Threads
  <2>2. QED
    BY <1>1, <1>2, <2>1, QuietIndex DEF CreateCheck, dbVars, IndexInv,
       ScanRoots, Registered
<1>3. ASSUME NEW t \in Creators, RequestError(t)
      PROVE  IndexInv'
  <2> t \in Threads /\ t \notin Scanners
    BY ThreadAssumption DEF Threads
  <2>1. \A u \in Scanners : UNCHANGED <<pc[u], pid[u], root[u], parsed[u]>>
    BY <1>3 DEF RequestError, Finish, Goto, IndexInv, BaseInv, TypeOK, Threads
  <2>2. QED
    BY <1>1, <1>3, <2>1, QuietIndex DEF RequestError, dbVars, IndexInv,
       ScanRoots, Registered
<1>4. ASSUME NEW t \in Scanners, NEW p \in ProjectIds, ScanOpen(t, p)
      PROVE  IndexInv'
  BY <1>1, <1>4, QuietIndex DEF ScanOpen, Goto, dbVars, IndexInv, BaseInv,
     TypeOK, ScanRoots, Registered, Critical, Threads
<1>5. ASSUME NEW t \in Scanners, ScanLock(t)
      PROVE  IndexInv'
  BY <1>1, <1>5, QuietIndex DEF ScanLock, Finish, Goto, dbVars, IndexInv,
     BaseInv, TypeOK, ScanRoots, Registered, Critical, Threads
<1>6. ASSUME NEW t \in Scanners, ScanParse(t)
      PROVE  IndexInv'
  BY <1>1, <1>6, QuietIndex DEF ScanParse, Goto, dbVars, IndexInv, BaseInv,
     TypeOK, ScanRoots, Registered, Critical, Threads
<1>7. ASSUME NEW t \in Scanners, ScanRelease(t)
      PROVE  IndexInv'
  BY <1>1, <1>7, QuietIndex DEF ScanRelease, Finish, Goto, dbVars, IndexInv,
     BaseInv, TypeOK, ScanRoots, Registered, Critical, Threads
<1>8. ASSUME NEW t \in Scanners, ScanError(t)
      PROVE  IndexInv'
  <2> USE DEF IndexInv
  <2>1. ScanRoots'
    BY <1>8 DEF ScanError, Goto, dbVars, BaseInv, TypeOK, ScanRoots,
       Registered, Critical, Threads
  <2>2. TxnRows'
    BY <1>8 DEF ScanError, Goto, dbVars, BaseInv, TypeOK, TxnOwned, TxnRows,
       OwnRows, Threads
  <2>3. IndexWhole' /\ NoOrphanRows'
    BY <1>8 DEF ScanError, dbVars, IndexWhole, NoOrphanRows, Registered, Whole,
       OneRoot, OwnRows, IndexedEntities
  <2>4. QED
    BY <1>1, <2>1, <2>2, <2>3
<1>9. ASSUME Restart
      PROVE  IndexInv'
  <2> USE DEF IndexInv
  <2>1. ScanRoots' /\ TxnRows'
    BY <1>9 DEF Restart, ScanRoots, TxnRows, Critical, Threads
  <2>2. IndexWhole' /\ NoOrphanRows'
    BY <1>9 DEF Restart, dbVars, IndexWhole, NoOrphanRows, Registered, Whole,
       OneRoot, OwnRows, IndexedEntities
  <2>3. QED
    BY <1>1, <2>1, <2>2
<1>10. ASSUME UNCHANGED vars
       PROVE  IndexInv'
  BY <1>1, <1>10, QuietIndex DEF vars, dbVars, IndexInv, ScanRoots, Registered
<1>11. QED
  BY <1>1, <1>2, <1>3, <1>4, <1>5, <1>6, <1>7, <1>8, <1>9, <1>10, CreateIndex,
     ScanReplaceIndex, ScanInsertIndex, ScanCommitIndex, MarkFailedIndex
     DEF Next, RegistryStep, ScanStep, DeleterStep

\* While projects are only registered and scanned, a reader always finds, for
\* every project, the complete result of one scan of its own directory, and
\* no row of anything unregistered: README's "replaces a project's previous
\* static index atomically", for any number of overlapping scans.
THEOREM IndexAtomic ==
  ASSUME Deleters = {}
  PROVE  Spec => [](IndexWhole /\ NoOrphanRows)
<1>1. Init => IndexInv
  BY InitBase DEF Init, IndexInv, ScanRoots, TxnRows, IndexWhole, NoOrphanRows,
     Registered, Whole, OneRoot, OwnRows, Critical, Threads
<1>2. IndexInv /\ [Next]_vars => IndexInv'
  BY IndexStep
<1>3. IndexInv => IndexWhole /\ NoOrphanRows
  BY DEF IndexInv
<1>4. QED
  BY <1>1, <1>2, <1>3, PTL DEF Spec

-----------------------------------------------------------------------------
(* The tables, the locks and the threads implement IndexPromise.           *)

\* What the refinement mapping shows of the state.
StatusShown ==
  [p \in ProjectIds |->
     IF projects[p] = None THEN "absent" ELSE projects[p].status]
IndexShown == [p \in ProjectIds |-> IndexedEntities(rows, p)]
ScanShown == [p \in ProjectIds |-> ScanPhase(p)]

\* Where a scan is, told from its own program counter: a lock is held by the
\* thread that will release it, and by no other.
LEMMA PhaseOfHolder ==
  ASSUME BaseInv, NEW t \in Scanners, pc[t] \in Critical
  PROVE  /\ pid[t] \in ProjectIds
         /\ scanLock[pid[t]] = t
         /\ ScanShown[pid[t]] =
              IF pc[t] = "scan_release" THEN "done" ELSE "running"
<1>1. pid[t] \in ProjectIds
  BY DEF BaseInv, Locals, Threads, Critical
<1>2. scanLock[pid[t]] = t
  BY <1>1 DEF BaseInv, LockDiscipline
<1>3. t # None
  BY NoneAssumption
<1>4. QED
  BY <1>1, <1>2, <1>3 DEF ScanShown, ScanPhase

\* No project's phase changes when neither its lock nor its holder's being
\* at the release does.
LEMMA PhaseKept ==
  ASSUME BaseInv, NEW p \in ProjectIds, UNCHANGED scanLock[p],
         \A t \in Scanners : scanLock[p] = t =>
           (pc'[t] = "scan_release" <=> pc[t] = "scan_release")
  PROVE  ScanPhase(p)' = ScanPhase(p)
<1>1. scanLock[p] \in Scanners \cup {None}
  BY DEF BaseInv, TypeOK
<1>2. QED
  BY <1>1 DEF ScanPhase

\* A step of one scanner leaves the phase of every project alone but its own.
LEMMA PhaseOfOthers ==
  ASSUME BaseInv, NEW t \in Threads,
         \A u \in Threads : u # t => pc'[u] = pc[u],
         NEW p \in ProjectIds, UNCHANGED scanLock[p],
         pc[t] \in Critical => p # pid[t]
  PROVE  ScanPhase(p)' = ScanPhase(p)
<1>1. \A u \in Scanners : scanLock[p] = u => u # t
  BY DEF BaseInv, LockDiscipline
<1>2. QED
  BY <1>1, PhaseKept DEF Threads

\* Where nothing a reader sees and no lock changes, and no scan reaches or
\* leaves its release, the promise stutters.
LEMMA StutterShown ==
  ASSUME BaseInv, UNCHANGED <<projects, rows, scanLock>>,
         \A t \in Scanners : pc[t] \in Critical =>
           (pc'[t] = "scan_release" <=> pc[t] = "scan_release")
  PROVE  UNCHANGED <<StatusShown, IndexShown, ScanShown>>
<1>1. ASSUME NEW p \in ProjectIds
      PROVE  ScanPhase(p)' = ScanPhase(p)
  BY PhaseKept DEF BaseInv, LockDiscipline
<1>2. UNCHANGED ScanShown
  BY <1>1 DEF ScanShown
<1>3. UNCHANGED StatusShown
  BY DEF StatusShown
<1>4. UNCHANGED IndexShown
  BY DEF IndexShown, IndexedEntities, OwnRows
<1>5. QED
  BY <1>2, <1>3, <1>4

\* A committed registration is Register: the project starts without an index.
LEMMA CreatePromise ==
  ASSUME IndexInv, NEW t \in Creators, CreateWrite(t)
  PROVE  [Promise!Next]_(Promise!vars)
<1> USE DEF IndexInv
<1> t \in Threads /\ t \notin Scanners
  BY ThreadAssumption DEF Threads
<1>1. \A u \in Scanners : pc'[u] = pc[u]
  BY DEF CreateWrite, Finish, Goto, BaseInv, TypeOK, Threads
<1>2. CASE UNCHANGED projects
  <2>1. UNCHANGED <<StatusShown, IndexShown, ScanShown>>
    BY <1>1, <1>2, StutterShown DEF CreateWrite
  <2>2. QED
    BY <2>1 DEF Promise!vars, StatusShown, IndexShown, ScanShown
<1>3. ASSUME NEW p \in NextId(ProjectIds, Registered),
             projects' = [projects EXCEPT
               ![p] = [root |-> root[t], status |-> "created"]]
      PROVE  Promise!Next
  <2>1. p \in ProjectIds /\ p \notin Registered
    BY <1>3, NextIdFresh, IdAssumption DEF Registered
  <2>2. root[t] \in Roots
    BY DEF CreateWrite, BaseInv, Locals
  <2>3. [root |-> root[t], status |-> "created"] # None
    BY <2>2, NoneAssumption DEF Project, Status
  <2>4. StatusShown[p] = "absent"
    BY <2>1 DEF StatusShown, Registered
  <2>5. StatusShown' = [StatusShown EXCEPT ![p] = "created"]
    BY <1>3, <2>1, <2>3 DEF StatusShown, BaseInv, TypeOK, ProjectTable
  <2>6. UNCHANGED IndexShown
    BY DEF CreateWrite, IndexShown, IndexedEntities, OwnRows
  <2>7. UNCHANGED ScanShown
    <3>1. \A q \in ProjectIds : ScanPhase(q)' = ScanPhase(q)
      BY <1>1, PhaseKept DEF CreateWrite
    <3>2. QED
      BY <3>1 DEF ScanShown
  <2>8. Promise!Register(p)
    BY <2>4, <2>5, <2>6, <2>7 DEF Promise!Register, StatusShown, IndexShown,
       ScanShown
  <2>9. QED
    BY <2>1, <2>8 DEF Promise!Next
<1>4. QED
  BY <1>2, <1>3 DEF CreateWrite

\* Taking a lock is Start, of a project that is there and has no scan; a
\* refused request changes nothing.
LEMMA LockPromise ==
  ASSUME IndexInv, NEW t \in Scanners, ScanLock(t)
  PROVE  [Promise!Next]_(Promise!vars)
<1> USE DEF IndexInv
<1> t \in Threads /\ t # None
  BY NoneAssumption DEF Threads
<1>1. PICK p \in Registered : p = pid[t]
  BY DEF ScanLock, ScanRoots
<1> p \in ProjectIds
  BY DEF Registered
<1>2. \A u \in Threads : u # t => pc'[u] = pc[u]
  BY DEF ScanLock, Finish, Goto, BaseInv, TypeOK
<1>3. pc[t] \notin Critical
  BY DEF ScanLock, Critical
<1>4. UNCHANGED <<StatusShown, IndexShown>>
  BY DEF ScanLock, dbVars, StatusShown, IndexShown, IndexedEntities, OwnRows
<1>5. CASE scanLock[pid[t]] # None
  <2>1. UNCHANGED scanLock
    BY <1>5 DEF ScanLock
  <2>2. \A q \in ProjectIds : ScanPhase(q)' = ScanPhase(q)
    BY <1>2, <1>3, <2>1, PhaseOfOthers
  <2>3. UNCHANGED ScanShown
    BY <2>2 DEF ScanShown
  <2>4. QED
    BY <1>4, <2>3 DEF Promise!vars, StatusShown, IndexShown, ScanShown
<1>6. CASE scanLock[pid[t]] = None
  <2>1. /\ scanLock' = [scanLock EXCEPT ![pid[t]] = t]
        /\ pc'[t] = "scan_parse"
    BY <1>6 DEF ScanLock, Goto, BaseInv, TypeOK
  <2>2. ScanPhase(p) = "free" /\ ScanPhase(p)' = "running"
    BY <1>1, <1>6, <2>1 DEF ScanPhase, BaseInv, TypeOK, ScanLock
  <2>3. ASSUME NEW q \in ProjectIds, q # p
        PROVE  ScanPhase(q)' = ScanPhase(q)
    <3>1. UNCHANGED scanLock[q]
      BY <1>1, <2>1, <2>3 DEF BaseInv, TypeOK
    <3>2. QED
      BY <1>2, <1>3, <3>1, PhaseOfOthers
  <2>4. ScanShown' = [ScanShown EXCEPT ![p] = "running"]
    BY <1>1, <2>2, <2>3 DEF ScanShown, ScanLock
  <2>5. Promise!Start(p)
    BY <1>1, <1>4, <2>2, <2>4 DEF Promise!Start, StatusShown, IndexShown,
       ScanShown, Registered, BaseInv, TypeOK, ProjectTable, Project, Status
  <2>6. QED
    BY <1>1, <2>5 DEF Promise!Next
<1>7. QED
  BY <1>5, <1>6

\* The commit of the transaction is Replace: of the scanned project's index
\* and status, and of no other's.
LEMMA CommitPromise ==
  ASSUME IndexInv, NEW t \in Scanners, ScanCommit(t)
  PROVE  [Promise!Next]_(Promise!vars)
<1> USE DEF IndexInv
<1> t \in Threads
  BY DEF Threads
<1>0. PICK p \in ProjectIds : p = pid[t]
  BY PhaseOfHolder DEF ScanCommit, Critical
<1> USE <1>0
<1>1. pid[t] = p /\ scanLock[p] = t /\ ScanShown[p] = "running"
  BY PhaseOfHolder DEF ScanCommit, Critical
<1>2. /\ p \in Registered
      /\ txn.projects = [projects EXCEPT ![p].status = "scanning"]
  BY DEF ScanCommit, BaseInv, TxnOwned, TxnSnapshot
<1>3. projects[p] \in Project
  BY <1>2 DEF BaseInv, TypeOK, ProjectTable, Registered
<1>4. projects' = [projects EXCEPT ![p].status = "ready"]
  BY <1>2, <1>3 DEF ScanCommit, BaseInv, TypeOK, ProjectTable, Registered,
     Project
<1>5. StatusShown' = [StatusShown EXCEPT ![p] = "ready"]
  <2>1. projects'[p].status = "ready" /\ projects'[p] \in Project
    BY <1>1, <1>3, <1>4 DEF Project, Status, BaseInv, TypeOK, ProjectTable
  <2>2. projects'[p] # None
    BY <2>1, NoneAssumption
  <2>3. \A q \in ProjectIds : q # p => projects'[q] = projects[q]
    BY <1>4 DEF BaseInv, TypeOK, ProjectTable
  <2>4. QED
    BY <1>1, <2>1, <2>2, <2>3 DEF StatusShown
<1>6. \E found \in SUBSET Entities :
        IndexShown' = [IndexShown EXCEPT ![p] = found]
  <2>1. ASSUME NEW q \in ProjectIds, q # p
        PROVE  IndexedEntities(rows, q)' = IndexedEntities(rows, q)
    <3>1. \A i \in RowIds :
            i \in OwnRows(rows, q) \/ i \in OwnRows(txn.rows, q) =>
              rows[i] = txn.rows[i]
      BY <2>1 DEF TxnRows, OwnRows, ScanCommit
    <3>2. QED
      BY <3>1 DEF IndexedEntities, OwnRows, ScanCommit
  <2>2. IndexedEntities(rows, p)' = parsed[t]
    BY DEF ScanCommit, IndexedEntities, OwnRows
  <2>3. parsed[t] \in SUBSET Entities
    BY DEF BaseInv, TypeOK
  <2>4. IndexShown' = [IndexShown EXCEPT ![p] = parsed[t]]
    BY <1>1, <2>1, <2>2 DEF IndexShown
  <2>5. QED
    BY <2>3, <2>4
<1>7. ScanShown' = [ScanShown EXCEPT ![p] = "done"]
  <2>1. /\ \A u \in Threads : u # t => pc'[u] = pc[u]
        /\ pc'[t] = "scan_release"
        /\ UNCHANGED scanLock
    BY DEF ScanCommit, Goto, BaseInv, TypeOK
  <2>2. \A q \in ProjectIds : q # p => ScanPhase(q)' = ScanPhase(q)
    BY <2>1, PhaseOfOthers
  <2>3. ScanPhase(p)' = "done"
    BY <1>1, <2>1, NoneAssumption DEF ScanPhase
  <2>4. QED
    BY <1>1, <2>2, <2>3 DEF ScanShown
<1>8. Promise!Replace(p)
  BY <1>1, <1>5, <1>6, <1>7 DEF Promise!Replace, StatusShown, IndexShown,
     ScanShown
<1>9. QED
  BY <1>1, <1>8 DEF Promise!Next

\* Recording a failure is Fail, whether or not the row could be written.
LEMMA FailPromise ==
  ASSUME IndexInv, NEW t \in Scanners, MarkFailed(t)
  PROVE  [Promise!Next]_(Promise!vars)
<1> USE DEF IndexInv
<1> t \in Threads
  BY DEF Threads
<1>0. PICK p \in ProjectIds : p = pid[t]
  BY PhaseOfHolder DEF MarkFailed, Critical
<1> USE <1>0
<1>1. pid[t] = p /\ scanLock[p] = t /\ ScanShown[p] = "running"
  BY PhaseOfHolder DEF MarkFailed, Critical
<1>2. \/ StatusShown' = [StatusShown EXCEPT ![p] = "failed"]
      \/ UNCHANGED StatusShown
  <2>1. CASE UNCHANGED projects
    BY <2>1 DEF StatusShown
  <2>2. CASE /\ pid[t] \in Registered
             /\ projects' = [projects EXCEPT ![pid[t]].status = "failed"]
    <3>1. projects[p] \in Project
      BY <2>2 DEF BaseInv, TypeOK, ProjectTable, Registered
    <3>2. projects'[p].status = "failed" /\ projects'[p] \in Project
      BY <1>1, <2>2, <3>1 DEF Project, Status, BaseInv, TypeOK, ProjectTable
    <3>3. projects'[p] # None
      BY <3>2, NoneAssumption
    <3>4. \A q \in ProjectIds : q # p => projects'[q] = projects[q]
      BY <2>2 DEF BaseInv, TypeOK, ProjectTable
    <3>5. QED
      BY <1>1, <3>2, <3>3, <3>4 DEF StatusShown
  <2>3. QED
    BY <2>1, <2>2 DEF MarkFailed
<1>3. UNCHANGED IndexShown
  BY DEF MarkFailed, IndexShown, IndexedEntities, OwnRows
<1>4. ScanShown' = [ScanShown EXCEPT ![p] = "done"]
  <2>1. /\ \A u \in Threads : u # t => pc'[u] = pc[u]
        /\ pc'[t] = "scan_release"
        /\ UNCHANGED scanLock
    BY DEF MarkFailed, Goto, BaseInv, TypeOK
  <2>2. \A q \in ProjectIds : q # p => ScanPhase(q)' = ScanPhase(q)
    BY <2>1, PhaseOfOthers
  <2>3. ScanPhase(p)' = "done"
    BY <1>1, <2>1, NoneAssumption DEF ScanPhase
  <2>4. QED
    BY <1>1, <2>2, <2>3 DEF ScanShown
<1>5. Promise!Fail(p)
  BY <1>1, <1>2, <1>3, <1>4 DEF Promise!Fail, StatusShown, IndexShown, ScanShown
<1>6. QED
  BY <1>1, <1>5 DEF Promise!Next

\* Releasing the lock is End.
LEMMA ReleasePromise ==
  ASSUME IndexInv, NEW t \in Scanners, ScanRelease(t)
  PROVE  [Promise!Next]_(Promise!vars)
<1> USE DEF IndexInv
<1> t \in Threads
  BY DEF Threads
<1>0. PICK p \in ProjectIds : p = pid[t]
  BY PhaseOfHolder DEF ScanRelease, Critical
<1> USE <1>0
<1>1. pid[t] = p /\ scanLock[p] = t /\ ScanShown[p] = "done"
  BY PhaseOfHolder DEF ScanRelease, Critical
<1>2. UNCHANGED <<StatusShown, IndexShown>>
  BY DEF ScanRelease, dbVars, StatusShown, IndexShown, IndexedEntities, OwnRows
<1>3. ScanShown' = [ScanShown EXCEPT ![p] = "free"]
  <2>1. /\ \A u \in Threads : u # t => pc'[u] = pc[u]
        /\ \A q \in ProjectIds : q # p => UNCHANGED scanLock[q]
        /\ scanLock'[p] = None
    BY <1>1 DEF ScanRelease, Finish, Goto, BaseInv, TypeOK
  <2>2. \A q \in ProjectIds : q # p => ScanPhase(q)' = ScanPhase(q)
    BY <2>1, PhaseOfOthers
  <2>3. ScanPhase(p)' = "free"
    BY <2>1 DEF ScanPhase
  <2>4. QED
    BY <1>1, <2>2, <2>3 DEF ScanShown
<1>4. Promise!End(p)
  BY <1>1, <1>2, <1>3 DEF Promise!End, StatusShown, IndexShown, ScanShown
<1>5. QED
  BY <1>1, <1>4 DEF Promise!Next

\* Without deletions every step of the threads is a step of the promise or
\* nothing that its reader can see.
LEMMA PromiseStep ==
  ASSUME Deleters = {}, IndexInv, [Next]_vars
  PROVE  [Promise!Next]_(Promise!vars)
<1> USE DEF IndexInv
<1>1. ASSUME UNCHANGED <<projects, rows, scanLock>>,
             \A t \in Scanners : pc[t] \in Critical =>
               (pc'[t] = "scan_release" <=> pc[t] = "scan_release")
      PROVE  [Promise!Next]_(Promise!vars)
  BY <1>1, StutterShown DEF Promise!vars, StatusShown, IndexShown, ScanShown
<1>2. ASSUME NEW t \in Creators, NEW r \in Roots, CreateCheck(t, r)
      PROVE  [Promise!Next]_(Promise!vars)
  BY <1>1, <1>2, ThreadAssumption DEF CreateCheck, Goto, dbVars, BaseInv,
     TypeOK, Threads
<1>3. ASSUME NEW t \in Creators, RequestError(t)
      PROVE  [Promise!Next]_(Promise!vars)
  BY <1>1, <1>3, ThreadAssumption DEF RequestError, Finish, Goto, dbVars,
     BaseInv, TypeOK, Threads
<1>4. ASSUME NEW t \in Scanners,
             \/ \E p \in ProjectIds : ScanOpen(t, p)
             \/ ScanParse(t) \/ ScanReplace(t) \/ ScanInsert(t) \/ ScanError(t)
      PROVE  [Promise!Next]_(Promise!vars)
  BY <1>1, <1>4 DEF ScanOpen, ScanParse, ScanReplace, ScanInsert, ScanError,
     Goto, dbVars, BaseInv, TypeOK, Threads, Critical
<1>5. ASSUME Restart
      PROVE  [Promise!Next]_(Promise!vars)
  <2>1. UNCHANGED <<StatusShown, IndexShown>>
    BY <1>5 DEF Restart, dbVars, StatusShown, IndexShown, IndexedEntities,
       OwnRows
  <2>2. ScanShown' = [p \in ProjectIds |-> "free"]
    BY <1>5 DEF Restart, ScanShown, ScanPhase
  <2>3. Promise!Restart
    BY <2>1, <2>2 DEF Promise!Restart, StatusShown, IndexShown, ScanShown
  <2>4. QED
    BY <2>3 DEF Promise!Next
<1>6. CASE UNCHANGED vars
  BY <1>1, <1>6 DEF vars, dbVars
<1>7. QED
  BY <1>2, <1>3, <1>4, <1>5, <1>6, CreatePromise, LockPromise, CommitPromise,
     FailPromise, ReleasePromise DEF Next, RegistryStep, ScanStep

\* While projects are registered and scanned, and whatever fails or restarts,
\* the server implements IndexPromise: a reader sees each project's index
\* change only as a whole, by a scan that succeeds, and one scan at a time.
THEOREM PromiseKept ==
  ASSUME Deleters = {}
  PROVE  Spec => ImplementsPromise
<1>1. Init => IndexInv
  BY InitBase DEF Init, IndexInv, ScanRoots, TxnRows, IndexWhole, NoOrphanRows,
     Registered, Whole, OneRoot, OwnRows, Critical, Threads
<1>2. IndexInv /\ [Next]_vars => IndexInv'
  BY IndexStep
<1>3. Init => Promise!Init
  BY DEF Init, Promise!Init, IndexedEntities, OwnRows, ScanPhase
<1>4. IndexInv /\ [Next]_vars => [Promise!Next]_(Promise!vars)
  BY PromiseStep
<1>5. QED
  BY <1>1, <1>2, <1>3, <1>4, PTL DEF Spec, ImplementsPromise, Promise!Spec

-----------------------------------------------------------------------------
(* The vector store beside them: VectorIndex                               *)


\* A build changes no table, and the deletion of a collection is the step
\* that the registry knows: what the vector store adds leaves the registry a
\* registry.
LEMMA VectorStepIsStep == VNext => [Next]_vars
<1>1. ASSUME NEW b \in Builders,
             (\E p \in ProjectIds : BuildOpen(b, p)) \/ BuildStep(b)
      PROVE  UNCHANGED vars
  BY <1>1 DEF BuildOpen, BuildStep, BuildRead, BuildEmbed, BuildDrop,
     BuildCreate, BuildUpsert, BuildError
<1>2. QED
  BY <1>1 DEF VNext, Next, DropCollection, VRestart

\* The composition implements the registry, so what is proved of the registry
\* holds beside builds of any kind, deletions at any moment included.
THEOREM VectorImplementsRegistry == VInit /\ [][VNext]_allVars => Spec
<1>1. VInit => Init
  BY DEF VInit
<1>2. [VNext]_allVars => [Next]_vars
  BY VectorStepIsStep DEF allVars
<1>3. QED
  BY <1>1, <1>2, PTL DEF Spec

-----------------------------------------------------------------------------
(* Deletions that nobody works beside                                      *)
(*                                                                         *)
(* A deletion alone finds all the children it has to delete, no scan       *)
(* writes rows for a project that is going away, and no build creates its  *)
(* collection again.                                                       *)

BuildLabels == {"idle", "build_read", "build_embed", "build_drop",
                "build_create", "build_upsert"}

BuildLocals ==
  /\ bpc \in [Builders -> BuildLabels]
  /\ bpid \in [Builders -> ProjectIds \cup {None}]
  /\ collection = [p \in ProjectIds |-> collection[p]]
  /\ \A b \in Builders : bpc[b] # "idle" => bpid[b] \in Registered

\* What a deletion loaded is still all there is when it commits.
DeletesAll ==
  \A t \in Deleters :
    pc[t] = "delete_commit" => loaded[t] = OwnRows(rows, pid[t])

\* A collection has its project, which is not about to lose it.
CollectionsOwned ==
  \A p \in ProjectIds : HasCollection(p) =>
    /\ p \in Registered
    /\ \A t \in Deleters :
         pc[t] \in {"delete_load", "delete_commit"} => pid[t] # p

QuietInv ==
  /\ IndexInv
  /\ DeletionAlone
  /\ BuildLocals
  /\ DeletesAll
  /\ CollectionsOwned

\* While a deletion is at work, every other thread is idle.
LEMMA OthersIdle ==
  ASSUME DeletionAlone, NEW t \in Deleters, pc[t] # "idle"
  PROVE  /\ \A u \in Threads : u # t => pc[u] = "idle"
         /\ \A b \in Builders : bpc[b] = "idle"
<1>1. Busy = {t}
  BY DEF DeletionAlone, Busy, Threads
<1>2. QED
  BY <1>1, BuilderAssumption DEF Busy, Threads

\* The same after the step.
LEMMA OthersIdleNext ==
  ASSUME DeletionAlone', NEW t \in Deleters, pc'[t] # "idle"
  PROVE  /\ \A u \in Threads : u # t => pc'[u] = "idle"
         /\ \A b \in Builders : bpc'[b] = "idle"
<1>1. Busy' = {t}
  BY DEF DeletionAlone, Busy, Threads
<1>2. QED
  BY <1>1, BuilderAssumption DEF Busy, Threads

\* A deletion that is alone takes a project with all its rows, and no others.
LEMMA DeleterIndex ==
  ASSUME QuietInv, BaseInv', DeletionAlone',
         NEW t \in Deleters, DeleterStep(t)
  PROVE  IndexInv'
<1> USE DEF QuietInv, IndexInv
<1> t \in Threads /\ t \notin Scanners
  BY ThreadAssumption DEF Threads
<1>1. \A u \in Threads : u # t => pc'[u] = pc[u]
  BY DEF DeleterStep, DeleteOpen, DeleteCollection, DeleteLoad, DeleteCommit,
     RequestError, Finish, Goto, BaseInv, TypeOK
<1>2. \A u \in Scanners : pc'[u] = "idle"
  <2>1. CASE pc[t] # "idle"
    BY <1>1, <2>1, OthersIdle DEF Threads
  <2>2. CASE pc[t] = "idle"
    <3>1. pc'[t] # "idle"
      BY <2>2 DEF DeleterStep, DeleteOpen, DeleteCollection, DeleteLoad,
         DeleteCommit, RequestError, Goto, BaseInv, TypeOK
    <3>2. QED
      BY <3>1, OthersIdleNext DEF Threads
  <2>3. QED
    BY <2>1, <2>2
<1>3. ScanRoots' /\ TxnRows'
  BY <1>2 DEF ScanRoots, TxnRows, Critical
<1>4. IndexWhole' /\ NoOrphanRows'
  <2>1. CASE UNCHANGED dbVars
    BY <2>1 DEF dbVars, IndexWhole, NoOrphanRows, Registered, Whole, OneRoot,
       OwnRows, IndexedEntities
  <2>2. CASE DeleteCommit(t)
    <3>1. PICK d \in ProjectIds : d = pid[t]
      BY <2>2 DEF DeleteCommit, BaseInv, Locals
    <3>2. rows' = [i \in RowIds |-> IF i \in OwnRows(rows, d) THEN None ELSE rows[i]]
      BY <2>2, <3>1 DEF DeleteCommit, DeletesAll
    <3>3. projects' = [projects EXCEPT ![d] = None]
      BY <2>2, <3>1 DEF DeleteCommit
    <3>4. Registered' = Registered \ {d}
      BY <3>1, <3>3 DEF Registered, BaseInv, TypeOK, ProjectTable
    <3>5. NoOrphanRows'
      BY <3>2, <3>4 DEF NoOrphanRows, OwnRows
    <3>6. ASSUME NEW p \in Registered, p # d
          PROVE  /\ Whole(rows', p) /\ OneRoot(rows', p, projects[p].root)
                 /\ projects'[p] = projects[p]
      <4>1. \A i \in RowIds :
              i \in OwnRows(rows, p) \/ i \in OwnRows(rows', p) => rows[i] = rows'[i]
        BY <3>2, <3>6 DEF OwnRows
      <4>2. Whole(rows, p) /\ OneRoot(rows, p, projects[p].root)
        BY <3>6 DEF IndexWhole
      <4>3. Whole(rows', p) /\ OneRoot(rows', p, projects[p].root)
        BY <4>1, <4>2, SameRows
      <4>4. QED
        BY <3>3, <3>6, <4>3 DEF Registered, BaseInv, TypeOK, ProjectTable
    <3>7. QED
      BY <3>4, <3>5, <3>6 DEF IndexWhole
  <2>3. QED
    BY <2>1, <2>2 DEF DeleterStep, DeleteOpen, DeleteCollection, DeleteLoad,
       RequestError
<1>5. QED
  BY <1>3, <1>4

\* What a step does to the registered projects: only a committing deletion
\* unregisters one, its own.
LEMMA StillRegistered ==
  ASSUME IndexInv, [Next]_vars, NEW p \in Registered,
         \A t \in Deleters : DeleteCommit(t) => pid[t] # p
  PROVE  p \in Registered'
<1> USE DEF IndexInv
<1>1. CASE UNCHANGED projects
  BY <1>1 DEF Registered
<1>2. ASSUME NEW t \in Creators, CreateWrite(t)
      PROVE  p \in Registered'
  <2>1. CASE UNCHANGED projects
    BY <2>1 DEF Registered
  <2>2. ASSUME NEW q \in NextId(ProjectIds, Registered),
               projects' = [projects EXCEPT
                 ![q] = [root |-> root[t], status |-> "created"]]
        PROVE  p \in Registered'
    <3>1. q # p
      BY <2>2, NextIdFresh, IdAssumption DEF Registered
    <3>2. QED
      BY <2>2, <3>1 DEF Registered, BaseInv, TypeOK, ProjectTable
  <2>3. QED
    BY <1>2, <2>1, <2>2 DEF CreateWrite
<1>3. ASSUME NEW t \in Scanners, ScanCommit(t)
      PROVE  p \in Registered'
  <2>1. /\ pid[t] \in Registered
        /\ txn.projects = [projects EXCEPT ![pid[t]].status = "scanning"]
    BY <1>3 DEF ScanCommit, BaseInv, TxnOwned, TxnSnapshot, Threads
  <2>2. projects[pid[t]] \in Project
    BY <2>1 DEF BaseInv, TypeOK, ProjectTable, Registered
  <2>3. projects' = [projects EXCEPT ![pid[t]].status = "ready"]
    BY <1>3, <2>1, <2>2 DEF ScanCommit, BaseInv, TypeOK, ProjectTable,
       Registered, Project
  <2>4. QED
    BY <2>1, <2>3, StatusChange DEF Status
<1>4. ASSUME NEW t \in Scanners, MarkFailed(t)
      PROVE  p \in Registered'
  <2>1. CASE UNCHANGED projects
    BY <1>1, <2>1
  <2>2. CASE /\ pid[t] \in Registered
             /\ projects' = [projects EXCEPT ![pid[t]].status = "failed"]
    BY <2>2, StatusChange DEF Status
  <2>3. QED
    BY <1>4, <2>1, <2>2 DEF MarkFailed
<1>5. ASSUME NEW t \in Deleters, DeleteCommit(t)
      PROVE  p \in Registered'
  BY <1>5 DEF DeleteCommit, Registered, BaseInv, TypeOK, ProjectTable
<1>6. QED
  <2>1. UNCHANGED projects \/ (\E t \in Creators : CreateWrite(t))
          \/ (\E t \in Scanners : ScanCommit(t) \/ MarkFailed(t))
          \/ (\E t \in Deleters : DeleteCommit(t))
    BY DEF Next, RegistryStep, ScanStep, vars, dbVars, CreateCheck, ScanOpen,
       ScanLock, ScanParse, ScanReplace, ScanInsert, ScanError, ScanRelease,
       DeleteOpen, DeleteCollection, DeleteLoad, RequestError, Restart
  <2>2. QED
    BY <1>1, <1>2, <1>3, <1>4, <1>5, <2>1

\* A build works for a project that is there, from its first step on.
LEMMA BuildLocalsStep ==
  ASSUME QuietInv, VNext, DeletionAlone'
  PROVE  BuildLocals'
<1> USE DEF QuietInv, BuildLocals
<1>1. [Next]_vars
  BY VectorStepIsStep
<1>2. /\ bpc' \in [Builders -> BuildLabels]
      /\ bpid' \in [Builders -> ProjectIds \cup {None}]
      /\ collection' = [p \in ProjectIds |-> collection'[p]]
  <2>1. CASE UNCHANGED vectorVars
    BY <2>1 DEF vectorVars
  <2>2. ASSUME NEW t \in Deleters, DropCollection(t)
        PROVE  <1>2!1 /\ <1>2!2 /\ <1>2!3
    BY <2>2 DEF DropCollection
  <2>3. ASSUME NEW b \in Builders, NEW p \in ProjectIds, BuildOpen(b, p)
        PROVE  <1>2!1 /\ <1>2!2 /\ <1>2!3
    BY <2>3 DEF BuildOpen, BuildGoto, BuildLabels
  <2>4. ASSUME NEW b \in Builders, BuildStep(b)
        PROVE  <1>2!1 /\ <1>2!2 /\ <1>2!3
    <3>1. /\ bpc' \in [Builders -> BuildLabels]
          /\ bpid' \in [Builders -> ProjectIds \cup {None}]
      BY <2>4 DEF BuildStep, BuildRead, BuildEmbed, BuildDrop, BuildCreate,
         BuildUpsert, BuildError, BuildFinish, BuildGoto, BuildLabels
    <3>2. collection' = [p \in ProjectIds |-> collection'[p]]
      BY <2>4 DEF BuildStep, BuildRead, BuildEmbed, BuildDrop, BuildCreate,
         BuildUpsert, BuildError
    <3>3. QED
      BY <3>1, <3>2
  <2>5. CASE VRestart
    BY <2>5 DEF VRestart, BuildLabels
  <2>6. QED
    BY <2>1, <2>2, <2>3, <2>4, <2>5 DEF VNext
<1>3. ASSUME NEW b \in Builders, bpc'[b] # "idle"
      PROVE  bpid'[b] \in Registered'
  <2>1. bpid'[b] \in Registered
    <3>1. CASE UNCHANGED vectorVars
      BY <1>3, <3>1 DEF vectorVars
    <3>2. ASSUME NEW t \in Deleters, DropCollection(t)
          PROVE  bpid'[b] \in Registered
      BY <1>3, <3>2 DEF DropCollection
    <3>3. ASSUME NEW c \in Builders, NEW p \in ProjectIds, BuildOpen(c, p)
          PROVE  bpid'[b] \in Registered
      BY <1>3, <3>3 DEF BuildOpen, BuildGoto
    <3>4. ASSUME NEW c \in Builders, BuildStep(c)
          PROVE  bpid'[b] \in Registered
      <4>1. bpc[c] # "idle"
        BY <3>4 DEF BuildStep, BuildRead, BuildEmbed, BuildDrop, BuildCreate,
           BuildUpsert, BuildError
      <4>2. CASE b # c
        BY <1>3, <3>4, <4>2 DEF BuildStep, BuildRead, BuildEmbed, BuildDrop,
           BuildCreate, BuildUpsert, BuildError, BuildFinish, BuildGoto
      <4>3. CASE b = c
        BY <1>3, <3>4, <4>1, <4>3 DEF BuildStep, BuildRead, BuildEmbed,
           BuildDrop, BuildCreate, BuildUpsert, BuildError, BuildFinish,
           BuildGoto
      <4>4. QED
        BY <4>2, <4>3
    <3>5. CASE VRestart
      BY <1>3, <3>5 DEF VRestart
    <3>6. QED
      BY <3>1, <3>2, <3>3, <3>4, <3>5 DEF VNext
  <2>2. \A t \in Deleters : ~DeleteCommit(t)
    <3> SUFFICES ASSUME NEW t \in Deleters, DeleteCommit(t)
                 PROVE  FALSE
      OBVIOUS
    <3>1. bpc[b] = "idle"
      BY OthersIdle DEF DeleteCommit
    <3>2. UNCHANGED bpc
      <4>1. pc[t] = "delete_commit" /\ pc'[t] = "idle" /\ t \in Threads
        BY DEF DeleteCommit, Finish, Goto, IndexInv, BaseInv, TypeOK, Threads
      <4>2. CASE UNCHANGED vectorVars
        BY <4>2 DEF vectorVars
      <4>3. ASSUME NEW u \in Deleters, DropCollection(u)
            PROVE  UNCHANGED bpc
        BY <4>3 DEF DropCollection
      <4>4. ASSUME NEW c \in Builders,
                   (\E p \in ProjectIds : BuildOpen(c, p)) \/ BuildStep(c)
            PROVE  FALSE
        <5>1. UNCHANGED pc
          BY <4>4 DEF BuildOpen, BuildStep, BuildRead, BuildEmbed, BuildDrop,
             BuildCreate, BuildUpsert, BuildError, vars
        <5>2. QED
          BY <4>1, <5>1
      <4>5. CASE VRestart
        <5>1. \A c \in Builders : bpc[c] = "idle"
          BY <4>1, OthersIdle
        <5>2. QED
          BY <4>5, <5>1 DEF VRestart
      <4>6. QED
        BY <4>2, <4>3, <4>4, <4>5 DEF VNext
    <3>3. QED
      BY <1>3, <3>1, <3>2
  <2>3. QED
    BY <1>1, <2>1, <2>2, StillRegistered
<1>4. QED
  BY <1>2, <1>3

\* Beside a deletion at work nothing that matters to it changes but by itself.
LEMMA NothingBeside ==
  ASSUME QuietInv, VNext, DeletionAlone',
         NEW t \in Deleters, pc'[t] # "idle", ~DeleterStep(t)
  PROVE  UNCHANGED <<rows, collection, pc[t], pid[t], loaded[t]>>
<1> USE DEF QuietInv, IndexInv, BaseInv
<1> t \in Threads /\ t \notin Scanners /\ t \notin Creators
  BY ThreadAssumption DEF Threads
<1>1. pc[t] # "idle"
  <2>1. ASSUME NEW u \in Threads, u # t,
               \/ \E r \in Roots : CreateCheck(u, r)
               \/ CreateWrite(u)
               \/ \E p \in ProjectIds : ScanOpen(u, p)
               \/ ScanStep(u) \/ DeleterStep(u)
        PROVE  UNCHANGED pc[t]
    BY <2>1 DEF CreateCheck, CreateWrite, ScanOpen, ScanStep, ScanLock,
       ScanParse, ScanReplace, ScanInsert, ScanCommit, ScanError, MarkFailed,
       ScanRelease, DeleterStep, DeleteOpen, DeleteCollection, DeleteLoad,
       DeleteCommit, RequestError, Finish, Goto, TypeOK
  <2>2. ASSUME NEW u \in Creators, RequestError(u)
        PROVE  UNCHANGED pc[t]
    BY <2>2 DEF RequestError, Finish, Goto, TypeOK, Threads
  <2>3. ASSUME NEW b \in Builders,
               (\E p \in ProjectIds : BuildOpen(b, p)) \/ BuildStep(b)
        PROVE  UNCHANGED pc[t]
    BY <2>3 DEF BuildOpen, BuildStep, BuildRead, BuildEmbed, BuildDrop,
       BuildCreate, BuildUpsert, BuildError, vars
  <2>4. CASE VRestart
    BY <2>4 DEF VRestart, Restart
  <2>5. QED
    BY <2>1, <2>2, <2>3, <2>4 DEF VNext, RegistryStep, DropCollection,
       DeleterStep, Threads
<1>2. /\ \A u \in Threads : u # t => pc[u] = "idle"
      /\ \A b \in Builders : bpc[b] = "idle"
  BY <1>1, OthersIdle
<1>3. ASSUME NEW u \in Creators,
             (\E r \in Roots : CreateCheck(u, r)) \/ CreateWrite(u),
             UNCHANGED vectorVars
      PROVE  UNCHANGED <<rows, collection, pc[t], pid[t], loaded[t]>>
  BY <1>2, <1>3 DEF CreateCheck, CreateWrite, Goto, dbVars, vectorVars, TypeOK,
     Threads
<1>4. ASSUME NEW u \in Scanners,
             (\E p \in ProjectIds : ScanOpen(u, p)) \/ ScanStep(u),
             UNCHANGED vectorVars
      PROVE  UNCHANGED <<rows, collection, pc[t], pid[t], loaded[t]>>
  <2>1. pc[u] = "idle"
    BY <1>2 DEF Threads
  <2>2. PICK p \in ProjectIds : ScanOpen(u, p)
    BY <1>4, <2>1 DEF ScanStep, ScanLock, ScanParse, ScanReplace, ScanInsert,
       ScanCommit, ScanError, MarkFailed, ScanRelease
  <2>3. QED
    BY <1>4, <2>2 DEF ScanOpen, Goto, dbVars, vectorVars, TypeOK, Threads
<1>5. ASSUME NEW u \in Deleters, u # t, DeleterStep(u),
             DropCollection(u) \/ UNCHANGED vectorVars
      PROVE  UNCHANGED <<rows, collection, pc[t], pid[t], loaded[t]>>
  <2>1. pc[u] = "idle" /\ u \in Threads
    BY <1>2, <1>5 DEF Threads
  <2>2. PICK p \in ProjectIds : DeleteOpen(u, p)
    BY <1>5, <2>1 DEF DeleterStep, DeleteCollection, DeleteLoad, DeleteCommit,
       RequestError
  <2>3. QED
    BY <1>5, <2>1, <2>2 DEF DeleteOpen, DropCollection, DeleteCollection, Goto,
       dbVars, vectorVars, TypeOK
<1>6. ASSUME NEW u \in Creators, RequestError(u), UNCHANGED vectorVars
      PROVE  UNCHANGED <<rows, collection, pc[t], pid[t], loaded[t]>>
  BY <1>2, <1>6 DEF RequestError, Threads
<1>7. ASSUME NEW b \in Builders,
             (\E p \in ProjectIds : BuildOpen(b, p)) \/ BuildStep(b)
      PROVE  UNCHANGED <<rows, collection, pc[t], pid[t], loaded[t]>>
  <2>1. PICK p \in ProjectIds : BuildOpen(b, p)
    BY <1>2, <1>7 DEF BuildStep, BuildRead, BuildEmbed, BuildDrop, BuildCreate,
       BuildUpsert, BuildError
  <2>2. QED
    BY <2>1 DEF BuildOpen, vars
<1>8. CASE VRestart
  BY <1>8 DEF VRestart, Restart
<1>9. QED
  BY <1>3, <1>4, <1>5, <1>6, <1>7, <1>8 DEF VNext, RegistryStep,
     DropCollection, DeleterStep

\* A deletion that is alone deletes all that it found.
LEMMA DeletesAllStep ==
  ASSUME QuietInv, VNext, DeletionAlone'
  PROVE  DeletesAll'
<1> SUFFICES ASSUME NEW t \in Deleters, pc'[t] = "delete_commit"
             PROVE  loaded'[t] = OwnRows(rows', pid'[t])
  BY DEF DeletesAll
<1> t \in Threads
  BY DEF Threads
<1>1. CASE DeleterStep(t)
  <2>1. DeleteLoad(t)
    BY <1>1 DEF DeleterStep, DeleteOpen, DeleteCollection, DeleteCommit,
       RequestError, Finish, Goto, QuietInv, IndexInv, BaseInv, TypeOK
  <2>2. QED
    BY <2>1 DEF DeleteLoad, dbVars, OwnRows, QuietInv, IndexInv, BaseInv, TypeOK
<1>2. CASE ~DeleterStep(t)
  BY <1>2, NothingBeside DEF QuietInv, DeletesAll, OwnRows
<1>3. QED
  BY <1>1, <1>2

\* A collection is created by a build, beside which there is no deletion, and
\* goes before its project does.
LEMMA CollectionsOwnedStep ==
  ASSUME QuietInv, VNext, DeletionAlone'
  PROVE  CollectionsOwned'
<1> SUFFICES ASSUME NEW p \in ProjectIds, HasCollection(p)'
             PROVE  /\ p \in Registered'
                    /\ \A t \in Deleters :
                         pc'[t] \in {"delete_load", "delete_commit"} => pid'[t] # p
  BY DEF CollectionsOwned
<1> USE DEF QuietInv, BuildLocals
<1>1. [Next]_vars
  BY VectorStepIsStep
<1>2. CASE HasCollection(p)
  <2>1. /\ p \in Registered
        /\ \A t \in Deleters :
             pc[t] \in {"delete_load", "delete_commit"} => pid[t] # p
    BY <1>2 DEF CollectionsOwned
  <2>2. \A t \in Deleters : DeleteCommit(t) => pid[t] # p
    BY <2>1 DEF DeleteCommit
  <2>3. p \in Registered'
    BY <1>1, <2>1, <2>2, StillRegistered
  <2>4. ASSUME NEW t \in Deleters, pc'[t] \in {"delete_load", "delete_commit"}
        PROVE  pid'[t] # p
    <3> t \in Threads
      BY DEF Threads
    <3>1. CASE ~DeleterStep(t)
      BY <2>1, <2>4, <3>1, NothingBeside
    <3>2. CASE DeleterStep(t)
      <4>1. DeleteLoad(t) \/ DeleteCollection(t)
        BY <2>4, <3>2 DEF DeleterStep, DeleteOpen, DeleteCommit, RequestError,
           Finish, Goto, IndexInv, BaseInv, TypeOK
      <4>2. CASE DeleteLoad(t)
        BY <2>1, <4>2 DEF DeleteLoad
      <4>3. CASE DeleteCollection(t)
        <5>1. pc'[t] # pc[t] /\ pc[t] = "delete_collection" /\ UNCHANGED pid
          BY <4>3 DEF DeleteCollection, Goto, IndexInv, BaseInv, TypeOK
        <5>2. DropCollection(t)
          <6>1. ~RegistryStep
            <7>1. \A u \in Threads : u # t => pc[u] = "idle"
              BY <5>1, OthersIdle
            <7>2. \A u \in Threads : u # t => pc'[u] = "idle"
              BY <2>4, OthersIdleNext
            <7>3. ASSUME NEW u \in Threads, u # t, pc'[u] # pc[u]
                  PROVE  FALSE
              BY <7>1, <7>2, <7>3
            <7>4. pc'[t] = "delete_load"
              BY <4>3 DEF DeleteCollection, Goto, IndexInv, BaseInv, TypeOK
            <7>5. ASSUME NEW u \in Creators,
                         \/ \E r \in Roots : CreateCheck(u, r)
                         \/ CreateWrite(u) \/ RequestError(u)
                  PROVE  FALSE
              BY <5>1, <7>5, ThreadAssumption DEF CreateCheck, CreateWrite,
                 RequestError, Finish, Goto, IndexInv, BaseInv, TypeOK, Threads
            <7>6. ASSUME NEW u \in Scanners,
                         (\E q \in ProjectIds : ScanOpen(u, q)) \/ ScanStep(u)
                  PROVE  FALSE
              BY <5>1, <7>6, ThreadAssumption DEF ScanOpen, ScanStep, ScanLock,
                 ScanParse, ScanReplace, ScanInsert, ScanCommit, ScanError,
                 MarkFailed, ScanRelease, Finish, Goto, IndexInv, BaseInv,
                 TypeOK, Threads
            <7>7. ASSUME NEW u \in Deleters,
                         \/ \E q \in ProjectIds : DeleteOpen(u, q)
                         \/ DeleteLoad(u) \/ DeleteCommit(u) \/ RequestError(u)
                  PROVE  FALSE
              BY <5>1, <7>4, <7>7 DEF DeleteOpen, DeleteLoad, DeleteCommit,
                 RequestError, Finish, Goto, IndexInv, BaseInv, TypeOK, Threads
            <7>8. QED
              BY <7>5, <7>6, <7>7 DEF RegistryStep
          <6>2. ~ \E b \in Builders :
                    (\E q \in ProjectIds : BuildOpen(b, q)) \/ BuildStep(b)
            BY <5>1 DEF BuildOpen, BuildStep, BuildRead, BuildEmbed, BuildDrop,
               BuildCreate, BuildUpsert, BuildError, vars
          <6>3. ~VRestart
            BY <2>4 DEF VRestart, Restart
          <6>4. PICK u \in Deleters : DropCollection(u)
            BY <6>1, <6>2, <6>3 DEF VNext
          <6>5. u = t
            BY <5>1, <6>4 DEF DropCollection, DeleteCollection, Goto, IndexInv,
               BaseInv, TypeOK, Threads
          <6>6. QED
            BY <6>4, <6>5
        <5>3. CASE pid[t] = p
          BY <5>2, <5>3 DEF DropCollection, HasCollection
        <5>4. QED
          BY <5>1, <5>3
      <4>4. QED
        BY <4>1, <4>2, <4>3
    <3>3. QED
      BY <3>1, <3>2
  <2>5. QED
    BY <2>3, <2>4
<1>3. CASE ~HasCollection(p)
  <2>1. PICK b \in Builders : BuildStep(b)
    BY <1>3 DEF VNext, vectorVars, DropCollection, VRestart, BuildOpen,
       HasCollection
  <2>2. bpc[b] # "idle" /\ UNCHANGED vars
    BY <2>1 DEF BuildStep, BuildRead, BuildEmbed, BuildDrop, BuildCreate,
       BuildUpsert, BuildError
  <2>3. p = bpid[b]
    BY <1>3, <2>1 DEF BuildStep, BuildRead, BuildEmbed, BuildDrop, BuildCreate,
       BuildUpsert, BuildError, HasCollection
  <2>4. \A t \in Deleters : pc[t] = "idle"
    BY <2>2, OthersIdle
  <2>5. QED
    BY <2>2, <2>3, <2>4 DEF vars, Registered
<1>4. QED
  BY <1>2, <1>3

\* Every step keeps the invariant, as long as deletions stay alone.
LEMMA QuietStep == ASSUME QuietInv, [VNext /\ DeletionAlone']_allVars PROVE QuietInv'
<1>1. CASE VNext /\ DeletionAlone'
  <2>1. [Next]_vars
    BY <1>1, VectorStepIsStep
  <2>2. BaseInv'
    BY <2>1, StepBase DEF QuietInv, IndexInv
  <2>3. IndexInv'
    BY <1>1, <2>1, <2>2, DeleterIndex, IndexStep DEF QuietInv
  <2>4. QED
    BY <1>1, <2>3, BuildLocalsStep, DeletesAllStep, CollectionsOwnedStep
       DEF QuietInv
<1>2. CASE UNCHANGED allVars
  <2>1. IndexInv'
    <3>1. BaseInv'
      BY <1>2, StepBase DEF QuietInv, IndexInv, allVars
    <3>2. QED
      BY <1>2, <3>1, QuietIndex DEF allVars, vars, QuietInv, IndexInv,
         ScanRoots, Registered
  <2>2. QED
    BY <1>2, <2>1 DEF allVars, vars, vectorVars, QuietInv, DeletionAlone, Busy,
       BuildLocals, DeletesAll, OwnRows, CollectionsOwned, HasCollection,
       Registered
<1>3. QED
  BY <1>1, <1>2

\* The quiet invariant is inductive.
THEOREM QuietSafe == QuietSpec => []QuietInv
<1>1. VInit => QuietInv
  BY InitBase DEF VInit, Init, QuietInv, IndexInv, ScanRoots, TxnRows,
     IndexWhole, NoOrphanRows, Registered, Whole, OneRoot, OwnRows, Critical,
     Threads, DeletionAlone, Busy, BuildLocals, BuildLabels, DeletesAll,
     CollectionsOwned, HasCollection
<1>2. QED
  BY <1>1, QuietStep, PTL DEF QuietSpec

\* With deletions that nobody works beside, and builds and scans that overlap
\* as they like, a reader still finds whole indexes only, and a deletion
\* leaves no row behind, whatever ids are given out again.
THEOREM QuietIndexWhole == QuietSpec => [](IndexWhole /\ NoOrphanRows)
<1>1. QuietInv => IndexWhole /\ NoOrphanRows
  BY DEF QuietInv, IndexInv
<1>2. QED
  BY <1>1, QuietSafe, PTL

\* No collection outlives its project in such a history, for any number of
\* builds, failures and restarts in any of their calls.
THEOREM NoCollectionLeft == QuietSpec => []NoOrphanCollection
<1>1. QuietInv => NoOrphanCollection
  BY DEF QuietInv, CollectionsOwned, NoOrphanCollection
<1>2. QED
  BY <1>1, QuietSafe, PTL

-----------------------------------------------------------------------------
(* The embedding service                                                   *)

\* Sorted by index, a reply is what it kept of its batch, in the order of the
\* batch, in whatever order it came.
LEMMA ReplyInOrder ==
  ASSUME NEW T, NEW batch \in Seq(T), NEW K \in SUBSET DOMAIN batch,
         NEW reply \in SetToSeqs({[index |-> i, text |-> batch[i]] : i \in K})
  PROVE  InOrder(reply) = SubSequence(batch, K)
<1> DEFINE S == {[index |-> i, text |-> batch[i]] : i \in K}
           n == Cardinality(K)
           f == [i \in K |-> [index |-> i, text |-> batch[i]]]
<1>1. K \in SUBSET Nat /\ IsFiniteSet(K)
  <2>1. DOMAIN batch = 1..Len(batch) /\ Len(batch) \in Nat
    OBVIOUS
  <2>2. IsFiniteSet(1..Len(batch))
    BY <2>1, FS_Interval
  <2>3. QED
    BY <2>1, <2>2, FS_Subset
<1>2. f \in Bijection(K, S)
  <2>1. f \in [K -> S] /\ (\A x \in S : \E i \in K : f[i] = x)
    OBVIOUS
  <2>2. ASSUME NEW i \in K, NEW j \in K, f[i] = f[j]
        PROVE  i = j
    <3>1. f[i].index = i /\ f[j].index = j
      OBVIOUS
    <3>2. QED
      BY <2>2, <3>1
  <2> HIDE DEF f, S
  <2>3. QED
    BY <2>1, <2>2 DEF Bijection, Injection, IsInjective, Surjection
<1>3. IsFiniteSet(S) /\ Cardinality(S) = n
  <2> HIDE DEF f, S
  <2>1. ExistsBijection(K, S)
    BY <1>2 DEF ExistsBijection
  <2>2. QED
    BY <1>1, <2>1, FS_Bijection
<1>4. n \in Nat /\ IsFiniteSet(1..n) /\ Cardinality(1..n) = n
  <2>1. n \in Nat
    BY <1>1, FS_CardinalityType
  <2> HIDE DEF n
  <2>2. QED
    BY <2>1, FS_Interval
<1>5. reply \in Injection(1..n, S)
  <2>1. reply \in [1..n -> S] /\ \A i, j \in 1..n : i # j => reply[i] # reply[j]
    BY <1>3 DEF SetToSeqs
  <2> HIDE DEF n, S
  <2>2. QED
    BY <2>1 DEF Injection, IsInjective
<1>6. reply \in [1..n -> S] /\ DOMAIN reply = 1..n /\ \A x \in S : \E k \in 1..n : reply[k] = x
  <2> HIDE DEF n, S
  <2>1. reply \in Surjection(1..n, S)
    BY <1>3, <1>4, <1>5, FS_Injection
  <2>2. reply \in [1..n -> S]
    BY <1>5 DEF Injection
  <2>3. \A x \in S : \E k \in 1..n : reply[k] = x
    BY <2>1 DEF Surjection
  <2>4. QED
    BY <2>2, <2>3
<1>7. {reply[i].index : i \in DOMAIN reply} = K
  <2>1. \A x \in S : x.index \in K
    OBVIOUS
  <2>2. ASSUME NEW i \in K
        PROVE  \E x \in S : x.index = i
    <3>1. [index |-> i, text |-> batch[i]] \in S /\ [index |-> i, text |-> batch[i]].index = i
      OBVIOUS
    <3> HIDE DEF S
    <3>2. QED
      BY <3>1
  <2> HIDE DEF n, S
  <2>3. QED
    BY <1>6, <2>1, <2>2
<1>8. ASSUME NEW k \in 1..n
      PROVE  reply[CHOOSE i \in DOMAIN reply : reply[i].index = Ascending(K)[k]].text
               = batch[Ascending(K)[k]]
  <2>1. PICK j \in K : j = Ascending(K)[k]
    BY <1>1, AscendingOrder
  <2>2. [index |-> j, text |-> batch[j]] \in S
    OBVIOUS
  <2>3. \E i \in DOMAIN reply : reply[i] = [index |-> j, text |-> batch[j]]
    BY <1>6, <2>2
  <2>4. \E i \in DOMAIN reply : reply[i].index = j
    BY <2>3
  <2>5. PICK i \in DOMAIN reply : /\ i = CHOOSE m \in DOMAIN reply : reply[m].index = j
                                  /\ reply[i].index = j
    BY <2>4
  <2>6. \A x \in S : x.index = j => x.text = batch[j]
    OBVIOUS
  <2> HIDE DEF n, S
  <2>7. reply[i] \in S
    BY <1>6
  <2>8. reply[i].text = batch[j]
    BY <2>5, <2>6, <2>7
  <2>9. QED
    BY <2>1, <2>5, <2>8
<1>9. InOrder(reply) = [k \in 1..n |-> batch[Ascending(K)[k]]]
  <2> DEFINE Text(k) ==
        reply[CHOOSE i \in DOMAIN reply : reply[i].index = Ascending(K)[k]].text
  <2>1. InOrder(reply) = [k \in DOMAIN reply |-> Text(k)]
    <3> DEFINE I == {reply[i].index : i \in DOMAIN reply}
    <3>1. InOrder(reply) = [k \in DOMAIN reply |->
            reply[CHOOSE i \in DOMAIN reply : reply[i].index = Ascending(I)[k]].text]
      BY DEF InOrder
    <3>2. I = K
      BY <1>7
    <3> HIDE DEF I
    <3>3. QED
      BY <3>1, <3>2
  <2>2. \A k \in 1..n : Text(k) = batch[Ascending(K)[k]]
    BY <1>8
  <2>3. DOMAIN reply = 1..n
    BY <1>6
  <2> HIDE DEF Text, n
  <2>4. QED
    BY <2>1, <2>2, <2>3
<1>10. QED
  BY <1>9 DEF SubSequence

\* The batches cover all places, and none of them is empty.
LEMMA BatchCount ==
  ASSUME NEW L \in Nat, NEW B \in Nat \ {0}, NEW N, N = (L + B - 1) \div B
  PROVE  /\ N \in Nat /\ L <= N * B
         /\ \A n \in 1..N : (n - 1) * B \in Nat /\ (n - 1) * B < L /\ n * B = (n - 1) * B + B
<1>1. PICK x \in Nat : x = L + B - 1
  OBVIOUS
<1>2. PICK r \in Nat : r = x % B /\ r < B
  BY <1>1
<1>3. N \in Nat /\ x = B * N + r
  BY <1>1, <1>2
<1>4. L <= N * B
  BY <1>1, <1>2, <1>3
<1>5. ASSUME NEW n \in 1..N
      PROVE  (n - 1) * B \in Nat /\ (n - 1) * B < L /\ n * B = (n - 1) * B + B
  <2>1. PICK m \in Nat : m = n - 1 /\ m + 1 = n
    BY <1>3
  <2>2. m * B \in Nat /\ (m + 1) * B = m * B + B
    OBVIOUS
  <2>3. PICK d \in Nat : N = (m + 1) + d
    <3>1. N - (m + 1) \in Nat /\ N = (m + 1) + (N - (m + 1))
      BY <1>3, <2>1
    <3>2. QED
      BY <3>1
  <2>4. N * B = m * B + B + d * B
    BY <2>3
  <2>5. d * B \in Nat
    OBVIOUS
  <2>6. m * B + B <= x
    <3>1. N * B = B * N
      BY <1>3
    <3>2. PICK y \in Nat : y = N * B /\ x = y + r
      BY <1>3, <3>1
    <3>3. QED
      BY <2>2, <2>4, <2>5, <3>2
  <2>7. QED
    BY <1>1, <2>1, <2>2, <2>6
<1>6. QED
  BY <1>3, <1>4, <1>5
\* A sequence put together from parts none of which is longer than the batch
\* it belongs to is the whole sequence as soon as it is as long.
LEMMA BatchesWhole ==
  ASSUME NEW T, NEW texts \in Seq(T), NEW N \in Nat, N = Len(Batches(texts)),
         NEW v \in [1..N -> Seq(T)],
         \A n \in 1..N : /\ Len(v[n]) <= Len(Batches(texts)[n])
                         /\ Len(v[n]) = Len(Batches(texts)[n]) => v[n] = Batches(texts)[n],
         Len(FlattenSeq(v)) = Len(texts)
  PROVE  FlattenSeq(v) = texts
<1> DEFINE L == Len(texts)
           e(n) == IF n * BatchSize <= L THEN n * BatchSize ELSE L
<1>1. L \in Nat /\ BatchSize \in Nat \ {0}
  BY BuilderAssumption
<1>2. N = (L + BatchSize - 1) \div BatchSize
  <2>1. PICK M : M = (L + BatchSize - 1) \div BatchSize
    OBVIOUS
  <2>2. M \in Nat
    BY <1>1, <2>1, BatchCount
  <2>3. Len(Batches(texts)) = M
    BY <2>1, <2>2 DEF Batches
  <2>4. QED
    BY <2>1, <2>3
<1>3. /\ L <= N * BatchSize
      /\ \A n \in 1..N : /\ (n - 1) * BatchSize \in Nat /\ (n - 1) * BatchSize < L
                         /\ n * BatchSize = (n - 1) * BatchSize + BatchSize
  BY <1>1, <1>2, BatchCount
<1>4. ASSUME NEW n \in 1..N
      PROVE  /\ e(n) \in Nat /\ (n - 1) * BatchSize < e(n) /\ e(n) <= L
             /\ Batches(texts)[n] = SubSeq(texts, (n - 1) * BatchSize + 1, e(n))
             /\ Len(Batches(texts)[n]) = e(n) - (n - 1) * BatchSize
  <2>1. PICK a \in Nat : a = (n - 1) * BatchSize /\ a < L /\ n * BatchSize = a + BatchSize
    BY <1>3
  <2>2. PICK c \in Nat : c = n * BatchSize /\ c = a + BatchSize /\ a < c
    BY <1>1, <2>1
  <2>3. Min({c, L}) = IF c <= L THEN c ELSE L
    <3>1. c <= L \/ L <= c
      BY <1>1
    <3>2. QED
      BY <1>1, <3>1 DEF Min
  <2>4. PICK h \in Nat : h = e(n) /\ h = Min({c, L}) /\ a < h /\ h <= L
    <3>1. e(n) = Min({c, L})
      BY <2>2, <2>3
    <3>2. Min({c, L}) \in Nat /\ a < Min({c, L}) /\ Min({c, L}) <= L
      BY <1>1, <2>1, <2>2, <2>3
    <3>3. QED
      BY <3>1, <3>2
  <2>5. Batches(texts)[n] = SubSeq(texts, a + 1, h)
    BY <1>2, <2>1, <2>2, <2>4 DEF Batches
  <2>6. Len(SubSeq(texts, a + 1, h)) = h - a
    BY <1>1, <2>4
  <2> HIDE DEF e
  <2>7. QED
    BY <2>1, <2>4, <2>5, <2>6
<1>5. CASE N = 0
  <2>1. L = 0 /\ v = <<>>
    BY <1>1, <1>3, <1>5
  <2>2. FlattenSeq(v) = <<>> /\ texts = <<>>
    BY <2>1 DEF FlattenSeq
  <2>3. QED
    BY <2>2
<1>6. CASE N # 0
  <2>1. v \in Seq(Seq(T)) /\ Len(v) = N /\ v # <<>>
    BY <1>6
  <2>2. PICK g : /\ FlattenSeq(v) = g[N]
                 /\ \A i \in 1..N : g[i] = IF i = 1 THEN v[i] ELSE g[i - 1] \o v[i]
    <3>1. \A z \in Seq(Seq(T)) : z # <<>> =>
            \E g : /\ FlattenSeq(z) = g[Len(z)]
                 /\ \A i \in 1..Len(z) : g[i] = IF i = 1 THEN z[i] ELSE g[i - 1] \o z[i]
      BY Flattened, Zenon
    <3>2. PICK g : /\ FlattenSeq(v) = g[Len(v)]
                   /\ \A i \in 1..Len(v) : g[i] = IF i = 1 THEN v[i] ELSE g[i - 1] \o v[i]
      BY <2>1, <3>1, Zenon
    <3>3. /\ FlattenSeq(v) = g[N]
          /\ \A i \in 1..N : g[i] = IF i = 1 THEN v[i] ELSE g[i - 1] \o v[i]
      <4>1. Len(v) = N
        BY <2>1
      <4>2. QED
        BY <3>2, <4>1, Zenon
    <3>4. QED
      BY <3>3, Zenon
  <2> DEFINE Good(n) == /\ g[n] \in Seq(T) /\ Len(g[n]) <= e(n)
                        /\ Len(g[n]) = e(n) => g[n] = SubSeq(texts, 1, e(n))
             S == {n \in Nat : n + 1 \in 1..N => Good(n + 1)}
  <2>3. 0 \in S
    <3>1. g[1] = v[1] /\ v[1] \in Seq(T) /\ 1 \in 1..N
      BY <1>6, <2>2
    <3>2. (1 - 1) * BatchSize = 0
      BY <1>1
    <3> HIDE DEF e
    <3>3. Good(1)
      BY <1>1, <1>4, <3>1, <3>2
    <3>4. QED
      BY <3>3
  <2>4. ASSUME NEW n \in Nat, n \in S
        PROVE  n + 1 \in S
    <3>1. SUFFICES ASSUME (n + 1) + 1 \in 1..N
                   PROVE  Good((n + 1) + 1)
      OBVIOUS
    <3>2. PICK k \in 1..N : k = n + 1 /\ k + 1 \in 1..N /\ k + 1 = (n + 1) + 1
                            /\ (k + 1) - 1 = k /\ k + 1 # 1
      BY <3>1
    <3>3. Good(k)
      BY <2>4, <3>2
    <3>4. g[k + 1] = g[k] \o v[k + 1] /\ v[k + 1] \in Seq(T)
      BY <2>2, <3>2
    <3>5. e(k) = k * BatchSize
      BY <1>1, <1>3, <3>2
    <3>6. /\ e(k) \in Nat /\ e(k + 1) \in Nat /\ e(k) < e(k + 1) /\ e(k + 1) <= L
          /\ Batches(texts)[k + 1] = SubSeq(texts, e(k) + 1, e(k + 1))
          /\ Len(Batches(texts)[k + 1]) = e(k + 1) - e(k)
      <4>1. /\ e(k + 1) \in Nat /\ k * BatchSize < e(k + 1) /\ e(k + 1) <= L
            /\ Batches(texts)[k + 1] = SubSeq(texts, k * BatchSize + 1, e(k + 1))
            /\ Len(Batches(texts)[k + 1]) = e(k + 1) - k * BatchSize
        BY <1>4, <3>2
      <4>2. e(k) \in Nat
        BY <1>4
      <4> HIDE DEF e
      <4>3. QED
        BY <3>5, <4>1, <4>2
    <3>7. PICK c \in Nat, d \in Nat : c = e(k) /\ d = e(k + 1)
      BY <3>6
    <3> HIDE DEF e
    <3>8. PICK x \in Seq(T), y \in Seq(T) : x = g[k] /\ y = v[k + 1] /\ g[k + 1] = x \o y
      BY <3>3, <3>4
    <3>9. /\ Len(x) <= c /\ (Len(x) = c => x = SubSeq(texts, 1, c))
          /\ Len(y) <= d - c /\ (Len(y) = d - c => y = SubSeq(texts, c + 1, d))
          /\ c < d /\ d <= L
      BY <3>2, <3>3, <3>6, <3>7, <3>8
    <3>10. x \o y \in Seq(T) /\ Len(x \o y) = Len(x) + Len(y) /\ Len(x) \in Nat /\ Len(y) \in Nat
      OBVIOUS
    <3>11. Len(x \o y) <= d
      BY <3>9, <3>10
    <3>12. ASSUME Len(x \o y) = d
           PROVE  x \o y = SubSeq(texts, 1, d)
      <4>1. Len(x) = c /\ Len(y) = d - c
        <5>1. PICK m \in Nat, l \in Nat : m = Len(x) /\ l = Len(y) /\ m + l = d
          BY <3>10, <3>12
        <5>2. m <= c /\ l <= d - c
          BY <3>9, <5>1
        <5>3. m = c /\ l = d - c
          <6>1. c \in Nat /\ d \in Nat
            BY <3>7
          <6>2. m \in Nat /\ l \in Nat /\ m + l = d
            BY <5>1
          <6>3. QED
            BY ONLY <5>2, <6>1, <6>2
        <5>4. QED
          BY ONLY <5>1, <5>3
      <4>2. x = SubSeq(texts, 1, c) /\ y = SubSeq(texts, c + 1, d)
        BY <3>9, <4>1
      <4>3. ASSUME NEW i \in 1..d
            PROVE  (x \o y)[i] = texts[i]
        <5>1. CASE i <= c
          BY <1>1, <3>9, <4>1, <4>2, <5>1
        <5>2. CASE ~(i <= c)
          <6>1. i - c \in 1..(d - c) /\ c + 1 + (i - c) - 1 = i
            BY <5>2
          <6>2. (x \o y)[i] = y[i - c]
            BY <3>10, <4>1, <5>2
          <6>3. y[i - c] = texts[i]
            BY <1>1, <3>9, <4>2, <6>1
          <6>4. QED
            BY <6>2, <6>3
        <5>3. QED
          BY <5>1, <5>2
      <4>4. /\ SubSeq(texts, 1, d) \in Seq(T) /\ Len(SubSeq(texts, 1, d)) = d
            /\ \A i \in 1..d : SubSeq(texts, 1, d)[i] = texts[i]
        BY <1>1, <3>9
      <4>5. QED
        BY <3>10, <3>12, <4>3, <4>4
    <3>13. QED
      BY <3>2, <3>7, <3>8, <3>10, <3>11, <3>12
  <2>5. Good(N)
    <3>1. PICK m \in Nat : m + 1 = N
      <4>1. N - 1 \in Nat /\ (N - 1) + 1 = N
        BY <1>6
      <4>2. QED
        BY <4>1
    <3>2. m \in S
      <4> HIDE DEF S
      <4>1. QED
        BY <2>3, <2>4, NatSetInduction
    <3>3. N \in 1..N
      BY <1>6
    <3>4. QED
      BY <3>1, <3>2, <3>3
  <2>6. e(N) = L
    BY <1>1, <1>3
  <2>7. SubSeq(texts, 1, L) = texts
    BY <1>1
  <2>8. QED
    BY <2>2, <2>5, <2>6, <2>7
<1>7. QED
  BY <1>5, <1>6
\* Whatever order the answers come in and whichever of them is lost: either
\* there is an error, or each text has its own vector.
LEMMA VectorsFit ==
  ASSUME NEW T, NEW texts \in Seq(T), NEW replies,
         DOMAIN replies = DOMAIN Batches(texts),
         \A n \in DOMAIN Batches(texts) : replies[n] \in BatchReplies(Batches(texts)[n]),
         Len(FlattenSeq([n \in DOMAIN replies |-> InOrder(replies[n])])) = Len(texts)
  PROVE  FlattenSeq([n \in DOMAIN replies |-> InOrder(replies[n])]) = texts
<1>1. Len(texts) \in Nat /\ BatchSize \in Nat \ {0}
  BY BuilderAssumption
<1>2. PICK N \in Nat : N = (Len(texts) + BatchSize - 1) \div BatchSize
  <2>1. PICK M : M = (Len(texts) + BatchSize - 1) \div BatchSize
    OBVIOUS
  <2>2. M \in Nat
    BY <1>1, <2>1, BatchCount
  <2>3. QED
    BY <2>1, <2>2
<1>3. DOMAIN Batches(texts) = 1..N /\ N = Len(Batches(texts))
  BY <1>2 DEF Batches
<1>a. \A n \in 1..N : /\ (n - 1) * BatchSize \in Nat /\ (n - 1) * BatchSize < Len(texts)
                       /\ n * BatchSize = (n - 1) * BatchSize + BatchSize
  BY <1>1, <1>2, BatchCount
<1>4. ASSUME NEW n \in 1..N
      PROVE  Batches(texts)[n] \in Seq(T)
  <2>1. PICK a \in Nat : a = (n - 1) * BatchSize /\ n * BatchSize = a + BatchSize /\ a < Len(texts)
    BY <1>a
  <2>2. PICK h \in Nat : /\ h = Min({n * BatchSize, Len(texts)}) /\ h <= Len(texts)
                         /\ h = n * BatchSize \/ h = Len(texts)
    <3>1. n * BatchSize \in Nat
      BY <1>1, <2>1
    <3>2. n * BatchSize <= Len(texts) \/ Len(texts) <= n * BatchSize
      BY <1>1, <3>1
    <3>3. /\ Min({n * BatchSize, Len(texts)}) \in Nat
          /\ Min({n * BatchSize, Len(texts)}) <= Len(texts)
          /\ Min({n * BatchSize, Len(texts)}) \in {n * BatchSize, Len(texts)}
      BY <1>1, <3>1, <3>2 DEF Min
    <3>4. QED
      BY <3>3
  <2>3. Batches(texts)[n] = SubSeq(texts, a + 1, h)
    <3>1. Batches(texts)[n] =
            SubSeq(texts, (n - 1) * BatchSize + 1, Min({n * BatchSize, Len(texts)}))
      BY <1>2 DEF Batches
    <3>2. QED
      BY <2>1, <2>2, <3>1
  <2>4. SubSeq(texts, a + 1, h) \in Seq(T)
    <3>1. a + 1 \in 1..Len(texts) /\ h \in (a + 1)..Len(texts)
      BY <1>1, <2>1, <2>2
    <3>2. \A i \in (a + 1)..h : i \in 1..Len(texts)
      BY <1>1, <2>1, <2>2, <3>1
    <3>3. \A i \in (a + 1)..h : texts[i] \in T
      BY <3>2
    <3>4. a + 1 \in Int /\ h \in Int
      BY <2>1, <2>2
    <3>5. QED
      BY <3>3, <3>4, SubSeqProperties
  <2>5. QED
    BY <2>3, <2>4
<1>5. ASSUME NEW n \in 1..N
      PROVE  /\ InOrder(replies[n]) \in Seq(T)
             /\ Len(InOrder(replies[n])) <= Len(Batches(texts)[n])
             /\ Len(InOrder(replies[n])) = Len(Batches(texts)[n]) =>
                  InOrder(replies[n]) = Batches(texts)[n]
  <2>1. PICK batch \in Seq(T) : batch = Batches(texts)[n]
    BY <1>4
  <2>2. replies[n] \in BatchReplies(batch)
    BY <1>3, <2>1
  <2>3. PICK K \in SUBSET DOMAIN batch :
          replies[n] \in SetToSeqs({[index |-> i, text |-> batch[i]] : i \in K})
    <3>1. \A K : K \in {DOMAIN batch} \cup {DOMAIN batch \ {i} : i \in DOMAIN batch}
            => K \in SUBSET DOMAIN batch
      OBVIOUS
    <3>2. QED
      BY <2>2, <3>1 DEF BatchReplies
  <2>4. InOrder(replies[n]) = SubSequence(batch, K)
    BY <2>3, ReplyInOrder
  <2>5. SubSequence(batch, K) \in Seq(T) /\ Len(SubSequence(batch, K)) = Cardinality(K)
    BY SubSequenceType
  <2>6. /\ IsFiniteSet(DOMAIN batch) /\ Cardinality(DOMAIN batch) = Len(batch)
    <3>1. DOMAIN batch = 1..Len(batch) /\ Len(batch) \in Nat
      BY ONLY batch \in Seq(T)
    <3>2. PICK l \in Nat : l = Len(batch)
      BY ONLY <3>1
    <3>3. IsFiniteSet(1..l) /\ Cardinality(1..l) = l
      <4>1. 1 \in Int /\ l \in Int
        BY <3>2
      <4>2. IsFiniteSet(1..l) /\ Cardinality(1..l) = IF 1 > l THEN 0 ELSE l - 1 + 1
        BY <4>1, FS_Interval
      <4>3. QED
        BY <3>2, <4>2
    <3>4. QED
      BY <3>1, <3>2, <3>3
  <2>7. Cardinality(K) <= Len(batch) /\ (Cardinality(K) = Len(batch) => K = DOMAIN batch)
    BY <2>6, FS_Subset
  <2>8. K = DOMAIN batch => SubSequence(batch, K) = batch
    BY SubSequenceAll
  <2>9. QED
    BY <2>1, <2>4, <2>5, <2>7, <2>8
<1>6. PICK v \in [1..N -> Seq(T)] : v = [n \in DOMAIN replies |-> InOrder(replies[n])]
  <2>1. [n \in 1..N |-> InOrder(replies[n])] \in [1..N -> Seq(T)]
    BY <1>5
  <2>2. DOMAIN replies = 1..N
    BY <1>3
  <2>3. QED
    BY <2>1, <2>2
<1>7. \A n \in 1..N : v[n] = InOrder(replies[n])
  BY <1>3, <1>6
<1>8. \A n \in 1..N : /\ Len(v[n]) <= Len(Batches(texts)[n])
                      /\ Len(v[n]) = Len(Batches(texts)[n]) => v[n] = Batches(texts)[n]
  BY <1>5, <1>7
<1>9. Len(FlattenSeq(v)) = Len(texts)
  BY <1>6
<1>10. FlattenSeq(v) = texts
  BY <1>3, <1>8, <1>9, BatchesWhole
<1>11. QED
  BY <1>6, <1>10

-----------------------------------------------------------------------------
(* What a build writes                                                     *)
(*                                                                         *)
(* A build holds the rows of one SELECT, which is the index of one scan,   *)
(* and writes them into a collection that it created.                      *)

\* No two builds of one project at a time.
OneBuild ==
  \A a, b \in Builders :
    bpc[a] # "idle" /\ bpc[b] # "idle" /\ bpid[a] = bpid[b] => a = b

\* Points or chunks by row id: one scan of the directory of p.
WholePoints(table, p) ==
  /\ \A i \in RowIds : table[i] # None => table[i].project = p
  /\ Whole(table, p)
  /\ OneRoot(table, p, projects[p].root)
OwnVectors(table) == \A i \in RowIds : table[i] # None => table[i].vector = i

Embedded(b) == bpc[b] \in {"build_drop", "build_create", "build_upsert"}

BuildsWhole ==
  \A b \in Builders :
    /\ bpc[b] = "build_embed" =>
         \A i \in RowIds : chunks[b][i] \in Row \cup {None}
    /\ bpc[b] = "build_embed" \/ Embedded(b) => WholePoints(chunks[b], bpid[b])
    /\ Embedded(b) => OwnVectors(chunks[b])
    /\ bpc[b] = "build_upsert" => collection[bpid[b]] \in {None, Empty}

WholeInv ==
  /\ chunks = [b \in Builders |-> chunks[b]]
  /\ BuildsWhole
  /\ \A p \in ProjectIds : HasCollection(p) =>
       WholePoints(collection[p], p) /\ OwnVectors(collection[p])
\* A project that stays keeps its directory.
LEMMA RootKept ==
  ASSUME IndexInv, [Next]_vars, NEW p \in Registered, p \in Registered'
  PROVE  projects'[p].root = projects[p].root
<1> USE DEF IndexInv
<1>1. CASE UNCHANGED projects
  BY <1>1
<1>2. ASSUME NEW t \in Creators, CreateWrite(t)
      PROVE  projects'[p].root = projects[p].root
  <2>1. CASE UNCHANGED projects
    BY <2>1
  <2>2. ASSUME NEW q \in NextId(ProjectIds, Registered),
               projects' = [projects EXCEPT
                 ![q] = [root |-> root[t], status |-> "created"]]
        PROVE  projects'[p].root = projects[p].root
    <3>1. q # p
      BY <2>2, NextIdFresh, IdAssumption DEF Registered
    <3>2. QED
      BY <2>2, <3>1 DEF Registered, BaseInv, TypeOK, ProjectTable
  <2>3. QED
    BY <1>2, <2>1, <2>2 DEF CreateWrite
<1>3. ASSUME NEW t \in Scanners, ScanCommit(t)
      PROVE  projects'[p].root = projects[p].root
  <2>1. /\ pid[t] \in Registered
        /\ txn.projects = [projects EXCEPT ![pid[t]].status = "scanning"]
    BY <1>3 DEF ScanCommit, BaseInv, TxnOwned, TxnSnapshot, Threads
  <2>2. projects[pid[t]] \in Project
    BY <2>1 DEF BaseInv, TypeOK, ProjectTable, Registered
  <2>3. projects' = [projects EXCEPT ![pid[t]].status = "ready"]
    BY <1>3, <2>1, <2>2 DEF ScanCommit, BaseInv, TypeOK, ProjectTable,
       Registered, Project
  <2>4. QED
    BY <2>1, <2>3, StatusChange DEF Status
<1>4. ASSUME NEW t \in Scanners, MarkFailed(t)
      PROVE  projects'[p].root = projects[p].root
  <2>1. CASE UNCHANGED projects
    BY <1>1, <2>1
  <2>2. CASE /\ pid[t] \in Registered
             /\ projects' = [projects EXCEPT ![pid[t]].status = "failed"]
    BY <2>2, StatusChange DEF Status
  <2>3. QED
    BY <1>4, <2>1, <2>2 DEF MarkFailed
<1>5. ASSUME NEW t \in Deleters, DeleteCommit(t)
      PROVE  projects'[p].root = projects[p].root
  BY <1>5 DEF DeleteCommit, Registered, BaseInv, TypeOK, ProjectTable
<1>6. QED
  <2>1. UNCHANGED projects \/ (\E t \in Creators : CreateWrite(t))
          \/ (\E t \in Scanners : ScanCommit(t) \/ MarkFailed(t))
          \/ (\E t \in Deleters : DeleteCommit(t))
    BY DEF Next, RegistryStep, ScanStep, vars, dbVars, CreateCheck, ScanOpen,
       ScanLock, ScanParse, ScanReplace, ScanInsert, ScanError, ScanRelease,
       DeleteOpen, DeleteCollection, DeleteLoad, RequestError, Restart
  <2>2. QED
    BY <1>1, <1>2, <1>3, <1>4, <1>5, <2>1

\* A step that touches no collection and no build leaves them whole: the
\* directories of their projects stay.
LEMMA RegistryWhole ==
  ASSUME QuietInv, QuietInv', WholeInv, [Next]_vars, UNCHANGED vectorVars
  PROVE  WholeInv'
<1> USE DEF vectorVars
<1>1. ASSUME NEW table, NEW p \in Registered, p \in Registered', WholePoints(table, p)
      PROVE  WholePoints(table, p)'
  BY <1>1, RootKept DEF WholePoints, Whole, OneRoot, OwnRows, IndexedEntities, QuietInv
<1>2. BuildsWhole'
  <2>1. ASSUME NEW b \in Builders, bpc[b] # "idle"
        PROVE  WholePoints(chunks[b], bpid[b]) => WholePoints(chunks[b], bpid[b])'
    <3>1. bpid[b] \in Registered /\ bpid[b] \in Registered'
      BY <2>1 DEF QuietInv, BuildLocals
    <3>2. QED
      BY <1>1, <3>1
  <2>2. QED
    BY <2>1 DEF WholeInv, BuildsWhole, Embedded, OwnVectors
<1>3. ASSUME NEW p \in ProjectIds, HasCollection(p)'
      PROVE  WholePoints(collection[p], p)' /\ OwnVectors(collection[p])'
  <2>1. p \in Registered /\ p \in Registered' /\ HasCollection(p)
    BY <1>3 DEF QuietInv, CollectionsOwned, HasCollection
  <2>2. WholePoints(collection[p], p) /\ OwnVectors(collection[p])
    BY <2>1 DEF WholeInv
  <2>3. QED
    BY <1>1, <2>1, <2>2 DEF OwnVectors
<1>4. QED
  BY <1>2, <1>3 DEF WholeInv
\* The SELECT of a build: the rows of the project are one whole index.
LEMMA ReadWhole ==
  ASSUME QuietInv, NEW p \in Registered
  PROVE  /\ WholePoints(ChunksOf(p), p)
         /\ \A i \in RowIds : ChunksOf(p)[i] \in Row \cup {None}
<1>1. /\ \A i \in RowIds : ChunksOf(p)[i] = IF i \in OwnRows(rows, p) THEN rows[i] ELSE None
      /\ \A i \in RowIds : rows[i] \in Row \cup {None}
  BY DEF ChunksOf, QuietInv, IndexInv, BaseInv, TypeOK, RowTable
<1>2. OwnRows(ChunksOf(p), p) = OwnRows(rows, p)
  BY <1>1 DEF OwnRows
<1>3. \A i \in OwnRows(rows, p) : ChunksOf(p)[i] = rows[i]
  BY <1>1 DEF OwnRows
<1>4. IndexedEntities(ChunksOf(p), p) = IndexedEntities(rows, p)
  BY <1>2, <1>3 DEF IndexedEntities
<1>5. Whole(rows, p) /\ OneRoot(rows, p, projects[p].root)
  BY DEF QuietInv, IndexInv, IndexWhole
<1>6. Whole(ChunksOf(p), p) /\ OneRoot(ChunksOf(p), p, projects[p].root)
  BY <1>2, <1>3, <1>4, <1>5 DEF Whole, OneRoot
<1>7. \A i \in RowIds : ChunksOf(p)[i] # None => ChunksOf(p)[i].project = p
  BY <1>1 DEF OwnRows
<1>8. QED
  BY <1>1, <1>6, <1>7 DEF WholePoints

\* The points of chunks with the right vectors are the same whole index.
LEMMA PointsWhole ==
  ASSUME NEW table, NEW points, NEW p,
         \A i \in RowIds : table[i] \in Row \cup {None},
         \A i \in RowIds : points[i] = IF table[i] # None THEN Point(table[i], i) ELSE None,
         WholePoints(table, p)
  PROVE  WholePoints(points, p) /\ OwnVectors(points)
<1>1. ASSUME NEW i \in RowIds, table[i] # None
      PROVE  /\ points[i] # None /\ points[i].vector = i
             /\ points[i].project = table[i].project /\ points[i].root = table[i].root
             /\ points[i].entity = table[i].entity /\ points[i].batch = table[i].batch
  <2>1. points[i] = Point(table[i], i) /\ table[i] \in Row
    BY <1>1
  <2>2. Point(table[i], i) \in [project : ProjectIds, root : Roots, entity : Entities,
                                batch : SUBSET Entities, vector : RowIds]
    BY <2>1 DEF Point, Row
  <2>3. points[i] # None
    BY <2>1, <2>2, BuilderAssumption
  <2>4. QED
    BY <2>1, <2>3 DEF Point
<1>2. \A i \in RowIds : table[i] = None => points[i] = None
  OBVIOUS
<1>3. OwnRows(points, p) = OwnRows(table, p)
  BY <1>1, <1>2 DEF OwnRows
<1>4. IndexedEntities(points, p) = IndexedEntities(table, p)
  BY <1>1, <1>3 DEF IndexedEntities, OwnRows
<1>5. Whole(points, p) /\ OneRoot(points, p, projects[p].root)
  BY <1>1, <1>3, <1>4 DEF WholePoints, Whole, OneRoot, OwnRows
<1>6. QED
  BY <1>1, <1>2, <1>5 DEF WholePoints, OwnVectors

\* What BuildEmbed makes of the chunks, if it makes anything.
LEMMA EmbedPoints ==
  ASSUME NEW b \in Builders, BuildEmbed(b), bpc'[b] # "idle",
         chunks = [c \in Builders |-> chunks[c]], bpc \in [Builders -> BuildLabels]
  PROVE  /\ bpc' = [bpc EXCEPT ![b] = "build_drop"] /\ bpid' = bpid
         /\ UNCHANGED <<vars, collection>>
         /\ \E points :
              /\ chunks' = [chunks EXCEPT ![b] = points]
              /\ \A i \in RowIds : points[i] =
                   IF chunks[b][i] # None THEN Point(chunks[b][i], i) ELSE None
<1> DEFINE own == {i \in RowIds : chunks[b][i] # None}
           texts == Ascending(own)
<1>1. own \in SUBSET Nat /\ IsFiniteSet(own)
  BY IdAssumption, BuilderAssumption, FS_Subset
<1>2. /\ texts \in Seq(own) /\ DOMAIN texts = 1..Cardinality(own)
      /\ Range(texts) = own
      /\ \A k \in DOMAIN texts : texts[k] \in own
  <2> HIDE DEF own
  <2>1. /\ Cardinality(own) \in Nat /\ texts \in [1..Cardinality(own) -> own]
        /\ \A i \in own : \E k \in 1..Cardinality(own) : texts[k] = i
    BY <1>1, AscendingOrder
  <2> HIDE DEF texts
  <2>2. texts \in Seq(own)
    BY <2>1
  <2>3. Range(texts) = own
    BY <2>1 DEF Range
  <2>4. QED
    BY <2>1, <2>2, <2>3
<1>3. PICK replies :
        LET batches == Batches(texts)
            vectors == FlattenSeq([n \in DOMAIN replies |-> InOrder(replies[n])])
        IN /\ DOMAIN replies = DOMAIN batches
           /\ \A n \in DOMAIN batches : replies[n] \in BatchReplies(batches[n])
           /\ IF Len(vectors) # Len(texts) THEN BuildFinish(b)
              ELSE /\ chunks' = [chunks EXCEPT ![b] =
                       [i \in RowIds |-> IF i \in Range(texts)
                          THEN Point(@[i], vectors[CHOOSE k \in DOMAIN texts : texts[k] = i])
                          ELSE None]]
                   /\ BuildGoto(b, "build_drop")
                   /\ UNCHANGED bpid
  BY DEF BuildEmbed
<1> DEFINE vectors == FlattenSeq([n \in DOMAIN replies |-> InOrder(replies[n])])
<1>4. ~BuildFinish(b)
  BY DEF BuildFinish, BuildGoto
<1>5. Len(vectors) = Len(texts)
  BY <1>3, <1>4
<1>6. vectors = texts
  <2> HIDE DEF texts, own
  <2>1. /\ DOMAIN replies = DOMAIN Batches(texts)
        /\ \A n \in DOMAIN Batches(texts) : replies[n] \in BatchReplies(Batches(texts)[n])
    BY <1>3
  <2>2. QED
    BY <1>2, <1>5, <2>1, VectorsFit
<1>7. chunks' = [chunks EXCEPT ![b] =
        [i \in RowIds |-> IF i \in Range(texts)
           THEN Point(chunks[b][i], vectors[CHOOSE k \in DOMAIN texts : texts[k] = i])
           ELSE None]]
  BY <1>3, <1>5
<1>8. ASSUME NEW i \in own
      PROVE  vectors[CHOOSE k \in DOMAIN texts : texts[k] = i] = i
  <2> HIDE DEF texts, own, vectors
  <2>1. \E k \in DOMAIN texts : texts[k] = i
    BY <1>2, <1>8 DEF Range
  <2>2. QED
    BY <1>6, <2>1
<1>9. bpc' = [bpc EXCEPT ![b] = "build_drop"] /\ bpid' = bpid
  BY <1>3, <1>5 DEF BuildGoto
<1>10. PICK points :
         /\ chunks' = [chunks EXCEPT ![b] = points]
         /\ points = [i \in RowIds |-> IF i \in Range(texts)
              THEN Point(chunks[b][i], vectors[CHOOSE k \in DOMAIN texts : texts[k] = i])
              ELSE None]
  BY <1>7
<1>11. ASSUME NEW i \in RowIds
       PROVE  points[i] = IF chunks[b][i] # None THEN Point(chunks[b][i], i) ELSE None
  <2>1. i \in Range(texts) <=> chunks[b][i] # None
    BY <1>2
  <2>2. CASE i \in own
    <3>1. vectors[CHOOSE k \in DOMAIN texts : texts[k] = i] = i
      BY <1>8, <2>2
    <3>2. i \in Range(texts)
      BY <1>2, <2>2
    <3> HIDE DEF texts, vectors
    <3>3. points[i] = Point(chunks[b][i], vectors[CHOOSE k \in DOMAIN texts : texts[k] = i])
      BY <1>10, <3>2
    <3>4. QED
      BY <2>1, <3>1, <3>2, <3>3
  <2>3. CASE i \notin own
    BY <1>2, <1>10, <2>3
  <2>4. QED
    BY <2>2, <2>3
<1>12. UNCHANGED <<vars, collection>>
  BY DEF BuildEmbed
<1>13. QED
  BY <1>9, <1>10, <1>11, <1>12
\* Every step of a build leaves what it holds and what it writes whole.
LEMMA BuildWhole ==
  ASSUME QuietInv, QuietInv', OneBuild, WholeInv, NEW b \in Builders,
         BuildStep(b) \/ \E p \in ProjectIds : BuildOpen(b, p)
  PROVE  WholeInv'
<1> USE DEF QuietInv, BuildLocals
<1>1. UNCHANGED vars
  BY DEF BuildOpen, BuildStep, BuildRead, BuildEmbed, BuildDrop, BuildCreate,
     BuildUpsert, BuildError
<1>2. UNCHANGED projects
  BY <1>1 DEF vars
<1>3. \A table, p : WholePoints(table, p)' <=> WholePoints(table, p)
  BY <1>2 DEF WholePoints, Whole, OneRoot, OwnRows, IndexedEntities
<1>4. /\ bpc \in [Builders -> BuildLabels]
      /\ bpid \in [Builders -> ProjectIds \cup {None}]
      /\ collection = [p \in ProjectIds |-> collection[p]]
      /\ chunks = [c \in Builders |-> chunks[c]]
  BY DEF WholeInv
<1>5. bpc[b] # "idle" => bpid[b] \in Registered /\ bpid[b] \in ProjectIds
  BY DEF Registered
<1> DEFINE Held(c) ==
      /\ bpc[c] = "build_embed" => \A i \in RowIds : chunks[c][i] \in Row \cup {None}
      /\ bpc[c] = "build_embed" \/ Embedded(c) => WholePoints(chunks[c], bpid[c])
      /\ Embedded(c) => OwnVectors(chunks[c])
    Free(c) == bpc[c] = "build_upsert" => collection[bpid[c]] \in {None, Empty}
    Stored(p) == HasCollection(p) => WholePoints(collection[p], p) /\ OwnVectors(collection[p])
<1>6. /\ \A c \in Builders : Held(c) /\ Free(c)
      /\ \A p \in ProjectIds : Stored(p)
  BY DEF WholeInv, BuildsWhole
<1>7. /\ \A c \in Builders \ {b} :
           bpc'[c] = bpc[c] /\ bpid'[c] = bpid[c] /\ chunks'[c] = chunks[c]
      /\ chunks' = [c \in Builders |-> chunks'[c]]
  BY <1>4 DEF BuildOpen, BuildStep, BuildRead, BuildEmbed, BuildDrop, BuildCreate,
     BuildUpsert, BuildError, BuildFinish, BuildGoto
<1>8. \A c \in Builders \ {b} : Held(c)'
  BY <1>3, <1>6, <1>7 DEF Embedded, OwnVectors
<1>9. ASSUME Held(b)', Free(b)',
             \/ UNCHANGED collection
             \/ \E p \in ProjectIds : \E table :
                  /\ collection' = [collection EXCEPT ![p] = table]
                  /\ table # None => WholePoints(table, p) /\ OwnVectors(table)
                  /\ \/ table \in {None, Empty}
                     \/ \A c \in Builders \ {b} : bpc[c] = "build_upsert" => bpid[c] # p
      PROVE  WholeInv'
  <2>1. \A c \in Builders \ {b} : Free(c)'
    <3>1. CASE UNCHANGED collection
      BY <1>6, <1>7, <3>1
    <3>2. ASSUME NEW p \in ProjectIds, NEW table,
                 collection' = [collection EXCEPT ![p] = table],
                 \/ table \in {None, Empty}
                 \/ \A c \in Builders \ {b} : bpc[c] = "build_upsert" => bpid[c] # p
          PROVE  \A c \in Builders \ {b} : Free(c)'
      <4>1. SUFFICES ASSUME NEW c \in Builders \ {b}, bpc[c] = "build_upsert"
                     PROVE  collection'[bpid[c]] \in {None, Empty}
        BY <1>7
      <4>2. bpid[c] \in ProjectIds /\ collection[bpid[c]] \in {None, Empty}
        BY <1>6, <4>1 DEF Registered
      <4>3. QED
        BY <1>4, <3>2, <4>1, <4>2
    <3>3. QED
      BY <1>9, <3>1, <3>2
  <2>2. \A p \in ProjectIds : Stored(p)'
    <3>1. CASE UNCHANGED collection
      BY <1>3, <1>6, <3>1 DEF HasCollection, OwnVectors
    <3>2. ASSUME NEW p \in ProjectIds, NEW table,
                 collection' = [collection EXCEPT ![p] = table],
                 table # None => WholePoints(table, p) /\ OwnVectors(table)
          PROVE  \A q \in ProjectIds : Stored(q)'
      <4>1. collection'[p] = table /\ \A q \in ProjectIds \ {p} : collection'[q] = collection[q]
        BY <1>4, <3>2
      <4>2. Stored(p)'
        BY <1>3, <3>2, <4>1 DEF HasCollection, OwnVectors
      <4>3. \A q \in ProjectIds \ {p} : Stored(q)'
        BY <1>3, <1>6, <4>1 DEF HasCollection, OwnVectors
      <4>4. QED
        BY <4>2, <4>3
    <3>3. QED
      BY <1>9, <3>1, <3>2
  <2>3. QED
    BY <1>7, <1>8, <1>9, <2>1, <2>2 DEF WholeInv, BuildsWhole
<1>10. CASE bpc'[b] \in {"idle", "build_read"} /\ UNCHANGED collection
  BY <1>9, <1>10 DEF Embedded
<1>11. CASE BuildRead(b) /\ bpc'[b] = "build_embed"
  <2>1. bpc[b] # "idle" /\ bpid' = bpid /\ UNCHANGED collection
        /\ chunks'[b] = ChunksOf(bpid[b])
    BY <1>4, <1>11 DEF BuildRead, BuildFinish, BuildGoto
  <2>2. Held(b)'
    BY <1>3, <1>5, <1>11, <2>1, ReadWhole DEF Embedded
  <2>3. QED
    BY <1>9, <1>11, <2>1, <2>2
<1>12. CASE BuildEmbed(b) /\ bpc'[b] # "idle"
  <2>1. bpc[b] = "build_embed"
    BY <1>12 DEF BuildEmbed
  <2>2. PICK points :
          /\ chunks' = [chunks EXCEPT ![b] = points]
          /\ \A i \in RowIds : points[i] =
               IF chunks[b][i] # None THEN Point(chunks[b][i], i) ELSE None
    BY <1>4, <1>12, EmbedPoints
  <2>3. bpc' = [bpc EXCEPT ![b] = "build_drop"] /\ bpid' = bpid /\ UNCHANGED collection
    BY <1>4, <1>12, EmbedPoints
  <2>4. chunks'[b] = points /\ bpc'[b] = "build_drop"
    BY <1>4, <2>2, <2>3
  <2>5. WholePoints(points, bpid[b]) /\ OwnVectors(points)
    <3>1. PICK table : table = chunks[b]
      OBVIOUS
    <3>2. \A i \in RowIds : table[i] \in Row \cup {None}
      BY <1>6, <2>1, <3>1
    <3>3. \A i \in RowIds : points[i] = IF table[i] # None THEN Point(table[i], i) ELSE None
      BY <2>2, <3>1
    <3>4. WholePoints(table, bpid[b])
      BY <1>6, <2>1, <3>1
    <3> HIDE <1>6
    <3>5. QED
      BY <3>2, <3>3, <3>4, PointsWhole
  <2>6. Held(b)' /\ Free(b)'
    BY <1>3, <2>3, <2>4, <2>5 DEF Embedded, OwnVectors
  <2>7. QED
    BY <1>9, <2>3, <2>6
<1>13. CASE BuildDrop(b) \/ (BuildCreate(b) /\ bpc'[b] # "idle")
  <2>1. /\ Embedded(b) /\ bpc'[b] \in {"build_create", "build_upsert"}
        /\ bpid' = bpid /\ chunks' = chunks
    BY <1>4, <1>13 DEF BuildDrop, BuildCreate, BuildGoto, BuildFinish, Embedded
  <2>2. bpid[b] \in ProjectIds
    BY <1>5, <2>1 DEF Embedded
  <2>3. PICK table \in {None, Empty} : collection' = [collection EXCEPT ![bpid[b]] = table]
    BY <1>4, <1>13 DEF BuildDrop, BuildCreate, BuildGoto, BuildFinish
  <2>4. WholePoints(Empty, bpid[b]) /\ OwnVectors(Empty)
    BY DEF WholePoints, OwnVectors, Whole, OneRoot, OwnRows, Empty
  <2>5. Held(b)'
    BY <1>3, <1>6, <2>1 DEF Embedded, OwnVectors
  <2>6. Free(b)'
    BY <1>4, <2>1, <2>2, <2>3
  <2>7. QED
    BY <1>9, <2>2, <2>3, <2>4, <2>5, <2>6
<1>14. CASE BuildUpsert(b) /\ ~UNCHANGED collection
  <2>1. /\ bpc[b] = "build_upsert" /\ bpc'[b] = "idle" /\ HasCollection(bpid[b])
        /\ bpid[b] \in ProjectIds
    BY <1>4, <1>5, <1>14 DEF BuildUpsert, BuildFinish, BuildGoto
  <2>2. collection[bpid[b]] = Empty
    BY <1>6, <2>1 DEF HasCollection
  <2>3. PICK table :
          /\ collection' = [collection EXCEPT ![bpid[b]] = table]
          /\ table = [i \in RowIds |-> IF chunks[b][i] # None THEN chunks[b][i] ELSE Empty[i]]
    BY <1>4, <1>14, <2>1, <2>2 DEF BuildUpsert
  <2>4. \A i \in RowIds : table[i] = chunks[b][i]
    BY <2>3 DEF Empty
  <2>5. WholePoints(chunks[b], bpid[b]) /\ OwnVectors(chunks[b])
    BY <1>6, <2>1 DEF Embedded
  <2>6. WholePoints(table, bpid[b]) /\ OwnVectors(table)
    BY <2>4, <2>5 DEF WholePoints, OwnVectors, Whole, OneRoot, OwnRows, IndexedEntities
  <2>7. \A c \in Builders \ {b} : bpc[c] = "build_upsert" => bpid[c] # bpid[b]
    BY <2>1 DEF OneBuild
  <2>8. QED
    BY <1>9, <2>1, <2>3, <2>6, <2>7 DEF Embedded
<1>15. QED
  <2>1. \/ bpc'[b] \in {"idle", "build_read"} /\ UNCHANGED collection
        \/ BuildRead(b) /\ bpc'[b] = "build_embed"
        \/ BuildEmbed(b) /\ bpc'[b] # "idle"
        \/ BuildDrop(b) \/ (BuildCreate(b) /\ bpc'[b] # "idle")
        \/ BuildUpsert(b) /\ ~UNCHANGED collection
    BY <1>4 DEF BuildOpen, BuildStep, BuildRead, BuildEmbed, BuildDrop, BuildCreate,
       BuildUpsert, BuildError, BuildFinish, BuildGoto
  <2>2. QED
    BY <1>10, <1>11, <1>12, <1>13, <1>14, <2>1

\* Every step of the system does.
LEMMA WholeStep ==
  ASSUME QuietInv, QuietInv', OneBuild, WholeInv, [VNext]_allVars
  PROVE  WholeInv'
<1>1. [Next]_vars
  BY VectorStepIsStep DEF allVars
<1>2. CASE UNCHANGED vectorVars
  BY <1>1, <1>2, RegistryWhole
<1>3. ASSUME NEW b \in Builders,
             BuildStep(b) \/ \E p \in ProjectIds : BuildOpen(b, p)
      PROVE  WholeInv'
  BY <1>3, BuildWhole
<1>4. ASSUME NEW t \in Deleters, DropCollection(t)
      PROVE  WholeInv'
  <2>1. UNCHANGED <<projects, bpc, bpid, chunks>>
    BY <1>4 DEF DropCollection, DeleteCollection, dbVars
  <2>2. collection' = [collection EXCEPT ![pid[t]] = None]
    BY <1>4 DEF DropCollection
  <2>3. \A p \in ProjectIds : collection'[p] \in {None, collection[p]}
    BY <2>2 DEF QuietInv, BuildLocals
  <2>4. \A table, p : WholePoints(table, p)' <=> WholePoints(table, p)
    BY <2>1 DEF WholePoints, Whole, OneRoot, OwnRows, IndexedEntities
  <2>5. \A b \in Builders : bpc[b] # "idle" => bpid[b] \in ProjectIds
    BY DEF QuietInv, BuildLocals, Registered
  <2>6. BuildsWhole'
    BY <2>1, <2>3, <2>4, <2>5 DEF WholeInv, BuildsWhole, Embedded, OwnVectors
  <2>7. \A p \in ProjectIds : HasCollection(p)' =>
          (WholePoints(collection[p], p) /\ OwnVectors(collection[p]))'
    BY <2>3, <2>4 DEF WholeInv, HasCollection, OwnVectors
  <2>8. QED
    BY <2>1, <2>6, <2>7 DEF WholeInv
<1>5. CASE VRestart
  <2>1. UNCHANGED projects /\ UNCHANGED collection
    BY <1>5 DEF VRestart, Restart, dbVars
  <2>2. \A table, p : WholePoints(table, p)' <=> WholePoints(table, p)
    BY <2>1 DEF WholePoints, Whole, OneRoot, OwnRows, IndexedEntities
  <2>3. \A b \in Builders : bpc'[b] = "idle"
    BY <1>5 DEF VRestart
  <2>4. BuildsWhole'
    BY <2>3 DEF BuildsWhole, Embedded
  <2>5. chunks' = [b \in Builders |-> chunks'[b]]
    BY <1>5 DEF VRestart
  <2>6. QED
    BY <2>1, <2>2, <2>4, <2>5 DEF WholeInv, HasCollection, OwnVectors
<1>6. QED
  BY <1>2, <1>3, <1>4, <1>5 DEF VNext, allVars

\* A collection is one whole index of its own project, each point with the
\* vector of its own text, whatever answers of the embedding service are late,
\* out of order or lost and whatever rescans, failures and restarts fall into
\* a build, as long as no project is built twice at once and deletions have
\* the service to themselves (rebuild, embed_documents).
THEOREM CollectionsStayWhole == QuietSpec /\ []OneBuild => []CollectionWhole
<1>1. VInit => WholeInv
  BY DEF VInit, WholeInv, BuildsWhole, Embedded, HasCollection
<1>2. QuietInv /\ QuietInv' /\ OneBuild /\ WholeInv /\ [VNext /\ DeletionAlone']_allVars
        => WholeInv'
  BY WholeStep
<1>3. WholeInv => CollectionWhole
  BY DEF WholeInv, WholePoints, OwnVectors, CollectionWhole
<1>4. QED
  BY <1>1, <1>2, <1>3, QuietSafe, PTL DEF QuietSpec

-----------------------------------------------------------------------------
(* What a scan makes of a source tree, and the reports on it: Sources and     *)
(* IndexReports                                                              *)

\* A sequence that has each element of a set once.
Lists(s, S) ==
  /\ s \in Seq(S) /\ S = ToSet(s)
  /\ \A i, j \in DOMAIN s : s[i] = s[j] => i = j

\* The files of a tree are ordered by their paths: Ordered gives each once.
LEMMA OrderedLists ==
  ASSUME tree \in Trees, NEW found \in SUBSET tree
  PROVE  Lists(Ordered(found), found)
<1> DEFINE S == {f.id : f \in found}
           ids == Ascending(S)
<1>1. /\ IsFiniteSet(found)
      /\ \A f \in found : f.id \in Nat
      /\ \A f, g \in found : f.id = g.id => f = g
  BY SourcesAssumption, FS_Subset
<1>2. S \in SUBSET Nat /\ IsFiniteSet(S)
  <2>1. S \in SUBSET Nat
    BY <1>1
  <2>2. PICK h : h = [f \in found |-> f.id]
    OBVIOUS
  <2>3. h \in Surjection(found, S)
    BY <2>2 DEF Surjection
  <2>4. QED
    BY <1>1, <2>1, <2>3, FS_Surjection
<1>3. /\ Cardinality(S) \in Nat
      /\ ids \in [1..Cardinality(S) -> S]
      /\ \A k \in 1..Cardinality(S) : Cardinality(Below(S, ids[k])) = k - 1
      /\ \A i \in S : /\ Cardinality(Below(S, i)) + 1 \in 1..Cardinality(S)
                      /\ ids[Cardinality(Below(S, i)) + 1] = i
  <2> HIDE DEF S
  <2>1. QED
    BY <1>2, AscendingOrder
<1>4. PICK n \in Nat : n = Cardinality(S)
  BY <1>3
<1>5. PICK s : s = Ordered(found)
  OBVIOUS
<1>6. /\ s = [i \in 1..n |-> CHOOSE f \in found : f.id = ids[i]]
      /\ \A i \in 1..n : s[i] \in found /\ s[i].id = ids[i]
  <2>1. DOMAIN ids = 1..n
    BY <1>3, <1>4
  <2>2. s = [i \in 1..n |-> CHOOSE f \in found : f.id = ids[i]]
    BY <1>5, <2>1 DEF Ordered
  <2>3. ASSUME NEW i \in 1..n
        PROVE  s[i] \in found /\ s[i].id = ids[i]
    <3>1. ids[i] \in S
      BY <1>3, <1>4
    <3>2. \E f \in found : f.id = ids[i]
      BY <3>1
    <3>3. QED
      BY <2>2, <3>2
  <2>4. QED
    BY <2>2, <2>3
<1>7. s \in Seq(found) /\ DOMAIN s = 1..n
  <2>1. s \in [1..n -> found]
    BY ONLY <1>6
  <2>2. s \in Seq(found)
    BY ONLY <2>1, n \in Nat, SeqDef
  <2>3. QED
    BY ONLY <2>1, <2>2
<1>8. ASSUME NEW i \in 1..n, NEW j \in 1..n, s[i] = s[j]
      PROVE  i = j
  <2>1. ids[i] = ids[j]
    BY <1>6, <1>8
  <2>2. i - 1 = j - 1
    BY <1>3, <1>4, <2>1
  <2>3. QED
    BY <1>4, <2>2
<1>9. ASSUME NEW f \in found
      PROVE  \E i \in 1..n : s[i] = f
  <2>1. f.id \in S
    OBVIOUS
  <2>2. PICK i \in 1..n : ids[i] = f.id
    BY <1>3, <1>4, <2>1
  <2>3. s[i] = f
    BY <1>1, <1>6, <2>2
  <2>4. QED
    BY <2>3
<1>10. found = ToSet(s)
  BY <1>6, <1>7, <1>9 DEF ToSet
<1>11. QED
  BY <1>5, <1>7, <1>8, <1>10 DEF Lists

\* Who takes the head of a list leaves the others.
LEMMA TailLists ==
  ASSUME NEW S, NEW s, Lists(s, S), s # <<>>
  PROVE  /\ Head(s) \in S
         /\ Lists(Tail(s), S \ {Head(s)})
<1>1. /\ s \in Seq(S) /\ S = {s[i] : i \in DOMAIN s}
      /\ \A i, j \in DOMAIN s : s[i] = s[j] => i = j
  BY DEF Lists, ToSet
<1>2. /\ Len(s) \in Nat /\ Len(s) # 0 /\ DOMAIN s = 1..Len(s)
      /\ Head(s) = s[1]
  BY <1>1
<1>3. /\ Tail(s) \in Seq(S) /\ Len(Tail(s)) = Len(s) - 1
      /\ \A i \in 1..Len(Tail(s)) : Tail(s)[i] = s[i + 1]
  BY <1>1, HeadTailProperties
<1>4. PICK n \in Nat : n = Len(s) - 1
  <2>1. PICK m \in Nat : m = Len(s) /\ m # 0
    BY ONLY <1>2
  <2>2. m - 1 \in Nat /\ m - 1 = Len(s) - 1
    BY ONLY <2>1, m \in Nat
  <2>3. QED
    BY ONLY <2>2, Zenon
<1>5. PICK t : t = Tail(s) /\ DOMAIN t = 1..n /\ Len(t) = n /\ t \in Seq(S)
  <2>1. PICK t \in Seq(S) : t = Tail(s) /\ Len(t) = n
    BY <1>3, <1>4
  <2>2. DOMAIN t = 1..n
    BY ONLY <2>1, t \in Seq(S)
  <2>3. QED
    BY ONLY <2>1, <2>2, t \in Seq(S), Zenon
<1>6. \A i \in 1..n : t[i] = s[i + 1] /\ i + 1 \in 1..Len(s) /\ i + 1 # 1
  BY <1>2, <1>3, <1>4, <1>5
<1>7. \A i, j \in 1..n : t[i] = t[j] => i = j
  <2>1. ASSUME NEW i \in 1..n, NEW j \in 1..n, t[i] = t[j]
        PROVE  i = j
    <3>1. s[i + 1] = s[j + 1] /\ i + 1 \in DOMAIN s /\ j + 1 \in DOMAIN s
      BY <1>2, <1>6, <2>1
    <3>2. i + 1 = j + 1
      BY <1>1, <3>1
    <3>3. QED
      BY <1>4, <3>2
  <2>2. QED
    BY <2>1
<1>8. \A i \in 1..n : t[i] \in S \ {Head(s)}
  <2>1. ASSUME NEW i \in 1..n
        PROVE  t[i] \in S /\ t[i] # Head(s)
    <3>1. t[i] = s[i + 1] /\ i + 1 \in DOMAIN s /\ i + 1 # 1 /\ 1 \in DOMAIN s
      BY <1>2, <1>6
    <3>2. QED
      BY ONLY <1>1, <1>2, <3>1
  <2>2. QED
    BY <2>1
<1>9. ASSUME NEW x \in S \ {Head(s)}
      PROVE  \E i \in 1..n : t[i] = x
  <2>1. PICK k \in 1..Len(s) : s[k] = x
    BY <1>1, <1>2
  <2>2. k # 1 /\ k - 1 \in 1..n /\ (k - 1) + 1 = k
    BY <1>2, <1>4, <2>1
  <2>3. t[k - 1] = x
    BY <1>6, <2>1, <2>2
  <2>4. QED
    BY <2>2, <2>3
<1>10. t \in Seq(S \ {Head(s)})
  <2>1. t \in [1..n -> S] /\ t = [i \in 1..n |-> t[i]]
    <3>1. t \in Seq(S)
      BY <1>5
    <3>2. t \in [1..Len(t) -> S]
      BY ONLY <3>1
    <3>3. QED
      BY <1>5, <3>2
  <2>2. t \in [1..n -> S \ {Head(s)}]
    BY ONLY <1>8, <2>1
  <2>3. QED
    BY <1>4, <2>2
<1>11. S \ {Head(s)} = ToSet(t)
  BY <1>5, <1>8, <1>9 DEF ToSet
<1>12. Head(s) \in S
  BY <1>1, <1>2
<1>13. QED
  BY <1>5, <1>7, <1>10, <1>11, <1>12 DEF Lists

\* What a parser finds is of its file, and requests are for later.
LEMMA ParsedFile ==
  ASSUME NEW f
  PROVE  /\ \A e \in Parsed(f).entities :
              e.file = f.id /\ e.type # "frontend_api_call"
         /\ \A r \in Parsed(f).relations : r.type \in {"CONTAINS", "DEFINES_API"}
         /\ \A q \in Parsed(f).requests : q.file = f.id
<1>1. \A e \in PythonEntities(f) : e.file = f.id /\ e.type # "frontend_api_call"
  BY DEF PythonEntities, PythonEntity, Entity
<1>2. \A r \in PythonRelations(f) : r.type = "CONTAINS"
  BY DEF PythonRelations, Relation
<1>3. \A c, m : MethodEntity(f, c, m).file = f.id
                  /\ MethodEntity(f, c, m).type = "java_method"
  BY DEF MethodEntity, Entity
<1>4. \A c : ClassEntity(f, c).file = f.id /\ ClassEntity(f, c).type = "java_class"
  BY DEF ClassEntity, Entity
<1>5. ASSUME NEW c, NEW m, NEW e \in Routes(f, c, m)
      PROVE  e.file = f.id /\ e.type = "backend_api"
  <2>1. PICK base, path, verb :
          e = RouteEntity(f, c, m, base, path, verb)
    BY <1>5 DEF Routes
  <2>2. QED
    BY <2>1 DEF RouteEntity, Entity
<1>6. \A e \in JavaEntities(f) : e.file = f.id /\ e.type # "frontend_api_call"
  <2>1. ASSUME NEW e \in JavaEntities(f)
        PROVE  \E c, m : e \in {ClassEntity(f, c), MethodEntity(f, c, m)} \cup Routes(f, c, m)
    BY DEF JavaEntities
  <2>2. QED
    BY <1>3, <1>4, <1>5, <2>1
<1>7. \A r \in JavaRelations(f) : r.type \in {"CONTAINS", "DEFINES_API"}
  BY DEF JavaRelations, Relation
<1>8. \A c : \A q \in Requests(f, c) : q.file = f.id
  BY DEF Requests, Candidate
<1>9. \A q \in UNION {Requests(f, c) : c \in f.syntax.calls} : q.file = f.id
  BY <1>8
<1>10. QED
  BY <1>1, <1>2, <1>6, <1>7, <1>9 DEF Parsed

\* A request becomes one entity or one warning, where the request stands.
ResolvedTo(q, read, e) ==
  /\ Resolution(read, q) = [entities |-> {e}, issues |-> {}]
  /\ e.file = q.file /\ e.line = q.line /\ e.at = q.at
  /\ e.type = "frontend_api_call"

WarnedOf(q, read, i) ==
  /\ Resolution(read, q) = [entities |-> {}, issues |-> {i}]
  /\ i.file = q.file /\ i.at = q.at /\ i.type = "analysis_warning"

\* A request is resolved to one entity or to one warning.
LEMMA ResolutionOne ==
  ASSUME NEW read, NEW q
  PROVE  (\E e : ResolvedTo(q, read, e)) \/ (\E i : WarnedOf(q, read, i))
<1> DEFINE path == ResolvePath(read, q.url)
           verb == ResolveMethod(read, q)
<1>1. CASE path.value = Absent \/ verb.value = Absent
  <2>1. PICK i : i = Issue(q.file, "analysis_warning",
                           IF path.reason # Absent THEN path.reason ELSE verb.reason, q.at)
    OBVIOUS
  <2>2. Resolution(read, q) = [entities |-> {}, issues |-> {i}]
    BY <1>1, <2>1 DEF Resolution
  <2>3. i.file = q.file /\ i.at = q.at /\ i.type = "analysis_warning"
    BY <2>1 DEF Issue
  <2>4. QED
    BY <2>2, <2>3 DEF WarnedOf
<1>2. CASE ~(path.value = Absent \/ verb.value = Absent)
  <2>1. PICK e : e = RequestEntity(q, verb.value, path.value)
    OBVIOUS
  <2>2. Resolution(read, q) = [entities |-> {e}, issues |-> {}]
    BY <1>2, <2>1 DEF Resolution
  <2>3. /\ e.file = q.file /\ e.line = q.line /\ e.at = q.at
        /\ e.type = "frontend_api_call"
    BY <2>1 DEF RequestEntity, Entity
  <2>4. QED
    BY <2>2, <2>3 DEF ResolvedTo
<1>3. QED
  BY <1>1, <1>2

\* The joins of build_relations, link by link.
LinksRequest(found, call, route, r) ==
  /\ call \in OfType(found, "frontend_api_call")
  /\ route \in OfType(found, "backend_api") /\ route.path = call.path
  /\ \/ route.verb = call.verb /\ r = Relation(call, route, "REQUESTS_API", 100)
     \/ /\ route.verb = "ANY" /\ Serving(found, call.path, call.verb) = {}
        /\ r = Relation(call, route, "REQUESTS_API", 80)

\* A REQUESTS_API relation joins a call to a route that serves it.
LEMMA RequestLinks ==
  ASSUME NEW found, NEW r
  PROVE  r \in RequestRelations(found) <=>
           \E call, route : LinksRequest(found, call, route, r)
<1> DEFINE Of(call) ==
             IF Serving(found, call.path, call.verb) # {}
               THEN {Relation(call, route, "REQUESTS_API", 100) :
                       route \in Serving(found, call.path, call.verb)}
               ELSE {Relation(call, route, "REQUESTS_API", 80) :
                       route \in Serving(found, call.path, "ANY")}
<1>1. r \in RequestRelations(found) <=>
        \E call \in OfType(found, "frontend_api_call") : r \in Of(call)
  BY DEF RequestRelations
<1>2. ASSUME NEW call \in OfType(found, "frontend_api_call")
      PROVE  r \in Of(call) <=> \E route : LinksRequest(found, call, route, r)
  <2>1. CASE Serving(found, call.path, call.verb) # {}
    BY <2>1 DEF LinksRequest, Serving
  <2>2. CASE Serving(found, call.path, call.verb) = {}
    <3>1. ASSUME NEW route, LinksRequest(found, call, route, r)
          PROVE  r \in Of(call)
      BY <2>2, <3>1 DEF LinksRequest, Serving
    <3>2. ASSUME r \in Of(call)
          PROVE  \E route : LinksRequest(found, call, route, r)
      <4>1. PICK route \in Serving(found, call.path, "ANY") :
              r = Relation(call, route, "REQUESTS_API", 80)
        BY <2>2, <3>2
      <4>2. LinksRequest(found, call, route, r)
        BY <2>2, <4>1 DEF LinksRequest, Serving
      <4>3. QED
        BY <4>2
    <3>3. QED
      BY <3>1, <3>2
  <2>3. QED
    BY <2>1, <2>2
<1>3. \A call, route : LinksRequest(found, call, route, r) =>
        call \in OfType(found, "frontend_api_call")
  BY DEF LinksRequest
<1> HIDE DEF Of
<1>4. QED
  BY <1>1, <1>2, <1>3

LinksCall(found, method, call, target, r) ==
  /\ method \in OfType(found, "java_method") /\ call \in method.calls
  /\ Callees(found, call) = {target}
  /\ r = Relation(method, target, "CALLS_METHOD", 80)

\* A CALLS_METHOD relation joins a method to a method that a call of its own
\* can mean, where there is only one.
LEMMA CallLinks ==
  ASSUME NEW found, IsFiniteSet(found), NEW r \in CallRelations(found)
  PROVE  \E method, call, target : LinksCall(found, method, call, target, r)
<1>1. PICK method \in OfType(found, "java_method") :
        \E call \in method.calls :
          /\ Cardinality(Callees(found, call)) = 1
          /\ r = Relation(method, CHOOSE m \in Callees(found, call) : TRUE,
                          "CALLS_METHOD", 80)
  BY DEF CallRelations
<1>2. PICK call \in method.calls :
        /\ Cardinality(Callees(found, call)) = 1
        /\ r = Relation(method, CHOOSE m \in Callees(found, call) : TRUE,
                        "CALLS_METHOD", 80)
  BY <1>1
<1>3. PICK S : S = Callees(found, call)
  OBVIOUS
<1>4. S \in SUBSET found
  BY <1>3 DEF Callees, OfType
<1>5. PICK target : S = {target}
  BY <1>2, <1>3, <1>4, FS_Subset, FS_Singleton
<1>6. r = Relation(method, target, "CALLS_METHOD", 80)
  <2>1. (CHOOSE m \in S : TRUE) = target
    BY <1>5
  <2>2. QED
    BY <1>2, <1>3, <2>1
<1>7. QED
  BY <1>3, <1>5, <1>6 DEF LinksCall

-----------------------------------------------------------------------------
(* What holds of a scan at every step                                      *)

\* The files that scan has taken, and those that _parse_files has.
Met ==
  IF stage = "discover" THEN {}
  ELSE IF stage = "read" THEN Discovered \ ToSet(todo) ELSE Discovered
ParsedFiles ==
  IF stage \in {"discover", "read"} THEN {}
  ELSE IF stage = "parse" THEN files \ ToSet(todo) ELSE files
Sound == {f \in ParsedFiles : ~f.raises}

FoundEntities == UNION {Parsed(f).entities : f \in Sound}
FoundRelations == UNION {Parsed(f).relations : f \in Sound}
FoundRequests == UNION {Parsed(f).requests : f \in Sound}

ResolvedEntities == UNION {Resolution(files, q).entities : q \in requests}
ResolvedIssues == UNION {Resolution(files, q).issues : q \in requests}
Warned == {i \in issues : i.type = "analysis_warning"}

\* What went wrong with a file as a whole.
Problems(f) == {i \in OfFile(issues, f) : i.type # "analysis_warning"}

Told(f) ==
  \/ f \notin Met /\ Problems(f) = {}
  \/ /\ f \in Met /\ f \notin files
     /\ \E reason : Problems(f) = {Issue(f.id, "skipped", reason, 0)}
  \/ /\ f \in ParsedFiles /\ f.raises
     /\ Problems(f) = {Issue(f.id, "parse_error", "PARSER_ERROR", 0)}
  \/ f \in files /\ ~(f \in ParsedFiles /\ f.raises) /\ Problems(f) = {}

Stages == {"discover", "read", "parse", "write", "ready", "failed"}

TreeTypeOK ==
  /\ tree \in Trees /\ stage \in Stages
  /\ Lists(todo, ToSet(todo))
  /\ stage = "read" => ToSet(todo) \subseteq Discovered
  /\ stage = "parse" => ToSet(todo) \subseteq files
  /\ files \subseteq Met /\ files \subseteq Discovered

EveryFileTold == \A f \in Discovered : Told(f)

IssuesPlaced == \A i \in issues : \E f \in Discovered : i.file = f.id

\* What was found is what the parsers find in the files that did not fail,
\* and after them what the requests of these files are resolved to.
FoundOK ==
  stage # "failed" =>
    /\ requests = FoundRequests
    /\ stage \in {"discover", "read", "parse"} =>
         entities = FoundEntities /\ relations = FoundRelations /\ Warned = {}
    /\ stage = "write" =>
         /\ entities = FoundEntities \cup ResolvedEntities
         /\ relations = FoundRelations \cup RequestRelations(entities)
                          \cup CallRelations(entities)
    /\ stage \in {"write", "ready"} => Warned = ResolvedIssues

\* A row has keys of its own, and a relation both its ends.
RowsOK ==
  stage = "ready" =>
    /\ entities \subseteq FoundEntities \cup ResolvedEntities
    /\ \A e, g \in entities : LocalKey(e) = LocalKey(g) => e = g
    /\ \A e, g \in entities : EntityKey(e) = EntityKey(g) => e = g
    /\ \A r \in relations : {r.source, r.target} \subseteq {LocalKey(e) : e \in entities}

IsRelation(r) ==
  r = [source |-> r.source, target |-> r.target, type |-> r.type,
       confidence |-> r.confidence]

FiniteFound ==
  /\ IsFiniteSet(entities) /\ IsFiniteSet(relations) /\ IsFiniteSet(requests)
  /\ IsFiniteSet(issues)
  /\ \A r \in relations : IsRelation(r)

TreeInv ==
  TreeTypeOK /\ EveryFileTold /\ IssuesPlaced /\ FoundOK /\ RowsOK /\ FiniteFound

\* The empty sequence lists the empty set.
LEMMA EmptyLists == ToSet(<<>>) = {} /\ Lists(<<>>, {})
<1>1. ToSet(<<>>) = {}
  BY DEF ToSet
<1>2. QED
  BY <1>1 DEF Lists

\* A scan begins with a tree and nothing else.
LEMMA InitTree == TreeInit => TreeInv
<1> SUFFICES ASSUME TreeInit PROVE TreeInv
  OBVIOUS
<1> USE EmptyLists DEF TreeInit
<1>1. TreeTypeOK
  BY DEF TreeTypeOK, Stages, Met
<1>2. EveryFileTold
  BY DEF EveryFileTold, Told, Met, Problems, OfFile
<1>3. FoundOK
  BY DEF FoundOK, FoundEntities, FoundRelations, FoundRequests, Sound, ParsedFiles, Warned
<1>4. FiniteFound
  BY FS_EmptySet DEF FiniteFound
<1>5. QED
  BY <1>1, <1>2, <1>3, <1>4 DEF TreeInv, IssuesPlaced, RowsOK

\* What is said of one file changes nothing that is said of another.
LEMMA OtherFiles ==
  ASSUME tree \in Trees, NEW f \in Discovered, NEW g \in Discovered, g # f,
         \A i \in issues' : i \in issues \/ i.file = f.id,
         issues \subseteq issues'
  PROVE  Problems(g)' = Problems(g)
<1>1. g.id # f.id
  BY SourcesAssumption DEF Discovered
<1>2. QED
  BY <1>1 DEF Problems, OfFile

\* The scanner has the files of the tree before it and has taken none.
LEMMA DiscoverInv ==
  ASSUME TreeInv, Discover
  PROVE  TreeInv'
<1> USE DEF TreeInv, Discover
<1>1. Discovered' = Discovered /\ Discovered \in SUBSET tree
  BY DEF Discovered
<1>2. Lists(todo', Discovered)
  BY <1>1, OrderedLists DEF TreeTypeOK
<1>3. ToSet(todo') = Discovered
  BY <1>2 DEF Lists
<1>4. files = {}
  BY DEF TreeTypeOK, Met
<1>5. TreeTypeOK'
  <2>1. ToSet(todo)' = Discovered
    BY <1>3
  <2>2. Lists(todo, ToSet(todo))'
    BY <1>2, <2>1
  <2>3. QED
    BY <1>1, <1>4, <2>1, <2>2 DEF TreeTypeOK, Stages, Met
<1>6. EveryFileTold'
  <2>1. Met' = {} /\ Met = {}
    BY <1>1, <1>3 DEF Met
  <2>2. \A f \in Discovered : Problems(f)' = Problems(f) /\ Told(f)
    BY DEF Problems, OfFile, EveryFileTold
  <2>3. \A f \in Discovered : Problems(f) = {}
    BY <1>4, <2>1, <2>2 DEF Told, ParsedFiles
  <2>4. QED
    BY <1>1, <2>1, <2>2, <2>3 DEF EveryFileTold, Told
<1>7. IssuesPlaced'
  BY <1>1 DEF IssuesPlaced
<1>8. FoundOK'
  <2>1. Sound = {} /\ Sound' = {}
    BY DEF Sound, ParsedFiles
  <2>2. QED
    BY <2>1 DEF FoundOK, FoundEntities, FoundRelations, FoundRequests, Warned
<1>9. RowsOK' /\ FiniteFound'
  BY DEF RowsOK, FiniteFound
<1>10. QED
  BY <1>5, <1>6, <1>7, <1>8, <1>9

\* A file is taken or gets the one reason why it is skipped.
LEMMA ReadFileInv ==
  ASSUME TreeInv, ReadFile
  PROVE  TreeInv'
<1> USE DEF TreeInv
<1>1. PICK f, readable :
        /\ f = Head(todo)
        /\ files' = IF Skipped(f, readable) = {} THEN files \cup {f} ELSE files
        /\ issues' = issues \cup {Issue(f.id, "skipped", reason, 0) :
                                    reason \in Skipped(f, readable)}
  BY DEF ReadFile
<1>2. /\ stage = "read" /\ stage' = "read" /\ todo # <<>> /\ todo' = Tail(todo)
      /\ UNCHANGED <<tree, entities, relations, requests>>
  BY DEF ReadFile
<1>3. PICK left : left = ToSet(todo) /\ left \subseteq Discovered /\ Lists(todo, left)
  BY <1>2 DEF TreeTypeOK
<1>4. f \in left /\ Lists(todo', left \ {f})
  BY <1>1, <1>2, <1>3, TailLists
<1>5. ToSet(todo') = left \ {f}
  BY <1>4 DEF Lists
<1>6. Discovered' = Discovered /\ f \in Discovered
  BY <1>2, <1>3, <1>4 DEF Discovered
<1>7. Met = Discovered \ left /\ Met' = Met \cup {f} /\ f \notin Met
  BY <1>2, <1>3, <1>4, <1>5, <1>6 DEF Met
<1>8. files \subseteq Met /\ f \notin files
  BY <1>7 DEF TreeTypeOK
<1>9. TreeTypeOK'
  <2>1. ToSet(todo)' = left \ {f} /\ Lists(todo, ToSet(todo))'
    BY <1>4, <1>5
  <2>2. files' \subseteq Met' /\ files' \subseteq Discovered
    BY <1>1, <1>6, <1>7, <1>8 DEF TreeTypeOK
  <2>3. QED
    BY <1>2, <1>3, <1>6, <2>1, <2>2 DEF TreeTypeOK, Stages
<1>10. ParsedFiles = {} /\ ParsedFiles' = {}
  BY <1>2 DEF ParsedFiles
<1>11. Problems(f) = {}
  BY <1>6, <1>7, <1>8, <1>10 DEF EveryFileTold, Told
<1>12. ASSUME NEW g \in Discovered
       PROVE  Told(g)'
  <2>1. CASE g # f
    <3>1. Problems(g)' = Problems(g)
      <4>1. \A i \in issues' : i \in issues \/ i.file = f.id
        BY <1>1 DEF Issue
      <4>2. issues \subseteq issues'
        BY <1>1
      <4>3. QED
        BY <1>6, <2>1, <4>1, <4>2, OtherFiles DEF TreeTypeOK
    <3>2. (g \in Met <=> g \in Met') /\ (g \in files <=> g \in files')
      BY <1>1, <1>7, <2>1
    <3>3. QED
      BY <1>10, <3>1, <3>2 DEF EveryFileTold, Told
  <2>2. CASE g = f
    <3>1. CASE Skipped(f, readable) = {}
      <4>1. Problems(f)' = {} /\ f \in files'
        BY <1>1, <1>11, <3>1 DEF Problems, OfFile
      <4>2. QED
        BY <1>10, <2>2, <4>1 DEF Told
    <3>2. CASE Skipped(f, readable) # {}
      <4>1. PICK reason : Skipped(f, readable) = {reason}
        BY <3>2 DEF Skipped
      <4>2. issues' = issues \cup {Issue(f.id, "skipped", reason, 0)}
        BY <1>1, <4>1
      <4>3. Problems(f)' = Problems(f) \cup {Issue(f.id, "skipped", reason, 0)}
        BY <4>2 DEF Problems, OfFile, Issue
      <4>4. f \in Met' /\ f \notin files'
        BY <1>1, <1>7, <1>8, <3>2
      <4>5. QED
        BY <1>11, <2>2, <4>3, <4>4 DEF Told
    <3>3. QED
      BY <3>1, <3>2
  <2>3. QED
    BY <2>1, <2>2
<1>13. IssuesPlaced'
  BY <1>1, <1>6 DEF IssuesPlaced, Issue
<1>14. FoundOK'
  <2>1. Sound = {} /\ Sound' = {}
    BY <1>10 DEF Sound
  <2>2. Warned' = Warned
    BY <1>1 DEF Warned, Issue
  <2>3. QED
    BY <1>2, <2>1, <2>2 DEF FoundOK, FoundEntities, FoundRelations, FoundRequests
<1>15. RowsOK'
  BY <1>2 DEF RowsOK
<1>16. FiniteFound'
  <2>1. CASE Skipped(f, readable) = {}
    <3>1. issues' = issues
      BY <1>1, <2>1
    <3>2. QED
      BY <1>2, <3>1 DEF FiniteFound
  <2>2. CASE Skipped(f, readable) # {}
    <3>1. PICK reason : Skipped(f, readable) = {reason}
      BY <2>2 DEF Skipped
    <3>2. issues' = issues \cup {Issue(f.id, "skipped", reason, 0)}
      BY <1>1, <3>1
    <3>3. IsFiniteSet(issues')
      BY <3>2, FS_AddElement DEF FiniteFound
    <3>4. QED
      BY <1>2, <3>3 DEF FiniteFound
  <2>3. QED
    BY <2>1, <2>2
<1>17. QED
  BY <1>6, <1>9, <1>12, <1>13, <1>14, <1>15, <1>16 DEF EveryFileTold

\* The parsers have before them exactly the files that were taken.
LEMMA ScannedInv ==
  ASSUME TreeInv, Scanned
  PROVE  TreeInv'
<1> USE DEF TreeInv
<1>1. /\ stage = "read" /\ stage' = "parse" /\ todo = <<>>
      /\ todo' = Ordered(files)
      /\ UNCHANGED <<tree, files, entities, relations, requests, issues>>
  BY DEF Scanned
<1>2. Discovered' = Discovered /\ Discovered \in SUBSET tree
  BY <1>1 DEF Discovered
<1>3. Lists(todo', files)
  <2>1. files \in SUBSET tree
    BY <1>2 DEF TreeTypeOK
  <2>2. QED
    BY <1>1, <2>1, OrderedLists DEF TreeTypeOK
<1>4. ToSet(todo') = files
  BY <1>3 DEF Lists
<1>5. Met = Discovered /\ Met' = Discovered
  BY <1>1, <1>2, EmptyLists DEF Met
<1>6. ParsedFiles = {} /\ ParsedFiles' = {}
  BY <1>1, <1>4 DEF ParsedFiles
<1>7. TreeTypeOK'
  <2>1. ToSet(todo)' = files /\ Lists(todo, ToSet(todo))'
    BY <1>3, <1>4
  <2>2. QED
    BY <1>1, <1>2, <1>5, <2>1 DEF TreeTypeOK, Stages
<1>8. EveryFileTold'
  <2>1. \A f \in Discovered : Problems(f)' = Problems(f)
    BY <1>1 DEF Problems, OfFile
  <2>2. QED
    BY <1>1, <1>2, <1>5, <1>6, <2>1 DEF EveryFileTold, Told
<1>9. IssuesPlaced'
  BY <1>1, <1>2 DEF IssuesPlaced
<1>10. FoundOK'
  <2>1. Sound = {} /\ Sound' = {}
    BY <1>6 DEF Sound
  <2>2. QED
    BY <1>1, <2>1 DEF FoundOK, FoundEntities, FoundRelations, FoundRequests, Warned
<1>11. RowsOK' /\ FiniteFound'
  BY <1>1 DEF RowsOK, FiniteFound
<1>12. QED
  BY <1>7, <1>8, <1>9, <1>10, <1>11

\* The relations of a parser are made of two keys, a type and a confidence.
LEMMA ParsedRelations ==
  ASSUME NEW f, NEW r \in Parsed(f).relations
  PROVE  IsRelation(r)
<1>1. \A a, b, t, c : IsRelation(Relation(a, b, t, c))
  BY DEF IsRelation, Relation
<1>2. r \in PythonRelations(f) \/ r \in JavaRelations(f)
  BY DEF Parsed
<1>3. \E a, b, t, c : r = Relation(a, b, t, c)
  BY <1>2 DEF PythonRelations, JavaRelations
<1>4. QED
  BY <1>1, <1>3

\* A file adds what its parser finds, or the one issue that says it failed.
LEMMA ParseFileInv ==
  ASSUME TreeInv, ParseFile
  PROVE  TreeInv'
<1> USE DEF TreeInv
<1>1. /\ stage = "parse" /\ stage' = "parse" /\ todo # <<>> /\ todo' = Tail(todo)
      /\ UNCHANGED <<tree, files>>
  BY DEF ParseFile
<1>2. PICK f : /\ f = Head(todo)
               /\ IF f.raises
                    THEN /\ issues' = issues \cup {Issue(f.id, "parse_error", "PARSER_ERROR", 0)}
                         /\ UNCHANGED <<entities, relations, requests>>
                    ELSE /\ entities' = entities \cup Parsed(f).entities
                         /\ relations' = relations \cup Parsed(f).relations
                         /\ requests' = requests \cup Parsed(f).requests
                         /\ UNCHANGED issues
  BY DEF ParseFile
<1>3. PICK left : left = ToSet(todo) /\ left \subseteq files /\ Lists(todo, left)
  BY <1>1 DEF TreeTypeOK
<1>4. f \in left /\ Lists(todo', left \ {f})
  BY <1>1, <1>2, <1>3, TailLists
<1>5. ToSet(todo') = left \ {f}
  BY <1>4 DEF Lists
<1>6. Discovered' = Discovered /\ f \in Discovered /\ f \in files
  BY <1>1, <1>3, <1>4 DEF Discovered, TreeTypeOK
<1>7. Met = Discovered /\ Met' = Discovered
  BY <1>1, <1>6 DEF Met
<1>8. /\ ParsedFiles = files \ left /\ ParsedFiles' = ParsedFiles \cup {f}
      /\ f \notin ParsedFiles
  BY <1>1, <1>3, <1>4, <1>5, <1>6 DEF ParsedFiles
<1>9. TreeTypeOK'
  <2>1. ToSet(todo)' = left \ {f} /\ Lists(todo, ToSet(todo))'
    BY <1>4, <1>5
  <2>2. QED
    BY <1>1, <1>3, <1>6, <1>7, <2>1 DEF TreeTypeOK, Stages
<1>10. Problems(f) = {}
  BY <1>6, <1>7, <1>8 DEF EveryFileTold, Told
<1>11. ASSUME NEW g \in Discovered
       PROVE  Told(g)'
  <2>1. CASE g # f
    <3>1. Problems(g)' = Problems(g)
      <4>1. \A i \in issues' : i \in issues \/ i.file = f.id
        BY <1>2 DEF Issue
      <4>2. issues \subseteq issues'
        BY <1>2
      <4>3. QED
        BY <1>6, <2>1, <4>1, <4>2, OtherFiles DEF TreeTypeOK
    <3>2. g \in ParsedFiles <=> g \in ParsedFiles'
      BY <1>8, <2>1
    <3>3. QED
      BY <1>1, <1>7, <3>1, <3>2 DEF EveryFileTold, Told
  <2>2. CASE g = f
    <3>1. CASE f.raises
      <4>1. issues' = issues \cup {Issue(f.id, "parse_error", "PARSER_ERROR", 0)}
        BY <1>2, <3>1
      <4>2. Problems(f)' = Problems(f) \cup {Issue(f.id, "parse_error", "PARSER_ERROR", 0)}
        BY <4>1 DEF Problems, OfFile, Issue
      <4>3. QED
        BY <1>8, <1>10, <2>2, <3>1, <4>2 DEF Told
    <3>2. CASE ~f.raises
      <4>1. Problems(f)' = Problems(f)
        BY <1>2, <3>2 DEF Problems, OfFile
      <4>2. QED
        BY <1>1, <1>6, <1>10, <2>2, <3>2, <4>1 DEF Told
    <3>3. QED
      BY <3>1, <3>2
  <2>3. QED
    BY <2>1, <2>2
<1>12. IssuesPlaced'
  BY <1>2, <1>6 DEF IssuesPlaced, Issue
<1>13. FoundOK'
  <2>1. Warned' = Warned
    BY <1>2 DEF Warned, Issue
  <2>2. /\ entities = FoundEntities /\ relations = FoundRelations
        /\ requests = FoundRequests /\ Warned = {}
    BY <1>1 DEF FoundOK
  <2>3. CASE f.raises
    <3>1. Sound' = Sound
      BY <1>8, <2>3 DEF Sound
    <3>2. QED
      BY <1>1, <1>2, <2>1, <2>2, <2>3, <3>1
         DEF FoundOK, FoundEntities, FoundRelations, FoundRequests
  <2>4. CASE ~f.raises
    <3>1. Sound' = Sound \cup {f}
      BY <1>8, <2>4 DEF Sound
    <3>2. /\ FoundEntities' = FoundEntities \cup Parsed(f).entities
          /\ FoundRelations' = FoundRelations \cup Parsed(f).relations
          /\ FoundRequests' = FoundRequests \cup Parsed(f).requests
      BY <3>1 DEF FoundEntities, FoundRelations, FoundRequests
    <3>3. QED
      BY <1>1, <1>2, <2>1, <2>2, <2>4, <3>2 DEF FoundOK
  <2>5. QED
    BY <2>3, <2>4
<1>14. RowsOK'
  BY <1>1 DEF RowsOK
<1>15. FiniteFound'
  <2>1. CASE f.raises
    <3>1. IsFiniteSet(issues')
      BY <1>2, <2>1, FS_AddElement DEF FiniteFound
    <3>2. QED
      BY <1>2, <2>1, <3>1 DEF FiniteFound
  <2>2. CASE ~f.raises
    <3>1. /\ IsFiniteSet(Parsed(f).entities) /\ IsFiniteSet(Parsed(f).relations)
          /\ IsFiniteSet(Parsed(f).requests)
      BY <1>6, ParserAssumption DEF Discovered, TreeTypeOK
    <3>2. /\ IsFiniteSet(entities') /\ IsFiniteSet(relations')
          /\ IsFiniteSet(requests')
      <4>1. IsFiniteSet(entities \cup Parsed(f).entities)
        BY <3>1, FS_Union DEF FiniteFound
      <4>2. IsFiniteSet(relations \cup Parsed(f).relations)
        BY <3>1, FS_Union DEF FiniteFound
      <4>3. IsFiniteSet(requests \cup Parsed(f).requests)
        BY <3>1, FS_Union DEF FiniteFound
      <4>4. QED
        BY <1>2, <2>2, <4>1, <4>2, <4>3
    <3>3. \A r \in relations' : IsRelation(r)
      BY <1>2, <2>2, ParsedRelations DEF FiniteFound
    <3>4. QED
      BY <1>2, <2>2, <3>2, <3>3 DEF FiniteFound
  <2>3. QED
    BY <2>1, <2>2
<1>16. QED
  BY <1>6, <1>9, <1>11, <1>12, <1>13, <1>14, <1>15 DEF EveryFileTold

\* Finitely many requests are resolved to finitely many entities and warnings.
LEMMA FiniteResolved ==
  ASSUME NEW read, NEW Q, IsFiniteSet(Q)
  PROVE  /\ IsFiniteSet(UNION {Resolution(read, q).entities : q \in Q})
         /\ IsFiniteSet(UNION {Resolution(read, q).issues : q \in Q})
<1>1. ASSUME NEW h, h = [q \in Q |-> h[q]], \A q \in Q : IsFiniteSet(h[q])
      PROVE  IsFiniteSet(UNION {h[q] : q \in Q})
  <2>1. PICK T : T = {h[q] : q \in Q}
    OBVIOUS
  <2>2. h \in Surjection(Q, T)
    BY <1>1, <2>1 DEF Surjection
  <2>3. IsFiniteSet(T)
    BY <2>2, FS_Surjection
  <2>4. \A t \in T : IsFiniteSet(t)
    BY <1>1, <2>1
  <2>5. QED
    BY <2>1, <2>3, <2>4, FS_UNION
<1>2. \A q : /\ IsFiniteSet(Resolution(read, q).entities)
             /\ IsFiniteSet(Resolution(read, q).issues)
  <2>1. ASSUME NEW q
        PROVE  /\ IsFiniteSet(Resolution(read, q).entities)
               /\ IsFiniteSet(Resolution(read, q).issues)
    <3>1. CASE \E e : ResolvedTo(q, read, e)
      <4>1. PICK e : Resolution(read, q) = [entities |-> {e}, issues |-> {}]
        BY <3>1 DEF ResolvedTo
      <4>2. Resolution(read, q).entities = {e} /\ Resolution(read, q).issues = {}
        BY <4>1
      <4>3. IsFiniteSet({}) /\ IsFiniteSet({e})
        BY FS_EmptySet, FS_Singleton
      <4>4. QED
        BY <4>2, <4>3
    <3>2. CASE \E i : WarnedOf(q, read, i)
      <4>1. PICK i : Resolution(read, q) = [entities |-> {}, issues |-> {i}]
        BY <3>2 DEF WarnedOf
      <4>2. Resolution(read, q).entities = {} /\ Resolution(read, q).issues = {i}
        BY <4>1
      <4>3. IsFiniteSet({}) /\ IsFiniteSet({i})
        BY FS_EmptySet, FS_Singleton
      <4>4. QED
        BY <4>2, <4>3
    <3>3. QED
      BY <3>1, <3>2, ResolutionOne
  <2>2. QED
    BY <2>1
<1>3. PICK h : h = [q \in Q |-> Resolution(read, q).entities]
  OBVIOUS
<1>4. PICK g : g = [q \in Q |-> Resolution(read, q).issues]
  OBVIOUS
<1>5. IsFiniteSet(UNION {h[q] : q \in Q})
  BY <1>1, <1>2, <1>3
<1>6. IsFiniteSet(UNION {g[q] : q \in Q})
  BY <1>1, <1>2, <1>4
<1>7. QED
  BY <1>3, <1>4, <1>5, <1>6

\* What build_relations adds is finite and made of relations.
LEMMA FiniteJoins ==
  ASSUME NEW found, IsFiniteSet(found)
  PROVE  /\ IsFiniteSet(RequestRelations(found) \cup CallRelations(found))
         /\ \A r \in RequestRelations(found) \cup CallRelations(found) :
              /\ IsRelation(r)
              /\ {r.source, r.target} \subseteq {LocalKey(e) : e \in found}
<1> DEFINE Kinds == {"REQUESTS_API", "CALLS_METHOD"} \X {80, 100}
           D == (found \X found) \X Kinds
           h == [d \in D |-> Relation(d[1][1], d[1][2], d[2][1], d[2][2])]
           T == {h[d] : d \in D}
<1>1. IsFiniteSet(T)
  <2>1. IsFiniteSet({"REQUESTS_API", "CALLS_METHOD"}) /\ IsFiniteSet({80, 100})
    <3>1. IsFiniteSet({"REQUESTS_API"} \cup {"CALLS_METHOD"}) /\ IsFiniteSet({80} \cup {100})
      BY FS_Singleton, FS_AddElement
    <3>2. QED
      BY <3>1
  <2>2. IsFiniteSet(Kinds) /\ IsFiniteSet(found \X found)
    BY <2>1, FS_Product
  <2>3. IsFiniteSet(D)
    <3> HIDE DEF Kinds
    <3>1. QED
      BY <2>2, FS_Product
  <2>4. h \in Surjection(D, T)
    BY DEF Surjection
  <2>5. QED
    <3> HIDE DEF D, h, T
    <3>1. QED
      BY <2>3, <2>4, FS_Surjection
<1>2. ASSUME NEW a \in found, NEW b \in found, NEW t \in {"REQUESTS_API", "CALLS_METHOD"},
             NEW c \in {80, 100}
      PROVE  Relation(a, b, t, c) \in T
  <2>1. <<<<a, b>>, <<t, c>>>> \in D
    OBVIOUS
  <2>2. h[<<<<a, b>>, <<t, c>>>>] = Relation(a, b, t, c)
    BY <2>1
  <2>3. QED
    BY <2>1, <2>2
<1>3. ASSUME NEW r \in RequestRelations(found) \cup CallRelations(found)
      PROVE  \E a, b \in found : \E t \in {"REQUESTS_API", "CALLS_METHOD"} :
               \E c \in {80, 100} : r = Relation(a, b, t, c)
  <2>1. CASE r \in RequestRelations(found)
    <3>1. PICK call, route : LinksRequest(found, call, route, r)
      BY <2>1, RequestLinks
    <3>2. QED
      BY <3>1 DEF LinksRequest, OfType
  <2>2. CASE r \in CallRelations(found)
    <3>1. PICK method, call, target : LinksCall(found, method, call, target, r)
      BY <2>2, CallLinks
    <3>2. target \in found
      BY <3>1 DEF LinksCall, Callees, OfType
    <3>3. QED
      BY <3>1, <3>2 DEF LinksCall, OfType
  <2>3. QED
    BY <2>1, <2>2
<1>4. RequestRelations(found) \cup CallRelations(found) \in SUBSET T
  <2> HIDE DEF T
  <2>1. QED
    BY <1>2, <1>3
<1>5. IsFiniteSet(RequestRelations(found) \cup CallRelations(found))
  <2> HIDE DEF T
  <2>1. QED
    BY <1>1, <1>4, FS_Subset
<1>6. ASSUME NEW r \in RequestRelations(found) \cup CallRelations(found)
      PROVE  IsRelation(r) /\ {r.source, r.target} \subseteq {LocalKey(e) : e \in found}
  <2>1. PICK a, b \in found : \E t, c : r = Relation(a, b, t, c)
    BY <1>3
  <2>2. PICK t, c : r = Relation(a, b, t, c)
    BY <2>1
  <2>3. r.source = LocalKey(a) /\ r.target = LocalKey(b) /\ IsRelation(r)
    BY <2>2 DEF Relation, IsRelation
  <2>4. QED
    BY <2>3
<1>7. QED
  BY <1>5, <1>6

\* Resolution adds the entities and warnings of the requests, and the joins.
LEMMA ResolveInv ==
  ASSUME TreeInv, Resolve
  PROVE  TreeInv'
<1> USE DEF TreeInv
<1>1. /\ stage = "parse" /\ stage' = "write" /\ todo = <<>>
      /\ UNCHANGED <<tree, todo, files, requests>>
  BY DEF Resolve
<1>2. /\ entities' = entities \cup ResolvedEntities
      /\ relations' = relations \cup RequestRelations(entities')
                        \cup CallRelations(entities')
      /\ issues' = issues \cup ResolvedIssues
  BY DEF Resolve, ResolvedEntities, ResolvedIssues
<1>3. Discovered' = Discovered
  BY <1>1 DEF Discovered
<1>4. /\ Met = Discovered /\ Met' = Discovered
      /\ ParsedFiles = files /\ ParsedFiles' = files
  BY <1>1, <1>3, EmptyLists DEF Met, ParsedFiles
<1>5. \A i \in ResolvedIssues : /\ i.type = "analysis_warning"
                                /\ \E q \in requests : i.file = q.file
  <2>1. ASSUME NEW i \in ResolvedIssues
        PROVE  i.type = "analysis_warning" /\ \E q \in requests : i.file = q.file
    <3>1. PICK q \in requests : i \in Resolution(files, q).issues
      BY DEF ResolvedIssues
    <3>2. WarnedOf(q, files, i)
      BY <3>1, ResolutionOne DEF ResolvedTo, WarnedOf
    <3>3. QED
      BY <3>1, <3>2 DEF WarnedOf
  <2>2. QED
    BY <2>1
<1>6. TreeTypeOK'
  BY <1>1, <1>3, <1>4 DEF TreeTypeOK, Stages
<1>7. EveryFileTold'
  <2>1. \A f \in Discovered : Problems(f)' = Problems(f)
    BY <1>2, <1>5 DEF Problems, OfFile
  <2>2. QED
    BY <1>1, <1>3, <1>4, <2>1 DEF EveryFileTold, Told
<1>8. IssuesPlaced'
  <2>1. \A q \in requests : \E f \in Discovered : q.file = f.id
    <3>1. \A q \in requests : \E f \in Sound : q \in Parsed(f).requests
      BY <1>1 DEF FoundOK, FoundRequests
    <3>2. Sound \subseteq Discovered
      BY <1>4 DEF Sound, TreeTypeOK
    <3>3. QED
      BY <3>1, <3>2, ParsedFile
  <2>2. QED
    BY <1>2, <1>3, <1>5, <2>1 DEF IssuesPlaced
<1>9. FoundOK'
  <2>1. Sound' = Sound
    BY <1>4 DEF Sound
  <2>2. /\ FoundEntities' = FoundEntities /\ FoundRelations' = FoundRelations
        /\ FoundRequests' = FoundRequests
    BY <2>1 DEF FoundEntities, FoundRelations, FoundRequests
  <2>3. ResolvedEntities' = ResolvedEntities /\ ResolvedIssues' = ResolvedIssues
    BY <1>1 DEF ResolvedEntities, ResolvedIssues
  <2>4. /\ entities = FoundEntities /\ relations = FoundRelations
        /\ requests = FoundRequests /\ Warned = {}
    BY <1>1 DEF FoundOK
  <2>5. Warned' = ResolvedIssues
    BY <1>2, <1>5, <2>4 DEF Warned
  <2>6. QED
    BY <1>1, <1>2, <2>2, <2>3, <2>4, <2>5 DEF FoundOK
<1>10. RowsOK'
  BY <1>1 DEF RowsOK
<1>11. FiniteFound'
  <2>1. IsFiniteSet(ResolvedEntities) /\ IsFiniteSet(ResolvedIssues)
    BY FiniteResolved DEF FiniteFound, ResolvedEntities, ResolvedIssues
  <2>2. IsFiniteSet(entities')
    BY <1>2, <2>1, FS_Union DEF FiniteFound
  <2>3. IsFiniteSet(issues')
    BY <1>2, <2>1, FS_Union DEF FiniteFound
  <2>4. PICK joins : joins = RequestRelations(entities') \cup CallRelations(entities')
    OBVIOUS
  <2>5. IsFiniteSet(joins) /\ \A r \in joins : IsRelation(r)
    BY <2>2, <2>4, FiniteJoins
  <2>6. relations' = relations \cup joins
    BY <1>2, <2>4
  <2>7. IsFiniteSet(relations')
    BY <2>5, <2>6, FS_Union DEF FiniteFound
  <2>8. QED
    BY <1>1, <2>2, <2>3, <2>5, <2>6, <2>7 DEF FiniteFound
<1>12. QED
  BY <1>6, <1>7, <1>8, <1>9, <1>10, <1>11

\* A row for each local key, and for rows without a key in common each one.
LEMMA RowsKeyed ==
  /\ Rows \subseteq entities
  /\ \A e, g \in Rows : LocalKey(e) = LocalKey(g) => e = g
  /\ (\A e, g \in entities : LocalKey(e) = LocalKey(g) => e = g) => Rows = entities
<1> DEFINE Keys == {LocalKey(e) : e \in entities}
<1>1. \A key \in Keys : RowOf(key) \in entities /\ LocalKey(RowOf(key)) = key
  BY DEF RowOf
<1>2. \A e \in Rows : \E key \in Keys : e = RowOf(key)
  BY DEF Rows, RowOf
<1>3. \A key \in Keys : RowOf(key) \in Rows
  BY DEF Rows, RowOf
<1>4. \A e \in entities : LocalKey(e) \in Keys
  OBVIOUS
<1> HIDE DEF Keys
<1>5. QED
  BY <1>1, <1>2, <1>3, <1>4

\* The rows of an index are of what was found, each under a key of its own.
LEMMA WriteInv ==
  ASSUME TreeInv, Write
  PROVE  TreeInv'
<1> USE DEF TreeInv
<1>1. /\ stage = "write" /\ stage' = "ready" /\ ~Conflict
      /\ UNCHANGED <<tree, todo, files, requests, issues>>
  BY DEF Write
<1>2. /\ entities' = Rows
      /\ relations' = {r \in relations :
                         {r.source, r.target} \subseteq {LocalKey(e) : e \in Rows}}
  BY DEF Write
<1>3. Discovered' = Discovered
  BY <1>1 DEF Discovered
<1>4. /\ Met = Discovered /\ Met' = Discovered
      /\ ParsedFiles = files /\ ParsedFiles' = files
  BY <1>1, <1>3 DEF Met, ParsedFiles
<1>5. TreeTypeOK'
  BY <1>1, <1>3, <1>4 DEF TreeTypeOK, Stages
<1>6. EveryFileTold'
  <2>1. \A f \in Discovered : Problems(f)' = Problems(f)
    BY <1>1 DEF Problems, OfFile
  <2>2. QED
    BY <1>1, <1>3, <1>4, <2>1 DEF EveryFileTold, Told
<1>7. IssuesPlaced'
  BY <1>1, <1>3 DEF IssuesPlaced
<1>8. Sound' = Sound
  BY <1>4 DEF Sound
<1>9. /\ FoundEntities' = FoundEntities /\ FoundRequests' = FoundRequests
      /\ ResolvedEntities' = ResolvedEntities /\ ResolvedIssues' = ResolvedIssues
  BY <1>1, <1>8 DEF FoundEntities, FoundRequests, ResolvedEntities, ResolvedIssues
<1>10. FoundOK'
  BY <1>1, <1>9 DEF FoundOK, Warned
<1>11. RowsOK'
  <2>1. entities' \subseteq FoundEntities \cup ResolvedEntities
    BY <1>1, <1>2, RowsKeyed DEF FoundOK
  <2>2. \A e, g \in Rows : EntityKey(e) = EntityKey(g) => e = g
    BY <1>1 DEF Conflict
  <2>3. QED
    BY <1>2, <1>9, <2>1, <2>2, RowsKeyed DEF RowsOK
<1>12. FiniteFound'
  <2>1. IsFiniteSet(Rows)
    BY RowsKeyed, FS_Subset DEF FiniteFound
  <2>2. PICK kept : kept = relations' /\ kept \in SUBSET relations
    BY <1>2
  <2>3. IsFiniteSet(kept)
    BY <2>2, FS_Subset DEF FiniteFound
  <2>4. QED
    BY <1>1, <1>2, <2>1, <2>2, <2>3 DEF FiniteFound
<1>13. QED
  BY <1>5, <1>6, <1>7, <1>10, <1>11, <1>12

\* A scan that fails leaves the account of its files as it was.
LEMMA FailInv ==
  ASSUME TreeInv, Fail
  PROVE  TreeInv'
<1> USE DEF TreeInv
<1>1. /\ stage \in {"parse", "write"} /\ (stage = "parse" => todo = <<>>)
      /\ stage' = "failed"
      /\ UNCHANGED <<tree, todo, files, entities, relations, requests, issues>>
  BY DEF Fail
<1>2. Discovered' = Discovered
  BY <1>1 DEF Discovered
<1>3. /\ Met = Discovered /\ Met' = Discovered
      /\ ParsedFiles = files /\ ParsedFiles' = files
  BY <1>1, <1>2, EmptyLists DEF Met, ParsedFiles
<1>4. TreeTypeOK'
  BY <1>1, <1>2, <1>3 DEF TreeTypeOK, Stages
<1>5. EveryFileTold'
  <2>1. \A f \in Discovered : Problems(f)' = Problems(f)
    BY <1>1 DEF Problems, OfFile
  <2>2. QED
    BY <1>1, <1>2, <1>3, <2>1 DEF EveryFileTold, Told
<1>6. IssuesPlaced' /\ FoundOK' /\ RowsOK' /\ FiniteFound'
  BY <1>1, <1>2 DEF IssuesPlaced, FoundOK, RowsOK, FiniteFound
<1>7. QED
  BY <1>4, <1>5, <1>6

\* A step that changes nothing keeps the invariant.
LEMMA UnchangedInv ==
  ASSUME TreeInv, UNCHANGED treeVars
  PROVE  TreeInv'
BY DEF TreeInv, treeVars, TreeTypeOK, EveryFileTold, Told, Met, ParsedFiles, Problems,
   OfFile, Discovered, IssuesPlaced, FoundOK, FoundEntities, FoundRelations,
   FoundRequests, Sound, ResolvedEntities, ResolvedIssues, Warned, RowsOK, FiniteFound

\* What the scanner has taken and the parsers have found is told in full at
\* every step.
LEMMA TreeInvariant == TreeSpec => []TreeInv
<1>1. ASSUME TreeInv, [TreeNext]_treeVars PROVE TreeInv'
  <2>1. CASE Discover
    BY <1>1, <2>1, DiscoverInv
  <2>2. CASE ReadFile
    BY <1>1, <2>2, ReadFileInv
  <2>3. CASE Scanned
    BY <1>1, <2>3, ScannedInv
  <2>4. CASE ParseFile
    BY <1>1, <2>4, ParseFileInv
  <2>5. CASE Resolve
    BY <1>1, <2>5, ResolveInv
  <2>6. CASE Write
    BY <1>1, <2>6, WriteInv
  <2>7. CASE Fail
    BY <1>1, <2>7, FailInv
  <2>8. CASE Done \/ UNCHANGED treeVars
    BY <1>1, <2>8, UnchangedInv DEF Done
  <2>9. QED
    BY <1>1, <2>1, <2>2, <2>3, <2>4, <2>5, <2>6, <2>7, <2>8 DEF TreeNext
<1>2. QED
  BY InitTree, <1>1, PTL DEF TreeSpec

-----------------------------------------------------------------------------
(* Files whose entities and requests are told apart by where they stand    *)

\* No two entities of a file have one local key, and no two of its requests
\* begin at one offset.
PlacesApart ==
  \A source \in Trees : \A f \in source :
    /\ \A e, g \in Parsed(f).entities : LocalKey(e) = LocalKey(g) => e = g
    /\ \A q, r \in Parsed(f).requests : q.at = r.at => q = r

\* Where a request comes from, and what tells it from others.
LEMMA RequestsApart ==
  ASSUME TreeInv, stage # "failed"
  PROVE  /\ \A q \in requests : \E f \in Sound : q \in Parsed(f).requests /\ q.file = f.id
         /\ Sound \subseteq files /\ Sound \subseteq Discovered /\ Discovered \subseteq tree
         /\ \A f, g \in tree : f.id = g.id => f = g
         /\ PlacesApart =>
              \A q, r \in requests : q.file = r.file /\ q.at = r.at => q = r
<1>1. \A q \in requests : \E f \in Sound : q \in Parsed(f).requests /\ q.file = f.id
  BY ParsedFile DEF TreeInv, FoundOK, FoundRequests
<1>2. Sound \subseteq files /\ files \subseteq Discovered /\ Discovered \subseteq tree
  BY DEF Sound, ParsedFiles, TreeInv, TreeTypeOK, Discovered
<1>3. tree \in Trees /\ \A f, g \in tree : f.id = g.id => f = g
  BY SourcesAssumption DEF TreeInv, TreeTypeOK
<1>4. ASSUME PlacesApart, NEW q \in requests, NEW r \in requests,
             q.file = r.file, q.at = r.at
      PROVE  q = r
  <2>1. PICK f \in Sound : q \in Parsed(f).requests /\ q.file = f.id
    BY <1>1
  <2>2. PICK g \in Sound : r \in Parsed(g).requests /\ r.file = g.id
    BY <1>1
  <2>3. f = g /\ f \in tree
    BY <1>2, <1>3, <1>4, <2>1, <2>2
  <2>4. QED
    BY <1>3, <1>4, <2>1, <2>2, <2>3 DEF PlacesApart
<1>5. QED
  BY <1>1, <1>2, <1>3, <1>4

\* The entity or the warning of a request.
LEMMA ResolvedEntity ==
  ASSUME NEW e \in ResolvedEntities
  PROVE  \E q \in requests : ResolvedTo(q, files, e)
<1>1. PICK q \in requests : e \in Resolution(files, q).entities
  BY DEF ResolvedEntities
<1>2. QED
  BY <1>1, ResolutionOne DEF ResolvedTo, WarnedOf

\* The warning of a resolution is of one of the requests.
LEMMA ResolvedIssue ==
  ASSUME NEW i \in ResolvedIssues
  PROVE  \E q \in requests : WarnedOf(q, files, i)
<1>1. PICK q \in requests : i \in Resolution(files, q).issues
  BY DEF ResolvedIssues
<1>2. QED
  BY <1>1, ResolutionOne DEF ResolvedTo, WarnedOf

\* An entity that a parser found is of a file that was parsed, and is no request.
LEMMA FoundEntity ==
  ASSUME NEW e \in FoundEntities
  PROVE  \E f \in Sound : /\ e \in Parsed(f).entities /\ e.file = f.id
                          /\ e.type # "frontend_api_call"
BY ParsedFile DEF FoundEntities

\* No two entities of a scan share a local key.
LEMMA KeysApart ==
  ASSUME TreeInv, PlacesApart, stage # "failed",
         NEW e \in FoundEntities \cup ResolvedEntities,
         NEW g \in FoundEntities \cup ResolvedEntities,
         LocalKey(e) = LocalKey(g)
  PROVE  e = g
<1>1. e.file = g.file /\ e.type = g.type /\ e.at = g.at
  BY DEF LocalKey
<1>2. tree \in Trees
  BY DEF TreeInv, TreeTypeOK
<1>3. CASE e \in FoundEntities /\ g \in FoundEntities
  <2>1. PICK f \in Sound : e \in Parsed(f).entities /\ e.file = f.id
    BY <1>3, FoundEntity
  <2>2. PICK h \in Sound : g \in Parsed(h).entities /\ g.file = h.id
    BY <1>3, FoundEntity
  <2>3. f = h /\ f \in tree
    BY <1>1, <2>1, <2>2, RequestsApart
  <2>4. QED
    BY <1>2, <2>1, <2>2, <2>3 DEF PlacesApart
<1>4. CASE e \in ResolvedEntities /\ g \in ResolvedEntities
  <2>1. PICK q \in requests : ResolvedTo(q, files, e)
    BY <1>4, ResolvedEntity
  <2>2. PICK r \in requests : ResolvedTo(r, files, g)
    BY <1>4, ResolvedEntity
  <2>3. q.file = r.file /\ q.at = r.at
    BY <1>1, <2>1, <2>2 DEF ResolvedTo
  <2>4. q = r
    BY <2>3, RequestsApart
  <2>5. QED
    BY <2>1, <2>2, <2>4 DEF ResolvedTo
<1>5. CASE e \in FoundEntities /\ g \in ResolvedEntities
  BY <1>1, <1>5, FoundEntity, ResolvedEntity DEF ResolvedTo
<1>6. CASE e \in ResolvedEntities /\ g \in FoundEntities
  BY <1>1, <1>6, FoundEntity, ResolvedEntity DEF ResolvedTo
<1>7. QED
  BY <1>3, <1>4, <1>5, <1>6

\* The rows of a finished index are all that was found.
WholeRows ==
  stage = "ready" =>
    /\ entities = FoundEntities \cup ResolvedEntities
    /\ relations = {r \in FoundRelations \cup RequestRelations(entities)
                                         \cup CallRelations(entities) :
                      {r.source, r.target} \subseteq {LocalKey(e) : e \in entities}}

\* Then writing the rows leaves none of them out.
LEMMA WriteWhole ==
  ASSUME TreeInv, PlacesApart, Write
  PROVE  WholeRows'
<1>1. /\ stage = "write" /\ stage' = "ready"
      /\ UNCHANGED <<tree, todo, files, requests, issues>>
  BY DEF Write
<1>2. /\ entities' = Rows
      /\ relations' = {r \in relations :
                         {r.source, r.target} \subseteq {LocalKey(e) : e \in Rows}}
  BY DEF Write
<1>3. ParsedFiles = files /\ ParsedFiles' = files
  BY <1>1 DEF ParsedFiles
<1>4. Sound' = Sound
  BY <1>3 DEF Sound
<1>5. /\ FoundEntities' = FoundEntities /\ FoundRelations' = FoundRelations
      /\ ResolvedEntities' = ResolvedEntities
  BY <1>1, <1>4 DEF FoundEntities, FoundRelations, ResolvedEntities
<1>6. /\ entities = FoundEntities \cup ResolvedEntities
      /\ relations = FoundRelations \cup RequestRelations(entities)
                       \cup CallRelations(entities)
  BY <1>1 DEF TreeInv, FoundOK
<1>7. Rows = entities
  <2>1. \A e, g \in entities : LocalKey(e) = LocalKey(g) => e = g
    BY <1>1, <1>6, KeysApart
  <2>2. QED
    BY <2>1, RowsKeyed
<1>8. QED
  BY <1>2, <1>5, <1>6, <1>7 DEF WholeRows

\* The rows of an index are all that was found, where places tell apart.
LEMMA WholeInvariant == PlacesApart => (TreeSpec => [](TreeInv /\ WholeRows))
<1> SUFFICES ASSUME PlacesApart PROVE TreeSpec => [](TreeInv /\ WholeRows)
  OBVIOUS
<1>1. TreeInit => WholeRows
  BY DEF TreeInit, WholeRows
<1>2. ASSUME TreeInv, WholeRows, [TreeNext]_treeVars
      PROVE  WholeRows'
  <2>1. CASE Write
    BY <1>2, <2>1, WriteWhole
  <2>2. CASE Discover \/ ReadFile \/ Scanned \/ ParseFile \/ Resolve \/ Fail
    <3>1. stage' # "ready"
      BY <2>2 DEF Discover, ReadFile, Scanned, ParseFile, Resolve, Fail
    <3>2. QED
      BY <3>1 DEF WholeRows
  <2>3. CASE Done \/ UNCHANGED treeVars
    BY <1>2, <2>3 DEF Done, treeVars, WholeRows, FoundEntities, FoundRelations, Sound,
       ParsedFiles, ResolvedEntities
  <2>4. QED
    BY <1>2, <2>1, <2>2, <2>3 DEF TreeNext
<1>3. QED
  BY <1>1, <1>2, TreeInvariant, PTL DEF TreeSpec

\* What a finished index has of a request is what it was resolved to.
LEMMA OutcomesOf ==
  ASSUME TreeInv, WholeRows, PlacesApart, stage = "ready", NEW r \in requests
  PROVE  Outcomes(r) = Resolution(files, r).entities \cup Resolution(files, r).issues
<1>1. /\ entities = FoundEntities \cup ResolvedEntities
      /\ {i \in issues : i.type = "analysis_warning"} = ResolvedIssues
  BY DEF WholeRows, TreeInv, FoundOK, Warned
<1>2. ASSUME NEW x \in Resolution(files, r).entities
      PROVE  x \in Outcomes(r)
  <2>1. ResolvedTo(r, files, x)
    BY <1>2, ResolutionOne DEF ResolvedTo, WarnedOf
  <2>2. x \in entities
    BY <1>1, <1>2 DEF ResolvedEntities
  <2>3. QED
    BY <2>1, <2>2 DEF ResolvedTo, Outcomes, OfType
<1>3. ASSUME NEW x \in Resolution(files, r).issues
      PROVE  x \in Outcomes(r)
  <2>1. WarnedOf(r, files, x)
    BY <1>3, ResolutionOne DEF ResolvedTo, WarnedOf
  <2>2. x \in issues
    BY <1>1, <1>3 DEF ResolvedIssues
  <2>3. QED
    BY <2>1, <2>2 DEF WarnedOf, Outcomes
<1>4. ASSUME NEW x \in entities, x.type = "frontend_api_call",
             x.file = r.file, x.at = r.at
      PROVE  x \in Resolution(files, r).entities
  <2>1. x \in ResolvedEntities
    BY <1>1, <1>4, FoundEntity
  <2>2. PICK q \in requests : ResolvedTo(q, files, x)
    BY <2>1, ResolvedEntity
  <2>3. q = r
    BY <1>4, <2>2, RequestsApart DEF ResolvedTo
  <2>4. QED
    BY <2>2, <2>3 DEF ResolvedTo
<1>5. ASSUME NEW x \in issues, x.type = "analysis_warning",
             x.file = r.file, x.at = r.at
      PROVE  x \in Resolution(files, r).issues
  <2>1. x \in ResolvedIssues
    BY <1>1, <1>5
  <2>2. PICK q \in requests : WarnedOf(q, files, x)
    BY <2>1, ResolvedIssue
  <2>3. q = r
    BY <1>5, <2>2, RequestsApart DEF WarnedOf
  <2>4. QED
    BY <2>2, <2>3 DEF WarnedOf
<1>6. \A x \in Outcomes(r) :
        \/ /\ x \in entities /\ x.type = "frontend_api_call"
           /\ x.file = r.file /\ x.at = r.at
        \/ /\ x \in issues /\ x.type = "analysis_warning"
           /\ x.file = r.file /\ x.at = r.at
  BY DEF Outcomes, OfType
<1>7. QED
  BY <1>2, <1>3, <1>4, <1>5, <1>6

\* Nothing of a tree is missing from its index without a word.
THEOREM FilesAreAccounted == PlacesApart => (TreeSpec => []EveryFileAccounted)
<1> SUFFICES ASSUME PlacesApart PROVE TreeSpec => []EveryFileAccounted
  OBVIOUS
<1>1. ASSUME TreeInv, WholeRows
      PROVE  EveryFileAccounted
  <2>1. SUFFICES ASSUME stage = "ready", NEW f \in Discovered
                 PROVE  \/ /\ f \notin files /\ Cardinality(Problems(f)) = 1
                           /\ \A i \in Problems(f) : i.type = "skipped"
                           /\ OfFile(entities, f) = {}
                        \/ /\ f \in files /\ OfFile(entities, f) = {}
                           /\ {i.type : i \in Problems(f)} = {"parse_error"}
                        \/ /\ f \in files /\ Problems(f) = {}
                           /\ Parsed(f).entities \subseteq entities
                           /\ \A r \in Parsed(f).requests : Cardinality(Outcomes(r)) = 1
    BY DEF EveryFileAccounted, Problems
  <2>2. Met = Discovered /\ ParsedFiles = files
    BY <2>1 DEF Met, ParsedFiles
  <2>3. Told(f)
    BY <1>1 DEF TreeInv, EveryFileTold
  <2>4. f \notin Sound => OfFile(entities, f) = {}
    <3>1. ASSUME NEW e \in entities, e.file = f.id
          PROVE  f \in Sound
      <4>1. e \in FoundEntities \cup ResolvedEntities
        BY <1>1, <2>1 DEF WholeRows
      <4>2. \E g \in Sound : e.file = g.id
        <5>1. CASE e \in FoundEntities
          BY <5>1, FoundEntity
        <5>2. CASE e \in ResolvedEntities
          <6>1. PICK q \in requests : q.file = e.file
            BY <5>2, ResolvedEntity DEF ResolvedTo
          <6>2. QED
            BY <1>1, <2>1, <6>1, RequestsApart
        <5>3. QED
          BY <4>1, <5>1, <5>2
      <4>3. QED
        BY <1>1, <2>1, <3>1, <4>2, RequestsApart
    <3>2. QED
      BY <3>1 DEF OfFile
  <2>5. CASE f \notin files
    <3>1. PICK reason : Problems(f) = {Issue(f.id, "skipped", reason, 0)}
      BY <2>2, <2>3, <2>5 DEF Told
    <3>2. Cardinality(Problems(f)) = 1
      BY <3>1, FS_Singleton
    <3>3. \A i \in Problems(f) : i.type = "skipped"
      BY <3>1 DEF Issue
    <3>4. f \notin Sound
      BY <2>2, <2>5 DEF Sound
    <3>5. QED
      BY <2>4, <2>5, <3>2, <3>3, <3>4
  <2>6. CASE f \in files /\ f.raises
    <3>1. Problems(f) = {Issue(f.id, "parse_error", "PARSER_ERROR", 0)}
      BY <2>2, <2>3, <2>6 DEF Told
    <3>2. {i.type : i \in Problems(f)} = {"parse_error"}
      BY <3>1 DEF Issue
    <3>3. f \notin Sound
      BY <2>6 DEF Sound
    <3>4. QED
      BY <2>4, <2>6, <3>2, <3>3
  <2>7. CASE f \in files /\ ~f.raises
    <3>1. Problems(f) = {}
      BY <2>2, <2>3, <2>7 DEF Told
    <3>2. f \in Sound
      BY <2>2, <2>7 DEF Sound
    <3>3. Parsed(f).entities \subseteq entities
      BY <1>1, <2>1, <3>2 DEF WholeRows, FoundEntities
    <3>4. ASSUME NEW r \in Parsed(f).requests
          PROVE  Cardinality(Outcomes(r)) = 1
      <4>1. r \in requests
        BY <1>1, <2>1, <3>2 DEF TreeInv, FoundOK, FoundRequests
      <4>2. Outcomes(r) = Resolution(files, r).entities \cup Resolution(files, r).issues
        BY <1>1, <2>1, <4>1, OutcomesOf
      <4>3. \E x : Outcomes(r) = {x}
        <5>1. CASE \E e : ResolvedTo(r, files, e)
          <6>1. PICK e : Resolution(files, r) = [entities |-> {e}, issues |-> {}]
            BY <5>1 DEF ResolvedTo
          <6>2. Outcomes(r) = {e}
            BY <4>2, <6>1
          <6>3. QED
            BY <6>2
        <5>2. CASE \E i : WarnedOf(r, files, i)
          <6>1. PICK i : Resolution(files, r) = [entities |-> {}, issues |-> {i}]
            BY <5>2 DEF WarnedOf
          <6>2. Outcomes(r) = {i}
            BY <4>2, <6>1
          <6>3. QED
            BY <6>2
        <5>3. QED
          BY <5>1, <5>2, ResolutionOne
      <4>4. QED
        BY <4>3, FS_Singleton
    <3>5. QED
      BY <2>7, <3>1, <3>3, <3>4
  <2>8. QED
    BY <2>5, <2>6, <2>7
<1>2. QED
  BY <1>1, WholeInvariant, PTL

\* A local key names the row that has it.
LEMMA RowNamed ==
  ASSUME TreeInv, stage = "ready", NEW e \in entities
  PROVE  RowOf(LocalKey(e)) = e
BY DEF TreeInv, RowsOK, RowOf

\* The links from requests to routes are those of the join.
LEMMA RequestsLinked ==
  ASSUME TreeInv, WholeRows, stage = "ready", NEW l
  PROVE  l \in LinksOf("REQUESTS_API") <=>
           \E call \in OfType(entities, "frontend_api_call"),
              route \in OfType(entities, "backend_api") :
             /\ route.path = call.path
             /\ \/ /\ route.verb = call.verb
                   /\ l = [from |-> call, to |-> route, confidence |-> 100]
                \/ /\ route.verb = "ANY" /\ Serving(entities, call.path, call.verb) = {}
                   /\ l = [from |-> call, to |-> route, confidence |-> 80]
<1>1. ASSUME NEW r
      PROVE  r \in relations /\ r.type = "REQUESTS_API" <=>
               \E call, route : LinksRequest(entities, call, route, r)
  <2>1. ASSUME r \in relations, r.type = "REQUESTS_API"
        PROVE  \E call, route : LinksRequest(entities, call, route, r)
    <3>1. r \in FoundRelations \cup RequestRelations(entities) \cup CallRelations(entities)
      BY <2>1 DEF WholeRows
    <3>2. r \notin FoundRelations
      BY <2>1, ParsedFile DEF FoundRelations
    <3>3. r \notin CallRelations(entities)
      <4>1. \A method, call, target : LinksCall(entities, method, call, target, r) =>
              r.type = "CALLS_METHOD"
        BY DEF LinksCall, Relation
      <4>2. QED
        BY <2>1, <4>1, CallLinks DEF TreeInv, FiniteFound
    <3>4. QED
      BY <3>1, <3>2, <3>3, RequestLinks
  <2>2. ASSUME NEW call, NEW route, LinksRequest(entities, call, route, r)
        PROVE  r \in relations /\ r.type = "REQUESTS_API"
    <3>1. r \in RequestRelations(entities)
      BY <2>2, RequestLinks
    <3>2. /\ r.type = "REQUESTS_API" /\ r.source = LocalKey(call)
          /\ r.target = LocalKey(route) /\ call \in entities /\ route \in entities
      BY <2>2 DEF LinksRequest, Relation, OfType
    <3>3. QED
      BY <3>1, <3>2 DEF WholeRows
  <2>3. QED
    BY <2>1, <2>2
<1>2. ASSUME NEW call, NEW route, NEW r, LinksRequest(entities, call, route, r)
      PROVE  /\ RowOf(r.source) = call /\ RowOf(r.target) = route
             /\ r.confidence \in {80, 100}
             /\ r.confidence = 100 => r = Relation(call, route, "REQUESTS_API", 100)
             /\ r.confidence = 80 => r = Relation(call, route, "REQUESTS_API", 80)
  <2>1. /\ r.source = LocalKey(call) /\ r.target = LocalKey(route)
        /\ call \in entities /\ route \in entities
    BY <1>2 DEF LinksRequest, Relation, OfType
  <2>2. RowOf(r.source) = call /\ RowOf(r.target) = route
    BY <2>1, RowNamed
  <2>3. QED
    BY <1>2, <2>2 DEF LinksRequest, Relation
<1>3. ASSUME l \in LinksOf("REQUESTS_API")
      PROVE  \E call \in OfType(entities, "frontend_api_call"),
                route \in OfType(entities, "backend_api") :
               /\ route.path = call.path
               /\ \/ /\ route.verb = call.verb
                     /\ l = [from |-> call, to |-> route, confidence |-> 100]
                  \/ /\ route.verb = "ANY" /\ Serving(entities, call.path, call.verb) = {}
                     /\ l = [from |-> call, to |-> route, confidence |-> 80]
  <2>1. PICK r \in relations :
          /\ r.type = "REQUESTS_API"
          /\ l = [from |-> RowOf(r.source), to |-> RowOf(r.target),
                  confidence |-> r.confidence]
    BY <1>3 DEF LinksOf
  <2>2. PICK call, route : LinksRequest(entities, call, route, r)
    BY <1>1, <2>1
  <2>3. l = [from |-> call, to |-> route, confidence |-> r.confidence]
    BY <1>2, <2>1, <2>2
  <2>4. /\ call \in OfType(entities, "frontend_api_call")
        /\ route \in OfType(entities, "backend_api")
        /\ route.path = call.path
        /\ \/ route.verb = call.verb /\ r.confidence = 100
           \/ /\ route.verb = "ANY" /\ Serving(entities, call.path, call.verb) = {}
              /\ r.confidence = 80
    BY <2>2 DEF LinksRequest, Relation
  <2>5. QED
    BY <2>3, <2>4
<1>4. ASSUME NEW call \in OfType(entities, "frontend_api_call"),
             NEW route \in OfType(entities, "backend_api"),
             NEW level \in {80, 100},
             LinksRequest(entities, call, route,
                          Relation(call, route, "REQUESTS_API", level)),
             l = [from |-> call, to |-> route, confidence |-> level]
      PROVE  l \in LinksOf("REQUESTS_API")
  <2>1. PICK r : r = Relation(call, route, "REQUESTS_API", level)
    OBVIOUS
  <2>2. r \in relations /\ r.type = "REQUESTS_API"
    BY <1>1, <1>4, <2>1
  <2>3. RowOf(r.source) = call /\ RowOf(r.target) = route /\ r.confidence = level
    BY <1>2, <1>4, <2>1 DEF Relation
  <2>4. QED
    BY <1>4, <2>2, <2>3 DEF LinksOf
<1>5. QED
  BY <1>3, <1>4 DEF LinksRequest

\* A request is linked to the routes that answer it and to nothing else.
THEOREM RequestsFindRoutes == PlacesApart => (TreeSpec => []RequestsReachRoutes)
<1> SUFFICES ASSUME PlacesApart PROVE TreeSpec => []RequestsReachRoutes
  OBVIOUS
<1>1. ASSUME TreeInv, WholeRows
      PROVE  RequestsReachRoutes
  <2>1. SUFFICES ASSUME stage = "ready"
                 PROVE  RequestsReachRoutes
    BY DEF RequestsReachRoutes
  <2>2. PICK linked : linked = LinksOf("REQUESTS_API")
    OBVIOUS
  <2>3. ASSUME NEW call \in OfType(entities, "frontend_api_call"),
               NEW links, links = {l \in linked : l.from = call},
               NEW answering,
               answering = {e \in OfType(entities, "backend_api") :
                              e.path = call.path /\ e.verb \in {call.verb, "ANY"}}
        PROVE  /\ {l.to : l \in links} \subseteq answering
               /\ links = {} => answering = {}
               /\ \A l \in links : \/ l.to.verb = call.verb /\ l.confidence = 100
                                   \/ /\ l.confidence = 80
                                      /\ \A e \in answering : e.verb = "ANY"
               /\ \A l \in links, e \in answering :
                    e.verb = l.to.verb => e \in {k.to : k \in links}
    <3>1. ASSUME NEW l \in links
          PROVE  /\ l.to \in answering
                 /\ \/ l.to.verb = call.verb /\ l.confidence = 100
                    \/ /\ l.to.verb = "ANY" /\ l.confidence = 80
                       /\ Serving(entities, call.path, call.verb) = {}
      <4>1. l \in LinksOf("REQUESTS_API") /\ l.from = call
        BY <2>2, <2>3, <3>1
      <4>2. PICK from \in OfType(entities, "frontend_api_call"),
                 route \in OfType(entities, "backend_api") :
              /\ route.path = from.path
              /\ \/ /\ route.verb = from.verb
                    /\ l = [from |-> from, to |-> route, confidence |-> 100]
                 \/ /\ route.verb = "ANY" /\ Serving(entities, from.path, from.verb) = {}
                    /\ l = [from |-> from, to |-> route, confidence |-> 80]
        BY <1>1, <2>1, <4>1, RequestsLinked
      <4>3. from = call /\ l.to = route
        BY <4>1, <4>2
      <4>4. QED
        BY <2>3, <4>2, <4>3
    <3>2. ASSUME NEW e \in answering,
                 e.verb = call.verb \/ Serving(entities, call.path, call.verb) = {}
          PROVE  \E l \in links : l.to = e
      <4>1. e \in OfType(entities, "backend_api") /\ e.path = call.path
        BY <2>3
      <4>2. CASE e.verb = call.verb
        <5>1. PICK l : l = [from |-> call, to |-> e, confidence |-> 100]
          OBVIOUS
        <5>2. l \in LinksOf("REQUESTS_API")
          BY <1>1, <2>1, <4>1, <4>2, <5>1, RequestsLinked
        <5>3. l \in links /\ l.to = e
          BY <2>2, <2>3, <5>1, <5>2
        <5>4. QED
          BY <5>3
      <4>3. CASE e.verb # call.verb
        <5>1. e.verb = "ANY"
          BY <2>3, <4>3
        <5>2. PICK l : l = [from |-> call, to |-> e, confidence |-> 80]
          OBVIOUS
        <5>3. l \in LinksOf("REQUESTS_API")
          BY <1>1, <2>1, <3>2, <4>1, <4>3, <5>1, <5>2, RequestsLinked
        <5>4. l \in links /\ l.to = e
          BY <2>2, <2>3, <5>2, <5>3
        <5>5. QED
          BY <5>4
      <4>4. QED
        BY <4>2, <4>3
    <3>3. \A e \in answering :
            e.verb = call.verb => e \in Serving(entities, call.path, call.verb)
      BY <2>3 DEF Serving
    <3>4. links = {} => answering = {}
      <4>1. ASSUME NEW e \in answering, links = {}
            PROVE  FALSE
        <5>1. PICK g \in Serving(entities, call.path, call.verb) : TRUE
          BY <3>2, <4>1
        <5>2. g \in answering /\ g.verb = call.verb
          BY <2>3, <5>1 DEF Serving
        <5>3. QED
          BY <3>2, <4>1, <5>2
      <4>2. QED
        BY <4>1
    <3>5. ASSUME NEW l \in links
          PROVE  \/ l.to.verb = call.verb /\ l.confidence = 100
                 \/ l.confidence = 80 /\ \A e \in answering : e.verb = "ANY"
      <4>1. CASE Serving(entities, call.path, call.verb) = {}
        BY <2>3, <3>1, <3>3, <3>5, <4>1
      <4>2. CASE Serving(entities, call.path, call.verb) # {}
        BY <3>1, <3>5, <4>2
      <4>3. QED
        BY <4>1, <4>2
    <3>6. ASSUME NEW l \in links, NEW e \in answering, e.verb = l.to.verb
          PROVE  \E k \in links : k.to = e
      BY <3>1, <3>2, <3>6
    <3>7. \A l \in links : l.to \in answering
      BY <3>1
    <3>8. QED
      BY <3>4, <3>5, <3>6, <3>7
  <2>4. QED
    BY <2>2, <2>3 DEF RequestsReachRoutes
<1>2. QED
  BY <1>1, WholeInvariant, PTL

\* A call is linked only to the one method that it can mean.
THEOREM CallsAreUnambiguous == PlacesApart => (TreeSpec => []CallsUnambiguous)
<1> SUFFICES ASSUME PlacesApart PROVE TreeSpec => []CallsUnambiguous
  OBVIOUS
<1>1. ASSUME TreeInv, WholeRows
      PROVE  CallsUnambiguous
  <2>1. SUFFICES ASSUME stage = "ready", NEW l \in LinksOf("CALLS_METHOD")
                 PROVE  \E call \in l.from.calls :
                          /\ Last(l.to.qualified) = call.method
                          /\ \A m \in OfType(entities, "java_method") :
                               /\ Last(m.qualified) = call.method
                               /\ Front(m.qualified) \in ServiceClasses(entities)
                               /\ \/ Front(m.qualified) = call.receiver
                                  \/ <<Last(Front(m.qualified))>> = call.receiver
                               => m = l.to
    BY DEF CallsUnambiguous
  <2>2. PICK r \in relations :
          /\ r.type = "CALLS_METHOD"
          /\ l = [from |-> RowOf(r.source), to |-> RowOf(r.target),
                  confidence |-> r.confidence]
    BY <2>1 DEF LinksOf
  <2>3. r \in CallRelations(entities)
    <3>1. r \in FoundRelations \cup RequestRelations(entities) \cup CallRelations(entities)
      BY <1>1, <2>1 DEF WholeRows
    <3>2. r \notin FoundRelations
      BY <2>2, ParsedFile DEF FoundRelations
    <3>3. r \notin RequestRelations(entities)
      <4>1. \A call, route : LinksRequest(entities, call, route, r) =>
              r.type = "REQUESTS_API"
        BY DEF LinksRequest, Relation
      <4>2. QED
        BY <2>2, <4>1, RequestLinks
    <3>4. QED
      BY <3>1, <3>2, <3>3
  <2>4. PICK method, call, target : LinksCall(entities, method, call, target, r)
    BY <1>1, <2>3, CallLinks DEF TreeInv, FiniteFound
  <2>5. /\ method \in entities /\ call \in method.calls
        /\ Callees(entities, call) = {target}
        /\ r.source = LocalKey(method) /\ r.target = LocalKey(target)
    BY <2>4 DEF LinksCall, Relation, OfType
  <2>6. target \in entities /\ Last(target.qualified) = call.method
    BY <2>5 DEF Callees, OfType
  <2>7. l.from = method /\ l.to = target
    BY <1>1, <2>1, <2>2, <2>5, <2>6, RowNamed
  <2>8. ASSUME NEW m \in OfType(entities, "java_method"),
               Last(m.qualified) = call.method,
               Front(m.qualified) \in ServiceClasses(entities),
               \/ Front(m.qualified) = call.receiver
               \/ <<Last(Front(m.qualified))>> = call.receiver
        PROVE  m = l.to
    <3>1. Front(m.qualified) \in Named(entities, call.receiver)
      BY <2>8 DEF Named
    <3>2. m \in Callees(entities, call)
      BY <2>8, <3>1 DEF Callees
    <3>3. QED
      BY <2>5, <2>7, <3>2
  <2>9. QED
    BY <2>5, <2>6, <2>7, <2>8
<1>2. QED
  BY <1>1, WholeInvariant, PTL

-----------------------------------------------------------------------------
(* The snapshot of an index                                                *)

\* An image under a function that tells its arguments apart has their number.
LEMMA SameNumber ==
  ASSUME NEW S, IsFiniteSet(S), NEW h, h = [x \in S |-> h[x]],
         \A x, y \in S : h[x] = h[y] => x = y
  PROVE  Cardinality({h[x] : x \in S}) = Cardinality(S)
<1>1. PICK T : T = {h[x] : x \in S}
  OBVIOUS
<1>2. h \in Surjection(S, T) /\ h \in Injection(S, T)
  <2>1. h \in [S -> T] /\ \A t \in T : \E x \in S : h[x] = t
    BY <1>1
  <2>2. QED
    BY <2>1 DEF Surjection, Injection, IsInjective
<1>3. QED
  BY <1>1, <1>2, FS_Surjection

\* Every row is of a file that was read.
LEMMA RowsOfFiles ==
  ASSUME TreeInv, stage = "ready", NEW e \in entities
  PROVE  \E f \in files : e.file = f.id
<1>1. e \in FoundEntities \cup ResolvedEntities
  BY DEF TreeInv, RowsOK
<1>2. CASE e \in FoundEntities
  BY <1>2, FoundEntity, RequestsApart
<1>3. CASE e \in ResolvedEntities
  <2>1. PICK q \in requests : e.file = q.file
    BY <1>3, ResolvedEntity DEF ResolvedTo
  <2>2. QED
    BY <2>1, RequestsApart
<1>4. QED
  BY <1>1, <1>2, <1>3

\* Two rows share a stable key only if their paths differ in case alone.
LEMMA StableKeysApart ==
  ASSUME TreeInv, stage = "ready", NEW e \in entities, NEW g \in entities,
         StableKey(e) = StableKey(g), e # g
  PROVE  e.file # g.file /\ Folded[e.file] = Folded[g.file]
<1>1. Folded[e.file] = Folded[g.file] /\ e.type = g.type
      /\ e.qualified = g.qualified /\ e.line = g.line
  BY DEF StableKey
<1>2. e.file = g.file => EntityKey(e) = EntityKey(g)
  BY <1>1 DEF EntityKey
<1>3. QED
  BY <1>1, <1>2 DEF TreeInv, RowsOK

\* The ends of an exported relation.
Exported(r) ==
  [source |-> StableKey(RowOf(r.source)), target |-> StableKey(RowOf(r.target)),
   type |-> r.type, confidence |-> r.confidence]

\* An export leaves no relation out, and finds both ends among the rows.
LEMMA ExportedRelations ==
  ASSUME TreeInv, stage = "ready"
  PROVE  /\ ExportRelations = {Exported(r) : r \in relations}
         /\ \A r \in relations : \E e, g \in entities :
              /\ r.source = LocalKey(e) /\ r.target = LocalKey(g)
              /\ Exported(r).source = StableKey(e) /\ Exported(r).target = StableKey(g)
<1>1. \A r \in relations : {r.source, r.target} \subseteq {LocalKey(e) : e \in entities}
  BY DEF TreeInv, RowsOK
<1>2. ExportRelations = {Exported(r) : r \in relations}
  BY <1>1 DEF ExportRelations, Exported, RowOf
<1>3. ASSUME NEW r \in relations
      PROVE  \E e, g \in entities :
               /\ r.source = LocalKey(e) /\ r.target = LocalKey(g)
               /\ Exported(r).source = StableKey(e) /\ Exported(r).target = StableKey(g)
  <2>1. PICK e, g \in entities : r.source = LocalKey(e) /\ r.target = LocalKey(g)
    BY <1>1
  <2>2. RowOf(r.source) = e /\ RowOf(r.target) = g
    BY <2>1, RowNamed
  <2>3. QED
    BY <2>1, <2>2 DEF Exported
<1>4. QED
  BY <1>2, <1>3

\* In a snapshot a stable key stands for one row, and relations end in keys.
THEOREM SnapshotsIdentify == TreeSpec => []SnapshotIdentifies
<1>1. ASSUME TreeInv
      PROVE  SnapshotIdentifies
  <2>1. SUFFICES ASSUME stage = "ready"
                 PROVE  SnapshotIdentifies
    BY DEF SnapshotIdentifies
  <2>2. /\ Snapshot.entities = ExportEntities /\ Snapshot.relations = ExportRelations
        /\ Snapshot.entityCount = Cardinality(entities)
        /\ Snapshot.relationCount = Cardinality(relations)
    BY DEF Snapshot
  <2>3. ASSUME NEW e \in entities, NEW g \in entities, e # g,
               CanonicalKeys[e] = CanonicalKeys[g]
        PROVE  e.file # g.file /\ Folded[e.file] = Folded[g.file]
    BY <1>1, <2>1, <2>3, StableKeysApart DEF CanonicalKeys
  <2>4. {x.key : x \in ExportEntities} = {CanonicalKeys[e] : e \in entities}
    <3>1. ASSUME NEW x \in ExportEntities
          PROVE  \E e \in entities : x.key = StableKey(e)
      BY DEF ExportEntities
    <3>2. ASSUME NEW e \in entities
          PROVE  \E x \in ExportEntities : x.key = StableKey(e)
      <4>1. PICK x : x = [key |-> StableKey(e), file |-> e.file, type |-> e.type,
                          qualified |-> e.qualified, line |-> e.line]
        OBVIOUS
      <4>2. x \in ExportEntities
        BY <4>1 DEF ExportEntities
      <4>3. QED
        BY <4>1, <4>2
    <3>3. \A e \in entities : CanonicalKeys[e] = StableKey(e)
      BY DEF CanonicalKeys
    <3>4. QED
      BY <3>1, <3>2, <3>3
  <2>5. {r.source : r \in ExportRelations} \cup {r.target : r \in ExportRelations}
          \subseteq {x.key : x \in ExportEntities}
    <3>1. ASSUME NEW r \in relations
          PROVE  {Exported(r).source, Exported(r).target}
                   \subseteq {CanonicalKeys[e] : e \in entities}
      BY <1>1, <2>1, ExportedRelations DEF CanonicalKeys
    <3>2. QED
      BY <1>1, <2>1, <2>4, <3>1, ExportedRelations
  <2>6. \A x \in ExportEntities : KeyRecomputed(x)
    BY DEF ExportEntities, KeyRecomputed, StableKey
  <2>7. Cardinality(ExportEntities) = Cardinality(entities)
    <3>1. PICK h : h = [e \in entities |->
                          [key |-> StableKey(e), file |-> e.file, type |-> e.type,
                           qualified |-> e.qualified, line |-> e.line]]
      OBVIOUS
    <3>2. \A e, g \in entities : h[e] = h[g] => EntityKey(e) = EntityKey(g)
      BY <3>1 DEF EntityKey
    <3>3. \A e, g \in entities : h[e] = h[g] => e = g
      BY <1>1, <2>1, <3>2 DEF TreeInv, RowsOK
    <3>4. Cardinality({h[e] : e \in entities}) = Cardinality(entities)
      BY <1>1, <3>1, <3>3, SameNumber DEF TreeInv, FiniteFound
    <3>5. ExportEntities = {h[e] : e \in entities}
      BY <3>1 DEF ExportEntities
    <3>6. QED
      BY <3>4, <3>5
  <2>8. ASSUME \A f, g \in files : Folded[f.id] = Folded[g.id] => f = g
        PROVE  Cardinality(ExportRelations) = Cardinality(relations)
    <3>1. ASSUME NEW e \in entities, NEW g \in entities, StableKey(e) = StableKey(g)
          PROVE  e = g
      <4>1. PICK f \in files : e.file = f.id
        BY <1>1, <2>1, RowsOfFiles
      <4>2. PICK i \in files : g.file = i.id
        BY <1>1, <2>1, RowsOfFiles
      <4>3. QED
        BY <1>1, <2>1, <2>8, <3>1, <4>1, <4>2, StableKeysApart
    <3>2. PICK h : h = [r \in relations |-> Exported(r)]
      OBVIOUS
    <3>3. ASSUME NEW r \in relations, NEW s \in relations, h[r] = h[s]
          PROVE  r = s
      <4>1. PICK e, g \in entities :
              /\ r.source = LocalKey(e) /\ r.target = LocalKey(g)
              /\ Exported(r).source = StableKey(e) /\ Exported(r).target = StableKey(g)
        BY <1>1, <2>1, ExportedRelations
      <4>2. PICK d, k \in entities :
              /\ s.source = LocalKey(d) /\ s.target = LocalKey(k)
              /\ Exported(s).source = StableKey(d) /\ Exported(s).target = StableKey(k)
        BY <1>1, <2>1, ExportedRelations
      <4>3. Exported(r) = Exported(s)
        BY <3>2, <3>3
      <4>4. e = d /\ g = k
        BY <3>1, <4>1, <4>2, <4>3
      <4>5. r.type = s.type /\ r.confidence = s.confidence
        BY <4>3 DEF Exported
      <4>6. IsRelation(r) /\ IsRelation(s)
        BY <1>1 DEF TreeInv, FiniteFound
      <4>7. QED
        BY <4>1, <4>2, <4>4, <4>5, <4>6 DEF IsRelation
    <3>4. Cardinality({h[r] : r \in relations}) = Cardinality(relations)
      BY <1>1, <3>2, <3>3, SameNumber DEF TreeInv, FiniteFound
    <3>5. ExportRelations = {h[r] : r \in relations}
      BY <1>1, <2>1, <3>2, ExportedRelations
    <3>6. QED
      BY <3>4, <3>5
  <2>9. QED
    BY <2>2, <2>3, <2>4, <2>5, <2>6, <2>7, <2>8 DEF SnapshotIdentifies
<1>2. QED
  BY <1>1, TreeInvariant, PTL

-----------------------------------------------------------------------------
(* The reports on an index                                                 *)

\* A request that is not indexed has one of the reasons of the resolver.
LEMMA ReasonsKnown ==
  ASSUME TreeInv, stage = "ready", NEW q \in requests, NEW i, WarnedOf(q, files, i)
  PROVE  i.reason \in FrontendReasons
<1> DEFINE path == ResolvePath(files, q.url)
           verb == ResolveMethod(files, q)
<1>1. PICK f \in Sound : q \in Parsed(f).requests
  BY RequestsApart
<1>2. tree \in Trees /\ Sound \subseteq tree /\ files \subseteq tree
  BY RequestsApart DEF TreeInv, TreeTypeOK, Discovered
<1>3. q.url.kind = "literal" => q.url.value # Absent
  BY <1>1, <1>2, ParserAssumption
<1>4. \A c \in UNION {g.syntax.constants : g \in FrontendFiles(files)} : c.value # Absent
  BY <1>2, ParserAssumption DEF FrontendFiles
<1>5. \A w \in UNION {g.syntax.wrappers : g \in FrontendFiles(files)} :
        Len(w.body) = 1 => Head(w.body) # Absent
  BY <1>2, ParserAssumption DEF FrontendFiles
<1>6. \/ path.value # Absent /\ path.reason = Absent
      \/ path.value = Absent /\ path.reason \in {"dynamic_url", "ambiguous_constant"}
  <2>1. CASE q.url.kind = "literal"
    BY <1>3, <2>1 DEF ResolvePath
  <2>2. CASE q.url.kind # "literal"
    <3>1. PICK values : values = Constants(files, q.url.value)
      OBVIOUS
    <3>2. \A v \in values : v # Absent
      BY <1>4, <3>1 DEF Constants
    <3>3. CASE q.url.kind # "constant" \/ values = {}
      BY <2>2, <3>1, <3>3 DEF ResolvePath
    <3>4. CASE q.url.kind = "constant" /\ values # {} /\ Cardinality(values) > 1
      BY <2>2, <3>1, <3>4 DEF ResolvePath
    <3>5. CASE q.url.kind = "constant" /\ values # {} /\ ~(Cardinality(values) > 1)
      <4>1. path = [value |-> CHOOSE v \in values : TRUE, reason |-> Absent]
        BY <2>2, <3>1, <3>5 DEF ResolvePath
      <4>2. (CHOOSE v \in values : TRUE) \in values
        BY <3>5
      <4>3. QED
        BY <3>2, <4>1, <4>2
    <3>6. QED
      BY <3>3, <3>4, <3>5
  <2>3. QED
    BY <2>1, <2>2
<1>7. verb.value = Absent => verb.reason \in {"dynamic_method", "unknown_wrapper"}
  <2>1. CASE q.method # Absent
    BY <2>1, AbsentAssumption DEF ResolveMethod
  <2>2. CASE q.method = Absent
    <3>1. PICK verbs : verbs = Wrappers(files, q.callee)
      OBVIOUS
    <3>2. \A v \in verbs : v # Absent
      BY <1>5, <3>1 DEF Wrappers
    <3>3. CASE Cardinality(verbs) = 1
      <4>1. verb = [value |-> CHOOSE v \in verbs : TRUE, reason |-> Absent]
        BY <2>2, <3>1, <3>3 DEF ResolveMethod
      <4>2. verbs # {}
        BY <3>3, FS_EmptySet
      <4>3. (CHOOSE v \in verbs : TRUE) \in verbs
        BY <4>2
      <4>4. QED
        BY <3>2, <4>1, <4>3
    <3>4. CASE Cardinality(verbs) # 1
      BY <2>2, <3>1, <3>4 DEF ResolveMethod
    <3>5. QED
      BY <3>3, <3>4
  <2>3. QED
    BY <2>1, <2>2
<1>8. /\ path.value = Absent \/ verb.value = Absent
      /\ i = Issue(q.file, "analysis_warning",
                   IF path.reason # Absent THEN path.reason ELSE verb.reason, q.at)
  <2>1. Resolution(files, q) = [entities |-> {}, issues |-> {i}]
    BY DEF WarnedOf
  <2>2. Resolution(files, q).issues = {i}
    BY <2>1
  <2>3. path.value = Absent \/ verb.value = Absent
    BY <2>2 DEF Resolution
  <2>4. Resolution(files, q).issues =
          {Issue(q.file, "analysis_warning",
                 IF path.reason # Absent THEN path.reason ELSE verb.reason, q.at)}
    BY <2>3 DEF Resolution
  <2>5. QED
    BY <2>2, <2>3, <2>4
<1>9. i.reason = IF path.reason # Absent THEN path.reason ELSE verb.reason
  BY <1>8 DEF Issue
<1> HIDE DEF path, verb
<1>10. QED
  BY <1>6, <1>7, <1>8, <1>9, AbsentAssumption DEF FrontendReasons

\* How many rows have a value in a column.
LEMMA CountsRows ==
  ASSUME NEW S, NEW column, column = [x \in S |-> column[x]], NEW v
  PROVE  CountOf(GroupedCounts(column), v) = Cardinality({x \in S : column[x] = v})
<1>1. DOMAIN column = S /\ Range(column) = {column[x] : x \in S}
  BY DEF Range
<1>2. CASE v \in Range(column)
  BY <1>1, <1>2 DEF CountOf, GroupedCounts
<1>3. CASE v \notin Range(column)
  <2>1. {x \in S : column[x] = v} = {}
    BY <1>1, <1>3
  <2>2. CountOf(GroupedCounts(column), v) = 0
    BY <1>1, <1>3 DEF CountOf, GroupedCounts
  <2>3. QED
    BY <2>1, <2>2, FS_EmptySet
<1>4. QED
  BY <1>2, <1>3

\* The smaller of two numbers.
LEMMA SmallerOf ==
  ASSUME NEW a \in Nat, NEW b \in Nat
  PROVE  Min({a, b}) = IF a <= b THEN a ELSE b
<1>1. PICK m : m = (IF a <= b THEN a ELSE b)
  OBVIOUS
<1>2. m \in {a, b} /\ \A y \in {a, b} : m <= y
  BY <1>1
<1>3. \A x \in {a, b} : (\A y \in {a, b} : x <= y) => x = m
  BY <1>1
<1>4. Min({a, b}) = m
  BY <1>2, <1>3 DEF Min
<1>5. QED
  BY <1>1, <1>4

\* The rows of a report are its first ones, where no two share a place.
LEMMA ShownRows ==
  ASSUME NEW place, IsFiniteSet(DOMAIN place),
         \A x \in DOMAIN place : place[x].file \in Nat /\ place[x].line \in Nat /\ place[x].at \in Nat,
         \A x, y \in DOMAIN place :
           place[x].file = place[y].file /\ place[x].line = place[y].line
             /\ place[x].at = place[y].at => x = y
  PROVE  /\ Cardinality(DOMAIN place) \in Nat
         /\ Min({Examples, Cardinality(DOMAIN place)}) \in Nat
         /\ Len(Shown(place)) = Min({Examples, Cardinality(DOMAIN place)})
         /\ DOMAIN Shown(place) = 1..Min({Examples, Cardinality(DOMAIN place)})
         /\ \A i \in DOMAIN Shown(place) : Shown(place)[i] \in DOMAIN place
<1> DEFINE S == DOMAIN place
<1>1. PICK R : R = {p \in S \X S : Above(place[p[1]], place[p[2]])}
  OBVIOUS
<1>2. \A x, y \in S : <<x, y>> \in R <=> Above(place[x], place[y])
  BY <1>1
<1>3. /\ \A x \in S : <<x, x>> \notin R
      /\ \A x, y \in S : x # y => <<x, y>> \in R \/ <<y, x>> \in R
      /\ \A x, y, z \in S : <<x, y>> \in R /\ <<y, z>> \in R => <<x, z>> \in R
  BY <1>2 DEF Above
<1>4. PICK n \in Nat : n = Cardinality(S)
  BY FS_CardinalityType
<1>5. \A x \in S : {y \in S : Above(place[y], place[x])} = Before(R, S, x)
  BY <1>2 DEF Before
<1>6. PICK rank : rank = [x \in S |-> Cardinality(Before(R, S, x))]
  OBVIOUS
<1>7. [x \in S |-> Cardinality({y \in S : Above(place[y], place[x])})] = rank
  BY <1>5, <1>6
<1>8. PICK g : g = [i \in 1..n |-> CHOOSE x \in S : rank[x] = i - 1]
  OBVIOUS
<1>9. g \in [1..n -> S]
  <2>1. g = [i \in 1..Cardinality(S) |-> g[i]]
    BY <1>4, <1>8
  <2>2. \A i \in 1..Cardinality(S) :
          (\E x \in S : Cardinality(Before(R, S, x)) = i - 1) =>
            g[i] \in S /\ Cardinality(Before(R, S, g[i])) = i - 1
    BY <1>4, <1>6, <1>8
  <2>3. g \in [1..Cardinality(S) -> S]
    BY <1>3, <2>1, <2>2, ListedInOrder
  <2>4. QED
    BY <1>4, <2>3
<1>10. PICK m \in Nat : m = Min({Examples, n}) /\ m <= n
  BY <1>4, ReportsAssumption, SmallerOf
<1>11. PICK s : s = Shown(place)
  OBVIOUS
<1>12. s = [i \in 1..m |-> CHOOSE x \in S : rank[x] = i - 1]
  <2>1. Shown(place) = [i \in 1..Min({Examples, Cardinality(S)}) |->
                          CHOOSE x \in S :
                            [z \in S |-> Cardinality({y \in S : Above(place[y], place[z])})][x] = i - 1]
    BY DEF Shown
  <2>2. QED
    BY <1>4, <1>7, <1>10, <1>11, <2>1
<1>13. \A i \in 1..m : s[i] \in S
  <2>1. ASSUME NEW i \in 1..m
        PROVE  s[i] \in S
    <3>1. i \in 1..n
      BY <1>10
    <3>2. s[i] = g[i]
      BY <1>8, <1>12, <3>1
    <3>3. QED
      BY <1>9, <3>1, <3>2
  <2>2. QED
    BY <2>1
<1>14. Len(s) = m /\ DOMAIN s = 1..m
  <2>1. DOMAIN s = 1..m
    BY ONLY <1>12
  <2>2. s \in [1..m -> S]
    BY <1>12, <1>13
  <2>3. s \in Seq(S)
    BY ONLY <2>2, m \in Nat, SeqDef
  <2>4. QED
    BY ONLY <2>1, <2>3, m \in Nat
<1>15. QED
  BY <1>4, <1>10, <1>11, <1>13, <1>14

\* Every file of the tree was read or is skipped in one issue.
LEMMA SkippedCounted ==
  ASSUME TreeInv, stage = "ready"
  PROVE  Cardinality(files) + Cardinality({i \in issues : i.type = "skipped"})
           = Cardinality(Discovered)
<1> DEFINE D == Discovered \ files
<1>1. Met = Discovered /\ ParsedFiles = files /\ files \subseteq Discovered
  BY DEF Met, ParsedFiles, TreeInv, TreeTypeOK
<1>2. \A f \in Discovered : Told(f)
  BY DEF TreeInv, EveryFileTold
<1>3. IsFiniteSet(Discovered) /\ \A f, g \in Discovered : f.id = g.id => f = g
  <2>1. tree \in Trees /\ Discovered \in SUBSET tree
    BY DEF TreeInv, TreeTypeOK, Discovered
  <2>2. QED
    BY <2>1, SourcesAssumption, FS_Subset
<1>4. PICK h : h = [f \in D |-> CHOOSE i : Problems(f) = {i}]
  OBVIOUS
<1>5. ASSUME NEW f \in D
      PROVE  /\ Problems(f) = {h[f]} /\ h[f].file = f.id /\ h[f].type = "skipped"
             /\ h[f] \in issues
  <2>1. PICK reason : Problems(f) = {Issue(f.id, "skipped", reason, 0)}
    BY <1>1, <1>2 DEF Told
  <2>2. PICK i : i = Issue(f.id, "skipped", reason, 0)
    OBVIOUS
  <2>3. h[f] = i
    BY <1>4, <2>1, <2>2
  <2>4. i \in Problems(f)
    BY <2>1, <2>2
  <2>5. i \in issues
    BY <2>4 DEF Problems, OfFile
  <2>6. QED
    BY <2>1, <2>2, <2>3, <2>5 DEF Issue
<1>6. {i \in issues : i.type = "skipped"} = {h[f] : f \in D}
  <2>1. ASSUME NEW i \in issues, i.type = "skipped"
        PROVE  \E f \in D : i = h[f]
    <3>1. PICK f \in Discovered : i.file = f.id
      BY DEF TreeInv, IssuesPlaced
    <3>2. i \in Problems(f)
      BY <2>1, <3>1 DEF Problems, OfFile
    <3>3. f \notin files
      BY <1>1, <1>2, <2>1, <3>2 DEF Told, Issue
    <3>4. QED
      BY <1>5, <3>2, <3>3
  <2>2. QED
    BY <1>5, <2>1
<1>7. Cardinality({h[f] : f \in D}) = Cardinality(D)
  <2>1. IsFiniteSet(D)
    BY <1>3, FS_Difference
  <2>2. \A f, g \in D : h[f] = h[g] => f = g
    BY <1>3, <1>5
  <2>3. h = [f \in D |-> h[f]]
    BY <1>4
  <2>4. QED
    <3> HIDE DEF D
    <3>1. QED
      BY <2>1, <2>2, <2>3, SameNumber
<1>8. Cardinality(D) = Cardinality(Discovered) - Cardinality(files)
  <2>1. Discovered \cap files = files
    BY <1>1
  <2>2. QED
    BY <1>3, <2>1, FS_Difference
<1>9. Cardinality(files) \in Nat /\ Cardinality(Discovered) \in Nat
  BY <1>1, <1>3, FS_Subset, FS_CardinalityType
<1>10. PICK skipped : skipped = {i \in issues : i.type = "skipped"}
  OBVIOUS
<1>11. Cardinality(skipped) = Cardinality(Discovered) - Cardinality(files)
  <2> HIDE DEF D
  <2>1. QED
    BY <1>6, <1>7, <1>8, <1>10
<1>12. Cardinality(files) + Cardinality(skipped) = Cardinality(Discovered)
  BY ONLY <1>9, <1>11
<1>13. QED
  BY <1>10, <1>12

\* The calls and the warnings of an index are the entities and the warnings
\* of the requests.
LEMMA CallsAndWarnings ==
  ASSUME TreeInv, WholeRows, stage = "ready"
  PROVE  Calls = ResolvedEntities /\ Warnings = ResolvedIssues
<1>1. /\ entities = FoundEntities \cup ResolvedEntities
      /\ {i \in issues : i.type = "analysis_warning"} = ResolvedIssues
  BY DEF WholeRows, TreeInv, FoundOK, Warned
<1>2. Calls = ResolvedEntities
  BY <1>1, FoundEntity, ResolvedEntity DEF Calls, OfType, ResolvedTo
<1>3. \A i \in ResolvedIssues : i.reason \in FrontendReasons
  BY ResolvedIssue, ReasonsKnown
<1>4. QED
  BY <1>1, <1>2, <1>3 DEF Warnings

\* Every request is a call of the index or a warning.
LEMMA RequestsCounted ==
  ASSUME TreeInv, WholeRows, PlacesApart, stage = "ready"
  PROVE  Cardinality(Calls) + Cardinality(Warnings) = Cardinality(requests)
<1> DEFINE R == {q \in requests : \E e : ResolvedTo(q, files, e)}
<1>1. IsFiniteSet(requests) /\ IsFiniteSet(R) /\ IsFiniteSet(requests \ R)
  BY FS_Subset, FS_Difference DEF TreeInv, FiniteFound
<1>2. Cardinality(Calls) = Cardinality(R)
  <2>1. PICK h : h = [q \in R |-> CHOOSE e : ResolvedTo(q, files, e)]
    OBVIOUS
  <2>2. \A q \in R : ResolvedTo(q, files, h[q])
    BY <2>1
  <2>3. \A q, r \in R : h[q] = h[r] => q = r
    BY <2>2, RequestsApart DEF ResolvedTo
  <2>4. Calls = {h[q] : q \in R}
    <3>1. \A q \in R : Resolution(files, q).entities = {h[q]}
      BY <2>2 DEF ResolvedTo
    <3>2. \A q \in requests : q \notin R => Resolution(files, q).entities = {}
      BY ResolutionOne DEF WarnedOf
    <3>3. ResolvedEntities = {h[q] : q \in R}
      BY <3>1, <3>2 DEF ResolvedEntities
    <3>4. QED
      BY <3>3, CallsAndWarnings
  <2>5. h = [q \in R |-> h[q]]
    BY <2>1
  <2>6. QED
    <3> HIDE DEF R
    <3>1. QED
      BY <1>1, <2>3, <2>4, <2>5, SameNumber
<1>3. Cardinality(Warnings) = Cardinality(requests \ R)
  <2>1. PICK h : h = [q \in requests \ R |-> CHOOSE i : WarnedOf(q, files, i)]
    OBVIOUS
  <2>2. \A q \in requests \ R : WarnedOf(q, files, h[q])
    BY <2>1, ResolutionOne
  <2>3. \A q, r \in requests \ R : h[q] = h[r] => q = r
    BY <2>2, RequestsApart DEF WarnedOf
  <2>4. Warnings = {h[q] : q \in requests \ R}
    <3>1. \A q \in requests \ R : Resolution(files, q).issues = {h[q]}
      BY <2>2 DEF WarnedOf
    <3>2. \A q \in R : Resolution(files, q).issues = {}
      BY DEF ResolvedTo
    <3>3. ResolvedIssues = {h[q] : q \in requests \ R}
      BY <3>1, <3>2 DEF ResolvedIssues
    <3>4. QED
      BY <3>3, CallsAndWarnings
  <2>5. h = [q \in requests \ R |-> h[q]]
    BY <2>1
  <2>6. QED
    <3> HIDE DEF R
    <3>1. QED
      BY <1>1, <2>3, <2>4, <2>5, SameNumber
<1>4. Cardinality(requests \ R) = Cardinality(requests) - Cardinality(R)
  <2>1. requests \cap R = R
    OBVIOUS
  <2>2. QED
    <3> HIDE DEF R
    <3>1. QED
      BY <1>1, <2>1, FS_Difference
<1>5. Cardinality(requests) \in Nat /\ Cardinality(R) \in Nat
  BY <1>1, FS_CardinalityType
<1> HIDE DEF R
<1>6. QED
  BY <1>2, <1>3, <1>4, <1>5

\* A call is matched when it has a link, which it has when a route answers it.
LEMMA MatchedCalls ==
  ASSUME TreeInv, WholeRows, stage = "ready", NEW e \in Calls
  PROVE  /\ e \in Matched <=> \E l \in LinksOf("REQUESTS_API") : l.from = e
         /\ e \in Matched <=> \E route \in OfType(entities, "backend_api") :
                                route.path = e.path /\ route.verb \in {e.verb, "ANY"}
<1>1. e \in entities /\ e \in OfType(entities, "frontend_api_call")
  BY DEF Calls, OfType
<1>2. ASSUME e \in Matched
      PROVE  \E l \in LinksOf("REQUESTS_API") : l.from = e
  <2>1. PICK r \in relations : r.type = "REQUESTS_API" /\ r.source = LocalKey(e)
    BY <1>2 DEF Matched
  <2>2. PICK l : l = [from |-> RowOf(r.source), to |-> RowOf(r.target),
                      confidence |-> r.confidence]
    OBVIOUS
  <2>3. l \in LinksOf("REQUESTS_API")
    BY <2>1, <2>2 DEF LinksOf
  <2>4. l.from = e
    BY <1>1, <2>1, <2>2, RowNamed
  <2>5. QED
    BY <2>3, <2>4
<1>3. ASSUME NEW l \in LinksOf("REQUESTS_API"), l.from = e
      PROVE  e \in Matched
  <2>1. PICK r \in relations :
          /\ r.type = "REQUESTS_API"
          /\ l = [from |-> RowOf(r.source), to |-> RowOf(r.target),
                  confidence |-> r.confidence]
    BY <1>3 DEF LinksOf
  <2>2. PICK g \in entities : r.source = LocalKey(g)
    BY <2>1 DEF TreeInv, RowsOK
  <2>3. g = e
    BY <1>3, <2>1, <2>2, RowNamed
  <2>4. QED
    BY <2>1, <2>2, <2>3 DEF Matched
<1>4. ASSUME NEW l \in LinksOf("REQUESTS_API"), l.from = e
      PROVE  \E route \in OfType(entities, "backend_api") :
               route.path = e.path /\ route.verb \in {e.verb, "ANY"}
  <2>1. PICK call \in OfType(entities, "frontend_api_call"),
             route \in OfType(entities, "backend_api") :
          /\ route.path = call.path
          /\ \/ /\ route.verb = call.verb
                /\ l = [from |-> call, to |-> route, confidence |-> 100]
             \/ /\ route.verb = "ANY" /\ Serving(entities, call.path, call.verb) = {}
                /\ l = [from |-> call, to |-> route, confidence |-> 80]
    BY <1>4, RequestsLinked
  <2>2. call = e
    BY <1>4, <2>1
  <2>3. QED
    BY <2>1, <2>2
<1>5. ASSUME NEW route \in OfType(entities, "backend_api"),
             route.path = e.path, route.verb \in {e.verb, "ANY"}
      PROVE  \E l \in LinksOf("REQUESTS_API") : l.from = e
  <2>1. CASE Serving(entities, e.path, e.verb) = {}
    <3>1. route.verb = "ANY"
      BY <1>5, <2>1 DEF Serving
    <3>2. PICK l : l = [from |-> e, to |-> route, confidence |-> 80]
      OBVIOUS
    <3>3. l \in LinksOf("REQUESTS_API")
      BY <1>1, <1>5, <2>1, <3>1, <3>2, RequestsLinked
    <3>4. QED
      BY <3>2, <3>3
  <2>2. CASE Serving(entities, e.path, e.verb) # {}
    <3>1. PICK exact : /\ exact \in OfType(entities, "backend_api")
                       /\ exact.path = e.path /\ exact.verb = e.verb
      BY <2>2 DEF Serving
    <3>2. PICK l : l = [from |-> e, to |-> exact, confidence |-> 100]
      OBVIOUS
    <3>3. l \in LinksOf("REQUESTS_API")
      BY <1>1, <3>1, <3>2, RequestsLinked
    <3>4. QED
      BY <3>2, <3>3
  <2>3. QED
    BY <2>1, <2>2
<1>6. QED
  BY <1>2, <1>3, <1>4, <1>5

\* A call stands at a place of its own.
LEMMA CallsPlaced ==
  ASSUME TreeInv, WholeRows, PlacesApart, stage = "ready"
  PROVE  /\ \A e \in Calls : e.file \in Nat /\ e.line \in Nat /\ e.at \in Nat
         /\ \A e, g \in Calls : e.file = g.file /\ e.at = g.at => e = g
<1>1. ASSUME NEW e \in Calls
      PROVE  \E q \in requests : ResolvedTo(q, files, e)
  BY CallsAndWarnings, ResolvedEntity
<1>2. ASSUME NEW e \in Calls
      PROVE  e.file \in Nat /\ e.line \in Nat /\ e.at \in Nat
  <2>1. PICK q \in requests : ResolvedTo(q, files, e)
    BY <1>1
  <2>2. PICK f \in Sound : q \in Parsed(f).requests /\ q.file = f.id
    BY RequestsApart
  <2>3. f \in tree /\ tree \in Trees
    BY RequestsApart DEF TreeInv, TreeTypeOK
  <2>4. f.id \in Nat /\ q.line \in Nat /\ q.at \in Nat
    BY <2>2, <2>3, SourcesAssumption, ParserAssumption
  <2>5. QED
    BY <2>1, <2>2, <2>4 DEF ResolvedTo
<1>3. ASSUME NEW e \in Calls, NEW g \in Calls, e.file = g.file, e.at = g.at
      PROVE  e = g
  <2>1. PICK q \in requests : ResolvedTo(q, files, e)
    BY <1>1
  <2>2. PICK r \in requests : ResolvedTo(r, files, g)
    BY <1>1
  <2>3. q = r
    BY <1>3, <2>1, <2>2, RequestsApart DEF ResolvedTo
  <2>4. QED
    BY <2>1, <2>2, <2>3 DEF ResolvedTo
<1>4. QED
  BY <1>2, <1>3

\* The relations that the script for the pilot repository counts are the
\* matched calls, when no call has two.
PilotMatched ==
  {r \in relations : r.type = "REQUESTS_API" /\ r.source \in {LocalKey(e) : e \in Calls}}

\* The report of the pilot scan counts relations, the diagnostics calls: the same
\* number if no call has two links.
LEMMA PilotCounts ==
  ASSUME TreeInv, WholeRows, stage = "ready",
         \A k, l \in LinksOf("REQUESTS_API") : k.from = l.from => k = l
  PROVE  Cardinality(PilotMatched) = Cardinality(Matched)
<1> DEFINE link(r) == [from |-> RowOf(r.source), to |-> RowOf(r.target),
                       confidence |-> r.confidence]
<1>1. ASSUME NEW r \in PilotMatched
      PROVE  /\ r \in relations /\ IsRelation(r) /\ r.type = "REQUESTS_API"
             /\ link(r) \in LinksOf("REQUESTS_API")
             /\ RowOf(r.source) \in Calls /\ LocalKey(RowOf(r.source)) = r.source
             /\ LocalKey(RowOf(r.target)) = r.target
  <2>1. r \in relations /\ r.type = "REQUESTS_API"
    BY DEF PilotMatched
  <2>2. PICK e \in Calls : r.source = LocalKey(e)
    BY DEF PilotMatched
  <2>3. e \in entities
    BY DEF Calls, OfType
  <2>4. PICK g \in entities : r.target = LocalKey(g)
    BY <2>1 DEF TreeInv, RowsOK
  <2>5. RowOf(r.source) = e /\ RowOf(r.target) = g
    BY <2>2, <2>3, <2>4, RowNamed
  <2>6. IsRelation(r)
    BY <2>1 DEF TreeInv, FiniteFound
  <2>7. link(r) \in LinksOf("REQUESTS_API")
    BY <2>1 DEF LinksOf
  <2>8. QED
    BY <2>1, <2>2, <2>4, <2>5, <2>6, <2>7
<1>2. PICK h : h = [r \in PilotMatched |-> RowOf(r.source)]
  OBVIOUS
<1>3. ASSUME NEW r \in PilotMatched, NEW s \in PilotMatched, h[r] = h[s]
      PROVE  r = s
  <2>1. link(r) = link(s)
    <3>1. link(r).from = link(s).from
      BY <1>2, <1>3
    <3>2. QED
      <4> HIDE DEF link
      <4>1. QED
        BY <1>1, <3>1
  <2>2. /\ RowOf(r.source) = RowOf(s.source) /\ RowOf(r.target) = RowOf(s.target)
        /\ r.confidence = s.confidence
    BY <2>1
  <2>3. r.source = s.source /\ r.target = s.target /\ r.type = s.type
    BY <1>1, <2>2
  <2>4. QED
    BY <1>1, <2>2, <2>3 DEF IsRelation
<1>4. Matched = {h[r] : r \in PilotMatched}
  <2>1. ASSUME NEW r \in PilotMatched
        PROVE  h[r] \in Matched
    BY <1>1, <1>2 DEF Matched
  <2>2. ASSUME NEW e \in Matched
        PROVE  \E r \in PilotMatched : h[r] = e
    <3>1. e \in Calls /\ e \in entities
      BY DEF Matched, Calls, OfType
    <3>2. PICK r \in relations : r.type = "REQUESTS_API" /\ r.source = LocalKey(e)
      BY DEF Matched
    <3>3. r \in PilotMatched
      BY <3>1, <3>2 DEF PilotMatched
    <3>4. RowOf(r.source) = e
      BY <3>1, <3>2, RowNamed
    <3>5. QED
      BY <1>2, <3>3, <3>4
  <2>3. QED
    BY <2>1, <2>2
<1>5. IsFiniteSet(PilotMatched)
  <2>1. PilotMatched \in SUBSET relations
    BY DEF PilotMatched
  <2>2. QED
    BY <2>1, FS_Subset DEF TreeInv, FiniteFound
<1>6. h = [r \in PilotMatched |-> h[r]]
  BY <1>2
<1>7. QED
  BY <1>3, <1>4, <1>5, <1>6, SameNumber

\* The reports on an index add up and agree.
THEOREM ReportsAgree == PlacesApart => (TreeSpec => []ReportsAddUp)
<1> SUFFICES ASSUME PlacesApart PROVE TreeSpec => []ReportsAddUp
  OBVIOUS
<1>1. ASSUME TreeInv, WholeRows
      PROVE  ReportsAddUp
  <2>1. SUFFICES ASSUME stage = "ready"
                 PROVE  ReportsAddUp
    BY DEF ReportsAddUp
  <2>2. PICK open : open = Calls \ Matched
    OBVIOUS
  <2>3. /\ IsFiniteSet(Calls) /\ IsFiniteSet(Matched) /\ IsFiniteSet(open)
        /\ Matched \subseteq Calls
    <3>1. Calls \in SUBSET entities /\ Matched \in SUBSET entities /\ open \in SUBSET entities
          /\ Matched \subseteq Calls
      BY <2>2 DEF Calls, Matched, OfType
    <3>2. QED
      BY <1>1, <3>1, FS_Subset DEF TreeInv, FiniteFound
  <2>4. Cardinality(open) = Cardinality(Calls) - Cardinality(Matched)
    <3>1. Calls \cap Matched = Matched
      BY <2>3
    <3>2. QED
      BY <2>2, <2>3, <3>1, FS_Difference
  <2>5. /\ Diagnostics.identified = Cardinality(Calls)
        /\ Diagnostics.unmatched = Cardinality(open)
        /\ Diagnostics.unresolved = Cardinality(Warnings)
        /\ Diagnostics.unmatchedExamples = Shown(CallPlaces(open))
    BY <2>2, <2>4 DEF Diagnostics, MatchedCount
  <2>6. Stats.files + Stats.skipped = Cardinality(Discovered)
    <3>1. PICK types : types = [i \in issues |-> i.type]
      OBVIOUS
    <3>2. Stats.skipped = CountOf(GroupedCounts(types), "skipped")
          /\ Stats.files = Cardinality(files)
      BY <3>1 DEF Stats
    <3>3. types = [i \in issues |-> types[i]]
      BY <3>1
    <3>4. CountOf(GroupedCounts(types), "skipped")
            = Cardinality({i \in issues : types[i] = "skipped"})
      BY <3>3, CountsRows
    <3>5. {i \in issues : types[i] = "skipped"} = {i \in issues : i.type = "skipped"}
      BY <3>1
    <3>6. QED
      BY <1>1, <2>1, <3>2, <3>4, <3>5, SkippedCounted
  <2>7. Stats.frontendCalls = Diagnostics.identified
    <3>1. PICK types : types = [e \in entities |-> e.type]
      OBVIOUS
    <3>2. Stats.frontendCalls = CountOf(GroupedCounts(types), "frontend_api_call")
      BY <3>1 DEF Stats
    <3>3. types = [e \in entities |-> types[e]]
      BY <3>1
    <3>4. CountOf(GroupedCounts(types), "frontend_api_call")
            = Cardinality({e \in entities : types[e] = "frontend_api_call"})
      BY <3>3, CountsRows
    <3>5. {e \in entities : types[e] = "frontend_api_call"} = Calls
      BY <3>1 DEF Calls, OfType
    <3>6. QED
      BY <2>5, <3>2, <3>4, <3>5
  <2>8. Diagnostics.identified + Diagnostics.unresolved =
          Cardinality(UNION {Parsed(f).requests : f \in {g \in files : ~g.raises}})
    <3>1. {g \in files : ~g.raises} = Sound
      BY <2>1 DEF Sound, ParsedFiles
    <3>2. requests = UNION {Parsed(f).requests : f \in {g \in files : ~g.raises}}
      BY <1>1, <2>1, <3>1 DEF TreeInv, FoundOK, FoundRequests
    <3>3. QED
      BY <1>1, <2>1, <2>5, <3>2, RequestsCounted
  <2>9. Diagnostics.unmatched =
          Cardinality({e \in Calls : \A route \in OfType(entities, "backend_api") :
                         route.path # e.path \/ route.verb \notin {e.verb, "ANY"}})
    <3>1. open = {e \in Calls : \A route \in OfType(entities, "backend_api") :
                    route.path # e.path \/ route.verb \notin {e.verb, "ANY"}}
      BY <1>1, <2>1, <2>2, MatchedCalls
    <3>2. QED
      BY <2>5, <3>1
  <2>10. /\ Len(Shown(CallPlaces(open))) = Min({Examples, Cardinality(open)})
         /\ \A i \in DOMAIN Shown(CallPlaces(open)) : Shown(CallPlaces(open))[i] \in open
    <3>1. PICK place : /\ place = CallPlaces(open) /\ DOMAIN place = open
                       /\ \A e \in open : /\ place[e].file = e.file
                                          /\ place[e].line = e.line /\ place[e].at = e.at
      <4>1. PICK place : place = CallPlaces(open)
        OBVIOUS
      <4>2. place = [e \in open |-> [file |-> e.file, line |-> e.line, at |-> e.at]]
        BY <4>1 DEF CallPlaces
      <4>3. /\ DOMAIN place = open
            /\ \A e \in open : /\ place[e].file = e.file
                               /\ place[e].line = e.line /\ place[e].at = e.at
        BY <4>2
      <4>4. QED
        BY <4>1, <4>3
    <3>2. \A x \in DOMAIN place :
            place[x].file \in Nat /\ place[x].line \in Nat /\ place[x].at \in Nat
      BY <1>1, <2>1, <2>2, <3>1, CallsPlaced
    <3>3. \A x, y \in DOMAIN place :
            place[x].file = place[y].file /\ place[x].line = place[y].line
              /\ place[x].at = place[y].at => x = y
      BY <1>1, <2>1, <2>2, <3>1, CallsPlaced
    <3>4. IsFiniteSet(DOMAIN place)
      BY <2>3, <3>1
    <3>5. /\ Len(Shown(place)) = Min({Examples, Cardinality(DOMAIN place)})
          /\ \A i \in DOMAIN Shown(place) : Shown(place)[i] \in DOMAIN place
      BY <3>2, <3>3, <3>4, ShownRows
    <3>6. QED
      BY <3>1, <3>5
  <2>11. \A i \in DOMAIN Diagnostics.unmatchedExamples :
           \A l \in LinksOf("REQUESTS_API") :
             l.from # Diagnostics.unmatchedExamples[i]
    <3>1. \A e \in open : \A l \in LinksOf("REQUESTS_API") : l.from # e
      BY <1>1, <2>1, <2>2, MatchedCalls
    <3>2. QED
      BY <2>5, <2>10, <3>1
  <2>12. ExportDiagnostics = Diagnostics
    <3>1. PICK matched : matched = {LocalKey(e) : e \in Calls} \cap
                           {r.source : r \in {x \in relations : x.type = "REQUESTS_API"}}
      OBVIOUS
    <3>2. \A e \in Calls : LocalKey(e) \in matched <=> e \in Matched
      BY <3>1 DEF Matched
    <3>3. {c \in Calls : LocalKey(c) \notin matched} = Calls \ Matched
      BY <3>2
    <3>4. PICK h : h = [e \in Matched |-> LocalKey(e)]
      OBVIOUS
    <3>5. matched = {h[e] : e \in Matched}
      BY <2>3, <3>1, <3>2, <3>4
    <3>6. \A e, g \in Matched : h[e] = h[g] => e = g
      BY <1>1, <2>1, <2>3, <3>4 DEF TreeInv, RowsOK, Calls, OfType
    <3>7. h = [e \in Matched |-> h[e]]
      BY <3>4
    <3>8. Cardinality(matched) = Cardinality(Matched)
      BY <2>3, <3>5, <3>6, <3>7, SameNumber
    <3>9. QED
      BY <3>1, <3>3, <3>8 DEF ExportDiagnostics, Diagnostics, MatchedCount, Warnings
  <2>13. PilotReport.entityTypes = Stats.entityTypes
    BY DEF PilotReport, Stats
  <2>14. ASSUME \A k, l \in LinksOf("REQUESTS_API") : k.from = l.from => k = l
         PROVE  PilotReport.unmatched = Diagnostics.unmatched
    <3>1. PilotReport.unmatched = Cardinality(Calls) - Cardinality(PilotMatched)
      BY DEF PilotReport, PilotMatched
    <3>2. QED
      BY <1>1, <2>1, <2>4, <2>5, <2>14, <3>1, PilotCounts
  <2>15. QED
    BY <2>5, <2>6, <2>7, <2>8, <2>9, <2>10, <2>11, <2>12, <2>13, <2>14 DEF ReportsAddUp
<1>2. QED
  BY <1>1, WholeInvariant, PTL
=============================================================================

---------------------------- MODULE ProjectIndex ----------------------------
(***************************************************************************)
(* The project registry and the static code index: what the requests       *)
(* POST /projects, POST /projects/{id}/scan and DELETE /projects/{id} do   *)
(* to the SQLite tables, interleaved as the threads of the server's pool   *)
(* interleave them.                                                        *)
(*                                                                         *)
(* A request thread runs one handler with a session of its own.  The       *)
(* SQLite driver opens a transaction at the first write, so a SELECT sees  *)
(* whatever is committed at that moment and several SELECTs of one request *)
(* may see different databases.  Only one write transaction exists at a    *)
(* time; a second writer waits for it and gives up after a timeout.        *)
(* The tables projects and code_entities are kept; code_files,             *)
(* code_relations and scan_issues are written and deleted together with    *)
(* code_entities and are represented by it.                                *)
(***************************************************************************)
EXTENDS Naturals

CONSTANTS
  ProjectIds,  \* row ids of the table projects (bounds the registry)
  RowIds,      \* row ids of the table code_entities (bounds the index)
  Roots,       \* source directories
  Entities,    \* entity keys a parser can find in a source directory
  Creators,    \* threads serving POST /projects
  Scanners,    \* threads serving POST /projects/{id}/scan
  Deleters,    \* threads serving DELETE /projects/{id}
  None         \* no row, no owner

Status == {"created", "scanning", "ready", "failed"}
Project == [root : Roots, status : Status]
\* A row of code_entities.  batch is the set of entities found by the scan
\* that wrote the row, root the directory that scan read: both are kept to
\* tell one scan's rows from another's.
Row == [project : ProjectIds, root : Roots, entity : Entities,
        batch : SUBSET Entities]

ProjectTable == [ProjectIds -> Project \cup {None}]
RowTable == [RowIds -> Row \cup {None}]

ASSUME IdAssumption == ProjectIds \subseteq Nat /\ RowIds \subseteq Nat
ASSUME ThreadAssumption ==
  /\ Creators \cap Scanners = {}
  /\ Creators \cap Deleters = {}
  /\ Scanners \cap Deleters = {}
ASSUME NoneAssumption ==
  /\ None \notin Project
  /\ None \notin Row
  /\ None \notin Creators \cup Scanners \cup Deleters
  /\ None \notin [owner : Scanners, projects : ProjectTable, rows : RowTable]

Threads == Creators \cup Scanners \cup Deleters

VARIABLES
  projects,  \* committed table projects: id -> row, or None
  rows,      \* committed table code_entities: id -> row, or None
  txn,       \* the open multi-statement write transaction, or None
  scanLock,  \* IndexService._project_locks: id -> thread holding it, or None
  pc,        \* where each thread is in its handler
  pid,       \* project id of the request
  root,      \* root_path read from the project row, or sent by the client
  parsed,    \* entities the scan parsed
  loaded     \* ids of the child rows session.delete() loaded

dbVars == <<projects, rows>>
vars == <<projects, rows, txn, scanLock, pc, pid, root, parsed, loaded>>

-----------------------------------------------------------------------------
Registered == {p \in ProjectIds : projects[p] # None}
RootTaken(r) == \E p \in Registered : projects[p].root = r

OwnRows(table, p) == {i \in RowIds : table[i] # None /\ table[i].project = p}
IndexedEntities(table, p) == {table[i].entity : i \in OwnRows(table, p)}

\* The id SQLite gives the next inserted row: one more than the largest id
\* in use, so the id of a deleted last row is given out again.  A singleton,
\* or empty when the bound on ids is reached.
NextId(ids, used) ==
  LET Above == {i \in ids : \A u \in used : u < i}
  IN {i \in Above : \A k \in Above : i <= k}

Goto(t, l) == pc' = [pc EXCEPT ![t] = l]

\* The handler returns or raises: the thread goes back to the pool, the
\* session is closed and every local is gone.
Finish(t) ==
  /\ Goto(t, "idle")
  /\ pid' = [pid EXCEPT ![t] = None]
  /\ root' = [root EXCEPT ![t] = None]
  /\ parsed' = [parsed EXCEPT ![t] = {}]
  /\ loaded' = [loaded EXCEPT ![t] = {}]

Init ==
  /\ projects = [p \in ProjectIds |-> None]
  /\ rows = [i \in RowIds |-> None]
  /\ txn = None
  /\ scanLock = [p \in ProjectIds |-> None]
  /\ pc = [t \in Threads |-> "idle"]
  /\ pid = [t \in Threads |-> None]
  /\ root = [t \in Threads |-> None]
  /\ parsed = [t \in Threads |-> {}]
  /\ loaded = [t \in Threads |-> {}]

-----------------------------------------------------------------------------
(* POST /projects                                                          *)

\* The duplicate check is a SELECT of its own; a taken root is answered 409.
CreateCheck(t, r) ==
  /\ pc[t] = "idle"
  /\ ~RootTaken(r)
  /\ Goto(t, "create_write")
  /\ root' = [root EXCEPT ![t] = r]
  /\ UNCHANGED <<dbVars, txn, scanLock, pid, parsed, loaded>>

\* Mutant of CreateWrite: root_path has no unique constraint.
CreateWriteUnchecked(t) ==
  /\ pc[t] = "create_write"
  /\ txn = None
  /\ \E p \in NextId(ProjectIds, Registered) :
       projects' = [projects EXCEPT
         ![p] = [root |-> root[t], status |-> "created"]]
  /\ Finish(t)
  /\ UNCHANGED <<rows, txn, scanLock>>

\* One transaction.  The unique constraint on root_path rejects a root that
\* another thread registered since the check: rollback and 409.
CreateWrite(t) ==
  /\ pc[t] = "create_write"
  /\ txn = None
  /\ \/ /\ RootTaken(root[t])
        /\ UNCHANGED projects
     \/ /\ ~RootTaken(root[t])
        /\ \E p \in NextId(ProjectIds, Registered) :
             projects' = [projects EXCEPT
               ![p] = [root |-> root[t], status |-> "created"]]
  /\ Finish(t)
  /\ UNCHANGED <<rows, txn, scanLock>>

-----------------------------------------------------------------------------
(* POST /projects/{id}/scan                                                *)

\* The project row is read and the read transaction dropped (404 if absent).
ScanOpen(t, p) ==
  /\ pc[t] = "idle"
  /\ p \in Registered
  /\ Goto(t, "scan_lock")
  /\ pid' = [pid EXCEPT ![t] = p]
  /\ root' = [root EXCEPT ![t] = projects[p].root]
  /\ UNCHANGED <<dbVars, txn, scanLock, parsed, loaded>>

\* Mutant of ScanLock: the result of acquire() is not looked at.
ScanLockIgnored(t) ==
  /\ pc[t] = "scan_lock"
  /\ scanLock' = [scanLock EXCEPT ![pid[t]] = t]
  /\ Goto(t, "scan_parse")
  /\ UNCHANGED <<dbVars, txn, pid, root, parsed, loaded>>

\* lock.acquire(blocking=False); a held lock is answered 409.
ScanLock(t) ==
  /\ pc[t] = "scan_lock"
  /\ \/ /\ scanLock[pid[t]] = None
        /\ scanLock' = [scanLock EXCEPT ![pid[t]] = t]
        /\ Goto(t, "scan_parse")
        /\ UNCHANGED <<pid, root, parsed, loaded>>
     \/ /\ scanLock[pid[t]] # None
        /\ Finish(t)
        /\ UNCHANGED scanLock
  /\ UNCHANGED <<dbVars, txn>>

\* Reading and parsing the directory: any set of entities, none included.
ScanParse(t) ==
  /\ pc[t] = "scan_parse"
  /\ \E found \in SUBSET Entities : parsed' = [parsed EXCEPT ![t] = found]
  /\ Goto(t, "scan_replace")
  /\ UNCHANGED <<dbVars, txn, scanLock, pid, root, loaded>>

\* Mutant of ScanReplace: the status "scanning" is committed on its own, so
\* that readers can see it.
ScanReplaceShown(t) ==
  /\ pc[t] = "scan_replace"
  /\ txn = None
  /\ pid[t] \in Registered
  /\ projects' = [projects EXCEPT ![pid[t]].status = "scanning"]
  /\ txn' = [owner |-> t,
             projects |-> projects',
             rows |-> [i \in RowIds |-> IF i \in OwnRows(rows, pid[t])
                                        THEN None ELSE rows[i]]]
  /\ Goto(t, "scan_insert")
  /\ UNCHANGED <<rows, scanLock, pid, root, parsed, loaded>>

\* Mutant of ScanReplace: the deletion of the old rows is committed before
\* the new rows are inserted.
ScanReplaceInTwo(t) ==
  /\ pc[t] = "scan_replace"
  /\ txn = None
  /\ pid[t] \in Registered
  /\ rows' = [i \in RowIds |-> IF i \in OwnRows(rows, pid[t])
                               THEN None ELSE rows[i]]
  /\ txn' = [owner |-> t,
             projects |-> [projects EXCEPT ![pid[t]].status = "scanning"],
             rows |-> rows']
  /\ Goto(t, "scan_insert")
  /\ UNCHANGED <<projects, scanLock, pid, root, parsed, loaded>>

\* _replace_index opens the write transaction: the project must still be
\* there (RuntimeError otherwise), the status becomes "scanning" and the old
\* rows are deleted, all of it uncommitted.
ScanReplace(t) ==
  /\ pc[t] = "scan_replace"
  /\ txn = None
  /\ pid[t] \in Registered
  /\ txn' = [owner |-> t,
             projects |-> [projects EXCEPT ![pid[t]].status = "scanning"],
             rows |-> [i \in RowIds |-> IF i \in OwnRows(rows, pid[t])
                                        THEN None ELSE rows[i]]]
  /\ Goto(t, "scan_insert")
  /\ UNCHANGED <<dbVars, scanLock, pid, root, parsed, loaded>>

\* One INSERT of the flush.
ScanInsert(t) ==
  /\ pc[t] = "scan_insert"
  /\ \E e \in parsed[t] \ IndexedEntities(txn.rows, pid[t]),
        i \in NextId(RowIds, {k \in RowIds : txn.rows[k] # None}) :
       txn' = [txn EXCEPT !.rows[i] =
                 [project |-> pid[t], root |-> root[t], entity |-> e,
                  batch |-> parsed[t]]]
  /\ UNCHANGED <<dbVars, scanLock, pc, pid, root, parsed, loaded>>

ScanCommit(t) ==
  /\ pc[t] = "scan_insert"
  /\ parsed[t] = IndexedEntities(txn.rows, pid[t])
  /\ projects' = [txn.projects EXCEPT ![pid[t]].status = "ready"]
  /\ rows' = txn.rows
  /\ txn' = None
  /\ Goto(t, "scan_release")
  /\ UNCHANGED <<scanLock, pid, root, parsed, loaded>>

\* Mutant of ScanError: session.rollback() is missing, and the commit of
\* _mark_failed takes what was flushed with it.
ScanErrorKept(t) ==
  /\ pc[t] \in {"scan_parse", "scan_replace", "scan_insert"}
  /\ rows' = IF pc[t] = "scan_insert" THEN txn.rows ELSE rows
  /\ txn' = IF pc[t] = "scan_insert" THEN None ELSE txn
  /\ Goto(t, "scan_failed")
  /\ UNCHANGED <<projects, scanLock, pid, root, parsed, loaded>>

\* Mutant of ScanError: the release is not in a finally block.
ScanErrorLocked(t) ==
  /\ pc[t] \in {"scan_parse", "scan_replace", "scan_insert"}
  /\ txn' = IF pc[t] = "scan_insert" THEN None ELSE txn
  /\ Finish(t)
  /\ UNCHANGED <<dbVars, scanLock>>

\* Any exception under the lock: the root is no directory, the project is
\* gone, a constraint or the commit fails, the database stays locked.
\* session.rollback() drops what this session has not committed.
ScanError(t) ==
  /\ pc[t] \in {"scan_parse", "scan_replace", "scan_insert"}
  /\ txn' = IF pc[t] = "scan_insert" THEN None ELSE txn
  /\ Goto(t, "scan_failed")
  /\ UNCHANGED <<dbVars, scanLock, pid, root, parsed, loaded>>

\* Mutant of MarkFailed: the row is written whether or not the project is
\* still there, and comes back without its root.
MarkFailedUpsert(t) ==
  /\ pc[t] = "scan_failed"
  /\ \/ /\ txn = None
        /\ projects' = [projects EXCEPT ![pid[t]] =
             [root |-> IF pid[t] \in Registered THEN @.root ELSE None,
              status |-> "failed"]]
     \/ UNCHANGED projects
  /\ Goto(t, "scan_release")
  /\ UNCHANGED <<rows, txn, scanLock, pid, root, parsed, loaded>>

\* _mark_failed: a short transaction; its own exceptions are swallowed.
MarkFailed(t) ==
  /\ pc[t] = "scan_failed"
  /\ \/ /\ txn = None
        /\ pid[t] \in Registered
        /\ projects' = [projects EXCEPT ![pid[t]].status = "failed"]
     \/ UNCHANGED projects
  /\ Goto(t, "scan_release")
  /\ UNCHANGED <<rows, txn, scanLock, pid, root, parsed, loaded>>

\* finally: lock.release()
ScanRelease(t) ==
  /\ pc[t] = "scan_release"
  /\ scanLock' = [scanLock EXCEPT ![pid[t]] = None]
  /\ Finish(t)
  /\ UNCHANGED <<dbVars, txn>>

-----------------------------------------------------------------------------
(* DELETE /projects/{id}                                                   *)

DeleteOpen(t, p) ==
  /\ pc[t] = "idle"
  /\ p \in Registered
  /\ Goto(t, "delete_collection")
  /\ pid' = [pid EXCEPT ![t] = p]
  /\ UNCHANGED <<dbVars, txn, scanLock, root, parsed, loaded>>

\* The vector collection is dropped first (VectorIndex says what that does).
DeleteCollection(t) ==
  /\ pc[t] = "delete_collection"
  /\ Goto(t, "delete_load")
  /\ UNCHANGED <<dbVars, txn, scanLock, pid, root, parsed, loaded>>

\* session.delete(project) cascades by loading the children it will delete.
DeleteLoad(t) ==
  /\ pc[t] = "delete_load"
  /\ loaded' = [loaded EXCEPT ![t] = OwnRows(rows, pid[t])]
  /\ Goto(t, "delete_commit")
  /\ UNCHANGED <<dbVars, txn, scanLock, pid, root, parsed>>

\* The flush deletes the loaded children and the project by primary key;
\* a row that is already gone only draws a warning.
DeleteCommit(t) ==
  /\ pc[t] = "delete_commit"
  /\ txn = None
  /\ projects' = [projects EXCEPT ![pid[t]] = None]
  /\ rows' = [i \in RowIds |-> IF i \in loaded[t] THEN None ELSE rows[i]]
  /\ Finish(t)
  /\ UNCHANGED <<txn, scanLock>>

\* An exception before the commit: the vector store fails (502), the database
\* is locked or fails (500).  Nothing of the request is committed.
RequestError(t) ==
  /\ pc[t] \in {"create_write", "delete_collection", "delete_load",
                "delete_commit"}
  /\ Finish(t)
  /\ UNCHANGED <<dbVars, txn, scanLock>>

-----------------------------------------------------------------------------
\* The process dies and starts again: threads and locks are gone, SQLite
\* rolls the open transaction back, nothing repairs a project's status.
Restart ==
  /\ txn' = None
  /\ scanLock' = [p \in ProjectIds |-> None]
  /\ pc' = [t \in Threads |-> "idle"]
  /\ pid' = [t \in Threads |-> None]
  /\ root' = [t \in Threads |-> None]
  /\ parsed' = [t \in Threads |-> {}]
  /\ loaded' = [t \in Threads |-> {}]
  /\ UNCHANGED dbVars

ScanStep(t) ==
  \/ ScanLock(t)
  \/ ScanParse(t)
  \/ ScanReplace(t)
  \/ ScanInsert(t)
  \/ ScanCommit(t)
  \/ ScanError(t)
  \/ MarkFailed(t)
  \/ ScanRelease(t)

\* The steps that touch no vector store.
RegistryStep ==
  \/ \E t \in Creators : (\E r \in Roots : CreateCheck(t, r)) \/ CreateWrite(t)
  \/ \E t \in Scanners : (\E p \in ProjectIds : ScanOpen(t, p)) \/ ScanStep(t)
  \/ \E t \in Deleters : \/ \E p \in ProjectIds : DeleteOpen(t, p)
                         \/ DeleteLoad(t)
                         \/ DeleteCommit(t)
  \/ \E t \in Creators \cup Deleters : RequestError(t)

Next ==
  \/ RegistryStep
  \/ \E t \in Deleters : DeleteCollection(t)
  \/ Restart

\* A handler that has started is run to its end: each of its calls returns or
\* raises.  Nothing obliges a client to send a request.
Fairness == \A t \in Scanners : WF_vars(ScanStep(t))

Spec == Init /\ [][Next]_vars
FairSpec == Spec /\ Fairness
-----------------------------------------------------------------------------
(* Properties                                                              *)

\* Where a scanner holds its project's lock (lines 75-122 of scan_project).
Critical == {"scan_parse", "scan_replace", "scan_insert", "scan_failed",
             "scan_release"}
Labels == {"idle", "create_write", "scan_lock", "delete_collection",
           "delete_load", "delete_commit"} \cup Critical

WriteTxn == [owner : Scanners, projects : ProjectTable, rows : RowTable]

\* Every variable has its type; an open transaction belongs to a scanner.
TypeOK ==
  /\ projects \in ProjectTable
  /\ rows \in RowTable
  /\ txn \in WriteTxn \cup {None}
  /\ scanLock \in [ProjectIds -> Scanners \cup {None}]
  /\ pc \in [Threads -> Labels]
  /\ pid \in [Threads -> ProjectIds \cup {None}]
  /\ root \in [Threads -> Roots \cup {None}]
  /\ parsed \in [Threads -> SUBSET Entities]
  /\ loaded \in [Threads -> SUBSET RowIds]

\* Two requests never scan one project at the same time, and a lock is held
\* exactly by the request that is going to release it: an exception, a
\* deleted project or a reused id leaks no lock (scan_project).
LockDiscipline ==
  \A p \in ProjectIds, t \in Scanners :
    scanLock[p] = t <=> pc[t] \in Critical /\ pid[t] = p

\* "scanning" is written only inside the replacement transaction, so no
\* failure, rollback or crash leaves it committed: a project can never be
\* shown as scanning for ever (_replace_index, _mark_failed).
NoStuckScanning == \A p \in Registered : projects[p].status # "scanning"

\* Two registrations of one directory that both pass the duplicate check
\* still end as one project (ProjectService.create).
RootsUnique ==
  \A p, q \in Registered : projects[p].root = projects[q].root => p = q

\* The rows a reader finds for a project are those of one scan, all of them
\* and no other scan's, and that scan read the project's own directory.
Whole(table, p) ==
  \A i \in OwnRows(table, p) :
    table[i].batch = IndexedEntities(table, p)
OneRoot(table, p, r) == \A i \in OwnRows(table, p) : table[i].root = r

\* The static index of a registered project is at every moment the complete
\* result of one scan of its directory, whatever scans fail, are refused or
\* are cut off by a restart (README.md:206).  Stated for runs and theorems
\* without deletions: a deletion that overlaps a scan breaks it.
IndexWhole ==
  \A p \in Registered : Whole(rows, p) /\ OneRoot(rows, p, projects[p].root)

\* A row never outlives its project: rows of an unregistered id would be
\* found by the next project that is given the id (README.md:534-536 says
\* the deletion takes the scan data with it).
NoOrphanRows ==
  \A i \in RowIds : rows[i] # None => rows[i].project \in Registered

\* A scan lock that is taken is released: no exception path, waiting writer
\* or refused request keeps a project unscannable (scan_project's finally).
LockReleased ==
  \A p \in ProjectIds, t \in Scanners :
    scanLock[p] = t ~> scanLock[p] # t

\* Refinement of IndexPromise: the tables, the lock and the threads show
\* readers a status, an index that changes only as a whole, and one scan.
ScanPhase(p) ==
  IF scanLock[p] = None THEN "free"
  ELSE IF pc[scanLock[p]] = "scan_release" THEN "done" ELSE "running"
Promise == INSTANCE IndexPromise WITH
  status <- [p \in ProjectIds |->
               IF projects[p] = None THEN "absent" ELSE projects[p].status],
  index <- [p \in ProjectIds |-> IndexedEntities(rows, p)],
  scan <- [p \in ProjectIds |-> ScanPhase(p)]
ImplementsPromise == Promise!Spec
=============================================================================

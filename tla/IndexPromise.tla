---------------------------- MODULE IndexPromise ----------------------------
(***************************************************************************)
(* What a project's static index promises its readers, whatever threads    *)
(* and tables produce it: an index is replaced as a whole by a scan that   *)
(* succeeds, a scan that fails leaves it alone and at most changes the     *)
(* status, and a project has one scan at a time, which has one outcome.    *)
(***************************************************************************)
CONSTANTS ProjectIds, Entities

VARIABLES
  status,  \* "absent" or what GET /projects shows
  index,   \* the entities a reader of the project gets
  scan     \* "free", "running", or "done" once a scan has its outcome

vars == <<status, index, scan>>

Init ==
  /\ status = [p \in ProjectIds |-> "absent"]
  /\ index = [p \in ProjectIds |-> {}]
  /\ scan = [p \in ProjectIds |-> "free"]

Register(p) ==
  /\ status[p] = "absent"
  /\ status' = [status EXCEPT ![p] = "created"]
  /\ UNCHANGED <<index, scan>>

Start(p) ==
  /\ status[p] # "absent"
  /\ scan[p] = "free"
  /\ scan' = [scan EXCEPT ![p] = "running"]
  /\ UNCHANGED <<status, index>>

Replace(p) ==
  /\ scan[p] = "running"
  /\ \E found \in SUBSET Entities : index' = [index EXCEPT ![p] = found]
  /\ status' = [status EXCEPT ![p] = "ready"]
  /\ scan' = [scan EXCEPT ![p] = "done"]

\* The status may keep its value: recording the failure can fail as well.
Fail(p) ==
  /\ scan[p] = "running"
  /\ \/ status' = [status EXCEPT ![p] = "failed"]
     \/ UNCHANGED status
  /\ scan' = [scan EXCEPT ![p] = "done"]
  /\ UNCHANGED index

End(p) ==
  /\ scan[p] = "done"
  /\ scan' = [scan EXCEPT ![p] = "free"]
  /\ UNCHANGED <<status, index>>

\* A restart ends every scan and changes nothing a reader sees.
Restart ==
  /\ scan' = [p \in ProjectIds |-> "free"]
  /\ UNCHANGED <<status, index>>

Next ==
  \/ \E p \in ProjectIds :
       Register(p) \/ Start(p) \/ Replace(p) \/ Fail(p) \/ End(p)
  \/ Restart

Spec == Init /\ [][Next]_vars
=============================================================================

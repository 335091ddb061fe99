---------------------------- MODULE ProjectView ----------------------------
(***************************************************************************)
(* The page of the projects, src/frontend/src/views/ProjectView.vue, with  *)
(* its list, reorder list and delete dialog.  JavaScript runs one piece of *)
(* a handler at a time; a handler stops at each await, and what comes      *)
(* after it runs when the answer is delivered, whatever the user has done  *)
(* in the meantime.  A request and its answer travel, so the server may    *)
(* have acted long before the page hears of it; either may be lost.        *)
(*                                                                         *)
(* selectionToken is a counter that a handler remembers and compares; here *)
(* a call remembers whether it is still the current one.                   *)
(***************************************************************************)
EXTENDS Session, Sequences, FiniteSets, SequencesExt, FiniteSetsExt

CONSTANTS
  MaxProjects,  \* bound: ids the server may give
  Roots         \* directories to register

\* An item of the list; a project that was refused has no directory.
ProjectItem == [id : Nat, root : Roots \cup {None}, ready : BOOLEAN]

ASSUME ProjectViewAssumption ==
  MaxProjects \in Nat \ {0} /\ None \notin Seq(ProjectItem) \cup ProjectItem \cup {"done"}

VARIABLES
  server,     \* the projects the backend has, in their order
  list,       \* projects
  selected,   \* selectedProjectId
  shown,      \* stats: of which project, shown by which handler
  diagnosed,  \* frontendDiagnostics, likewise
  summary,    \* indexSummary: the project that was built
  operation,
  loading,    \* loadingProjects
  reordering, \* reorderMode
  dialog,     \* deleteTarget
  calls,      \* calls under way
  doubt       \* history: calls for the list have met, an answer was lost, or
              \* the backend did what the page had seen fail

panel == <<shown, diagnosed, summary>>
view == <<list, selected, panel, operation, loading, reordering, dialog>>
projectVars == <<server, view, calls, requests, doubt>>

Ids(projects) == [i \in DOMAIN projects |-> projects[i].id]
Position(projects, id) == SelectInSeq(Ids(projects), LAMBDA x : x = id)
Lists(projects, id) == Position(projects, id) # 0
Item(projects, id) == projects[Position(projects, id)]
Ready(projects, id) == Lists(projects, id) /\ Item(projects, id).ready

\* A request: what it asks, of which project, whose finally waits for it,
\* and what else its handler keeps for after the await.
Call(op, id, after, data) ==
  [op |-> op, id |-> id, after |-> after, data |-> data, current |-> TRUE,
   reply |-> None]

\* Calls that change the projects: the backend may carry them out when nobody
\* waits for the answer any more.
Changes == {"create", "scan", "reorder", "delete"}
Gone(c) ==
  IF c.op \in Changes /\ c.reply = None THEN {[c EXCEPT !.after = "gone"]} ELSE {}

\* Calls that read or change the list.
OfList == {"list", "create", "reorder", "delete"}
Meets(c, others) == c.op \in OfList /\ \E other \in others : other.op \in OfList

Begin(c) ==
  /\ Request
  /\ calls' = calls \cup {c}
  /\ doubt' = (doubt \/ Meets(c, calls))

ProjectInit(projects) ==
  /\ server = projects /\ list = <<>> /\ selected = None
  /\ shown = None /\ diagnosed = None /\ summary = None
  /\ operation = None /\ reordering = FALSE /\ dialog = None
  /\ loading = FALSE /\ calls = {}
  /\ doubt = TRUE

\* onMounted: loadProjects.
ProjectMount ==
  LET load == Call("list", None, "load", None)
  IN /\ calls' = calls \cup {load} /\ loading' = TRUE /\ doubt' = Meets(load, calls)
     /\ UNCHANGED <<server, list, selected, panel, operation, reordering, dialog>>

\* The page is left: its state goes, its changes may still reach the backend.
ProjectLeave ==
  /\ list' = <<>> /\ selected' = None
  /\ shown' = None /\ diagnosed' = None /\ summary' = None
  /\ operation' = None /\ reordering' = FALSE /\ dialog' = None /\ loading' = FALSE
  /\ calls' = UNION {Gone(c) : c \in calls}
  /\ doubt' = TRUE /\ UNCHANGED server

-----------------------------------------------------------------------------
(* The backend, as far as the page sees it                                 *)

Conflict == [id |-> 0, root |-> None, ready |-> FALSE]
NewId == 1 + Max({0} \cup ToSet(Ids(server)))

Answer(c, projects, value) ==
  /\ server' = projects
  /\ calls' = (calls \ {c}) \cup {[c EXCEPT !.reply = value]}

\* Calls that change nothing and whose answer counts for its project alone:
\* they are answered when they are delivered.
Reads == {"stats", "scan_stats", "diagnostics"}

\* The backend does what another call asks, also when the page was left or has
\* seen the call fail.  What it refuses stays without an answer but the failure
\* that DeliverFailure stands for.
Serve(c) ==
  /\ c.reply = None
  /\ \/ c.op = "list" /\ Answer(c, server, server)
     \/ /\ c.op = "create" /\ \E p \in ToSet(server) : p.root = c.data
        /\ Answer(c, server, Conflict)
     \/ /\ c.op = "create" /\ ~\E p \in ToSet(server) : p.root = c.data
        /\ NewId <= MaxProjects
        /\ LET p == [id |-> NewId, root |-> c.data, ready |-> FALSE]
           IN Answer(c, <<p>> \o server, p)
     \/ /\ c.op = "scan" /\ Lists(server, c.id)
        /\ Answer(c, [server EXCEPT ![Position(server, c.id)].ready = TRUE], "done")
     \/ /\ c.op = "reorder" /\ ToSet(c.data) = ToSet(Ids(server))
        /\ LET ordered == [i \in DOMAIN c.data |-> Item(server, c.data[i])]
           IN Answer(c, ordered, ordered)
     \/ /\ c.op = "delete" /\ Lists(server, c.id)
        /\ Answer(c, RemoveAt(server, Position(server, c.id)), "done")
     \/ c.op = "index" /\ Ready(server, c.id) /\ Answer(c, server, "done")
  /\ doubt' = (doubt \/ (c.after = "gone" /\ c.op \in OfList))
  /\ UNCHANGED <<view, requests>>

-----------------------------------------------------------------------------
(* Parts of handlers                                                       *)

\* The finally of a handler, and of the loadProjects within it: "conflict"
\* is that of register after a conflict, "reload" that of saveOrder.
Finish(after) ==
  /\ operation' = IF after = "load" \/ after = "select" THEN operation ELSE None
  /\ loading' = IF after \in {"load", "conflict", "reload"} THEN FALSE ELSE loading

Clear ==
  /\ shown' = None /\ diagnosed' = None /\ summary' = None

\* Mutant of SelectProject: calls of the last selection stay the current ones.
SelectProjectKept(l, id, others, after) ==
  /\ selected' = id /\ Clear
  /\ calls' = others \cup
       IF Ready(l, id) THEN {Call("stats", id, after, None)} ELSE {}

\* selectProject: the panel is cleared, and the statistics are asked for if
\* the project in the list l is ready.
SelectProject(l, id, others, after) ==
  /\ selected' = id /\ Clear
  /\ calls' = {[c EXCEPT !.current = FALSE] : c \in others} \cup
       IF Ready(l, id) THEN {Call("stats", id, after, None)} ELSE {}

\* The handler after has awaited selectProject(id).
Selected(l, id, after) ==
  IF Ready(l, id) THEN UNCHANGED <<operation, loading>> ELSE Finish(after)

\* A handler returns, or sends its next call.
Return(c) == calls' = calls \ {c} /\ Finish(c.after)
Continue(c, next) ==
  /\ calls' = (calls \ {c}) \cup {next}
  /\ UNCHANGED <<operation, loading>>

\* A handler awaits loadProjects, beside the calls others.
Reload(others, after) ==
  LET load == Call("list", selected, after, None)
  IN /\ calls' = others \cup {load}
     /\ loading' = TRUE
     /\ doubt' = (doubt \/ Meets(load, others))

\* register after the reload: a project is selected if the path that the form
\* holds by now is its directory.  The path may have been edited and is compared
\* as it was typed, so it may be any project's or none's: Finish is the latter.
SelectExisting(c, l, others) ==
  /\ c.after = "conflict" /\ loading' = FALSE
  /\ \E p \in ToSet(l) :
       /\ SelectProject(l, p.id, others, "register")
       /\ operation' = IF Ready(l, p.id) THEN operation ELSE None

\* The calls beside c when selectProject has its answers: the diagnostics are
\* asked for, not awaited.
Diagnosing(c) ==
  (calls \ {c}) \cup
    {[Call("diagnostics", c.id, "select", None) EXCEPT !.current = c.current]}

\* The calls when c has failed: it is over, or the backend still carries it out
\* when the page has reported the failure.
Failed(c) == {calls \ {c}, (calls \ {c}) \cup Gone(c)}

-----------------------------------------------------------------------------
(* The user                                                                *)

Free == dialog = None
HasProject == Lists(list, selected)
Busy == operation # None

Select ==
  /\ Free /\ ~reordering
  /\ Request
  /\ \E id \in ToSet(Ids(list)) : SelectProject(list, id, calls, "select")
  /\ UNCHANGED <<server, list, operation, loading, reordering, dialog, doubt>>

Refresh ==
  /\ Free /\ ~reordering /\ ~loading /\ loading' = TRUE
  /\ Begin(Call("list", selected, "load", None))
  /\ UNCHANGED <<server, list, selected, panel, operation, reordering, dialog>>

Register ==
  /\ Free /\ ~Busy /\ operation' = "register"
  /\ \E root \in Roots : Begin(Call("create", None, "register", root))
  /\ UNCHANGED <<server, list, selected, panel, loading, reordering, dialog>>

Scan ==
  /\ Free /\ HasProject /\ ~Busy /\ operation' = "scan" /\ summary' = None
  /\ Begin(Call("scan", selected, "scan", None))
  /\ UNCHANGED <<server, list, selected, shown, diagnosed, loading, reordering, dialog>>

\* requestBuildIndex, confirmed if there is an index, and buildIndex.
BuildIndex ==
  /\ Free /\ Ready(list, selected) /\ ~Busy /\ operation' = "index" /\ summary' = None
  /\ Begin(Call("index", selected, "index", None))
  /\ UNCHANGED <<server, list, selected, shown, diagnosed, loading, reordering, dialog>>

\* The reorder list: entered, left, or saved in some order of the list.
Reorder ==
  /\ Free /\ IF reordering THEN operation # "reorder" ELSE Len(list) >= 2
  /\ reordering' = ~reordering
  /\ UNCHANGED <<server, list, selected, panel, operation, loading, dialog, calls, requests,
                 doubt>>

SaveOrder ==
  /\ Free /\ reordering /\ operation # "reorder" /\ operation' = "reorder"
  /\ \E ids \in SetToSeqs(ToSet(Ids(list))) : Begin(Call("reorder", None, "reorder", ids))
  /\ UNCHANGED <<server, list, selected, panel, loading, reordering, dialog>>

OpenDelete ==
  /\ Free /\ HasProject /\ dialog' = selected
  /\ UNCHANGED <<server, list, selected, panel, operation, loading, reordering, calls,
                 requests, doubt>>

CancelDelete ==
  /\ dialog # None /\ operation # "delete" /\ dialog' = None
  /\ UNCHANGED <<server, list, selected, panel, operation, loading, reordering, calls,
                 requests, doubt>>

\* confirmDelete: the place of the project is looked up before the await.
ConfirmDelete ==
  /\ dialog # None /\ operation # "delete" /\ operation' = "delete"
  /\ Begin(Call("delete", dialog, "delete", Position(list, dialog)))
  /\ UNCHANGED <<server, list, selected, panel, loading, reordering, dialog>>

-----------------------------------------------------------------------------
(* What runs after an await                                                *)

\* loadProjects: the selection of before is kept, or the first project is it.
DeliverList(c) ==
  LET l == c.reply
      next == IF Lists(l, c.id) THEN c.id
              ELSE IF l = <<>> THEN None ELSE l[1].id
  IN /\ c.op = "list" /\ list' = l
     /\ \/ /\ SelectProject(l, next, calls \ {c}, c.after)
           /\ Selected(l, next, c.after)
        \/ ~Ready(l, next) /\ SelectExisting(c, l, calls \ {c})
     /\ UNCHANGED <<reordering, dialog, doubt>>

\* Mutant of DeliverCreate: a new project is put after the others.
DeliverCreateLast(c) ==
  /\ c.op = "create" /\ c.reply # Conflict
  /\ list' = Append(list, c.reply)
  /\ SelectProject(list', c.reply.id, calls \ {c}, "register")
  /\ Selected(list', c.reply.id, "register")
  /\ UNCHANGED <<reordering, dialog, doubt>>

DeliverCreate(c) ==
  /\ c.op = "create" /\ c.reply # Conflict
  /\ list' = <<c.reply>> \o list
  /\ SelectProject(list', c.reply.id, calls \ {c}, "register")
  /\ Selected(list', c.reply.id, "register")
  /\ UNCHANGED <<reordering, dialog, doubt>>

\* register, after 409 PROJECT_ROOT_EXISTS: loadProjects.
DeliverConflict(c) ==
  /\ c.op = "create" /\ c.reply = Conflict
  /\ Reload(calls \ {c}, "conflict")
  /\ UNCHANGED <<list, selected, panel, operation, reordering, dialog>>

DeliverScan(c) ==
  /\ c.op = "scan"
  /\ list' = [i \in DOMAIN list |->
                IF list[i].id = c.id THEN [list[i] EXCEPT !.ready = TRUE] ELSE list[i]]
  /\ Continue(c, Call("scan_stats", c.id, "scan", None))
  /\ UNCHANGED <<selected, panel, reordering, dialog, doubt>>

DeliverScanStats(c) ==
  /\ c.op = "scan_stats" /\ shown' = [id |-> c.id, by |-> "scan"]
  /\ Continue(c, Call("diagnostics", c.id, "scan", None))
  /\ UNCHANGED <<list, selected, diagnosed, summary, reordering, dialog, doubt>>

\* selectProject after its Promise.all: the answers are shown if the
\* selection is still the same.
DeliverStats(c) ==
  /\ c.op = "stats"
  /\ shown' = IF c.current THEN [id |-> c.id, by |-> "select"] ELSE shown
  /\ calls' = Diagnosing(c) /\ Finish(c.after)
  /\ UNCHANGED <<list, selected, diagnosed, summary, reordering, dialog, doubt>>

\* The same within register after a conflict, which then selects a project:
\* what was just shown is cleared again.
DeliverStatsConflict(c) ==
  /\ c.op = "stats" /\ SelectExisting(c, list, Diagnosing(c))
  /\ UNCHANGED <<list, reordering, dialog, doubt>>

DeliverDiagnostics(c) ==
  /\ c.op = "diagnostics"
  /\ diagnosed' = IF c.current THEN [id |-> c.id, by |-> c.after] ELSE diagnosed
  /\ Return(c)
  /\ UNCHANGED <<list, selected, shown, summary, reordering, dialog, doubt>>

DeliverIndex(c) ==
  /\ c.op = "index" /\ Return(c)
  /\ summary' = c.id
  /\ UNCHANGED <<list, selected, shown, diagnosed, reordering, dialog, doubt>>

DeliverReorder(c) ==
  /\ c.op = "reorder" /\ Return(c)
  /\ list' = c.reply /\ reordering' = FALSE
  /\ UNCHANGED <<selected, panel, dialog, doubt>>

\* projects.splice(index, 1): index -1, here 0, is the last place.
Splice(l, i) ==
  IF i = 0 /\ l # <<>> THEN Front(l) ELSE IF i \in DOMAIN l THEN RemoveAt(l, i) ELSE l

\* confirmDelete: the project is taken out at the place it had, and its
\* neighbour is selected.
DeliverDelete(c) ==
  LET l == Splice(list, c.data)
      next == IF c.data \in DOMAIN l THEN l[c.data].id
              ELSE IF c.data > 1 /\ c.data - 1 \in DOMAIN l THEN l[c.data - 1].id
              ELSE None
  IN /\ c.op = "delete" /\ list' = l /\ dialog' = None
     /\ SelectProject(l, next, calls \ {c}, "delete")
     /\ Selected(l, next, "delete")
     /\ UNCHANGED <<reordering, doubt>>

Deliver(c) ==
  /\ c.after # "gone"
  /\ IF c.op \in Reads THEN Lists(server, c.id) ELSE c.reply # None
  /\ \/ DeliverList(c) \/ DeliverCreate(c) \/ DeliverConflict(c)
     \/ DeliverScan(c) \/ DeliverScanStats(c) \/ DeliverStats(c)
     \/ DeliverStatsConflict(c) \/ DeliverDiagnostics(c) \/ DeliverIndex(c)
     \/ DeliverReorder(c) \/ DeliverDelete(c)
  /\ UNCHANGED <<server, requests>>

\* A failed list: the old one stays; register then looks for the project in
\* it.  Only a failed reorder has more to do than to report the failure.
FailList(c) ==
  /\ c.op = "list" /\ doubt' = TRUE
  /\ \/ Return(c) /\ UNCHANGED <<selected, panel>>
     \/ SelectExisting(c, list, calls \ {c})
  /\ UNCHANGED reordering

FailReorder(c) ==
  /\ c.op = "reorder" /\ reordering' = FALSE
  /\ \E others \in Failed(c) : Reload(others, "reload")
  /\ UNCHANGED <<selected, panel, operation>>

\* A failed answer of selectProject: the diagnostics are asked for all the same.
FailStats(c) ==
  /\ c.op = "stats"
  /\ \/ calls' = Diagnosing(c) /\ Finish(c.after) /\ UNCHANGED <<selected, panel>>
     \/ SelectExisting(c, list, Diagnosing(c))
  /\ UNCHANGED <<reordering, doubt>>

FailOther(c) ==
  /\ c.op \notin {"list", "reorder", "stats"} /\ calls' \in Failed(c) /\ Finish(c.after)
  /\ doubt' = (doubt \/ (c.op \in OfList /\ c.reply # None
                        /\ (c.op = "create" => c.reply # Conflict)))
  /\ UNCHANGED <<selected, panel, reordering>>

\* The backend refuses or fails, or the connection does, before the call has
\* come there, while it is at work, or after.
DeliverFailure(c) ==
  /\ c.after # "gone"
  /\ FailList(c) \/ FailReorder(c) \/ FailStats(c) \/ FailOther(c)
  /\ UNCHANGED <<server, list, dialog, requests>>

\* What is answered to a page that is gone, or that has given the call up,
\* changes nothing there; it may also never have come to the backend.
Forget(c) ==
  /\ c.after = "gone" /\ calls' = calls \ {c}
  /\ UNCHANGED <<server, view, requests, doubt>>

ProjectPageNext ==
  \/ Select \/ Refresh \/ Register \/ Scan \/ BuildIndex
  \/ Reorder \/ SaveOrder \/ OpenDelete \/ CancelDelete \/ ConfirmDelete
  \/ \E c \in calls : Deliver(c) \/ DeliverFailure(c)

\* What goes on also when the page was left.
BackendNext == \E c \in calls : Serve(c) \/ Forget(c)

-----------------------------------------------------------------------------
(* Properties                                                              *)

\* What selectProject asked for is only ever shown for the project that is
\* still selected, however late or out of order the answers of earlier
\* selections, reloads and failures come (selectionToken).
OwnAnswers ==
  /\ shown # None /\ shown.by = "select" => shown.id = selected
  /\ diagnosed # None /\ diagnosed.by = "select" => diagnosed.id = selected

\* A call for the list that the page waits for.
Waits(c) == c.op \in OfList /\ c.after # "gone"

\* The page changes its list itself after a registration or a deletion
\* instead of loading it again.  When it waits for no such call, what it shows
\* is what the backend has, in its order, also after calls were refused or have
\* not come there, but for three cases: such calls have overlapped, an answer
\* was lost, and the backend did what the page had seen fail.
ListInStep ==
  ~doubt /\ ~(\E c \in calls : Waits(c)) => Ids(list) = Ids(server)
=============================================================================

------------------------------ MODULE Frontend ------------------------------
(***************************************************************************)
(* The pages of the frontend and the router (src/frontend/src/router.ts)   *)
(* that mounts one of them at a time.  A page that is left loses its       *)
(* state; what it has asked the backend for goes on.                       *)
(***************************************************************************)
EXTENDS ProjectView, QueryView, ChatView

CONSTANT Starts  \* what the backend and the browser may hold at first

ASSUME StartsAssumption ==
  \A start \in Starts :
    /\ start.projects \in Seq(ProjectItem)
    /\ start.conversations \in Seq(Conversation)
    /\ start.history \in Seq(Entries) /\ Unique(start.history)

VARIABLE mounted  \* the page that is shown

pages == <<projectVars, queryVars, chatVars>>
frontendVars == <<pages, mounted>>

Init ==
  /\ requests = 0 /\ mounted = None
  /\ \E start \in Starts :
       /\ ProjectInit(start.projects)
       /\ QueryInit(start.history)
       /\ ChatInit(start.conversations)

Leave ==
  /\ IF mounted = "projects" THEN ProjectLeave
     ELSE UNCHANGED <<server, view, calls, doubt>>
  /\ IF mounted \in Pages THEN QueryLeave ELSE UNCHANGED queryVars
  /\ IF mounted = "chat" THEN ChatLeave ELSE UNCHANGED chatVars

Mount(page) ==
  /\ IF page = "projects" THEN ProjectMount
     ELSE UNCHANGED <<server, view, calls, doubt>>
  /\ IF page \in Pages THEN QueryMount(page) ELSE UNCHANGED queryVars
  /\ IF page = "chat" THEN ChatMount ELSE UNCHANGED chatVars

\* The router leaves a page and mounts the next one.
Visit(page) ==
  \/ mounted = None /\ Mount(page) /\ mounted' = page /\ UNCHANGED requests
  \/ mounted \notin {None, page} /\ Leave /\ mounted' = None /\ Request

\* The page that is mounted, and what goes on behind it.
ProjectStep ==
  /\ BackendNext \/ (mounted = "projects" /\ ProjectPageNext)
  /\ UNCHANGED <<queryVars, chatVars, mounted>>
QueryStep ==
  /\ SearchesNext \/ (mounted \in Pages /\ QueryPageNext(mounted))
  /\ UNCHANGED <<server, view, calls, doubt, chatVars, mounted>>
ChatStep ==
  /\ ChatBackendNext \/ (mounted = "chat" /\ ChatPageNext)
  /\ UNCHANGED <<server, view, calls, doubt, queryVars, mounted>>

Next ==
  \/ \E page \in {"projects", "chat"} \cup Pages : Visit(page)
  \/ ProjectStep \/ QueryStep \/ ChatStep

Spec == Init /\ [][Next]_frontendVars
=============================================================================

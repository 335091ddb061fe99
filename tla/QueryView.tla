----------------------------- MODULE QueryView -----------------------------
(***************************************************************************)
(* The pages SearchView.vue and GraphView.vue, which share their script    *)
(* but for what they ask the backend, and the local history each of them   *)
(* keeps in the browser, utils/searchHistory.ts and utils/graphHistory.ts. *)
(*                                                                         *)
(* The fields can be edited while a search runs, and the handler reads     *)
(* them again when it is answered.  A page that was left is not stopped:   *)
(* its handler goes on with the fields as they were.                       *)
(***************************************************************************)
EXTENDS Session, Sequences, FiniteSets, SequencesExt, Ascending

CONSTANTS
  Pages,        \* "search" and "graph"
  Projects,     \* what the project field may hold; 0 is no project
  Queries,      \* what the query field may hold
  Lower,        \* the lower-case form of a query
  MaxHistory    \* MAX_HISTORY_ITEMS

\* The empty query.
Blank == ""

\* SearchHistoryItem, as far as the histories tell items apart.
Entries == [project : Nat, query : Queries]

ASSUME QueryViewAssumption ==
  /\ Pages \subseteq {"search", "graph"}
  /\ Blank \in Queries /\ Lower \in [Queries -> Queries]
  /\ Projects \subseteq Nat /\ None \notin Entries \cup Pages
  /\ MaxHistory \in Nat \ {0}

VARIABLES
  fields,    \* projectId and query of the mounted page
  results,   \* the search whose results are shown
  history,   \* history: what the page shows of its store
  searching, \* loading
  searches,  \* searches under way
  stores,    \* localStorage
  answered,  \* history: the searches that were answered, by page
  touched    \* history: the fields were changed under a running search

queryPage == <<fields, results, history, searching>>
queryVars == <<queryPage, searches, stores, answered, touched>>

Entry(project, query) == [project |-> project, query |-> query]

-----------------------------------------------------------------------------
(* createLocalHistoryStore                                                 *)

\* isSearchHistoryItem
Valid(item) == item.project > 0 /\ item.query # Blank

\* itemId: upper and lower case are one.
Same(a, b) == a.project = b.project /\ Lower[a.query] = Lower[b.query]

\* A store that the page wrote holds no item twice.
Unique(items) ==
  \A i, j \in DOMAIN items :
    Valid(items[i]) /\ Valid(items[j]) /\ Same(items[i], items[j]) => i = j

Cut(items) == SubSeq(items, 1, IF Len(items) > MaxHistory THEN MaxHistory ELSE Len(items))

Load(store) == Cut(SubSequence(store, {i \in DOMAIN store : Valid(store[i])}))

Others(items, item) ==
  SubSequence(items, {i \in DOMAIN items : ~Same(items[i], item)})

\* record: a new item comes first and the oldest is dropped.
Record(store, item) ==
  IF Valid(item) THEN Cut(<<item>> \o Others(Load(store), item)) ELSE Load(store)

\* deleteItem
Without(store, item) == Others(Load(store), item)

\* saveSearchHistory: a store that cannot be written stays as it is.
Save(page, items) == stores' \in {stores, [stores EXCEPT ![page] = items]}

-----------------------------------------------------------------------------
QueryInit(kept) ==
  /\ fields = Entry(0, Blank) /\ results = None /\ history = <<>> /\ searching = FALSE
  /\ searches = {} /\ stores = [p \in Pages |-> kept]
  /\ answered = [p \in Pages |-> ToSet(stores[p])]
  /\ touched = FALSE

\* onMounted, with the project of the URL.
QueryMount(page) ==
  /\ \E p \in Projects : fields' = Entry(p, Blank)
  /\ history' = Load(stores[page])
  /\ UNCHANGED <<results, searching, searches, stores, answered, touched>>

\* The page is left: its searches go on with the fields as they are.
QueryLeave ==
  /\ searches' = {[s EXCEPT !.fields = IF @ = None THEN fields ELSE @] : s \in searches}
  /\ fields' = Entry(0, Blank) /\ results' = None /\ history' = <<>> /\ searching' = FALSE
  /\ UNCHANGED <<stores, answered, touched>>

Edit ==
  /\ \E p \in Projects, q \in Queries : fields' = Entry(p, q)
  /\ touched' = (touched \/ searching)
  /\ UNCHANGED <<results, history, searching, searches, stores, answered, requests>>

\* canSearch; the graph page does not ask for a project.
CanSearch(page, item) ==
  ~searching /\ item.query # Blank /\ (page = "search" => item.project > 0)

\* search, submitSearch until the await.
Ask(page, item) ==
  /\ CanSearch(page, item)
  /\ Request
  /\ searching' = TRUE
  /\ searches' = searches \cup {[page |-> page, item |-> item, fields |-> None]}

Search(page) ==
  /\ Ask(page, fields)
  /\ UNCHANGED <<fields, results, history, stores, answered, touched>>

\* fillFromHistory: under a running search it only fills in the fields.
FillFromHistory(page) ==
  /\ \E i \in DOMAIN history :
       /\ fields' = history[i]
       /\ \/ Ask(page, history[i]) /\ UNCHANGED touched
          \/ /\ searching /\ touched' = TRUE
             /\ UNCHANGED <<requests, searching, searches>>
  /\ UNCHANGED <<results, history, stores, answered>>

\* After the await: the results are those of what was asked, the history
\* keeps what the fields hold by now.
Answered(s) ==
  LET now == IF s.fields = None THEN fields ELSE s.fields
      items == Record(stores[s.page], now)
  IN /\ searches' = searches \ {s} /\ Save(s.page, items)
     /\ answered' = [answered EXCEPT ![s.page] = @ \cup {s.item}]
     /\ IF s.fields # None THEN UNCHANGED queryPage
        ELSE /\ results' = s.item /\ history' = items /\ searching' = FALSE
             /\ UNCHANGED fields
     /\ UNCHANGED <<touched, requests>>

\* Mutant of SearchFailed: the history is kept in the finally.
SearchFailedKept(s) ==
  LET now == IF s.fields = None THEN fields ELSE s.fields
  IN /\ searches' = searches \ {s} /\ Save(s.page, Record(stores[s.page], now))
     /\ IF s.fields # None THEN UNCHANGED queryPage
        ELSE results' = None /\ searching' = FALSE /\ UNCHANGED <<fields, history>>
     /\ UNCHANGED <<answered, touched, requests>>

SearchFailed(s) ==
  /\ searches' = searches \ {s}
  /\ IF s.fields # None THEN UNCHANGED queryPage
     ELSE results' = None /\ searching' = FALSE /\ UNCHANGED <<fields, history>>
  /\ UNCHANGED <<stores, answered, touched, requests>>

RemoveEntry(page) ==
  /\ \E i \in DOMAIN history :
       LET items == Without(stores[page], history[i])
       IN history' = items /\ Save(page, items)
  /\ UNCHANGED <<fields, results, searching, searches, answered, touched, requests>>

ClearHistory(page) ==
  /\ history # <<>> /\ history' = <<>> /\ Save(page, <<>>)
  /\ UNCHANGED <<fields, results, searching, searches, answered, touched, requests>>

\* The steps of the mounted page, and those of searches wherever they began.
QueryPageNext(page) ==
  Edit \/ Search(page) \/ FillFromHistory(page) \/ RemoveEntry(page) \/ ClearHistory(page)
SearchesNext == \E s \in searches : Answered(s) \/ SearchFailed(s)

-----------------------------------------------------------------------------
(* Properties                                                              *)

\* A history holds searches that were answered in the project it names, the
\* latest ones and each of them once, also after searches that failed, were
\* repeated from the history or outlived their page; unless somebody edits
\* the fields while a search runs (recordSearchHistory after the await).
HistoryTrue ==
  \A page \in Pages :
    LET items == Load(stores[page])
    IN /\ ~touched => \A i \in DOMAIN items : items[i] \in answered[page]
       /\ \A i, j \in DOMAIN items : Same(items[i], items[j]) => i = j
       /\ Len(items) <= MaxHistory
=============================================================================

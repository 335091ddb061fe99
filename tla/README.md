# ResearchCode-Agent in TLA+

A verification development kept beside the code of ResearchCode-Agent, a local
server that scans source repositories into SQLite, embeds them into Qdrant and
answers questions about them through an LLM. The modules are translated from
the Python and TypeScript sources; `PROJECT.json` gives, for every definition,
the lines it stands for.

## Inventory

| part | state | operations | interacts with |
|---|---|---|---|
| project registry (`services/project_service.py`) | table `projects`: root, status, sort_order | create, list, reorder, delete, get_entity | scan (status), vector store (delete), every request (404) |
| static index (`services/index_service.py`) | tables `code_files`, `code_entities`, `code_relations`, `scan_issues`; in-process locks per project id | scan_project, get_stats, diagnostics | registry, scanner and parsers |
| startup (`main.py`, `core/schema_migrations.py`) | the column `sort_order` | upgrade_schema, create_all | registry |
| vector index (`services/vector_index_service.py`, `retrieval/vector_store.py`) | one Qdrant collection per project id | build, status, search, delete | static index (reads rows), embedding service (slow, may raise) |
| scanner and parsers (`services/scanner.py`, `parsers/`) | none | scan, parse, build_relations, request matching | static index |
| retrieval (`retrieval/hybrid_search.py`, `keyword_search.py`) | none | search, fuse, rewrite, embed | vector store, rows, LLM |
| graph and context (`graph/`, `rag/`) | none | traverse, find_api_chain, retrieve, build context | rows, retrieval |
| agent tasks (`agent/`, `services/*_service.py`) | none | plan, answer, validate, repair | retrieval, LLM |
| conversations (`services/conversation_service.py`, `agent_chat_service.py`) | tables `conversations`, `messages` | answer, save_exchange, get_for_project | registry (cascade), agent tasks |
| evaluation runs (`evaluation/runners/stage2b_*.py`) | append-only ledgers, checkpoints, caches, metadata files | begin/finish attempt, append, resume, gates | LLM and embedding providers, file system |
| evaluation dataset (`evaluation/scripts/`) | JSONL records, the exported snapshot | export, fix, validate, compute metrics | static index, retrieval |
| frontend (`frontend/src`) | reactive state of each view, local histories | select, scan, build, reorder, ask, restore | HTTP API |

Every endpoint is a plain `def`, so FastAPI runs each request in a thread of a
pool with a database session of its own (`core/database.py:15`). Nothing but
the scan lock synchronises two requests. What is hard here:

* **interleaving**: a scan, a build or an answer takes seconds; deletions,
  scans and reorders commit meanwhile;
* **two stores**: SQLite is transactional, Qdrant is not, and nothing spans
  both;
* **reused ids**: all tables use `INTEGER PRIMARY KEY` without
  `AUTOINCREMENT`, so the id of a deleted last row is given out again, and
  everything keyed by an id (locks, collections, points, answers) may meet
  another row;
* **crash and restart**: half-finished scans, migrations and evaluation runs;
* **late answers** in the frontend.

What makes each part correct: *registry* - directories and order values are
unique, the list is what the user arranged; *static index* - readers see whole
indexes only, a failed scan changes nothing, one scan per project, no lock
leaks; *vector index* - a collection is one whole index of its own project and
goes with it; *retrieval and graph* - results equal a reference definition,
one failing branch degrades and is reported; *agent* - nothing unvalidated is
returned, at most one repair; *conversations* - an exchange is stored as a
whole or not at all, in a conversation of its project; *evaluation runs* - each
provider call is counted once and never silently repeated, a resumed run equals
an uninterrupted one; *frontend* - what is shown belongs to what is selected.

`PROJECT.json` lists the components and, under `hazards`, what each of these is
exposed to, line by line.

## Modules

The requests that change something:

* `ProjectIndex` - create, scan and delete requests over the tables `projects`
  and `code_entities`, the scan locks, and a restart of the process.
* `IndexPromise` - the abstract specification: a project has a status, an index
  that is replaced as a whole, and one scan with one outcome.
  `ProjectIndex!ImplementsPromise` states the refinement.
* `ConversationPromise` - the abstract specification of stored conversations: each
  is about one directory, grows by whole exchanges with accepted answers, and goes
  with its directory. `AgentChat!ImplementsPromise` states the refinement.
* `VectorIndex` - extends `ProjectIndex` with the collections, the build request
  and the batches of the embedding API, and joins the deletion of a collection
  to `DeleteCollection`.
* `ProjectOrder` - `sort_order`: the migration, create, delete, reorder, stops.
* `AgentChat` - a chat request: its target, the memory it reads, generation,
  validation and the one repair, the exchange it saves; deletions and
  registrations beside it.

What a scan finds, and what is read of it:

* `ApiPaths` - `normalize_api_path`, on which both sides of a match depend.
* `Sources` - scanner, parsers, request resolution, relation building and the
  rows of one scan of one tree. `IndexReports` extends it with everything that
  counts or exports those rows.
* `LexicalSearch` - terms, scores and fusion; `CodeGraph` - traversal, ranking
  and the contexts; both are operators only. `Answers` extends them with the
  requests that read an index, every call behind them a step that may fail.
  `EvaluationVariants` extends `Answers` with what the evaluation records in
  place of the product.

The frontend: `Session` (what the user may start), `ProjectView`, `QueryView`
(the search and graph pages and their histories), `ChatView`, and `Frontend`,
which composes them behind the router.

The evaluation:

* `AgentRun` - a run of the agent: its call ledger, its response ledger and its
  output, smoke and full runs, kills, resumption, refusals.
* `RetrievalRun` - a run of the retrieval variants: the shared collection and
  its provenance, the rewrite cache, phases, kills, and when it may be scored.
* `GoldDataset` - annotations, their fix against an exported snapshot, the two
  validators, the attestation of the snapshot, what a run pins, and the gold
  that is scored.

`Ascending` is the order of a finite set of numbers, which several modules share.
The theorems are in modules of their own, `IndexProofs` (for `ProjectIndex`,
`VectorIndex`, `Sources` and `IndexReports`), `ProjectOrderProofs`,
`AgentChatProofs`, `RetrievalRunProofs`, `EvaluationProofs` (for `AgentRun` and
`GoldDataset`), `FrontendProofs` and `AnswersProofs`; `AscendingProofs` has the
lemmas they share. `MC*` are the
instances for TLC; the `.cfg` files are named after their runs.

Operators whose comment begins with "Mutant of" change one definition the way a
plausible bug would. No specification uses them: they show that the property
named for them in `PROJECT.json` would notice the bug.

### How ProjectIndex corresponds to the code

A thread's `pc` says at which call of its handler it is. The steps are cut
where another request can get in between: the SQLite driver opens a transaction
at the first INSERT, UPDATE or DELETE and not at a SELECT, so each SELECT is a
moment of its own and each write transaction is atomic for readers.

| action | code |
|---|---|
| `CreateCheck`, `CreateWrite` | `ProjectService.create`: the SELECT for the root; UPDATE, INSERT and commit, refused by the unique constraint |
| `ScanOpen`, `ScanLock` | the read of `root_path` and `session.rollback()`; `lock.acquire(blocking=False)` |
| `ScanParse` | scanner, parsers and relation builder: any set of entities |
| `ScanReplace` ... `ScanCommit` | `_replace_index`: the transaction `txn`, a private copy of the tables, one INSERT at a time, then visible as a whole |
| `ScanError`, `MarkFailed`, `ScanRelease` | the `except` and `finally` blocks, also taken when the project disappeared or a waiting writer times out |
| `DeleteOpen` ... `DeleteCommit` | 404 check, the collection, `session.delete()` loading children, the flush by primary key |
| `RequestError` | 502 of the vector store, failures of the database |
| `Restart` | threads and locks vanish, the open transaction is rolled back |

`txn` is None or the one write transaction; other writers wait (`txn = None` in
their guards) or give up through an error step. `_replace_index` never commits
before its end, so only `ScanCommit` and `MarkFailed` publish a status. A row
of `code_entities` carries two fields the table does not have: `batch`, the set
of entities found by the scan that wrote it, and `root`, the directory it read;
they let a property tell one scan's rows from another's. The child tables other
than `code_entities` are written and deleted in the same statements sequence
and transaction and are represented by it. Names, contents, relations, timestamps
are left out. The lock dictionary never forgets a project id, as `scanLock`
does not.

In `VectorIndex` a collection maps row ids to the row each point was built
from and the row whose text was embedded: a point id is a hash of project id and
row id, so equal row ids overwrite each other. `BuildEmbed` is the embedding
service with its check of the number of vectors; a reply of the API may be in
any order and may lack an embedding. The three calls of `rebuild` are three
actions. The check counts over all batches: a provider that returned one
embedding too few in one batch and one too many in the next would pass it, which
is not among the modelled replies.

In `ProjectOrder` a reorder is `ReorderRead` (SELECT and check) and
`ReorderWrite` (one transaction that updates only rows whose value differs from
the one read, which is what the session's unit of work emits). A create or a
delete touches the order only at its commit and is one action. `AddColumn` is
an action of its own because the driver does not open a transaction for
`ALTER TABLE`.

`AgentRun` is one process at a time, so its state is three files, what the
process has in memory, and where it is. `Invoke` opens the ledgers the way
their constructors do, `ReconcileOne`, `Reconciled` and `Resume` are the checks
of `main` before the first case, `NextCase` and `EndCase` the loop of
`run_schedule`, and between them every call is `Begin`, `Call`, `Record`,
`Finish`: the order in `_ResponseRecordingCompletions.create`. `Promote` is the
end of a smoke run, `Complete` the last validation. A line is appended by one
write and an fsync; `Kill` may leave it whole, torn in the middle, or complete
but for its newline. Attempt ids (UUIDs) are numbers. A refused run ends
(`Off`). `sent` and `smokedAgain` are not in the code; they record what
happened. Whether a case ends well is arbitrary unless a call failed; a case
makes at most two calls, as the services of the agent do (answer and one
repair). Left out: identities and hashes that gate a run (`RetrievalRun` has
them, and the ledger of the rewrite provider), records of several variants per
case, and writes that fail without the process being killed.

`AgentChat` follows `AgentChatService.answer`. `Ask` is `validate_target`,
`CheckMemory` and `ReadMemory` are the two SELECTs of `get_working_memory`,
`Generate` and `Repair` the two LLM calls of a task service with their
validation, `CheckTarget` the lookup at the start of `save_exchange` and `Save`
its transaction. Nothing keeps the conversation's row referenced between these
lookups, so each of them goes to the database again. `Save` updates an existing
conversation by primary key before it inserts the messages: if the row is gone
the session raises and nothing is stored, and if the id was given out again
the row it meets is the new one. SQLite enforces no foreign keys unless told
to, and the code does not tell it, so the cascade is the session's: `DeleteLoad`
reads, `DeleteCommit` removes what was read. `Fail` ends a request at any point
and stands for 404, 409, 502, a locked database and a restart, which leaves of
a request nothing but what it committed. `asked`, `root`, `exchange` and
`disturbed` are not in the code; they say which project a question was about,
which answer belongs to it, and whether a deletion overlapped it. The three
task services share the control modelled here; which of them the planner
picks, and what they retrieve, is in `Answers`. Messages are
ordered by their ids: `created_at` is set while the transaction that inserts
them holds the database, so only a clock set back would tell the two apart.

`Sources` follows one `scan_project` over a tree: `Discover`, `ReadFile`,
`ParseFile` file by file, `Resolve` for the frontend requests of all files and
the relations between files, `Write` for the rows with their unique
`entity_key`, `Fail` for what is not caught. A file is what its parser sees in
it; names are sequences of their parts. Local keys, entity keys, constant and
wrapper catalogs and the order in which verbs are matched are as in the code.
A field that is annotated and assigned, or assigned in several constructors, has
in the code the type that comes last in the file; `Receivers` takes the
constructors' types.
`IndexReports` reads the rows that `Sources` leaves.

`Answers` follows one request of any kind. `down` collects the calls that
failed; whether a call fails is arbitrary. `CheckCollection`, `Rewrite`,
`SearchVectors`, `SearchKeywords` and `Combine` are `HybridSearchService.search`,
`TraverseHit` the loop of `GraphRagRetriever`, `ExpandTask` and `ExpandChain`
the expansion, `Generate`, `Accept` and `Repair` the task services. A text that
is searched for is its tokens, and which fields contain a token is given. Scores
are integers: the fusion multiplies by the other branch's maximum instead of
dividing by its own, which keeps the order. `EvaluationVariants` is a function
of the same index, vector answer and failures, so it is compared state by state
and has no action of its own.

`ProjectView`, `QueryView` and `ChatView` cut each handler at its awaits. A call
is a record in `calls` from the request to the delivered answer; the server may
have acted long before (`Serve`), and an answer may be lost. A counter that a
handler compares (`selectionToken`) is kept as the fact it establishes, whether
a call is still the current one. `doubt`, `touched`, `lost` and `crossed` are
not in the code; they record that an exception described below has happened. A
page that is left, or sees a call fail, does not stop the backend: a change that
is not answered by then may stay in `calls` (`Gone`, `Failed`), and a question in
`left`, and is carried out later or never. The list and a restored conversation
are answers the backend gives at one time (`Serve`, `ServeRestore`) and the page
takes at another; only statistics, diagnostics and the code of a reference, whose
contents no property tells apart, are read when they are delivered. After a
conflict `register` compares the path in the form as it is then, and the form can
be edited meanwhile, so `SelectExisting` may select any project of the list, or
none.

`RetrievalRun` is one process at a time over the files it leaves behind. Inputs
that identify a run are one model value, `setting`. `BuildStep` and
`CheckpointBuild` are the build, `Reuse` the check of an existing collection,
`Rewrite` and `Evaluate` the two halves of a case, `Promote` the end of a smoke
run, `Finish` and `Fail` the ends of the process. Lines are whole here; `AgentRun`
has the torn ones. `GoldDataset` has one record and one snapshot of three files:
a rescan, the export file by file (`ExportEntities`, `ExportRelations`,
`ExportManifest`), which may be broken off between them, the fix, the
attestation (`Attest`) and one whole run (`Run`, with the checks of
`compose_runtime`), in any order. `Accepted` is what `compute_stage2b_metrics.py`
asks before it scores. Hashes are the values they are computed from; of the
manifest only the counts are modelled, so the model accepts whatever the code
accepts and more. Files beside these three, and records of several runs, are
left out.

## Runs

| run | question | result |
|---|---|---|
| `registry_scan` | two scanning threads, two projects, failures and restarts, no deletion | indexes are whole, `IndexPromise` is implemented, locks are released |
| `registry_delete` | two creators, two scanners, a deletion, reused ids | types, lock discipline, no stuck "scanning", unique directories |
| `vector_index` | a build beside scans, restarts and failures; deletions between them; ids reused | collections are whole indexes with the right vectors and go with their project |
| `order_quiet` | four ids, an old database with two rows, no commit inside a reorder, no stop inside the migration | the order is unique and exactly the user's |
| `chat_exchanges` | two questions, in one conversation or two, about two projects, a deletion, ids reused, failures anywhere | conversations and memories are whole exchanges of one project |
| `answers` | every kind of request over small indexes, queries, vector answers and drafts; every subset of calls failing | search, graph and evidence equal their reference, failures are told, answers are grounded, the evaluation matches |
| `sources` | all trees of up to four of eighteen files | nothing is lost without a word, links are exact, reports and snapshot agree |
| `frontend` | three things started by the user, on any page, answers late, lost or reordered, changes that outlive their failure | what is shown belongs to what is selected |
| `ledger_run` | three cases, two of them in smoke runs, up to four invocations, kills anywhere | no call is repeated or missed, a completed run is complete |
| `retrieval_run` | three records, up to four invocations in any phase, two settings, kills, discarded files, foreign builds | what is scorable is of one whole index and misses no call |
| `datasets` | every record and index over two keys and two edges, a rescan, broken exports, attestations and a run in any order | flags, validators and metrics agree, and an accepted run had what is scored |
| `scan_survives` | the trees of `sources` | violates `OneFileNeverAborts` |

### What a scan does not survive

The ingestion design says that a parser that fails for one file leaves a
`parse_error` and the scan goes on. `scan_survives` shows two files that fail
the scan of their project instead. Two requests to one path with one verb on one
line have different local keys but one `entity_key`, which is unique in the
table: the INSERT raises. And a literal like `'\u{1F600}'`, legal in JavaScript,
makes `_literal` raise during the resolution, which runs outside the `try` of
`_parse_files`. Nothing names the file; the old index stays and the project is
"failed" until the file changes. `EveryFileAccounted` is about the scans that
finish.

### What overlapping requests break

The documents promise more than unsynchronised requests can keep. The passing
runs state each property for the histories in which it holds; these are the
counterexamples TLC gives when the restriction is lifted, each by the change
of a `.cfg` in parentheses:

* a scan that commits between the moment a deletion has loaded the children and
  its commit leaves rows without a project (`NoOrphanRows` in
  `registry_delete`), and with ids reused the deletion may remove rows of
  another project;
* a scan that outlives its project indexes the old directory under the id's
  next owner (`IndexWhole` in `registry_delete`);
* a build that overlaps a deletion creates the collection again, and the next
  project with that id searches it (`NoOrphanCollection` in `vector_index` with
  `VInit /\ [][VNext]_allVars`), although README.md:258 says collections keep
  projects apart; two builds of one project may leave the union of two scans
  (`CollectionWhole`, two builders);
* a create that commits between the read and the write of a reorder gives two
  projects one order value and no conflict (`OrderUnique` in `order_quiet` with
  `Spec`), although the history-management design says "Existing rows are
  shifted so order values remain unique"; a stop inside the migration leaves
  every project at 0 for good, because SQLite's driver does not open a
  transaction for `ALTER TABLE` and the next startup finds the column;
* a question saved while its project is deleted leaves a conversation that the
  next project with that id reads as its memory (`IsolatedIfQuiet` in
  `chat_exchanges` without `~disturbed`), against README.md:346-348.

In the frontend the exceptions are of the same kind. `scan()` and `buildIndex()`
show their results without the token that `selectProject` uses
(`ProjectView.vue:122,132`), so a project selected meanwhile shows another
one's figures; `OwnAnswers` is about what `selectProject` asked for, although
the history-management design (:49) says a selection clears stale results.
A deletion splices the list at an index found before the await
(`ListInStep` excepts overlapping changes). A registration, reorder or deletion
that the page has seen fail may be carried out afterwards, since nothing stops a
handler whose connection is gone; the page does not look again, and a reorder's
reload may come too early (`ListInStep` excepts this too, as it does an answer
that is lost). A question the page gave up may be saved between the backend's
answer to a restore and its delivery, or after it, so the page shows a
conversation without its latest exchange (`lost`; `ChatInStep` then still says
that what it shows is of that conversation). The search and graph pages record
the fields as they are when the answer comes, so an edit meanwhile enters the
history as a search that never was (`HistoryTrue` excepts it). A reference
opened while another loads may show the other's code (`ReferenceAlone` excepts
it).

### What the answers and the reports show

* `DegradationTold` excepts a change plan none of whose references fits the
  budget: it is answered with the fixed text for missing evidence and says
  nothing of a failed branch. `/graph/search-chain` drops the uncertainties of
  its search altogether and is outside the property. README.md:710-711 promises
  explicit uncertainty.
* A change plan's suggested changes and uncertainties are the model's words and
  are not validated; `GroundedAnswers` is about citations, places and files.
* One hit whose row was replaced by a rescan makes `/graph/search-chain` answer
  404 and costs a trace or a plan the whole expansion.
* The report of `scan_pilot_repo.py` counts relations where the others count
  calls, so a call that reaches two routes makes "Unmatched" too low
  (`ReportsAddUp` compares it when there is none). Stable keys fold case: two
  files whose paths differ only in case share keys (`SnapshotIdentifies`).
* With the vector branch down and no keyword hit the product answers
  RETRIEVAL_UNAVAILABLE, the evaluation records a case without hits and without
  an error. B3 weighs the branches 0.7 to 0.3, the product 0.75 to 0.25: it is
  the variant W75 of the weight sweep that lists what the product answers.

### What an evaluation run relies on

`ledger_run` shows why two oddities of the evaluation code are harmless. The
response recorder does not add a newline that a kill cut off, as the two other
writers do, so its next line would be joined to the last; but a kill at that
point leaves a call without a record, and the run is refused before it appends
anything (`Resumable`; with `ResumeAnyway` the ledger becomes unreadable).
The last validation tolerates pending and unaccounted calls; none can be there
(`CompletedExactly`).

The exception is a smoke run started on an output that already has the smoke
records: it evaluates both cases anew, the merge drops the new records, the
metadata says "completed", and from then on every full run is refused because
of calls that no record accounts for. `NeverResent` and `CompletedExactly`
except it by `~smokedAgain`; without that conjunct TLC finds it.

The retrieval run keeps the provenance of its collection in its metadata and
not with the collection, while the Qdrant path is shared by default: a build by
anyone else under the same name is reused as if it were the run's own. The
properties of `retrieval_run` except it by `foreign`. One error record, or one
attempt without an outcome (`OrphansRefused`), makes the scoring of the whole
run impossible, and discarding the output does not help against the second: the
ledger and the rewrite cache go by the run's id. The start of a phase does not
invalidate a metadata file that says "completed".

### What the dataset tools promise

`datasets` compares the places that decide what an annotation is worth, and
follows what ties a run to them. Where they part:

* A CODE_QA or CHANGE_PLAN record with an entity that the snapshot does not have
  is set to "full" by the fix, which rule 3 of the validator refuses; the
  docstring of `fix_snapshot_consistency.py` (:10-15) says otherwise.
* Rules 2 and 13 can fail after a fix that changes the outcome of a trace, and a
  trace without edges keeps its missing `chain_complete`.
* An `acceptable_alternative` that was unindexed once stays lost when a later
  scan finds it.
* `compose_runtime` compares the number of the rows with the manifest, not
  their keys; a rescan that exchanges one entity for another passes
  (`RunReachable` excepts it by `Comparable`).
* The manifest is written last and binds the hash of `code_files.json` only, and
  the attestation hashes whatever files there are. An export that broke off
  before its manifest is attested, and a run that matches the old manifest is
  scored against entities of a newer index (excepted by `Whole`; without that
  conjunct TLC finds it with `MaxScans = 2`).

### Bounds

* Two projects and two directories: what one project's requests may do to
  another's rows, and an id given to a second directory.
* Two or three entity rows and two entities (one where deletions are in the
  picture): an empty, partial and complete index, a rescan that finds something else,
  and a row id that moves from one project to another.
* Two threads of a kind where they compete (creators, scanners, reorderers);
  one where the kind is not synchronised by the code and a second adds nothing
  the property is stated for (builders, deleters). The theorems are for any
  number.
* `MaxOrder` = 5 with four ids: gaps after deletions, and more creations than
  rows. Creations stop at the bound.
* Four invocations of three cases: a smoke run, a killed full run, its
  resumption, and one more; a case before, at and after the one killed. Then
  the operator stops.
* Two clients, two conversations, four messages and a window of two messages in
  place of six (`MaxMemory`): two exchanges in one conversation, one of them
  outside the window, or one in each of two.
* `vector_index`: two row ids and one builder, `BatchSize` 2, so that an index
  fits one batch exactly; ids are reused, and scans, builds and failures overlap as
  they like, but nobody works while a deletion does.
* `answers`: four entities, six relations with a cycle and two edges between one
  pair, up to four hits, a budget that some texts fit and two do not, a limit of
  two, depths one and two.
* `sources`: eighteen files chosen so that every kind of issue, request and
  relation appears, alone and beside what it may be confused with; trees of at most
  four, the size of the largest interplay (route, caller, helper, twin).
* `frontend`: three calls started, two projects, histories of two entries in
  place of the limit of the code; enough for an answer to be late for one
  selection and in time for the next, for an entry to fall off the end, and for
  a question that is given up to overtake the restore that follows it.
* `retrieval_run`: three records (one of them the smoke run's), two
  settings, four invocations.
* `datasets`: two keys, two edges, one rescan: the snapshot, the attestation, the
  run and the index can each be of the old or the new scan, in every mixture.
* The user of `frontend` and the operator of `ledger_run` and `datasets` stop at
  their bound, so these runs do not check for deadlock.
* Ids and rows beyond the bound are not created (`NextId` is then empty); the
  transaction that would need them can still fail. Registered projects never
  exceed `ProjectIds`.
* Symmetry is used over threads, directories and entities, never over ids,
  which are ordered, and not in runs with liveness properties or a refinement.
  Action properties are compatible with it: TLC checks them step by step.

### Fairness

Only `LockReleased` needs any. `Fairness` asks of each scanning thread that it
keeps taking steps once its request has started (`WF` of `ScanStep`): Python
threads are preemptively scheduled, `acquire` does not block, every parse ends,
and a database that stays locked raises after the driver's timeout, which is
`ScanError`. No client is obliged to send anything, and restarts are never
forced.

## Proofs

Every invariant, action property and refinement that a passing run checks is a
theorem for every value of the constants that meets the named assumptions: any
number of threads, projects, rows, cases, batches and requests, a source tree
and an index of any size. Only `LockReleased`, a liveness property, is not. `PROJECT.json` lists the results; this is how they are obtained. In
each module an invariant is strengthened until every action keeps it, one lemma
per action or handler, and the property follows from it.

### IndexProofs

`BaseInv` is `TypeOK`, `LockDiscipline` and three facts they rest on: a thread
inside a handler has the locals that handler read (`Locals`), the open
transaction belongs to a scanner in `scan_insert` (`TxnOwned`), and its copy of
`projects` differs from the committed one in the status of its own project only
(`TxnSnapshot`). `TypeCorrect` and `ScanExclusion` follow; `NeverStuckScanning` and
`DirectoriesUnique` need `TxnSnapshot`, for what a commit publishes is that copy.

`IndexAtomic` needs to know in addition that a scanner's `root` is the directory
of its project (`ScanRoots`), and that the transaction holds the rows of other
projects as committed and of its own a part of the batch being inserted
(`TxnRows`). `PromiseKept` maps the tables, locks and program counters to
`IndexPromise` and shows that each action is one step there or a stutter.
Both assume `Deleters = {}`: with deletions that overlap a scan they are false.
`VectorImplementsRegistry` says that builds disturb none of this.

`QuietSpec` lets deletions happen, with ids given out again, but nobody work
beside one. Then a deletion finds all it has to delete (`DeletesAll`), and a
collection belongs to a project that is not about to go (`CollectionsOwned`):
`QuietIndexWhole` and `NoCollectionLeft`. `CollectionsStayWhole` adds that a
build holds one whole index of its project, and that after `BuildCreate` its
collection is empty until it writes (`BuildsWhole`); that the vectors of all
batches, in the order the API gives them, are those of the chunks is a lemma of
its own (`VectorsFit`). It is stated for any number of builders under
`[]OneBuild`: no project is built twice at once. The code does not enforce that,
and the statement is false without it.

The last part is about one scan of one tree. `TreeInv` accounts for it step by
step: the list `todo` holds each file that is left exactly once, and every file
met so far has been taken, or was skipped for one reason, or failed in its parser
with one issue (`EveryFileTold`); entities, relations, requests and warnings are
those of the files parsed so far and nothing else (`FoundOK`, `IssuesPlaced`); the
rows of a finished index are of what was found, with keys of their own, and
relations end in them (`RowsOK`). `SnapshotsIdentify` follows for every tree.

The other four theorems also need that no row is missing (`WholeRows`), for
`_replace_index` has one row for a local key. `PlacesApart` says it: no two entities
of a file have one local key, and no two of its requests begin at one offset. That
is so in what the parsers make of ordinary sources, and the instance of TLC has
it. It is not so for two methods of one name and class on one line of Java, which
the parser gives one local key; nor for the calls of a chain
(`a.request(x).request(y)`), or those at equal offsets in two script blocks of
one file, which the code also tells apart by line and callee and the model does
not. From there `FilesAreAccounted`, `RequestsFindRoutes` and
`CallsAreUnambiguous` compare the joins of `build_relations` with what the
properties say of rows (`RequestLinks`, `CallLinks`), and `ReportsAgree` counts:
matched calls and relations are in bijection when no call has two, calls and
warnings partition the requests, and the rows of a report are the first ones in
its order (`ShownRows`). That lemma is false of an order with ties, in
which the two reporters could choose different examples: `Shown` therefore breaks
them the way `ORDER BY file_path, start_line, id` does.

### ProjectOrderProofs

`QuietOrderUnique`: outside the migration values differ (`ValuesDiffer`), and a
reorder under way holds what the table holds (`PlansCurrent`), which is what an
overlapping commit breaks. `QuietReorderExact` and `OrderKept` are action
properties; `OrderKept` holds for all behaviours, overlapping ones included.

### AgentChatProofs

A conversation is a sequence of pairs of neighbouring ids (`Paired`), and so is
what a deletion has loaded of it; removing such a set keeps the rest paired, and
a window of an even number of messages cuts between pairs. From this,
`ExchangesAreWhole` holds for all behaviours. `QuietIsolated` needs that a
question under way is attached to the project, conversation and memory it began
with, and that a deletion has loaded all it must remove. Both are true only
while no deletion overlaps a question or another deletion (`disturbed`).

`ConversationsKept` says for these histories (`QuietSpec`) what users may rely on:
the tables implement `ConversationPromise`. `KeepingInv` adds to the above that a
directory is registered once and that an answer about to be stored was accepted.
A saved exchange gets the highest ids there are, so it comes last in its
conversation (`SavedHistory`, from `AscendingAbove`); what a deletion removes is
what its directory owns, because two projects never have one directory at the
same time; and a second deletion of one project, which finds no project any more,
is a stutter. No run has this refinement as a property; TLC finds nothing against
it on the instance of `chat_exchanges` with `QuietSpec` and
`PROPERTY ImplementsPromise`, with two clients and one deletion or the other way
round, and finds it violated when `DeleteLoad` loads no messages.

### EvaluationProofs

`Agreed` ties the two ledgers: attempts are numbered without a gap, and each
answer is of an attempt. `Accounts` ties them to the output: at every point of a
running evaluation the calls of the records, with those of the case at hand, are
the attempts, and where no run is on, an output that accounts for every attempt
has none open and no answer cut off. `SentOnce` says where each call that was
sent is to be found. `Kill` at any point, with any of the tails a write can
leave, keeps them; that is the bulk of the proof. `CasesNeverResent`,
`CompletedIsExact` and `RunsAreResumable` follow.

Of `GoldDataset`, `GoldInv` says that the record is one an annotator can write or
`Fixed` can make of it (`Shaped`), that a fixed one tells of the snapshot as it is
(`Told`), and that a run has pinned the counts of the index it used. `FixTells` and
`ToldIsSettled` are about the fix: its result is `Told`, and what is `Told` it does
not change, although it judges a record by flags it has just written and by an
answer it may have written before (`SameJudgement`). `ToldIsConsistent`,
`ToldIsMeasured` and `ToldIsScored` go through the validators and the metrics.
From them follow `FixedIsConsistent`, `FixIsSettled` and `ScoredIsReachable`; the
last also needs that a finite set is equal to a part of it with as many elements,
which is all that the counts in a manifest say.

### RetrievalRunProofs

`RewritesAreOne`: what a record says a question was rewritten to is what the cache
says, and the cache never changes an entry. `RunsMatchTheirIndex`: a full
collection is of the setting the metadata names, also where the provenance of an
older build is remembered while a new one runs (`WholeCollection`), and so is
each record; until another run builds under its name (`foreign`).
`RecordsKeepTheirPlace` and `OrphansStayRefused` are action properties.

### FrontendProofs

Each page has its own invariant, composed by `Frontend`'s router. Chat: what is
shown is the conversation as it was before the question the backend has taken,
and a conversation the page does not know yet has that question only; the answer
to a restore is the conversation, unless a question has overtaken it. Beside this
`MessagesHeld` says without exceptions that everything shown, or on the way, is
in the conversation. Histories:
one search at a time belongs to the mounted page and, unless fields were
edited, what it reads when it is answered is what it asked for. Project page: an
answer that would be shown is of the selected project (`Shows`), and each call
for the list stands for a known difference between the list and the backend
(`Agree`), at most one at a time unless changes overlapped. A call that is given
up stands for nothing; when the backend carries it out, there is `doubt`.

### AnswersProofs

* `GraphsAreExact` - what a traversal has seen after d levels is the ball of the
  entities within d relations (`Ball`), by an induction over the levels.
* `EvidenceIsNearest` - after the traversals from the first n hits (`NearestOf`)
  every result is a hit or was met on a walk from one, and nothing within reach is
  missing or shown worse than it is; `Improve` keeps the best of each entity.
* `SearchIsExact` - the fused list is the highest scores of the two branches
  joined (`HybridInv`, `FusedList`), and a higher place in both branches means a
  higher fused score. For queries of one token: the first term is the whole token,
  and the rest is searched only if it is found nowhere. The proof did not go through
  at first, because it is false for a token that is a stopword in its folded
  form ("wHere"): `lexical_query.py` drops it and searches for its parts.
  `SearchExact` states this exception.
* `DegradationIsTold` - each branch that failed is marked on every hit
  (`SearchInv`) and every result (`EvidenceInv`), so no limit cuts the mark off.
* `AnswersAreGrounded` - a context is numbered without gaps and refers only to
  hits or results (`ContextInv`), and any answer given rests on it (`ReplyInv`),
  whatever the model writes.
* `EvaluationIsFaithful` - the answer of a search is a function of what the two
  branches found and which was lost (`Replayed`, kept by `ReplayStep`); weights
  in the product's proportion order the fused hits as the product does
  (`ProductFusion`, from `BestSame`: a list depends on the order of the scores
  alone); marking all hits of a branch and cutting them off afterwards is what
  the product does in the other order (`DegradedWhole`). `SeedInv` says that the
  seeds of an expanded graph are the hits. The theorem corrected the property:
  it used to say that no variant puts a hit first that another dominates by
  score, which reciprocal ranks do not keep when scores are equal (what one
  branch scores higher falls behind by its place among equals in the other), as
  TLC confirmed with a fifth vector answer. `Preferred` compares ranks for that
  variant.

### Assumptions

They are named in the modules and TLC evaluates them in every run: ids are
naturals, sets of rows and entities are finite (in `GoldDataset` those of the
source, whose relations are between them), kinds of threads are disjoint,
`None` and `Corrupt` are none of the values they are told from, `MaxMemory` is
even, `Schedule` names a case once, a history starts without duplicates, a limit
is at most `MaxResults` and a depth at most two (the bounds of the request
schemas), and a vector answer has at most one point for an entity (a point's id is
a hash of the entity's). A source tree is finite and its files have ids of their
own (`SourcesAssumption`); a file has finitely many classes, functions, imports
and calls, at lines and offsets that are naturals, and `Absent` is none of its
literals (`ParserAssumption`), no HTTP method and no reason (`AbsentAssumption`). `VariantsAssumption` says of `VARIANTS` and
`WEIGHT_SWEEP_VARIANTS` what they are: positive weights, and one variant, W75,
with those of the product, 3 to 1.

### What is only model-checked

* `LockReleased`, a liveness property.
* What `normalize_api_path` and the other conversions of text compute: the
  theorems hold for whatever they return.

The library's induction theorems take an operator as a parameter, which the
installed provers cannot instantiate. Where an induction is needed it is over a
set of numbers instead (`NatSetInduction`, `RecursionExists` in
`AscendingProofs`): so are the sums of calls, the batches of an embedding, the
levels of a traversal and the order of a finite set. Definitions by structural
recursion over text, as in `ApiPaths`, stay with TLC.

## Plan

Built: registry, scans, order, vector index, chat, scanner and relations, reports,
retrieval and answers, frontend, the agent and retrieval runs, the dataset tools;
the proofs above. Next, in this order:

1. Reads of several SELECTs (`get_stats`) in `ProjectIndex`.
2. The gates of an agent run (hashes, the stability subset).

## Not modelled

* Syntax trees of the parsers and the libraries that build them: `Sources` starts
  from what a parser sees in a file. The Vue and Java front ends of one request
  differ only in that.
* Prompt texts, embeddings as numbers, the ranking of Qdrant, HTTP and schema
  validation: none of the properties tells their values apart.
* The baselines' own drivers, the generators of questions and reports, the archived
  drafts and the backend's command line tools: sequential scripts that read
  static files and write one, with no state to get wrong between two steps. Two
  of their habits matter to a reader of the results: `run_keyword_search` adds the
  scores of its tokens as if they came from one search, and an error or
  timeout is kept in `record["error"]`, which the scorer does not read.
* In the frontend, the confirmation of a rebuild, the readiness hint of the
  index, and other browser tabs writing the same local history.

------------------------------ MODULE GoldDataset ------------------------------
(***************************************************************************)
(* The life of a gold record of the evaluation dataset between scans: the  *)
(* pilot repository is scanned and the index exported as a snapshot        *)
(* (export_index_snapshot.py), fix_snapshot_consistency.py rewrites what   *)
(* the record says about the index, and two validators judge it, one       *)
(* against the snapshot (validate_against_snapshot.py) and one by itself   *)
(* (validate_dataset.py).  A parser changes, the repository is scanned     *)
(* again, and the record is fixed again.  A retrieval run is made with the *)
(* record and the database as they are, the snapshot is attested, and      *)
(* compute_stage2b_metrics.py scores the run if everything belongs         *)
(* together.                                                               *)
(*                                                                         *)
(* Stable keys stand for the entities they are computed from; names,       *)
(* files and lines of a record are not modelled.                           *)
(***************************************************************************)
EXTENDS Naturals, FiniteSets, Functions

CONSTANTS
  Keys,      \* stable keys of the entities in the source
  Links,     \* the relations in the source, pairs of keys
  MaxScans,  \* bounds how often the repository is scanned again
  None       \* no attestation, no run

ASSUME GoldAssumption ==
  /\ IsFiniteSet(Keys)
  /\ Links \subseteq Keys \X Keys
  /\ MaxScans \in Nat

VARIABLES
  scanned,   \* the index: [keys, relations], the relations among indexed keys
  snapshot,  \* its last export: [keys, relations, manifest], a file each
  attested,  \* the files as their attestation knows them
  run,       \* what the metadata of the last retrieval run pins, and the
             \* index that it used: [record, manifest, index]
  record,    \* the gold record
  fixed,     \* whether the record was fixed with this snapshot
  scans      \* how often the repository was scanned again

goldVars == <<scanned, snapshot, attested, run, record, fixed, scans>>

-----------------------------------------------------------------------------
(* Records.  A flag indexed_in_system is "yes", "no" or "unset".           *)

Tasks == {"TRACE_CHAIN", "CODE_QA", "CHANGE_PLAN"}
Relevances == {"must_recall", "acceptable_alternative", "source_only"}
Answers == {"full", "partial", "insufficient"}

RawEntity(r) ==
  [relevance |-> r, indexed |-> "unset", reason |-> FALSE, evidence |-> FALSE]
RawNode == [indexed |-> "unset", reason |-> FALSE]

\* Rule 4 of validate_dataset.py: edges end in nodes.
EdgesEndInNodes(r) ==
  \A e \in DOMAIN r.edges : {e[1], e[2]} \subseteq DOMAIN r.nodes

\* Rule 9: what the source does not answer has an expected uncertainty.
UnanswerableUncertain(r) == ~r.source => r.uncertain

\* What an annotator writes and validate_dataset.py lets pass: only a trace
\* has a graph.  named tells the trace whose source apply_special_fixes
\* corrects.
Annotated ==
  {r \in
    [task : {"CODE_QA", "CHANGE_PLAN"},
     entities : UNION {[ks -> {RawEntity(v) : v \in Relevances}] : ks \in SUBSET Keys},
     nodes : {<<>>}, edges : {<<>>}, complete : {"unset"},
     answerable : Answers, source : BOOLEAN, uncertain : BOOLEAN,
     named : {FALSE}]
    \cup
    [task : {"TRACE_CHAIN"},
     entities : UNION {[ks -> {RawEntity(v) : v \in Relevances}] : ks \in SUBSET Keys},
     nodes : UNION {[ks -> {RawNode}] : ks \in SUBSET Keys},
     edges : UNION {[es -> {"unset"}] : es \in SUBSET Links},
     complete : {"yes", "no", "unset"},
     answerable : Answers, source : BOOLEAN, uncertain : BOOLEAN,
     named : BOOLEAN] :
   EdgesEndInNodes(r) /\ UnanswerableUncertain(r) /\ (r.named => ~r.source)}

Flags(f) == {f[x].indexed : x \in DOMAIN f}
EdgeFlags(r) == {r.edges[e] : e \in DOMAIN r.edges}

\* The flags of the entities that have one of these relevances.
Recalled(r, relevances) ==
  {r.entities[k].indexed : k \in {x \in DOMAIN r.entities :
     r.entities[x].relevance \in relevances}}

-----------------------------------------------------------------------------
(* export_index_snapshot.py                                                *)

\* export_code_relations: a relation is exported when both ends are rows.
ExportedRelations(index) ==
  {l \in index.relations : {l[1], l[2]} \subseteq index.keys}

\* run_export: the manifest counts the rows that were exported.
Counts(keys, relations) ==
  [entities |-> Cardinality(keys), relations |-> Cardinality(relations)]

\* A snapshot whose files are all of one export.
Whole(s) == s.manifest = Counts(s.keys, s.relations)

-----------------------------------------------------------------------------
(* fix_snapshot_consistency.py                                             *)

Flag(found) == IF found THEN "yes" ELSE "no"

\* An entity that is in the snapshot can be recalled; another one is of the
\* source only, with a reason and the place where it is.
FixEntity(e, k) ==
  IF k \in snapshot.keys
  THEN [e EXCEPT !.indexed = "yes", !.reason = FALSE, !.evidence = FALSE,
                 !.relevance = IF @ = "source_only" THEN "must_recall" ELSE @]
  ELSE [relevance |-> "source_only", indexed |-> "no", reason |-> TRUE,
        evidence |-> TRUE]

FixNode(k) ==
  [indexed |-> Flag(k \in snapshot.keys), reason |-> k \notin snapshot.keys]

\* add_missing_gold_nodes_for_trace_chain: the nodes of a trace cover its
\* entities.
NodeKeys(r) ==
  IF r.task = "TRACE_CHAIN" THEN DOMAIN r.nodes \cup DOMAIN r.entities
  ELSE DOMAIN r.nodes

FixEdge(e, nodes) ==
  Flag(/\ e \in snapshot.relations
       /\ {e[1], e[2]} \subseteq snapshot.keys \cup nodes)

\* fix_chain_complete_and_answerable: the chain of a trace without edges is
\* not complete, but a missing flag stays missing.
ChainComplete(r) ==
  IF r.task # "TRACE_CHAIN" THEN r.complete
  ELSE IF DOMAIN r.edges # {}
  THEN Flag(EdgeFlags(r) \cup Flags(r.nodes) \subseteq {"yes"})
  ELSE IF r.complete = "unset" THEN "unset" ELSE "no"

\* Mutant of TraceAnswerable: the nodes are not looked at.
TraceAnswerableEdges(r) ==
  IF EdgeFlags(r) \subseteq {"yes"} THEN "full" ELSE "partial"

TraceAnswerable(r) ==
  LET graph == EdgeFlags(r) \cup Flags(r.nodes)
      recalled == Recalled(r, {"must_recall"})
      all == Flags(r.entities) \cup Flags(r.nodes)
  IN IF DOMAIN r.edges # {}
     THEN IF "no" \notin graph THEN "full"
          ELSE IF "yes" \in graph \cup recalled THEN "partial"
          ELSE "insufficient"
     ELSE IF "yes" \in all /\ ("no" \in all \/ DOMAIN r.nodes # {})
     THEN "partial"
     ELSE "insufficient"

\* Of a question the entities to recall count, of a plan those that must be.
QuestionAnswerable(r) ==
  LET recalled == Recalled(r, {"must_recall", "acceptable_alternative"})
  IN IF recalled = {"yes"} THEN "full"
     ELSE IF "yes" \in recalled THEN "partial"
     ELSE "insufficient"

PlanAnswerable(r) ==
  IF Recalled(r, {"must_recall"}) \subseteq {"yes"} THEN "full" ELSE "partial"

Answerable(r) ==
  CASE r.task = "TRACE_CHAIN" -> TraceAnswerable(r)
    [] r.task # "TRACE_CHAIN" /\ DOMAIN r.entities = {} -> r.answerable
    [] r.task = "CODE_QA" /\ DOMAIN r.entities # {} -> QuestionAnswerable(r)
    [] r.task = "CHANGE_PLAN" /\ DOMAIN r.entities # {} -> PlanAnswerable(r)

\* fix_expected_uncertainties: one for everything that is not indexed, when
\* the record has none and is not fully answerable.
Uncertain(r) ==
  \/ r.uncertain
  \/ /\ r.answerable # "full"
     /\ "no" \in Flags(r.entities) \cup Flags(r.nodes) \cup EdgeFlags(r)

\* Mutant of Fixed: the record is judged before its flags are set.
FixedJudgedFirst(r) ==
  LET nodes == NodeKeys(r)
      judged == [r EXCEPT !.complete = ChainComplete(r),
                          !.answerable = Answerable(r)]
      flagged == [judged EXCEPT
        !.entities = [k \in DOMAIN r.entities |-> FixEntity(r.entities[k], k)],
        !.nodes = [k \in nodes |-> FixNode(k)],
        !.edges = [e \in DOMAIN r.edges |-> FixEdge(e, nodes)],
        !.source = @ \/ r.named]
  IN [flagged EXCEPT !.uncertain = Uncertain(flagged)]

\* fix_dataset, the steps for one record in their order.
Fixed(r) ==
  LET nodes == NodeKeys(r)
      flagged == [r EXCEPT
        !.entities = [k \in DOMAIN r.entities |-> FixEntity(r.entities[k], k)],
        !.nodes = [k \in nodes |-> FixNode(k)],
        !.edges = [e \in DOMAIN r.edges |-> FixEdge(e, nodes)],
        !.source = @ \/ r.named]
      judged == [flagged EXCEPT !.complete = ChainComplete(flagged),
                                !.answerable = Answerable(flagged)]
  IN [judged EXCEPT !.uncertain = Uncertain(judged)]

-----------------------------------------------------------------------------
(* validate_against_snapshot.py                                            *)

Unindexed(f) == {x \in DOMAIN f : f[x].indexed = "no"}
UnindexedEdges(r) == {e \in DOMAIN r.edges : r.edges[e] = "no"}

\* Rules 1 and 2: what is flagged as indexed is in the snapshot.
IndexedFound(r) ==
  /\ \A k \in DOMAIN r.entities :
       r.entities[k].indexed = "yes" => k \in snapshot.keys
  /\ \A k \in DOMAIN r.nodes : r.nodes[k].indexed = "yes" => k \in snapshot.keys

IndexedEdgesFound(r) ==
  \A e \in DOMAIN r.edges : r.edges[e] = "yes" => e \in snapshot.relations

\* Rule 3: what is not indexed has a reason, an entity its place, and the
\* record is not fully answerable.
UnindexedExplained(r) ==
  /\ \A k \in Unindexed(r.entities) : r.entities[k].reason /\ r.entities[k].evidence
  /\ \A k \in Unindexed(r.nodes) : r.nodes[k].reason

UnindexedNotFull(r) == Unindexed(r.entities) # {} => r.answerable # "full"

\* Rule 4, and the last part of rule 3.
RecallIndexed(r) ==
  \A k \in DOMAIN r.entities :
    r.entities[k].relevance = "must_recall" => r.entities[k].indexed # "no"

\* Rule 7
CompleteConsistent(r) ==
  DOMAIN r.edges # {} =>
    /\ r.complete = "yes" => UnindexedEdges(r) = {}
    /\ r.task = "TRACE_CHAIN" /\ r.complete = "no" => r.answerable # "full"

\* Rule 8, one operator per answer.
FullConsistent(r) ==
  /\ "no" \notin Recalled(r, {"must_recall", "acceptable_alternative"})
  /\ Unindexed(r.nodes) = {}
  /\ UnindexedEdges(r) = {}
  /\ DOMAIN r.edges # {} => r.complete # "no"

PartialConsistent(r) ==
  LET all == Recalled(r, {"must_recall", "acceptable_alternative"})
             \cup Flags(r.nodes) \cup EdgeFlags(r)
  IN "yes" \in all => "no" \in all

InsufficientConsistent(r) ==
  LET all == Recalled(r, {"must_recall"}) \cup Flags(r.nodes)
  IN all # {} => all # {"yes"}

AnswerConsistent(r) ==
  CASE r.answerable = "full" -> FullConsistent(r)
    [] r.answerable = "partial" -> PartialConsistent(r)
    [] r.answerable = "insufficient" -> InsufficientConsistent(r)

FlagRules(r) ==
  /\ IndexedFound(r) /\ IndexedEdgesFound(r)
  /\ UnindexedExplained(r) /\ RecallIndexed(r)

SnapshotRules(r) ==
  /\ FlagRules(r)
  /\ UnindexedNotFull(r)
  /\ CompleteConsistent(r) /\ AnswerConsistent(r)

-----------------------------------------------------------------------------
(* validate_dataset.py, other rules on what the fix changes.               *)

\* Rule 1
TraceHasGold(r) ==
  r.task = "TRACE_CHAIN" /\ r.source /\ r.answerable # "insufficient" =>
    DOMAIN r.nodes # {} /\ DOMAIN r.edges # {}

\* Rule 2
RetrievalCovered(r) ==
  r.source /\ r.answerable # "insufficient" =>
    \E k \in DOMAIN r.entities : r.entities[k].relevance = "must_recall"

\* Rule 13
PartialHasGap(r) == r.answerable = "partial" => UnindexedEdges(r) # {}

\* Rule 12
EdgesIncomplete(r) == UnindexedEdges(r) # {} => r.complete = "no"

FormatRules(r) ==
  /\ TraceHasGold(r) /\ EdgesEndInNodes(r)
  /\ UnanswerableUncertain(r) /\ EdgesIncomplete(r)

\* validate_dataset, one record: every rule is asked.
FormatValid(r) == FormatRules(r) /\ RetrievalCovered(r) /\ PartialHasGap(r)

-----------------------------------------------------------------------------
(* compute_stage2b_metrics.py: what an evaluation is measured against      *)

\* _gold_entities
MeasuredGold(r) ==
  {k \in DOMAIN r.entities :
     r.entities[k].indexed = "yes" /\ r.entities[k].relevance = "must_recall"}

\* _gold_nodes
MeasuredNodes(r) == {k \in DOMAIN r.nodes : r.nodes[k].indexed = "yes"}

\* _gold_edges
MeasuredEdges(r) == {e \in DOMAIN r.edges : r.edges[e] = "yes"}

\* _source_only_diagnostics: what is reported apart from the main metrics.
SourceOnly(r) ==
  [entities |-> Unindexed(r.entities), nodes |-> Unindexed(r.nodes),
   edges |-> UnindexedEdges(r)]

\* Whether _retrieval_metrics has the record among its pairs.
RetrievalScored(r) == r.source /\ MeasuredGold(r) # {}

\* Mutant of GraphScored: a partial answer is scored as well.
GraphScoredPartial(r) ==
  /\ r.source
  /\ MeasuredNodes(r) \cup MeasuredEdges(r) # {}

\* Whether _graph_metrics has it among its pairs.
GraphScored(r) ==
  /\ r.source /\ r.answerable = "full"
  /\ Flags(r.nodes) \cup EdgeFlags(r) = {"yes"}

\* Whether _agent_variant has the record among its evidence pairs, and among
\* its graph pairs.
AgentScored(r) == r.source /\ MeasuredGold(r) # {}

AgentGraphScored(r) ==
  /\ r.source /\ r.answerable = "full"
  /\ Flags(r.nodes) \cup EdgeFlags(r) \subseteq {"yes"}
  /\ MeasuredNodes(r) # {} \/ MeasuredEdges(r) # {}

\* refusal_metrics: whether an answer should name what it does not know.
ExpectsUncertainty(r) == r.answerable # "full" \/ r.uncertain

\* _set_pr of one pair: hits, predicted, gold.
SetCounts(predicted, gold) ==
  <<Cardinality(predicted \cap gold), Cardinality(predicted), Cardinality(gold)>>

\* A ratio is 1; _rate makes the one of nothing 0.
Perfect(counts) == counts[1] = counts[3] /\ counts[3] > 0

\* complete_chain_rate, for one record.
ChainFound(r, nodes, edges) ==
  MeasuredNodes(r) \subseteq nodes /\ MeasuredEdges(r) \subseteq edges

-----------------------------------------------------------------------------
(* stage2b_retrieval.py                                                    *)

\* compose_runtime: a run on the database is refused unless it has as many
\* entities and relations as the manifest of the snapshot says.
CountsMatch == Counts(scanned.keys, scanned.relations) = snapshot.manifest

-----------------------------------------------------------------------------
(* compute_stage2b_metrics.py: what may be scored                          *)

\* validate_snapshot_attestation: every file is as it was attested, and the
\* manifest is the one that the run has pinned.
AttestationHolds == attested = snapshot /\ run.manifest = attested.manifest

\* validate_formal_artifacts: the run was made with the dataset as it is.
DatasetPinned == run.record = record

Accepted == run # None /\ AttestationHolds /\ DatasetPinned

-----------------------------------------------------------------------------
Indexes ==
  {i \in [keys : SUBSET Keys, relations : SUBSET Links] :
     \A l \in i.relations : {l[1], l[2]} \subseteq i.keys}

GoldInit ==
  /\ scanned \in Indexes
  /\ LET exported == ExportedRelations(scanned)
     IN snapshot = [keys |-> scanned.keys, relations |-> exported,
                    manifest |-> Counts(scanned.keys, exported)]
  /\ attested = None /\ run = None
  /\ record \in Annotated
  /\ fixed = FALSE
  /\ scans = 0

\* The repository is scanned with another version of the parsers.
Rescan ==
  /\ scans < MaxScans
  /\ scans' = scans + 1
  /\ scanned' \in Indexes
  /\ UNCHANGED <<snapshot, attested, run, record, fixed>>

\* run_export writes one file after the other.  Nothing notices an export
\* that is broken off between them: what follows uses the files there are.
ExportEntities ==
  /\ snapshot.keys # scanned.keys
  /\ snapshot' = [snapshot EXCEPT !.keys = scanned.keys]
  /\ fixed' = FALSE
  /\ UNCHANGED <<scanned, attested, run, record, scans>>

ExportRelations ==
  /\ snapshot.keys = scanned.keys
  /\ snapshot.relations # ExportedRelations(scanned)
  /\ snapshot' = [snapshot EXCEPT !.relations = ExportedRelations(scanned)]
  /\ fixed' = FALSE
  /\ UNCHANGED <<scanned, attested, run, record, scans>>

ExportManifest ==
  /\ snapshot.keys = scanned.keys
  /\ snapshot.relations = ExportedRelations(scanned)
  /\ ~Whole(snapshot)
  /\ snapshot' = [snapshot EXCEPT !.manifest =
                    Counts(snapshot.keys, snapshot.relations)]
  /\ UNCHANGED <<scanned, attested, run, record, fixed, scans>>

Fix ==
  /\ ~fixed
  /\ record' = Fixed(record)
  /\ fixed' = TRUE
  /\ UNCHANGED <<scanned, snapshot, attested, run, scans>>

\* attest_snapshot.py hashes whatever files there are.
Attest ==
  /\ attested # snapshot
  /\ attested' = snapshot
  /\ UNCHANGED <<scanned, snapshot, run, record, fixed, scans>>

\* main and compose_runtime: a whole run, which pins what it was made with.
\* Its metadata is not written over by a run with other inputs
\* (resolve_run_id).
Run ==
  /\ run = None
  /\ CountsMatch
  /\ run' = [record |-> record, manifest |-> snapshot.manifest, index |-> scanned]
  /\ UNCHANGED <<scanned, snapshot, attested, record, fixed, scans>>

GoldNext ==
  \/ Rescan
  \/ ExportEntities \/ ExportRelations \/ ExportManifest
  \/ Fix \/ Attest \/ Run

GoldSpec == GoldInit /\ [][GoldNext]_goldVars

-----------------------------------------------------------------------------
(* Properties                                                              *)

\* However often the index and the annotations went through other states
\* before, and whatever an export left, a fixed record tells of the snapshot
\* as it is: the validator finds every flag true, every gap explained and
\* nothing to be recalled that cannot be.  A trace with edges passes both
\* validators: three scripts, each with its own reading of complete and
\* answerable, agree on it (fix_dataset against validate_against_snapshot.py
\* and validate_dataset.py).
FixedConsistent ==
  fixed =>
    /\ FlagRules(record)
    /\ record.task = "TRACE_CHAIN" /\ DOMAIN record.edges # {} =>
         SnapshotRules(record) /\ FormatRules(record)

\* A retriever that returns the whole snapshot has perfect recall of what is
\* scored, and of the rest of the gold nothing is in the snapshot.
SnapshotIsPerfect ==
  LET apart == SourceOnly(record)
  IN /\ RetrievalScored(record) =>
          Perfect(SetCounts(snapshot.keys, MeasuredGold(record)))
     /\ GraphScored(record) =>
          /\ Perfect(SetCounts(snapshot.keys, MeasuredNodes(record)))
          /\ DOMAIN record.edges # {} =>
               Perfect(SetCounts(snapshot.relations, MeasuredEdges(record)))
          /\ DOMAIN record.nodes = MeasuredNodes(record)
          /\ DOMAIN record.edges = MeasuredEdges(record)
          /\ ChainFound(record, snapshot.keys, snapshot.relations)
     /\ (apart.entities \cup apart.nodes) \cap snapshot.keys = {}
     /\ {k \in DOMAIN record.entities :
           record.entities[k].relevance = "must_recall"} = MeasuredGold(record)
     /\ DOMAIN record.nodes = apart.nodes \cup MeasuredNodes(record)
     /\ DOMAIN record.edges = apart.edges \cup MeasuredEdges(record)

\* What can be scored is: a graph that is all in the snapshot, every record
\* that validate_dataset.py passes as answerable, and by the agent whatever
\* is scored by the retrieval; and a trace with gaps is among those whose
\* answers have to admit them.
NothingLeftOut ==
  /\ record.source /\ DOMAIN record.edges # {}
       /\ DOMAIN record.nodes \subseteq snapshot.keys
       /\ DOMAIN record.edges \subseteq snapshot.relations =>
         GraphScored(record)
  /\ FormatValid(record) /\ record.source /\ record.answerable # "insufficient" =>
       RetrievalScored(record)
  /\ AgentScored(record) = RetrievalScored(record)
  /\ AgentGraphScored(record) = GraphScored(record)
  /\ record.task = "TRACE_CHAIN" /\ DOMAIN record.edges # {}
       /\ "no" \in Flags(record.nodes) \cup EdgeFlags(record) =>
         ExpectsUncertainty(record)

\* One of two sets has the other.
Comparable(S, T) == S \subseteq T \/ T \subseteq S

\* The index of an accepted run has what the run is measured against.  Two
\* exceptions: what is pinned of the database are counts, so one entity
\* exchanged for another passes; and the manifest does not bind the files
\* with the entities and relations, so an export broken off before its
\* manifest is attested like any other.
RunReachable ==
  Accepted /\ Whole(snapshot) =>
    /\ Comparable(run.index.keys, snapshot.keys) =>
         MeasuredGold(record) \cup MeasuredNodes(record) \subseteq run.index.keys
    /\ Comparable(run.index.relations, snapshot.relations) =>
         MeasuredEdges(record) \subseteq run.index.relations

\* Nothing is scored that a system could not find, and nothing that it could
\* find is left out: for a fixed record five places that decide what counts
\* (the fix, the validator, the metrics of the retrieval, of the graph and of
\* the agent) agree on one snapshot, and the index of a run that may be
\* scored has all of it, whatever was scanned, exported, attested and run in
\* whichever order.
ScoredReachable ==
  fixed => SnapshotIsPerfect /\ NothingLeftOut /\ RunReachable

\* Fixing is settled after once: to fix a fixed record again with the same
\* snapshot changes nothing, so the dataset's hash is reproducible.
FixSettled == fixed => Fixed(record) = record
=============================================================================

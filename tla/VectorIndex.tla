---------------------------- MODULE VectorIndex -----------------------------
(***************************************************************************)
(* The project registry composed with the vector store: the Qdrant         *)
(* collection of each project, POST /projects/{id}/build-vector-index,     *)
(* which embeds the static index into it, and the part of                  *)
(* DELETE /projects/{id} that removes it.                                  *)
(*                                                                         *)
(* The vector store is outside the SQLite transaction and nothing locks a  *)
(* collection: a build reads committed rows, spends seconds in the         *)
(* embedding service, and then drops, creates and fills the collection in  *)
(* three calls, while scans, deletions and other builds go on.             *)
(***************************************************************************)
EXTENDS ProjectIndex, FiniteSets, Sequences, SequencesExt, FiniteSetsExt, Ascending

CONSTANTS
  Builders,  \* threads serving POST /projects/{id}/build-vector-index
  BatchSize  \* API_EMBEDDING_BATCH_SIZE

\* A point's id is derived from the project and the entity's row id.  Its
\* payload is the row it was built from; vector is the row whose text was
\* embedded.  A collection maps row ids to points.
Point(row, text) ==
  [project |-> row.project, root |-> row.root, entity |-> row.entity,
   batch |-> row.batch, vector |-> text]
Empty == [i \in RowIds |-> None]

\* CodeChunkBuilder.build: a chunk for every row of the project.
ChunksOf(p) ==
  [i \in RowIds |-> IF i \in OwnRows(rows, p) THEN rows[i] ELSE None]

ASSUME BuilderAssumption ==
  /\ Builders \cap Threads = {}
  /\ BatchSize \in Nat \ {0}
  /\ IsFiniteSet(RowIds)
  /\ None \notin [project : ProjectIds, root : Roots, entity : Entities,
                   batch : SUBSET Entities, vector : RowIds]

VARIABLES
  collection,  \* the collection of each project id, or None
  bpc,         \* where each builder is in its handler
  bpid,        \* project id of the build
  chunks       \* the chunks, by row id, the build has embedded

vectorVars == <<collection, bpc, bpid, chunks>>
allVars == <<vars, vectorVars>>

HasCollection(p) == collection[p] # None

BuildGoto(b, l) == bpc' = [bpc EXCEPT ![b] = l]
BuildFinish(b) ==
  /\ BuildGoto(b, "idle")
  /\ bpid' = [bpid EXCEPT ![b] = None]
  /\ chunks' = [chunks EXCEPT ![b] = Empty]

VInit ==
  /\ Init
  /\ collection = [p \in ProjectIds |-> None]
  /\ bpc = [b \in Builders |-> "idle"]
  /\ bpid = [b \in Builders |-> None]
  /\ chunks = [b \in Builders |-> Empty]

-----------------------------------------------------------------------------
(* POST /projects/{id}/build-vector-index                                  *)

BuildOpen(b, p) ==
  /\ bpc[b] = "idle"
  /\ p \in Registered
  /\ BuildGoto(b, "build_read")
  /\ bpid' = [bpid EXCEPT ![b] = p]
  /\ UNCHANGED <<vars, collection, chunks>>

\* One SELECT of the project's rows; a project without rows is answered 409.
BuildRead(b) ==
  /\ bpc[b] = "build_read"
  /\ IF OwnRows(rows, bpid[b]) = {}
     THEN BuildFinish(b)
     ELSE /\ chunks' = [chunks EXCEPT ![b] = ChunksOf(bpid[b])]
          /\ BuildGoto(b, "build_embed")
          /\ UNCHANGED bpid
  /\ UNCHANGED <<vars, collection>>

\* The texts go to the embedding API in batches.
Batches(texts) ==
  [n \in 1..((Len(texts) + BatchSize - 1) \div BatchSize) |->
    SubSeq(texts, (n - 1) * BatchSize + 1, Min({n * BatchSize, Len(texts)}))]

\* What the API may answer to a batch: its embeddings, each with its index, in
\* any order; it may lose one.
BatchReplies(batch) ==
  UNION {SetToSeqs({[index |-> i, text |-> batch[i]] : i \in kept}) :
           kept \in {DOMAIN batch} \cup {DOMAIN batch \ {i} : i \in DOMAIN batch}}

\* Mutant of InOrder: the embeddings are taken as they come.
InOrderAsGiven(reply) == [i \in DOMAIN reply |-> reply[i].text]

\* embed_documents of the provider: a reply is sorted by index.
InOrder(reply) ==
  LET indices == Ascending({reply[i].index : i \in DOMAIN reply})
  IN [k \in DOMAIN reply |->
       reply[CHOOSE i \in DOMAIN reply : reply[i].index = indices[k]].text]

\* EmbeddingService.embed_documents and the checks of rebuild: as many vectors
\* as chunks, which are paired in their order, or an error.
BuildEmbed(b) ==
  /\ bpc[b] = "build_embed"
  /\ LET texts == Ascending({i \in RowIds : chunks[b][i] # None})
         batches == Batches(texts)
     IN \E replies \in {r \in [DOMAIN batches -> UNION {BatchReplies(batches[n]) :
                                                     n \in DOMAIN batches}] :
                         \A n \in DOMAIN batches : r[n] \in BatchReplies(batches[n])} :
          LET vectors == FlattenSeq([n \in DOMAIN replies |-> InOrder(replies[n])])
          IN IF Len(vectors) # Len(texts) THEN BuildFinish(b)
             ELSE /\ chunks' = [chunks EXCEPT ![b] =
                       [i \in RowIds |-> IF i \in Range(texts)
                          THEN Point(@[i], vectors[CHOOSE k \in DOMAIN texts : texts[k] = i])
                          ELSE None]]
                  /\ BuildGoto(b, "build_drop")
                  /\ UNCHANGED bpid
  /\ UNCHANGED <<vars, collection>>

\* rebuild: an existing collection is deleted.
BuildDrop(b) ==
  /\ bpc[b] = "build_drop"
  /\ collection' = [collection EXCEPT ![bpid[b]] = None]
  /\ BuildGoto(b, "build_create")
  /\ UNCHANGED <<vars, bpid, chunks>>

\* create_collection fails if another build has created it meanwhile.
BuildCreate(b) ==
  /\ bpc[b] = "build_create"
  /\ \/ /\ ~HasCollection(bpid[b])
        /\ collection' = [collection EXCEPT ![bpid[b]] = Empty]
        /\ BuildGoto(b, "build_upsert")
        /\ UNCHANGED <<bpid, chunks>>
     \/ /\ HasCollection(bpid[b])
        /\ BuildFinish(b)
        /\ UNCHANGED collection
  /\ UNCHANGED vars

\* upsert writes every point, over points with the same id; it fails if the
\* collection has been deleted meanwhile.
BuildUpsert(b) ==
  /\ bpc[b] = "build_upsert"
  /\ \/ /\ HasCollection(bpid[b])
        /\ collection' = [collection EXCEPT ![bpid[b]] =
             [i \in RowIds |-> IF chunks[b][i] # None
                               THEN chunks[b][i] ELSE @[i]]]
     \/ /\ ~HasCollection(bpid[b])
        /\ UNCHANGED collection
  /\ BuildFinish(b)
  /\ UNCHANGED vars

\* The embedding service or a call of the vector store raises.
BuildError(b) ==
  /\ bpc[b] # "idle"
  /\ BuildFinish(b)
  /\ UNCHANGED <<vars, collection>>

BuildStep(b) ==
  \/ BuildRead(b)
  \/ BuildEmbed(b)
  \/ BuildDrop(b)
  \/ BuildCreate(b)
  \/ BuildUpsert(b)
  \/ BuildError(b)

-----------------------------------------------------------------------------
(* DELETE /projects/{id}, with the collection it removes                   *)

\* Mutant of DropCollection: the database row goes, the collection stays.
DropCollectionSkipped(t) ==
  /\ DeleteCollection(t)
  /\ UNCHANGED vectorVars

DropCollection(t) ==
  /\ DeleteCollection(t)
  /\ collection' = [collection EXCEPT ![pid[t]] = None]
  /\ UNCHANGED <<bpc, bpid, chunks>>

\* Qdrant runs on, or keeps its directory; builds under way are gone.
VRestart ==
  /\ Restart
  /\ bpc' = [b \in Builders |-> "idle"]
  /\ bpid' = [b \in Builders |-> None]
  /\ chunks' = [b \in Builders |-> Empty]
  /\ UNCHANGED collection

VNext ==
  \/ RegistryStep /\ UNCHANGED vectorVars
  \/ \E t \in Deleters : DropCollection(t)
  \/ \E b \in Builders : (\E p \in ProjectIds : BuildOpen(b, p)) \/ BuildStep(b)
  \/ VRestart

\* Builds and scans overlap as they like, but nobody works beside a deletion:
\* the case in which the documents' promises hold.
Busy == {t \in Threads : pc[t] # "idle"} \cup {b \in Builders : bpc[b] # "idle"}
DeletionAlone == \A t \in Busy \cap Deleters : Busy = {t}
QuietSpec == VInit /\ [][VNext /\ DeletionAlone']_allVars

-----------------------------------------------------------------------------
(* Properties                                                              *)

\* With one build at a time a collection is absent, empty, or the complete
\* index of one scan of the project's own directory, each point with the
\* vector of its own text: a build that fails half way or is repeated after a
\* rescan leaves no point of an older index behind, and no order and no loss
\* of the embedding API's answers shifts a vector to another entity
\* (QdrantVectorStore.rebuild, embed_documents).
CollectionWhole ==
  \A p \in ProjectIds :
    HasCollection(p) =>
      /\ \A i \in RowIds : collection[p][i] # None =>
            collection[p][i].project = p /\ collection[p][i].vector = i
      /\ Whole(collection[p], p)
      /\ p \in Registered =>
           OneRoot(collection[p], p, projects[p].root)

Quiet(p) ==
  /\ \A t \in Threads : pid[t] # p
  /\ \A b \in Builders : bpid[b] # p

\* Once no request works on an id, a collection is left only if the project
\* is: "preferable to an orphaned Qdrant collection"
\* (docs/superpowers/specs/2026-07-06-project-history-management-design.md:117).
NoOrphanCollection ==
  \A p \in ProjectIds : Quiet(p) /\ HasCollection(p) => p \in Registered
=============================================================================

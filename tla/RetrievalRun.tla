----------------------------- MODULE RetrievalRun -----------------------------
(***************************************************************************)
(* A retrieval evaluation run (evaluation/runners/stage2b_retrieval.py)    *)
(* and the acceptance of its files by compute_stage2b_metrics.py.  The     *)
(* process builds or reuses the vector collection of a project, retrieves  *)
(* for every question and variant and appends one record of each.  It may  *)
(* be killed anywhere and be invoked again in another phase; what it knows *)
(* then is the metadata file, the output, the rewrite cache and the        *)
(* provider ledgers.  Between two invocations the inputs may change, files *)
(* may be discarded, and a run with other files may rebuild the collection *)
(* they share.                                                             *)
(*                                                                         *)
(* A line is appended whole or not at all: the torn lines of the same      *)
(* writers are in AgentRun.                                                *)
(***************************************************************************)
EXTENDS Naturals, FiniteSets, Sequences, SequencesExt, Ascending

CONSTANTS
  Settings,       \* versions of what identifies a run: database, snapshot, configuration
  Schedule,       \* sequence of <<question, variant>>
  SmokeSchedule,  \* the part of it that a smoke run evaluates
  Rewriting,      \* the variants that rewrite the question
  Spoken,         \* the questions in Chinese, which the provider rewrites
  Texts,          \* rewritings of a question
  Original,       \* the question as it is
  None,
  MaxInvocations  \* bounds how often the run is started

ASSUME RunAssumption ==
  /\ Schedule \in Seq(ToSet(Schedule))
  /\ SmokeSchedule \in Seq(ToSet(Schedule))
  /\ Cardinality(ToSet(Schedule)) = Len(Schedule)
  /\ Original \notin Texts /\ None \notin Texts \cup {Original}

Questions == {k[1] : k \in ToSet(Schedule)}

VARIABLES
  setting,     \* the inputs as they are now
  collection,  \* the shared vector collection: [of, points]
  foreign,     \* whether another run has rebuilt it
  meta,        \* the metadata file: [status, of, build, written, pending]
  output,      \* the records, in order
  cache,       \* per run id, the rewriting of each question
  pending,     \* per run id, attempts in the provider ledgers without an end
  phase,       \* of the running process: "build", "run", "all", "smoke", "off"
  pc,          \* where it is
  rebuild,     \* its --rebuild
  previous,    \* the metadata as the process knows it
  temp,        \* the isolated output of a smoke run
  invocation   \* how often the run was started

disk == <<setting, collection, foreign, meta, output, cache, pending>>
process == <<phase, rebuild, previous, temp, invocation>>
vars == <<disk, process, pc>>

NoCollection == [of |-> None, points |-> "absent"]
NoMetadata ==
  [status |-> "absent", of |-> None, build |-> "none", written |-> 0,
   pending |-> 0]

Init ==
  /\ setting \in Settings
  /\ collection = NoCollection /\ foreign = FALSE
  /\ meta = NoMetadata /\ output = <<>>
  /\ cache = [s \in Settings |-> [q \in Questions |-> None]]
  /\ pending = [s \in Settings |-> 0]
  /\ phase = "off" /\ pc = "off" /\ rebuild = FALSE
  /\ previous = NoMetadata /\ temp = <<>>
  /\ invocation = 0

Off ==
  /\ phase' = "off" /\ pc' = "off" /\ rebuild' = FALSE
  /\ previous' = NoMetadata /\ temp' = <<>>
  /\ UNCHANGED invocation

-----------------------------------------------------------------------------
(* The metadata                                                            *)

\* merge_resume_metadata: what was written before gives the build when the
\* new metadata has none.
Merged(status, build) ==
  [status |-> status, of |-> setting,
   build |-> IF build = "none" THEN previous.build ELSE build,
   written |-> Len(output), pending |-> pending[setting]]

PhaseStatus ==
  CASE phase \in {"run", "all"} -> "completed"
    [] phase = "smoke" -> "smoke_completed"
    [] phase = "build" -> "build_completed"

\* Mutant of Reusable: a collection is trusted when nothing is known of it.
ReusableUnknown ==
  /\ collection.points # "absent"
  /\ previous.status = "absent" \/ previous.build = "completed"
  /\ previous.status = "absent" \/ previous.of = setting
  /\ collection.points = "full"

\* verify_reusable_index: the metadata tells of a completed build from the
\* same inputs, and the collection has the points that it counted.
Reusable ==
  /\ collection.points # "absent"
  /\ previous.build = "completed"
  /\ previous.of = setting
  /\ collection.points = "full"

Identity(records, s) == \A i \in DOMAIN records : records[i].of = s
Keys(records) == {r.key : r \in ToSet(records)}

-----------------------------------------------------------------------------
(* main                                                                    *)

\* Mutant of Invoke: the rewrite cache begins empty.
InvokeForgetful(p, r) ==
  /\ phase = "off"
  /\ invocation < MaxInvocations
  /\ meta = NoMetadata \/ meta.of = setting
  /\ Identity(output, setting)
  /\ phase' = p /\ rebuild' = r /\ pc' = "index"
  /\ previous' = meta
  /\ invocation' = invocation + 1
  /\ cache' = [cache EXCEPT ![setting] = [q \in Questions |-> None]]
  /\ UNCHANGED <<setting, collection, foreign, meta, output, pending, temp>>

\* A run starts when the metadata, if any, and all records have its identity
\* (resolve_run_id, count_validated_records).  The run id, which names the
\* cache and the ledgers, follows from the inputs.
Invoke(p, r) ==
  /\ phase = "off"
  /\ invocation < MaxInvocations
  /\ meta = NoMetadata \/ meta.of = setting
  /\ Identity(output, setting)
  /\ phase' = p /\ rebuild' = r /\ pc' = "index"
  /\ previous' = meta
  /\ invocation' = invocation + 1
  /\ UNCHANGED <<disk, temp>>

Builds == phase # "run" /\ (rebuild \/ collection.points = "absent")

Indexed == IF phase = "build" THEN "finish" ELSE "case"

\* The build is announced in the metadata before the collection is touched.
Announce ==
  /\ pc = "index"
  /\ Builds
  /\ meta' = Merged("running", "in_progress")
  /\ pc' = "embed"
  /\ UNCHANGED <<setting, collection, foreign, output, cache, pending, process>>

Reuse ==
  /\ pc = "index"
  /\ ~Builds
  /\ pc' = IF Reusable THEN Indexed ELSE "failed"
  /\ UNCHANGED <<disk, process>>

\* build_index: the chunks are embedded first; the collection is deleted,
\* created and filled.  Each of it may raise.
BuildStep ==
  /\ \/ pc = "embed" /\ pc' = "delete" /\ UNCHANGED collection
     \/ pc = "delete" /\ pc' = "fill" /\ collection' = NoCollection
     \/ pc = "fill" /\ pc' = "filling"
        /\ collection' = [of |-> setting, points |-> "partial"]
     \/ pc = "filling" /\ pc' = "built"
        /\ collection' = [collection EXCEPT !.points = "full"]
     \/ pc \in {"embed", "delete", "fill", "filling"} /\ pc' = "failed"
        /\ UNCHANGED collection
  /\ UNCHANGED <<setting, foreign, meta, output, cache, pending, process>>

\* checkpoint_completed_build
CheckpointBuild ==
  /\ pc = "built"
  /\ meta' = Merged("none", "completed")
  /\ previous' = meta'
  /\ pc' = Indexed
  /\ UNCHANGED <<setting, collection, foreign, output, cache, pending, phase,
                 rebuild, temp, invocation>>

-----------------------------------------------------------------------------
(* run_questions and evaluate_case                                         *)

Planned == IF phase = "smoke" THEN SmokeSchedule ELSE Schedule
Target == IF phase = "smoke" THEN temp ELSE output
Remaining == {i \in DOMAIN Planned : Planned[i] \notin Keys(Target)}
NextKey == Planned[Min(Remaining)]

Rewritten(k) == k[2] \in Rewriting
Text(k) == IF Rewritten(k) THEN cache[setting][k[1]] ELSE Original

\* DurableRewriteCache.rewrite: the rewriting, or the question as it is when
\* the provider fails, is on disk before any record has it; when it cannot be
\* written the run fails.
Rewrite ==
  /\ pc = "case" /\ Remaining # {}
  /\ LET k == NextKey IN
     /\ Text(k) = None
     /\ \/ /\ \E t \in IF k[1] \in Spoken THEN Texts \cup {Original}
                       ELSE {Original} :
                cache' = [cache EXCEPT ![setting][k[1]] = t]
           /\ UNCHANGED pc
        \/ /\ pc' = "failed"
           /\ UNCHANGED cache
  /\ UNCHANGED <<setting, collection, foreign, meta, output, pending, process>>

CaseRecord(k, ok) ==
  [key |-> k, ok |-> ok, text |-> Text(k), of |-> setting, index |-> collection]

\* A case that raises while it retrieves leaves a record all the same; it is
\* not tried again.  Only an append that fails ends the run.
Evaluate ==
  /\ pc = "case" /\ Remaining # {}
  /\ LET k == NextKey IN
     /\ Text(k) # None
     /\ \/ /\ \E ok \in BOOLEAN :
                IF phase = "smoke"
                THEN /\ temp' = Append(temp, CaseRecord(k, ok))
                     /\ UNCHANGED output
                ELSE /\ output' = Append(output, CaseRecord(k, ok))
                     /\ UNCHANGED temp
           /\ UNCHANGED pc
        \/ /\ pc' = "failed"
           /\ UNCHANGED <<output, temp>>
  /\ UNCHANGED <<setting, collection, foreign, meta, cache, pending, phase,
                 rebuild, previous, invocation>>

AllEvaluated ==
  /\ pc = "case" /\ Remaining = {}
  /\ pc' = IF phase = "smoke" THEN "promote" ELSE "finish"
  /\ UNCHANGED <<disk, process>>

\* Mutant of Promote: the records of the probe are all appended.
PromoteAll ==
  /\ pc = "promote"
  /\ \/ /\ \A r \in ToSet(temp) : r.ok
        /\ output' = output \o temp
        /\ pc' = "finish"
     \/ /\ \E r \in ToSet(temp) : ~r.ok
        /\ pc' = "failed"
        /\ UNCHANGED output
  /\ UNCHANGED <<setting, collection, foreign, meta, cache, pending, process>>

\* run_smoke_gate: one failed record sets the whole probe aside; a probe
\* without any replaces the output in one go by itself and the new records.
Promote ==
  /\ pc = "promote"
  /\ \/ /\ \A r \in ToSet(temp) : r.ok
        /\ output' = output \o
             SubSequence(temp, {i \in DOMAIN temp : temp[i].key \notin Keys(output)})
        /\ pc' = "finish"
     \/ /\ \E r \in ToSet(temp) : ~r.ok
        /\ pc' = "failed"
        /\ UNCHANGED output
  /\ UNCHANGED <<setting, collection, foreign, meta, cache, pending, process>>

\* Mutant of Finish: only the attempts of this process are looked at.
FinishOwn ==
  /\ pc = "finish"
  /\ meta' = [Merged(PhaseStatus, "completed") EXCEPT !.pending = 0]
  /\ Off
  /\ UNCHANGED <<setting, collection, foreign, output, cache, pending>>

Finish ==
  /\ pc = "finish"
  /\ meta' = Merged(PhaseStatus, "completed")
  /\ Off
  /\ UNCHANGED <<setting, collection, foreign, output, cache, pending>>

\* The except branch of main.
Fail ==
  /\ pc = "failed"
  /\ meta' = Merged("failed", "none")
  /\ Off
  /\ UNCHANGED <<setting, collection, foreign, output, cache, pending>>

\* Where the process may be waiting for a provider.
Calling == pc = "embed" \/ (pc = "case" /\ Remaining # {})

\* The process is killed; an attempt that it was making never gets its end.
Kill ==
  /\ phase # "off"
  /\ Off
  /\ \/ UNCHANGED pending
     \/ Calling /\ pending' = [pending EXCEPT ![setting] = @ + 1]
  /\ UNCHANGED <<setting, collection, foreign, meta, output, cache>>

-----------------------------------------------------------------------------
(* Between two invocations                                                 *)

\* The database is scanned again or the configuration is edited.
ChangeSetting ==
  /\ phase = "off"
  /\ setting' \in Settings \ {setting}
  /\ UNCHANGED <<collection, foreign, meta, output, cache, pending, process, pc>>

\* The files of the run are moved away, or its metadata only.
Discard ==
  /\ phase = "off"
  /\ meta' = NoMetadata
  /\ output' \in {<<>>, output}
  /\ UNCHANGED <<setting, collection, foreign, cache, pending, process, pc>>

\* A run with other files and other inputs builds the collection: the
\* default path is the same for all.
ForeignBuild ==
  /\ phase = "off"
  /\ foreign' = TRUE
  /\ collection' \in [of : Settings, points : {"partial", "full"}]
  /\ UNCHANGED <<setting, meta, output, cache, pending, process, pc>>

Next ==
  \/ \E p \in {"build", "run", "all", "smoke"}, r \in BOOLEAN : Invoke(p, r)
  \/ Announce \/ Reuse \/ BuildStep \/ CheckpointBuild
  \/ Rewrite \/ Evaluate \/ AllEvaluated \/ Promote \/ Finish \/ Fail
  \/ Kill
  \/ ChangeSetting \/ Discard \/ ForeignBuild

Spec == Init /\ [][Next]_vars

-----------------------------------------------------------------------------
(* compute_stage2b_metrics.py: what may be scored                          *)

\* _validate_raw: the metadata says completed, counts the exact schedule and
\* has the identity of every record, and the keys are the schedule.
Complete ==
  /\ meta.status = "completed"
  /\ meta.written = Len(Schedule)
  /\ Identity(output, meta.of)
  /\ Cardinality(Keys(output)) = Len(output)
  /\ Keys(output) = ToSet(Schedule)

\* _validate_retrieval_only_integrity: every record is ok, and the ledgers
\* had no unfinished attempt.
Scorable ==
  /\ Complete
  /\ \A r \in ToSet(output) : r.ok
  /\ meta.pending = 0

-----------------------------------------------------------------------------
(* Properties                                                              *)

\* What passes for a complete run was retrieved from the whole index of the
\* inputs that its metadata names: no kill in a build, no change of inputs, no
\* discarded file and no reuse puts records of another or of half an index
\* under its name (checkpoint_completed_build, verify_reusable_index).  A run
\* with other files that rebuilds the shared collection is the exception: the
\* provenance is in the metadata and the collection has none.
IndexMatches ==
  Complete /\ ~foreign =>
    \A r \in ToSet(output) :
      r.index = [of |-> meta.of, points |-> "full"]

\* The variants are compared on one rewriting of each question: all records of
\* a question have the same one, although the provider answers differently
\* every time, or fails, and the run is killed and invoked again in any phase
\* (DurableRewriteCache).
OneRewrite ==
  \A r1, r2 \in ToSet(output) \cup ToSet(temp) :
    /\ r1.key[1] = r2.key[1]
    /\ Rewritten(r1.key) /\ Rewritten(r2.key)
    => r1.text = r2.text

\* The output grows by records of one identity, each of a key that it does not
\* have, and those of a smoke run arrive only when all of its probe are ok; a
\* record never changes its place or goes away but with the whole file
\* (run_questions, run_smoke_gate).
RecordsSettled ==
  [][\/ output' = <<>>
     \/ /\ IsPrefix(output, output')
        /\ Cardinality(Keys(output')) = Len(output')
        /\ \E s \in Settings : Identity(output', s)
        /\ phase = "smoke" /\ output' # output =>
             \A i \in DOMAIN output' : i > Len(output) => output'[i].ok
    ]_vars

\* A run whose ledgers hold an attempt without an end never becomes scorable,
\* in whichever of its invocations the attempt was lost: nothing that the
\* provider may have answered is missing from the counts that are reported
\* (DurableCallCounters, provider_ledger_summary).
OrphansRefused ==
  [][~Scorable /\ Scorable' => \A s \in Settings :
       meta'.of = s => pending[s] = 0]_vars
=============================================================================

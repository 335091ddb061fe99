---------------------------- MODULE IndexReports ----------------------------
(***************************************************************************)
(* What reads an index after a scan and tells others of it: the statistics *)
(* and the diagnostics of IndexService, which the project page shows, and  *)
(* the snapshot that export_index_snapshot.py writes for the evaluation,   *)
(* with the stable keys that stand for entities in the gold records, where *)
(* the ids of the database may not.  Each is a function of the rows that   *)
(* Sources leaves behind.                                                  *)
(***************************************************************************)
EXTENDS Sources

CONSTANTS
  Folded,    \* file -> its path in lower case and with forward slashes
  Examples   \* how many examples a report gives; 10 in an export

ASSUME ReportsAssumption == Examples \in Nat

-----------------------------------------------------------------------------
(* IndexService                                                            *)

\* _grouped_counts: how many rows have each value of a column, a function on
\* the rows.
GroupedCounts(column) ==
  [value \in Range(column) |-> Cardinality({r \in DOMAIN column : column[r] = value})]

\* The count of a value that may have no row.
CountOf(counts, value) == IF value \in DOMAIN counts THEN counts[value] ELSE 0

\* get_stats
Stats ==
  LET types == GroupedCounts([e \in entities |-> e.type])
      problems == GroupedCounts([i \in issues |-> i.type])
  IN [files |-> Cardinality(files),
      languages |-> GroupedCounts([f \in files |-> Languages[f.ext]]),
      entityTypes |-> types,
      relationTypes |-> GroupedCounts([r \in relations |-> r.type]),
      backendApis |-> CountOf(types, "backend_api"),
      frontendCalls |-> CountOf(types, "frontend_api_call"),
      skipped |-> CountOf(problems, "skipped"),
      parseErrors |-> CountOf(problems, "parse_error")]

Calls == OfType(entities, "frontend_api_call")

\* matched_ids: the calls that are the source of a REQUESTS_API relation.
Matched ==
  {e \in Calls : \E r \in relations :
     r.type = "REQUESTS_API" /\ r.source = LocalKey(e)}

\* Mutant of MatchedCount: the select is not distinct.
MatchedCountRelations ==
  Cardinality({r \in relations : r.type = "REQUESTS_API"})

MatchedCount == Cardinality(Matched)

FrontendReasons == {"dynamic_url", "dynamic_method", "ambiguous_constant",
                    "unknown_wrapper"}

ASSUME AbsentAssumption == Absent \notin Verbs \cup FrontendReasons

Warnings == {i \in issues : /\ i.type = "analysis_warning"
                            /\ i.reason \in FrontendReasons}

\* The order of the rows of a report: by file, by line, and by id, which are
\* given in the order in which the calls of a file are met.
Above(p, q) ==
  \/ p.file < q.file
  \/ p.file = q.file /\ p.line < q.line
  \/ p.file = q.file /\ p.line = q.line /\ p.at < q.at

\* The first rows of a report, given the place of each.
Shown(place) ==
  LET rows == DOMAIN place
      rank == [x \in rows |-> Cardinality({y \in rows : Above(place[y], place[x])})]
  IN [i \in 1..Min({Examples, Cardinality(rows)}) |->
       CHOOSE x \in rows : rank[x] = i - 1]

CallPlaces(found) == [e \in found |-> [file |-> e.file, line |-> e.line, at |-> e.at]]
IssuePlaces(found) == [i \in found |-> [file |-> i.file, line |-> 0, at |-> i.at]]

\* get_frontend_request_diagnostics
Diagnostics ==
  [identified |-> Cardinality(Calls), matched |-> MatchedCount,
   unmatched |-> Cardinality(Calls) - MatchedCount,
   unresolved |-> Cardinality(Warnings),
   unmatchedExamples |-> Shown(CallPlaces(Calls \ Matched)),
   unresolvedExamples |-> Shown(IssuePlaces(Warnings))]

-----------------------------------------------------------------------------
(* stable_entity_key.py and export_index_snapshot.py                       *)

\* Mutant of StableKey: the line is left out.
StableKeyUnplaced(e) == <<Folded[e.file], e.type, e.qualified>>

\* compute_stable_key, before it is hashed.  The repository and the commit
\* are those of the export.  The end of an entity is not modelled.
StableKey(e) == <<Folded[e.file], e.type, e.qualified, e.line>>

\* export_code_files
ExportFiles == {[file |-> f.id, language |-> Languages[f.ext]] : f \in files}

\* export_code_entities: one entry for a row.
ExportEntities ==
  {[key |-> StableKey(e), file |-> e.file, type |-> e.type,
    qualified |-> e.qualified, line |-> e.line] : e \in entities}

\* export_code_relations: the ends are looked up among the rows.
ExportRelations ==
  {[source |-> StableKey(CHOOSE e \in entities : LocalKey(e) = r.source),
    target |-> StableKey(CHOOSE e \in entities : LocalKey(e) = r.target),
    type |-> r.type, confidence |-> r.confidence] :
   r \in {x \in relations :
            {x.source, x.target} \subseteq {LocalKey(e) : e \in entities}}}

\* export_frontend_diagnostics, which repeats the queries.
ExportDiagnostics ==
  LET matched == {LocalKey(e) : e \in Calls} \cap
                   {r.source : r \in {x \in relations : x.type = "REQUESTS_API"}}
      unresolved == {i \in issues : /\ i.type = "analysis_warning"
                                    /\ i.reason \in FrontendReasons}
  IN [identified |-> Cardinality(Calls), matched |-> Cardinality(matched),
      unmatched |-> Cardinality(Calls) - Cardinality(matched),
      unresolved |-> Cardinality(unresolved),
      unmatchedExamples |->
        Shown(CallPlaces({c \in Calls : LocalKey(c) \notin matched})),
      unresolvedExamples |-> Shown(IssuePlaces(unresolved))]

\* run_export, with the counts of the manifest.
Snapshot ==
  [files |-> ExportFiles, entities |-> ExportEntities,
   relations |-> ExportRelations, issues |-> issues,
   diagnostics |-> ExportDiagnostics,
   entityCount |-> Cardinality(entities), relationCount |-> Cardinality(relations)]

\* build_canonical_entity_keys: the keys that the evaluation computes for the
\* rows of the database.
CanonicalKeys == [e \in entities |-> StableKey(e)]

\* Rule 5 of validate_against_snapshot.py: the key of an exported entity is
\* the one of what was exported with it.
KeyRecomputed(x) == StableKey(x) = x.key

-----------------------------------------------------------------------------
(* scan_pilot_repo.py                                                      *)

\* The report after a scan, which queries the tables a third time and counts
\* relations where the others count calls.
PilotReport ==
  LET matched == {r \in relations : /\ r.type = "REQUESTS_API"
                                    /\ r.source \in {LocalKey(e) : e \in Calls}}
  IN [languages |-> GroupedCounts([f \in files |-> Languages[f.ext]]),
      entityTypes |-> GroupedCounts([e \in entities |-> e.type]),
      relationTypes |-> GroupedCounts([r \in relations |-> r.type]),
      problems |-> GroupedCounts([i \in issues |-> <<i.type, i.reason>>]),
      matched |-> Cardinality(matched),
      unmatched |-> Cardinality(Calls) - Cardinality(matched)]

-----------------------------------------------------------------------------
(* Properties                                                              *)

\* What the project page shows adds up: every file of the tree is counted as
\* read or as skipped, every request that a parser saw is counted once, as a
\* call that reaches a route, as one that reaches none, or as unresolved; the
\* examples are of the kind they stand for; and the three reporters that
\* query the tables on their own, IndexService, the export and the script
\* that scans the pilot repository, say the same, but that the last counts a
\* call that reaches two routes twice (get_stats,
\* get_frontend_request_diagnostics, export_frontend_diagnostics, main of
\* scan_pilot_repo.py).
ReportsAddUp ==
  stage = "ready" =>
    /\ Stats.files + Stats.skipped = Cardinality(Discovered)
    /\ Stats.frontendCalls = Diagnostics.identified
    /\ Diagnostics.identified + Diagnostics.unresolved =
         Cardinality(UNION {Parsed(f).requests : f \in {g \in files : ~g.raises}})
    /\ Diagnostics.unmatched =
         Cardinality({e \in Calls : \A route \in OfType(entities, "backend_api") :
                        route.path # e.path \/ route.verb \notin {e.verb, "ANY"}})
    /\ Len(Diagnostics.unmatchedExamples) = Min({Examples, Diagnostics.unmatched})
    /\ \A i \in DOMAIN Diagnostics.unmatchedExamples :
         \A l \in LinksOf("REQUESTS_API") :
           l.from # Diagnostics.unmatchedExamples[i]
    /\ ExportDiagnostics = Diagnostics
    /\ PilotReport.entityTypes = Stats.entityTypes
    /\ (\A k, l \in LinksOf("REQUESTS_API") : k.from = l.from => k = l) =>
         PilotReport.unmatched = Diagnostics.unmatched

\* In a snapshot a stable key stands for one row, whatever the tree: for
\* overloads, for routes of one method and for equal names in several files
\* it differs, and only two files whose paths differ in nothing but case share
\* keys.  The relations of a snapshot end in its keys, one for each row, and
\* the evaluation and the validator compute the very keys that the snapshot
\* has (compute_stable_key, the unique entity_key of a project, run_export).
SnapshotIdentifies ==
  stage = "ready" =>
    /\ \A e, g \in entities : e # g /\ CanonicalKeys[e] = CanonicalKeys[g] =>
         e.file # g.file /\ Folded[e.file] = Folded[g.file]
    /\ {r.source : r \in Snapshot.relations} \cup {r.target : r \in Snapshot.relations}
         \subseteq {x.key : x \in Snapshot.entities}
    /\ {x.key : x \in Snapshot.entities} = {CanonicalKeys[e] : e \in entities}
    /\ \A x \in Snapshot.entities : KeyRecomputed(x)
    /\ Cardinality(Snapshot.entities) = Snapshot.entityCount
    /\ (\A f, g \in files : Folded[f.id] = Folded[g.id] => f = g) =>
         Cardinality(Snapshot.relations) = Snapshot.relationCount
=============================================================================

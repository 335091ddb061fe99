-------------------------- MODULE RetrievalRunProofs --------------------------
(***************************************************************************)
(* Theorems about RetrievalRun, for any schedule, any number of settings   *)
(* and of invocations.                                                     *)
(***************************************************************************)
EXTENDS RetrievalRun, AscendingProofs

Scheduled == ToSet(Schedule)
Rewritings == Texts \cup {Original}
Collections == [of : Settings \cup {None}, points : {"absent", "partial", "full"}]
Records == [key : Scheduled, ok : BOOLEAN, text : Rewritings, of : Settings,
            index : Collections]
Statuses == {"absent", "running", "failed", "none", "completed", "smoke_completed",
             "build_completed"}
Builts == {"none", "in_progress", "completed"}
Metadata == [status : Statuses, of : Settings \cup {None}, build : Builts,
             written : Nat, pending : Nat]

-----------------------------------------------------------------------------
(* Sequences of records.                                                   *)

Distinct(records) ==
  \A i, j \in DOMAIN records : records[i].key = records[j].key => i = j

\* What a sequence of records is after others were appended to it.
LEMMA Grown ==
  ASSUME NEW T, NEW s \in Seq(T), NEW u \in Seq(T)
  PROVE  /\ s \o u \in Seq(T)
         /\ Len(s \o u) = Len(s) + Len(u)
         /\ \A i \in DOMAIN s : (s \o u)[i] = s[i]
         /\ \A i \in DOMAIN (s \o u) : i \notin DOMAIN s =>
              i - Len(s) \in DOMAIN u /\ (s \o u)[i] = u[i - Len(s)]
         /\ ToSet(s \o u) = ToSet(s) \cup ToSet(u)
         /\ IsPrefix(s, s \o u)
<1> DEFINE r == s \o u
<1>1. r \in Seq(T) /\ Len(r) = Len(s) + Len(u)
  OBVIOUS
<1>2. /\ DOMAIN s = 1..Len(s) /\ DOMAIN u = 1..Len(u) /\ DOMAIN r = 1..Len(r)
      /\ Len(s) \in Nat /\ Len(u) \in Nat
  BY <1>1
<1>3. \A i \in DOMAIN s : i \in DOMAIN r /\ r[i] = s[i]
  BY <1>1, <1>2
<1>4. \A i \in DOMAIN r : i \notin DOMAIN s =>
        i - Len(s) \in DOMAIN u /\ r[i] = u[i - Len(s)]
  BY <1>1, <1>2
<1>5. \A j \in DOMAIN u : j + Len(s) \in DOMAIN r /\ r[j + Len(s)] = u[j]
  BY <1>1, <1>2
<1>6. ToSet(r) = ToSet(s) \cup ToSet(u)
  <2> HIDE DEF r
  <2>1. \A x \in ToSet(r) : x \in ToSet(s) \cup ToSet(u)
    BY <1>4, <1>3 DEF ToSet
  <2>2. \A x \in ToSet(s) : x \in ToSet(r)
    BY <1>3 DEF ToSet
  <2>3. \A x \in ToSet(u) : x \in ToSet(r)
    BY <1>5 DEF ToSet
  <2>4. QED
    BY <2>1, <2>2, <2>3
<1>7. SubSeq(s, 1, Len(s)) = SubSeq(r, 1, Len(s))
  <2>1. SubSeq(s, 1, Len(s)) = [i \in 1..Len(s) |-> s[i]]
    BY <1>2
  <2>2. SubSeq(r, 1, Len(s)) = [i \in 1..Len(s) |-> r[i]]
    BY <1>1, <1>2
  <2>3. QED
    BY <1>2, <1>3, <2>1, <2>2
<1>8. IsPrefix(s, r)
  BY <1>1, <1>2, <1>7 DEF IsPrefix
<1>9. QED
  BY <1>1, <1>3, <1>4, <1>6, <1>8

\* Records of different keys are as many as their keys.
LEMMA DistinctCount ==
  ASSUME NEW records \in Seq(Records), Distinct(records)
  PROVE  Cardinality(Keys(records)) = Len(records)
<1> DEFINE D == DOMAIN records
           f == [i \in D |-> records[i].key]
<1>1. D = 1..Len(records) /\ Len(records) \in Nat
  OBVIOUS
<1>2. Keys(records) = {records[i].key : i \in D}
  BY DEF Keys, ToSet
<1>3. f \in [D -> Keys(records)]
  BY <1>2
<1>4. \A i, j \in D : f[i] = f[j] => i = j
  BY DEF Distinct
<1>5. \A k \in Keys(records) : \E i \in D : f[i] = k
  BY <1>2
<1>6. IsFiniteSet(D) /\ Cardinality(D) = Len(records)
  <2>1. 0 \in Int /\ 1 \in Int /\ Len(records) \in Int
    BY <1>1
  <2>2. /\ IsFiniteSet(1..Len(records))
        /\ Cardinality(1..Len(records)) =
             IF 1 > Len(records) THEN 0 ELSE Len(records) - 1 + 1
    BY <2>1, FS_Interval
  <2>3. QED
    BY <1>1, <2>2
<1> HIDE DEF f, D
<1>7. f \in Bijection(D, Keys(records))
  BY <1>3, <1>4, <1>5, Fun_IsBij
<1>8. ExistsBijection(D, Keys(records))
  BY <1>7 DEF ExistsBijection
<1>9. QED
  BY <1>6, <1>8, FS_Bijection

\* One record more, of a new key.
LEMMA DistinctAppended ==
  ASSUME NEW s \in Seq(Records), Distinct(s), NEW r \in Records, r.key \notin Keys(s)
  PROVE  /\ Append(s, r) = s \o <<r>>
         /\ <<r>> \in Seq(Records) /\ Len(<<r>>) = 1 /\ ToSet(<<r>>) = {r}
         /\ Distinct(Append(s, r))
<1>1. Append(s, r) = s \o <<r>> /\ <<r>> \in Seq(Records) /\ Len(<<r>>) = 1
  OBVIOUS
<1>2. ToSet(<<r>>) = {r}
  BY DEF ToSet
<1>3. \A i \in DOMAIN s : s[i].key # r.key
  BY DEF Keys, ToSet
<1>4. \A i \in DOMAIN Append(s, r) :
        \/ i \in DOMAIN s /\ Append(s, r)[i] = s[i]
        \/ i = Len(s) + 1 /\ Append(s, r)[i] = r
  OBVIOUS
<1>5. Distinct(Append(s, r))
  BY <1>3, <1>4 DEF Distinct
<1>6. QED
  BY <1>1, <1>2, <1>5

\* Nor do records of two sequences that have no key in common.
LEMMA DistinctJoined ==
  ASSUME NEW s \in Seq(Records), NEW u \in Seq(Records), Distinct(s), Distinct(u),
         \A r \in ToSet(u) : r.key \notin Keys(s)
  PROVE  Distinct(s \o u)
<1> DEFINE v == s \o u
<1>1. /\ \A i \in DOMAIN s : v[i] = s[i]
      /\ \A i \in DOMAIN v : i \notin DOMAIN s =>
           i - Len(s) \in DOMAIN u /\ v[i] = u[i - Len(s)]
  BY Grown
<1>2. \A i \in DOMAIN s, j \in DOMAIN u : s[i].key # u[j].key
  BY DEF Keys, ToSet
<1>3. DOMAIN v \in SUBSET Nat /\ Len(s) \in Nat
  OBVIOUS
<1> HIDE DEF v
<1>4. SUFFICES ASSUME NEW i \in DOMAIN v, NEW j \in DOMAIN v, v[i].key = v[j].key
               PROVE  i = j
  BY DEF Distinct, v
<1>5. CASE i \in DOMAIN s
  <2>1. j \in DOMAIN s
    BY <1>1, <1>2, <1>4, <1>5
  <2>2. QED
    BY <1>1, <1>4, <1>5, <2>1 DEF Distinct
<1>6. CASE i \notin DOMAIN s
  <2>1. j \notin DOMAIN s
    BY <1>1, <1>2, <1>4, <1>6
  <2>2. i - Len(s) = j - Len(s)
    BY <1>1, <1>4, <1>6, <2>1 DEF Distinct
  <2>3. QED
    BY <1>3, <2>2
<1>7. QED
  BY <1>5, <1>6

\* A part of a sequence of records has each of its records once.
LEMMA DistinctPart ==
  ASSUME NEW s \in Seq(Records), Distinct(s), NEW I \in SUBSET DOMAIN s
  PROVE  /\ SubSequence(s, I) \in Seq(Records)
         /\ Distinct(SubSequence(s, I))
         /\ \A r \in ToSet(SubSequence(s, I)) : \E i \in I : r = s[i]
<1> DEFINE u == SubSequence(s, I)
<1>1. I \in SUBSET Nat /\ IsFiniteSet(I)
  <2>1. DOMAIN s = 1..Len(s) /\ Len(s) \in Nat
    OBVIOUS
  <2>2. IsFiniteSet(1..Len(s))
    BY <2>1, FS_Interval
  <2>3. QED
    BY <2>1, <2>2, FS_Subset
<1>2. /\ Cardinality(I) \in Nat
      /\ Ascending(I) \in [1..Cardinality(I) -> I]
  BY <1>1, AscendingOrder
<1>3. DOMAIN u = 1..Cardinality(I) /\ \A k \in DOMAIN u : u[k] = s[Ascending(I)[k]]
  BY DEF SubSequence
<1>4. ASSUME NEW k \in DOMAIN u, NEW l \in DOMAIN u, u[k].key = u[l].key
      PROVE  k = l
  <2>1. Ascending(I)[k] \in I /\ Ascending(I)[l] \in I
    BY <1>2, <1>3
  <2>2. Ascending(I)[k] = Ascending(I)[l]
    BY <1>3, <1>4, <2>1 DEF Distinct
  <2>3. ~ (Ascending(I)[k] < Ascending(I)[l]) /\ ~ (Ascending(I)[l] < Ascending(I)[k])
    BY <1>1, <2>1, <2>2
  <2>4. ~ (k < l) /\ ~ (l < k)
    BY <1>1, <1>3, <2>3, AscendingSorted
  <2>5. QED
    BY <1>2, <1>3, <2>4
<1>5. \A r \in ToSet(u) : \E i \in I : r = s[i]
  BY <1>2, <1>3 DEF ToSet
<1>6. QED
  BY <1>4, <1>5, SubSequenceType DEF Distinct

-----------------------------------------------------------------------------
(* The invariant.                                                          *)

RunTypes ==
  /\ setting \in Settings /\ collection \in Collections /\ foreign \in BOOLEAN
  /\ meta \in Metadata /\ previous \in Metadata
  /\ output \in Seq(Records) /\ temp \in Seq(Records)
  /\ cache \in [Settings -> [Questions -> Rewritings \cup {None}]]
  /\ pending \in [Settings -> Nat]
  /\ phase \in {"off", "build", "run", "all", "smoke"}
  /\ pc \in {"off", "index", "embed", "delete", "fill", "filling", "built", "case",
             "promote", "finish", "failed"}
  /\ phase = "off" <=> pc = "off"
  /\ pc = "promote" => phase = "smoke"
  /\ phase # "smoke" => temp = <<>>

\* The files of a run have one identity, which is that of the process.
OneIdentity ==
  /\ \E s \in Settings : Identity(output, s)
  /\ phase # "off" => Identity(output, setting) /\ Identity(temp, setting)
  /\ previous.build = "completed" => phase # "off" /\ previous.of = setting
  /\ phase # "off" /\ meta.build = "completed" => meta.of = setting

\* No key is written twice, and the count in the metadata is never ahead.
OneRecordEach ==
  /\ Distinct(output) /\ Distinct(temp)
  /\ meta.written <= Len(output)

\* A record that rewrites has what the cache says and always will.
TextsKept ==
  \A r \in ToSet(output) \cup ToSet(temp) :
    Rewritten(r.key) => r.text = cache[r.of][r.key[1]]

RunInv == RunTypes /\ OneIdentity /\ OneRecordEach /\ TextsKept

\* A complete collection is of the inputs that the metadata names, also where
\* an older build of it is remembered.
WholeCollection ==
  /\ collection.points = "full" =>
       /\ meta.build = "completed" => collection.of = meta.of
       /\ previous.build = "completed" => collection.of = setting
  /\ pc \in {"embed", "delete", "fill", "filling", "built"} =>
       meta.build = "in_progress"
  /\ pc = "filling" => collection = [of |-> setting, points |-> "partial"]
  /\ pc \in {"built", "case", "promote", "finish"} =>
       collection = [of |-> setting, points |-> "full"]

\* And no record is of any other.
WholeIndexes ==
  /\ WholeCollection
  /\ \A r \in ToSet(output) \cup ToSet(temp) :
       r.index = [of |-> r.of, points |-> "full"]

IndexInv == RunInv /\ (~foreign => WholeIndexes)

-----------------------------------------------------------------------------
(* The metadata and the records that the steps write.                      *)

\* Metadata m has the identity of the inputs and the number of the records.
Accounts(m) ==
  /\ m \in Metadata
  /\ m.of = setting
  /\ m.written = Len(output)

\* Metadata is written with the identity of the inputs and the exact count.
LEMMA MergedMetadata ==
  ASSUME RunTypes, NEW status \in Statuses, NEW build \in Builts
  PROVE  /\ Merged(status, build) \in Metadata
         /\ Merged(status, build).status = status
         /\ Merged(status, build).of = setting
         /\ Merged(status, build).written = Len(output)
         /\ Merged(status, build).pending = pending[setting]
         /\ build # "none" => Merged(status, build).build = build
         /\ build = "none" => Merged(status, build).build = previous.build
<1>1. previous.build \in Builts /\ pending[setting] \in Nat /\ Len(output) \in Nat
  BY DEF RunTypes, Metadata
<1>2. QED
  BY <1>1 DEF Merged, Metadata, RunTypes

\* What is written accounts for the output as it stands.
LEMMA MergedAccounts ==
  ASSUME RunTypes, NEW status \in Statuses, NEW build \in Builts
  PROVE  Accounts(Merged(status, build))
BY ONLY RunTypes, MergedMetadata, status \in Statuses, build \in Builts DEF Accounts

\* The next key is planned, and the output that it is written to lacks it.
LEMMA NextKeyPlanned ==
  ASSUME Remaining # {}
  PROVE  NextKey \in Scheduled /\ NextKey \notin Keys(Target)
<1>1. Planned \in Seq(Scheduled)
  BY RunAssumption DEF Planned, Scheduled
<1>2. Remaining \in SUBSET Nat /\ Remaining \in SUBSET DOMAIN Planned
  BY <1>1 DEF Remaining
<1>3. PICK m \in Remaining : \A i \in Remaining : m <= i
  BY <1>2, SmallestExists
<1>4. Min(Remaining) \in Remaining
  BY <1>3 DEF Min
<1>5. Planned[Min(Remaining)] \notin Keys(Target)
  BY <1>4 DEF Remaining
<1>6. PICK i \in DOMAIN Planned : i = Min(Remaining)
  BY <1>2, <1>4
<1>7. Planned[i] \in Scheduled
  BY <1>1
<1>8. QED
  BY <1>5, <1>6, <1>7 DEF NextKey

\* A record is written with a text, the inputs and the collection as they are.
LEMMA RecordType ==
  ASSUME RunTypes, NEW k \in Scheduled, Text(k) # None, NEW ok \in BOOLEAN
  PROVE  /\ CaseRecord(k, ok) \in Records
         /\ CaseRecord(k, ok).key = k /\ CaseRecord(k, ok).of = setting
         /\ CaseRecord(k, ok).index = collection
         /\ Rewritten(k) => CaseRecord(k, ok).text = cache[setting][k[1]]
<1>1. k[1] \in Questions
  BY DEF Questions, Scheduled
<1>2. Text(k) \in Rewritings
  <2>1. CASE Rewritten(k)
    BY <1>1, <2>1 DEF Text, RunTypes
  <2>2. CASE ~Rewritten(k)
    BY <2>2 DEF Text, Rewritings
  <2>3. QED
    BY <2>1, <2>2
<1>3. CaseRecord(k, ok) \in Records
  BY <1>2 DEF CaseRecord, Records, RunTypes
<1>4. QED
  BY <1>3 DEF CaseRecord, Text

\* What joins an output: the records of one identity stay of one identity.
LEMMA JoinedRecords ==
  ASSUME NEW s \in Seq(Records), NEW u \in Seq(Records), NEW v,
         Identity(s, v), \A r \in ToSet(u) : r.of = v
  PROVE  Identity(s \o u, v)
<1>1. ToSet(s \o u) = ToSet(s) \cup ToSet(u)
  BY Grown
<1>2. \A r \in ToSet(s \o u) : r.of = v
  BY <1>1 DEF Identity, ToSet
<1>3. QED
  BY <1>2 DEF Identity, ToSet

-----------------------------------------------------------------------------
(* The steps of RunInv.                                                    *)

\* Steps that write neither records nor rewritings, and no metadata or whole
\* metadata of this process.
LEMMA ControlStep ==
  ASSUME RunInv, RunTypes', UNCHANGED <<output, cache>>,
         temp' \in {temp, <<>>},
         phase' # "off" => UNCHANGED setting,
         phase' # "off" => phase # "off" \/ Identity(output, setting),
         previous'.build = "completed" => phase' # "off" /\ previous'.of = setting',
         phase' # "off" /\ meta'.build = "completed" => meta'.of = setting',
         meta'.written <= Len(output)
  PROVE  RunInv'
<1>1. Identity(<<>>, setting') /\ Distinct(<<>>) /\ ToSet(<<>>) = {}
  BY DEF Identity, Distinct, ToSet
<1>2. phase = "off" => temp = <<>>
  BY DEF RunInv, RunTypes
<1>3. phase' # "off" => Identity(output', setting') /\ Identity(temp', setting')
  BY <1>1, <1>2 DEF RunInv, OneIdentity
<1>4. OneIdentity'
  BY <1>3 DEF RunInv, OneIdentity
<1>5. OneRecordEach'
  BY <1>1 DEF RunInv, OneRecordEach
<1>6. TextsKept'
  BY <1>1 DEF RunInv, TextsKept
<1>7. QED
  BY <1>4, <1>5, <1>6 DEF RunInv

\* Announcing, building, reusing and finishing keep the invariant.
LEMMA QuietSteps ==
  ASSUME RunInv,
         \/ \E p \in {"build", "run", "all", "smoke"}, r \in BOOLEAN : Invoke(p, r)
         \/ Announce \/ Reuse \/ BuildStep \/ CheckpointBuild \/ AllEvaluated
         \/ Finish \/ Fail \/ Kill
         \/ ChangeSetting \/ ForeignBuild
  PROVE  RunInv'
<1> USE DEF disk, process, Statuses, Builts
<1>1. RunTypes /\ OneIdentity /\ OneRecordEach
  BY DEF RunInv
<1>2. <<>> \in Seq(Records) /\ Len(output) \in Nat /\ NoMetadata \in Metadata
  BY <1>1 DEF RunTypes, NoMetadata, Metadata
<1>3. ASSUME NEW p \in {"build", "run", "all", "smoke"}, NEW r \in BOOLEAN, Invoke(p, r)
      PROVE  RunInv'
  <2>1. temp = <<>>
    BY <1>1, <1>3 DEF RunTypes, Invoke
  <2>2. RunTypes'
    BY <1>1, <1>3, <2>1 DEF RunTypes, Invoke
  <2>3. meta.build = "completed" => meta.of = setting
    BY <1>3 DEF Invoke, NoMetadata
  <2>4. QED
    BY <1>1, <1>3, <2>2, <2>3, ControlStep DEF Invoke, OneRecordEach
<1>4. CASE Announce
  <2>1. phase # "off"
    BY <1>1, <1>4 DEF RunTypes, Announce
  <2>2. meta' \in Metadata /\ meta'.of = setting /\ meta'.written = Len(output)
    BY <1>1, <1>4, MergedMetadata DEF Announce
  <2>3. RunTypes'
    BY <1>1, <1>4, <2>1, <2>2 DEF RunTypes, Announce
  <2>4. QED
    BY <1>1, <1>2, <1>4, <2>1, <2>2, <2>3, ControlStep DEF Announce, OneIdentity
<1>5. CASE Reuse \/ AllEvaluated
  <2>1. phase # "off"
    BY <1>1, <1>5 DEF RunTypes, Reuse, AllEvaluated
  <2>2. pc' \in {"finish", "case", "failed", "promote"}
    BY <1>5 DEF Reuse, AllEvaluated, Indexed
  <2>3. pc' = "promote" => phase = "smoke"
    BY <1>5 DEF Reuse, AllEvaluated, Indexed
  <2>4. RunTypes'
    BY <1>1, <1>5, <2>1, <2>2, <2>3 DEF RunTypes, Reuse, AllEvaluated
  <2>5. QED
    BY <1>1, <1>5, <2>1, <2>4, ControlStep
       DEF Reuse, AllEvaluated, OneIdentity, OneRecordEach
<1>6. CASE BuildStep
  <2>1. phase # "off"
    BY <1>1, <1>6 DEF RunTypes, BuildStep
  <2>2. collection' \in Collections
    BY <1>1, <1>6 DEF RunTypes, BuildStep, Collections, NoCollection
  <2>3. RunTypes'
    BY <1>1, <1>6, <2>1, <2>2 DEF RunTypes, BuildStep
  <2>4. QED
    BY <1>1, <1>6, <2>1, <2>3, ControlStep DEF BuildStep, OneIdentity, OneRecordEach
<1>7. CASE CheckpointBuild
  <2>1. phase # "off"
    BY <1>1, <1>7 DEF RunTypes, CheckpointBuild
  <2>2. meta' \in Metadata /\ meta'.of = setting /\ meta'.written = Len(output)
    BY <1>1, <1>7, MergedMetadata DEF CheckpointBuild
  <2>3. RunTypes'
    BY <1>1, <1>7, <2>1, <2>2 DEF RunTypes, CheckpointBuild, Indexed
  <2>4. QED
    BY <1>1, <1>2, <1>7, <2>1, <2>2, <2>3, ControlStep DEF CheckpointBuild
<1>8. CASE Finish \/ Fail
  <2>1. phase # "off"
    BY <1>1, <1>8 DEF RunTypes, Finish, Fail
  <2>2. meta' \in Metadata /\ meta'.of = setting /\ meta'.written = Len(output)
    <3>1. CASE Finish
      <4>1. PhaseStatus \in Statuses
        BY <1>1, <2>1 DEF PhaseStatus, RunTypes, Statuses
      <4>2. PICK status \in Statuses : status = PhaseStatus
        BY <4>1
      <4>3. PICK build \in Builts : build = "completed"
        BY DEF Builts
      <4>4. meta' = Merged(status, build)
        BY <3>1, <4>2, <4>3 DEF Finish
      <4>5. Accounts(Merged(status, build))
        BY ONLY <1>1, status \in Statuses, build \in Builts, MergedAccounts
      <4>6. QED
        BY ONLY <4>4, <4>5 DEF Accounts
    <3>2. CASE Fail
      BY <1>1, <3>2, MergedMetadata DEF Fail
    <3>3. QED
      BY <1>8, <3>1, <3>2
  <2>3. RunTypes'
    BY <1>1, <1>2, <1>8, <2>2 DEF RunTypes, Finish, Fail, Off
  <2>4. QED
    BY <1>1, <1>2, <1>8, <2>1, <2>2, <2>3, ControlStep DEF Finish, Fail, Off, NoMetadata
<1>9. CASE Kill
  <2>1. pending' \in [Settings -> Nat]
    <3>1. pending[setting] + 1 \in Nat
      BY <1>1 DEF RunTypes
    <3>2. QED
      BY <1>1, <1>9, <3>1 DEF RunTypes, Kill
  <2>2. RunTypes'
    BY <1>1, <1>2, <1>9, <2>1 DEF RunTypes, Kill, Off
  <2>3. QED
    BY <1>1, <1>9, <2>2, ControlStep DEF Kill, Off, NoMetadata, OneRecordEach
<1>10. CASE ChangeSetting
  <2>1. RunTypes'
    BY <1>1, <1>10 DEF RunTypes, ChangeSetting
  <2>2. QED
    BY <1>1, <1>10, <2>1, ControlStep DEF ChangeSetting, OneIdentity, OneRecordEach
<1>11. CASE ForeignBuild
  <2>1. RunTypes'
    BY <1>1, <1>11 DEF RunTypes, ForeignBuild, Collections
  <2>2. QED
    BY <1>1, <1>11, <2>1, ControlStep DEF ForeignBuild, OneIdentity, OneRecordEach
<1>12. QED
  BY <1>3, <1>4, <1>5, <1>6, <1>7, <1>8, <1>9, <1>10, <1>11

\* Files that are moved away leave nothing that the invariant is about.
LEMMA DiscardStep ==
  ASSUME RunInv, Discard
  PROVE  RunInv'
<1> USE DEF process, Statuses, Builts
<1>1. /\ Identity(<<>>, setting) /\ Distinct(<<>>) /\ ToSet(<<>>) = {}
      /\ Len(<<>>) = 0 /\ <<>> \in Seq(Records)
  BY DEF Identity, Distinct, ToSet
<1>2. NoMetadata \in Metadata /\ NoMetadata.written = 0 /\ Len(output) \in Nat
  BY DEF NoMetadata, Metadata, RunInv, RunTypes
<1>3. RunTypes'
  BY <1>1, <1>2 DEF Discard, RunInv, RunTypes
<1>4. setting \in Settings
  BY DEF RunInv, RunTypes
<1>5. OneIdentity'
  BY <1>1, <1>4 DEF Discard, RunInv, OneIdentity
<1>6. OneRecordEach'
  BY <1>1, <1>2 DEF Discard, RunInv, OneRecordEach
<1>7. TextsKept'
  BY <1>1 DEF Discard, RunInv, TextsKept
<1>8. QED
  BY <1>3, <1>5, <1>6, <1>7 DEF RunInv

\* A rewriting is stored where there was none, and no record has that place.
LEMMA RewriteStep ==
  ASSUME RunInv, Rewrite
  PROVE  RunInv'
<1> USE DEF process
<1>1. RunTypes /\ OneIdentity /\ OneRecordEach /\ TextsKept /\ phase # "off"
  BY DEF RunInv, RunTypes, Rewrite
<1>2. CASE UNCHANGED cache
  <2>1. RunTypes' /\ phase # "off"
    BY <1>1, <1>2 DEF Rewrite, RunTypes
  <2>2. QED
    BY <1>1, <1>2, <2>1, ControlStep DEF Rewrite, OneIdentity, OneRecordEach
<1>3. ASSUME NEW t \in Rewritings,
             LET k == NextKey IN cache' = [cache EXCEPT ![setting][k[1]] = t],
             UNCHANGED pc
      PROVE  RunInv'
  <2>1. PICK k \in Scheduled : /\ k = NextKey /\ Text(k) = None
                               /\ cache' = [cache EXCEPT ![setting][k[1]] = t]
    BY <1>3, NextKeyPlanned DEF Rewrite
  <2>2. k[1] \in Questions /\ setting \in Settings
    BY <1>1 DEF Questions, Scheduled, RunTypes
  <2>3. cache[setting][k[1]] = None
    BY <2>1, RunAssumption DEF Text
  <2>4. /\ cache' \in [Settings -> [Questions -> Rewritings \cup {None}]]
        /\ \A s \in Settings, q \in Questions :
             (s # setting \/ q # k[1]) => cache'[s][q] = cache[s][q]
    BY <1>1, <2>1, <2>2 DEF RunTypes
  <2>5. RunTypes'
    BY <1>1, <1>3, <2>4 DEF RunTypes, Rewrite
  <2>6. OneIdentity' /\ OneRecordEach'
    BY <1>1, <1>3 DEF OneIdentity, OneRecordEach, Rewrite
  <2>7. TextsKept'
    <3>1. SUFFICES ASSUME NEW r \in ToSet(output) \cup ToSet(temp), Rewritten(r.key)
                   PROVE  r.text = cache'[r.of][r.key[1]]
      BY DEF TextsKept, Rewrite
    <3>2. r \in Records
      BY <1>1 DEF RunTypes, ToSet
    <3>3. r.of \in Settings /\ r.key[1] \in Questions /\ r.text # None
      BY <3>2, RunAssumption DEF Records, Questions, Scheduled, Rewritings
    <3>4. r.text = cache[r.of][r.key[1]]
      BY <1>1, <3>1 DEF TextsKept
    <3>5. r.of # setting \/ r.key[1] # k[1]
      BY <2>3, <3>3, <3>4
    <3>6. QED
      BY <2>4, <3>3, <3>4, <3>5
  <2>8. QED
    BY <2>5, <2>6, <2>7 DEF RunInv
<1>4. QED
  <2>1. \/ UNCHANGED cache
        \/ \E t \in Rewritings : /\ cache' = [cache EXCEPT ![setting][NextKey[1]] = t]
                                 /\ UNCHANGED pc
    BY DEF Rewrite, Rewritings
  <2>2. QED
    BY <1>2, <1>3, <2>1

\* Records of new keys join the output, or the isolated output.
LEMMA JoinStep ==
  ASSUME RunInv, phase # "off", NEW u \in Seq(Records), Distinct(u),
         \A r \in ToSet(u) : /\ r.of = setting
                             /\ Rewritten(r.key) => r.text = cache[r.of][r.key[1]],
         \/ /\ output' = output \o u /\ UNCHANGED temp
            /\ \A r \in ToSet(u) : r.key \notin Keys(output)
         \/ /\ temp' = temp \o u /\ UNCHANGED output /\ phase = "smoke"
            /\ \A r \in ToSet(u) : r.key \notin Keys(temp),
         pc' \in {"case", "finish"},
         UNCHANGED <<setting, collection, foreign, meta, cache, pending, phase,
                     previous>>
  PROVE  RunInv'
<1>1. RunTypes /\ OneIdentity /\ OneRecordEach /\ TextsKept
  BY DEF RunInv
<1>2. output \in Seq(Records) /\ temp \in Seq(Records) /\ setting \in Settings
  BY <1>1 DEF RunTypes
<1>3. /\ Identity(output, setting) /\ Identity(temp, setting)
      /\ Distinct(output) /\ Distinct(temp)
  BY <1>1 DEF OneIdentity, OneRecordEach
<1>4. /\ output' \in Seq(Records) /\ temp' \in Seq(Records)
      /\ ToSet(output') \cup ToSet(temp') = ToSet(output) \cup ToSet(temp) \cup ToSet(u)
      /\ Len(output') >= Len(output)
      /\ Identity(output', setting) /\ Identity(temp', setting)
      /\ Distinct(output') /\ Distinct(temp')
  <2>1. CASE /\ output' = output \o u /\ UNCHANGED temp
             /\ \A r \in ToSet(u) : r.key \notin Keys(output)
    <3>1. /\ output \o u \in Seq(Records)
          /\ ToSet(output \o u) = ToSet(output) \cup ToSet(u)
          /\ Len(output \o u) = Len(output) + Len(u)
      BY <1>2, Grown
    <3>2. Identity(output \o u, setting)
      BY <1>2, <1>3, JoinedRecords
    <3>3. Distinct(output \o u)
      BY <1>2, <1>3, <2>1, DistinctJoined
    <3>4. QED
      BY <1>2, <1>3, <2>1, <3>1, <3>2, <3>3
  <2>2. CASE /\ temp' = temp \o u /\ UNCHANGED output
             /\ \A r \in ToSet(u) : r.key \notin Keys(temp)
    <3>1. /\ temp \o u \in Seq(Records)
          /\ ToSet(temp \o u) = ToSet(temp) \cup ToSet(u)
      BY <1>2, Grown
    <3>2. Identity(temp \o u, setting)
      BY <1>2, <1>3, JoinedRecords
    <3>3. Distinct(temp \o u)
      BY <1>2, <1>3, <2>2, DistinctJoined
    <3>4. QED
      BY <1>2, <1>3, <2>2, <3>1, <3>2, <3>3
  <2>3. QED
    BY <2>1, <2>2
<1>5. RunTypes'
  BY <1>1, <1>4 DEF RunTypes
<1>6. OneIdentity'
  BY <1>1, <1>2, <1>4 DEF OneIdentity
<1>7. OneRecordEach'
  <2>1. meta.written \in Nat /\ Len(output) \in Nat /\ Len(output') \in Nat
    BY <1>1, <1>4 DEF RunTypes, Metadata
  <2>2. QED
    BY <1>1, <1>4, <2>1 DEF OneRecordEach
<1>8. TextsKept'
  BY <1>1, <1>4 DEF TextsKept
<1>9. QED
  BY <1>5, <1>6, <1>7, <1>8 DEF RunInv

\* What one evaluation appends.
LEMMA EvaluateAppends ==
  ASSUME RunInv, Evaluate, output' # output \/ temp' # temp
  PROVE  \E r \in Records :
           /\ r.of = setting /\ r.index = collection
           /\ Rewritten(r.key) => r.text = cache[setting][r.key[1]]
           /\ r.key \notin Keys(Target)
           /\ phase = "smoke" => temp' = Append(temp, r) /\ UNCHANGED output
           /\ phase # "smoke" => output' = Append(output, r) /\ UNCHANGED temp
           /\ pc' = "case"
<1>1. RunTypes /\ pc = "case"
  BY DEF RunInv, Evaluate
<1>2. PICK k \in Scheduled : k = NextKey /\ k \notin Keys(Target)
  BY NextKeyPlanned DEF Evaluate
<1>3. Text(k) # None
  BY <1>2 DEF Evaluate
<1>4. PICK ok \in BOOLEAN :
        /\ phase = "smoke" => temp' = Append(temp, CaseRecord(k, ok)) /\ UNCHANGED output
        /\ phase # "smoke" => output' = Append(output, CaseRecord(k, ok)) /\ UNCHANGED temp
        /\ pc' = "case"
  BY <1>1, <1>2 DEF Evaluate
<1>5. /\ CaseRecord(k, ok) \in Records
      /\ CaseRecord(k, ok).key = k /\ CaseRecord(k, ok).of = setting
      /\ CaseRecord(k, ok).index = collection
      /\ Rewritten(k) => CaseRecord(k, ok).text = cache[setting][k[1]]
  BY <1>1, <1>3, RecordType
<1>6. QED
  BY <1>2, <1>4, <1>5

\* An evaluation appends one record of a key that was missing.
LEMMA EvaluateStep ==
  ASSUME RunInv, Evaluate
  PROVE  RunInv'
<1> USE DEF process
<1>1. RunTypes /\ OneIdentity /\ OneRecordEach /\ phase # "off"
  BY DEF RunInv, RunTypes, Evaluate
<1>2. CASE UNCHANGED <<output, temp>>
  <2>1. pc' \in {"case", "failed"}
    BY DEF Evaluate
  <2>2. RunTypes'
    BY <1>1, <1>2, <2>1 DEF Evaluate, RunTypes
  <2>3. QED
    BY <1>1, <1>2, <2>2, ControlStep DEF Evaluate, OneIdentity, OneRecordEach
<1>3. CASE output' # output \/ temp' # temp
  <2>1. PICK r \in Records :
           /\ r.of = setting
           /\ Rewritten(r.key) => r.text = cache[setting][r.key[1]]
           /\ r.key \notin Keys(Target)
           /\ phase = "smoke" => temp' = Append(temp, r) /\ UNCHANGED output
           /\ phase # "smoke" => output' = Append(output, r) /\ UNCHANGED temp
           /\ pc' = "case"
    BY <1>3, EvaluateAppends
  <2>2. output \in Seq(Records) /\ temp \in Seq(Records)
    BY <1>1 DEF RunTypes
  <2>3. PICK u \in Seq(Records) :
          /\ ToSet(u) = {r} /\ Distinct(u)
          /\ Append(output, r) = output \o u /\ Append(temp, r) = temp \o u
    <3>1. /\ <<r>> \in Seq(Records) /\ ToSet(<<r>>) = {r} /\ Distinct(<<r>>)
          /\ Append(output, r) = output \o <<r>> /\ Append(temp, r) = temp \o <<r>>
      BY <2>2 DEF ToSet, Distinct
    <3>2. QED
      BY <3>1
  <2>4. /\ \A x \in ToSet(u) : /\ x.of = setting
                               /\ Rewritten(x.key) => x.text = cache[x.of][x.key[1]]
        /\ \A x \in ToSet(u) : x.key \notin Keys(Target)
    BY <2>1, <2>3
  <2>5. /\ pc' \in {"case", "finish"}
        /\ UNCHANGED <<setting, collection, foreign, meta, cache, pending, phase,
                       previous>>
    BY <2>1 DEF Evaluate
  <2>6. \/ /\ output' = output \o u /\ UNCHANGED temp
           /\ \A x \in ToSet(u) : x.key \notin Keys(output)
        \/ /\ temp' = temp \o u /\ UNCHANGED output /\ phase = "smoke"
           /\ \A x \in ToSet(u) : x.key \notin Keys(temp)
    BY <2>1, <2>3, <2>4 DEF Target
  <2>7. QED
    BY <1>1, <2>3, <2>4, <2>5, <2>6, JoinStep
<1>4. QED
  BY <1>2, <1>3

\* What a probe without a failed record brings to the output.
LEMMA PromotePart ==
  ASSUME RunInv, pc = "promote", \A r \in ToSet(temp) : r.ok,
         output' = output \o
           SubSequence(temp, {i \in DOMAIN temp : temp[i].key \notin Keys(output)})
  PROVE  \E u \in Seq(Records) :
           /\ Distinct(u)
           /\ \A r \in ToSet(u) : /\ r \in ToSet(temp)
                                  /\ r.ok /\ r.of = setting
                                  /\ Rewritten(r.key) => r.text = cache[r.of][r.key[1]]
           /\ output' = output \o u
           /\ \A r \in ToSet(u) : r.key \notin Keys(output)
<1> DEFINE I == {i \in DOMAIN temp : temp[i].key \notin Keys(output)}
<1>1. RunTypes /\ OneIdentity /\ OneRecordEach /\ TextsKept
  BY DEF RunInv
<1>2. phase # "off" /\ temp \in Seq(Records) /\ Distinct(temp) /\ Identity(temp, setting)
  BY <1>1 DEF RunTypes, OneIdentity, OneRecordEach
<1>3. I \in SUBSET DOMAIN temp
  OBVIOUS
<1>4. PICK u \in Seq(Records) :
        /\ u = SubSequence(temp, I) /\ Distinct(u)
        /\ \A r \in ToSet(u) : \E i \in I : r = temp[i]
  <2> HIDE DEF I
  <2>1. QED
    BY <1>2, <1>3, DistinctPart
<1>5. ASSUME NEW r \in ToSet(u)
      PROVE  /\ r \in ToSet(temp)
             /\ r.ok /\ r.of = setting
             /\ Rewritten(r.key) => r.text = cache[r.of][r.key[1]]
             /\ r.key \notin Keys(output)
  <2>1. PICK i \in I : r = temp[i]
    BY <1>4
  <2>2. r \in ToSet(temp)
    BY <2>1 DEF ToSet
  <2>3. r.of = setting
    BY <1>2, <2>1 DEF Identity
  <2>4. Rewritten(r.key) => r.text = cache[r.of][r.key[1]]
    BY <1>1, <2>2 DEF TextsKept
  <2>5. QED
    BY <2>1, <2>2, <2>3, <2>4
<1>6. QED
  BY <1>4, <1>5

\* A probe joins the output by the records that it lacks, or not at all.
LEMMA PromoteStep ==
  ASSUME RunInv, Promote
  PROVE  RunInv'
<1> USE DEF process
<1>1. RunTypes /\ OneIdentity /\ OneRecordEach /\ phase # "off"
  BY DEF RunInv, RunTypes, Promote
<1>2. CASE UNCHANGED output /\ pc' = "failed"
  <2>1. RunTypes'
    BY <1>1, <1>2 DEF Promote, RunTypes
  <2>2. QED
    BY <1>1, <1>2, <2>1, ControlStep DEF Promote, OneIdentity, OneRecordEach
<1>3. CASE /\ \A r \in ToSet(temp) : r.ok
           /\ output' = output \o
                SubSequence(temp, {i \in DOMAIN temp : temp[i].key \notin Keys(output)})
           /\ pc' = "finish"
  <2>1. PICK u \in Seq(Records) :
           /\ Distinct(u)
           /\ \A r \in ToSet(u) : /\ r \in ToSet(temp)
                                  /\ r.ok /\ r.of = setting
                                  /\ Rewritten(r.key) => r.text = cache[r.of][r.key[1]]
           /\ output' = output \o u
           /\ \A r \in ToSet(u) : r.key \notin Keys(output)
    BY <1>3, PromotePart DEF Promote
  <2>2. /\ UNCHANGED <<setting, collection, foreign, meta, cache, pending, phase,
                       previous>>
        /\ UNCHANGED temp
    BY DEF Promote
  <2>3. \A r \in ToSet(u) : /\ r.of = setting
                            /\ Rewritten(r.key) => r.text = cache[r.of][r.key[1]]
    BY <2>1
  <2>4. QED
    BY <1>1, <1>3, <2>1, <2>2, <2>3, JoinStep
<1>4. QED
  BY <1>2, <1>3 DEF Promote

\* RunInv is inductive.
LEMMA RunStep ==
  ASSUME RunInv, [Next]_vars
  PROVE  RunInv'
<1>1. CASE UNCHANGED vars
  BY <1>1
     DEF vars, disk, process, RunInv, RunTypes, OneIdentity, OneRecordEach, TextsKept
<1>2. CASE Next
  BY <1>2, QuietSteps, DiscardStep, RewriteStep, EvaluateStep, PromoteStep DEF Next
<1>3. QED
  BY <1>1, <1>2

\* RunInv holds at the start.
LEMMA RunInit ==
  ASSUME Init
  PROVE  RunInv
<1>1. /\ Distinct(<<>>) /\ ToSet(<<>>) = {} /\ <<>> \in Seq(Records) /\ Len(<<>>) = 0
      /\ Identity(<<>>, setting)
  BY DEF Identity, Distinct, ToSet
<1>2. NoMetadata \in Metadata /\ NoMetadata.written = 0 /\ NoMetadata.build = "none"
  BY DEF NoMetadata, Metadata, Statuses, Builts
<1>3. NoCollection \in Collections
  BY DEF NoCollection, Collections
<1>4. RunTypes
  BY <1>1, <1>2, <1>3 DEF Init, RunTypes
<1>5. setting \in Settings
  BY DEF Init
<1>6. QED
  BY <1>1, <1>2, <1>4, <1>5 DEF Init, RunInv, OneIdentity, OneRecordEach, TextsKept

\* RunInv is an invariant.
LEMMA RunInvHolds == Spec => []RunInv
  BY RunInit, RunStep, PTL DEF Spec

-----------------------------------------------------------------------------
(* What the invariant gives.                                               *)

\* The variants are compared on one rewriting of each question: a record holds
\* the entry of the cache, which never changes, under the one identity that the
\* output and the isolated output have in common (DurableRewriteCache).
THEOREM RewritesAreOne == Spec => []OneRewrite
<1>1. RunInv => OneRewrite
  <2>1. SUFFICES ASSUME RunInv,
                        NEW r1 \in ToSet(output) \cup ToSet(temp),
                        NEW r2 \in ToSet(output) \cup ToSet(temp),
                        r1.key[1] = r2.key[1], Rewritten(r1.key), Rewritten(r2.key)
                 PROVE  r1.text = r2.text
    BY DEF OneRewrite
  <2>2. r1.of = r2.of
    <3>1. CASE phase = "off"
      <4>1. ToSet(temp) = {}
        BY <2>1, <3>1 DEF RunInv, RunTypes, ToSet
      <4>2. QED
        BY <2>1, <4>1 DEF RunInv, OneIdentity, Identity, ToSet
    <3>2. CASE phase # "off"
      BY <2>1, <3>2 DEF RunInv, OneIdentity, Identity, ToSet
    <3>3. QED
      BY <3>1, <3>2
  <2>3. QED
    BY <2>1, <2>2 DEF RunInv, TextsKept
<1>2. QED
  BY <1>1, RunInvHolds, PTL

\* How a step changes the output: not at all, with the whole file, or by
\* records at its end, and that only of a run that is not finished.
LEMMA OutputGrows ==
  ASSUME RunInv, [Next]_vars
  PROVE  \/ UNCHANGED output
         \/ output' = <<>> /\ meta' = NoMetadata
         \/ /\ UNCHANGED meta
            /\ \E u \in Seq(Records) :
                 /\ output' = output \o u
                 /\ phase = "smoke" => \A r \in ToSet(u) : r.ok
<1>1. CASE Discard
  BY <1>1 DEF Discard
<1>2. CASE Evaluate
  <2>1. CASE output' # output
    <3>1. output \in Seq(Records)
      BY DEF RunInv, RunTypes
    <3>2. PICK r \in Records : phase # "smoke" /\ output' = Append(output, r)
      BY <1>2, <2>1, EvaluateAppends
    <3>3. <<r>> \in Seq(Records) /\ output' = output \o <<r>>
      BY <3>1, <3>2
    <3>4. QED
      BY <1>2, <3>2, <3>3 DEF Evaluate
  <2>2. QED
    BY <2>1
<1>3. CASE Promote
  <2>1. CASE output' # output
    <3>1. PICK u \in Seq(Records) : /\ \A r \in ToSet(u) : r.ok
                                    /\ output' = output \o u
      BY <1>3, <2>1, PromotePart DEF Promote
    <3>2. QED
      BY <1>3, <3>1 DEF Promote
  <2>2. QED
    BY <2>1
<1>4. QED
  BY <1>1, <1>2, <1>3
     DEF Next, vars, disk, process, Invoke, Announce, Reuse, BuildStep, CheckpointBuild,
         Rewrite, AllEvaluated, Finish, Fail, Kill, ChangeSetting, ForeignBuild

\* The output grows by records of one identity, each of a key that it does not
\* have, and those of a smoke run arrive only when all of its probe are ok; a
\* record never changes its place or goes away but with the whole file
\* (run_questions, run_smoke_gate).
THEOREM RecordsKeepTheirPlace == Spec => RecordsSettled
<1> DEFINE Settled ==
             \/ output' = <<>>
             \/ /\ IsPrefix(output, output')
                /\ Cardinality(Keys(output')) = Len(output')
                /\ \E s \in Settings : Identity(output', s)
                /\ phase = "smoke" /\ output' # output =>
                     \A i \in DOMAIN output' : i > Len(output) => output'[i].ok
<1>1. ASSUME RunInv, [Next]_vars
      PROVE  Settled
  <2>1. RunInv'
    BY <1>1, RunStep
  <2>2. output \in Seq(Records) /\ output' \in Seq(Records)
    BY <1>1, <2>1 DEF RunInv, RunTypes
  <2>3. Cardinality(Keys(output')) = Len(output')
    <3>1. PICK o \in Seq(Records) : o = output' /\ Distinct(o)
      BY <2>1, <2>2 DEF RunInv, OneRecordEach
    <3>2. Cardinality(Keys(o)) = Len(o)
      BY <3>1, DistinctCount
    <3>3. QED
      BY <3>1, <3>2
  <2>4. \E s \in Settings : Identity(output', s)
    BY <2>1 DEF RunInv, OneIdentity
  <2>5. CASE UNCHANGED output
    <3>1. <<>> \in Seq(Records) /\ output \o <<>> = output
      BY <2>2
    <3>2. IsPrefix(output, output)
      BY <2>2, <3>1, Grown
    <3>3. QED
      BY <2>3, <2>4, <2>5, <3>2
  <2>6. ASSUME NEW u \in Seq(Records), output' = output \o u,
               phase = "smoke" => \A r \in ToSet(u) : r.ok
        PROVE  Settled
    <3>1. /\ IsPrefix(output, output')
          /\ \A i \in DOMAIN output' : i \notin DOMAIN output =>
               i - Len(output) \in DOMAIN u /\ output'[i] = u[i - Len(output)]
      BY <2>2, <2>6, Grown
    <3>2. ASSUME phase = "smoke", NEW i \in DOMAIN output', i > Len(output)
          PROVE  output'[i].ok
      <4>1. i \notin DOMAIN output
        BY <2>2, <3>2
      <4>2. output'[i] \in ToSet(u)
        BY <3>1, <3>2, <4>1 DEF ToSet
      <4>3. QED
        BY <2>6, <3>2, <4>2
    <3>3. QED
      BY <2>3, <2>4, <3>1, <3>2
  <2>7. QED
    BY <1>1, <2>5, <2>6, OutputGrows
<1>2. RunInv /\ [Next]_vars => [Settled]_vars
  BY <1>1
<1>3. QED
  BY <1>2, RunInvHolds, PTL DEF Spec, RecordsSettled

\* A run whose ledgers hold an attempt without an end never becomes scorable,
\* in whichever of its invocations the attempt was lost: only the end of an
\* invocation can make it so, which writes what the ledgers say, as a count
\* that was complete cannot become so by more records (DurableCallCounters,
\* provider_ledger_summary).
THEOREM OrphansStayRefused == Spec => OrphansRefused
<1> DEFINE Refused == ~Scorable /\ Scorable' =>
                        \A s \in Settings : meta'.of = s => pending[s] = 0
<1>1. ASSUME RunInv, [Next]_vars, ~Scorable, Scorable'
      PROVE  \A s \in Settings : meta'.of = s => pending[s] = 0
  <2>1. RunTypes /\ OneRecordEach /\ RunInv'
    BY <1>1, RunStep DEF RunInv
  <2>2. meta # meta' \/ output # output'
    BY <1>1 DEF Scorable, Complete
  <2>3. /\ meta'.status = "completed" /\ meta'.pending = 0
        /\ meta'.written = Len(Schedule)
        /\ Cardinality(Keys(output')) = Len(output')
        /\ Keys(output') = Scheduled
    BY <1>1 DEF Scorable, Complete, Scheduled
  <2>4. CASE Finish
    <3>1. PhaseStatus \in Statuses
      BY <2>1, <2>4 DEF PhaseStatus, Statuses, RunTypes, Finish
    <3>2. meta'.of = setting /\ meta'.pending = pending[setting]
      BY <2>1, <2>4, <3>1, MergedMetadata DEF Finish, Builts
    <3>3. QED
      BY <2>3, <3>2
  <2>5. CASE ~Finish
    <3>1. UNCHANGED meta
      <4>1. CASE Announce
        <5>1. meta'.status = "running"
          BY <2>1, <4>1, MergedMetadata DEF Announce, Statuses, Builts
        <5>2. QED
          BY <2>3, <5>1
      <4>2. CASE CheckpointBuild
        <5>1. meta'.status = "none"
          BY <2>1, <4>2, MergedMetadata DEF CheckpointBuild, Statuses, Builts
        <5>2. QED
          BY <2>3, <5>1
      <4>3. CASE Fail
        <5>1. meta'.status = "failed"
          BY <2>1, <4>3, MergedMetadata DEF Fail, Statuses, Builts
        <5>2. QED
          BY <2>3, <5>1
      <4>4. CASE Discard
        BY <2>3, <4>4 DEF Discard, NoMetadata
      <4>5. QED
        BY <1>1, <2>5, <4>1, <4>2, <4>3, <4>4
           DEF Next, vars, disk, process, Invoke, Reuse, BuildStep, Rewrite, Evaluate,
               AllEvaluated, Promote, Kill, ChangeSetting, ForeignBuild
    <3>2. Len(output') = Len(Schedule)
      BY <2>3, RunAssumption DEF Scheduled
    <3>3. meta.written = Len(Schedule) /\ meta.written <= Len(output)
      BY <2>1, <2>3, <3>1 DEF OneRecordEach
    <3>4. output' # <<>> \/ meta' # NoMetadata
      BY <2>3 DEF NoMetadata
    <3>5. PICK u \in Seq(Records) : output' = output \o u
      BY <1>1, <2>2, <3>1, <3>4, OutputGrows
    <3>6. output \in Seq(Records) /\ Len(output') = Len(output) + Len(u)
      BY <2>1, <3>5, Grown DEF RunTypes
    <3>7. Len(u) = 0
      <4>1. Len(output) \in Nat /\ Len(u) \in Nat
        BY <3>6
      <4>2. QED
        BY <3>2, <3>3, <3>6, <4>1
    <3>8. output' = output
      BY <3>5, <3>6, <3>7
    <3>9. QED
      BY <2>2, <3>1, <3>8
  <2>6. QED
    BY <2>4, <2>5
<1>2. RunInv /\ [Next]_vars => [Refused]_vars
  BY <1>1
<1>3. QED
  BY <1>2, RunInvHolds, PTL DEF Spec, OrphansRefused

-----------------------------------------------------------------------------
(* The index of the records.                                               *)

\* The records that a step adds have the collection as it is.
LEMMA NewRecords ==
  ASSUME RunInv, Next
  PROVE  \/ ToSet(output') \cup ToSet(temp') \subseteq ToSet(output) \cup ToSet(temp)
         \/ /\ pc = "case" /\ pc' = "case"
            /\ \A r \in ToSet(output') \cup ToSet(temp') :
                 \/ r \in ToSet(output) \cup ToSet(temp)
                 \/ r.of = setting /\ r.index = collection
<1>1. output \in Seq(Records) /\ temp \in Seq(Records) /\ ToSet(<<>>) = {}
  BY DEF RunInv, RunTypes, ToSet
<1>2. CASE Evaluate
  <2>1. CASE output' # output \/ temp' # temp
    <3>1. PICK r \in Records :
             /\ r.of = setting /\ r.index = collection
             /\ phase = "smoke" => temp' = Append(temp, r) /\ UNCHANGED output
             /\ phase # "smoke" => output' = Append(output, r) /\ UNCHANGED temp
             /\ pc' = "case"
      BY <1>2, <2>1, EvaluateAppends
    <3>2. /\ Append(output, r) = output \o <<r>> /\ Append(temp, r) = temp \o <<r>>
          /\ <<r>> \in Seq(Records) /\ ToSet(<<r>>) = {r}
      BY <1>1 DEF ToSet
    <3>3. /\ ToSet(Append(output, r)) = ToSet(output) \cup {r}
          /\ ToSet(Append(temp, r)) = ToSet(temp) \cup {r}
      <4>1. PICK u \in Seq(Records) :
              /\ Append(output, r) = output \o u /\ Append(temp, r) = temp \o u
              /\ ToSet(u) = {r}
        BY <3>2
      <4>2. QED
        BY <1>1, <4>1, Grown
    <3>4. QED
      BY <1>2, <3>1, <3>3 DEF Evaluate
  <2>2. QED
    BY <2>1
<1>3. CASE Promote
  <2>1. UNCHANGED temp
    BY <1>3 DEF Promote, process
  <2>2. CASE output' # output
    <3>1. PICK u \in Seq(Records) : /\ \A r \in ToSet(u) : r \in ToSet(temp)
                                    /\ output' = output \o u
      BY <1>3, <2>2, PromotePart DEF Promote
    <3>2. ToSet(output') = ToSet(output) \cup ToSet(u)
      BY <1>1, <3>1, Grown
    <3>3. QED
      BY <2>1, <3>1, <3>2
  <2>3. QED
    BY <2>1, <2>2
<1>4. CASE ~Evaluate /\ ~Promote
  <2>1. output' \in {<<>>, output} /\ temp' \in {<<>>, temp}
    BY <1>4
       DEF Next, disk, process, Invoke, Announce, Reuse, BuildStep, CheckpointBuild,
           Rewrite, AllEvaluated, Finish, Fail, Kill, Off, Discard, ChangeSetting,
           ForeignBuild
  <2>2. QED
    BY <1>1, <2>1
<1>5. QED
  BY <1>2, <1>3, <1>4

\* The steps of a process that has the collection to itself.
LEMMA CollectionStep ==
  ASSUME RunInv, WholeCollection, Next, ~ForeignBuild
  PROVE  WholeCollection'
<1> USE DEF disk, process
<1>1. RunTypes /\ OneIdentity
  BY DEF RunInv
<1>2. ASSUME NEW p \in {"build", "run", "all", "smoke"}, NEW r \in BOOLEAN, Invoke(p, r)
      PROVE  WholeCollection'
  <2>1. meta.build = "completed" => meta.of = setting
    BY <1>2 DEF Invoke, NoMetadata
  <2>2. QED
    BY <1>2, <2>1 DEF WholeCollection, Invoke
<1>3. CASE Announce
  <2>1. meta'.build = "in_progress"
    BY <1>1, <1>3, MergedMetadata DEF Announce, Statuses, Builts
  <2>2. QED
    BY <1>3, <2>1 DEF WholeCollection, Announce
<1>4. CASE Reuse
  <2>1. Reusable => collection = [of |-> setting, points |-> "full"]
    BY <1>1 DEF Reusable, WholeCollection, RunTypes, Collections
  <2>2. pc' # "failed" => Reusable
    BY <1>4 DEF Reuse
  <2>3. pc' \in {"failed", "finish", "case"}
    BY <1>4 DEF Reuse, Indexed
  <2>4. QED
    BY <1>4, <2>1, <2>2, <2>3 DEF WholeCollection, Reuse
<1>5. CASE BuildStep
  <2>1. meta.build = "in_progress"
    BY <1>5 DEF WholeCollection, BuildStep
  <2>2. CASE pc = "filling" /\ pc' = "built"
    BY <1>5, <2>1, <2>2 DEF WholeCollection, BuildStep
  <2>3. CASE ~ (pc = "filling" /\ pc' = "built")
    BY <1>5, <2>1, <2>3 DEF WholeCollection, BuildStep, NoCollection
  <2>4. QED
    BY <2>2, <2>3
<1>6. CASE CheckpointBuild
  <2>1. meta'.of = setting /\ previous' = meta'
    BY <1>1, <1>6, MergedMetadata DEF CheckpointBuild, Statuses, Builts
  <2>2. pc' \in {"case", "finish"}
    BY <1>6 DEF CheckpointBuild, Indexed
  <2>3. QED
    BY <1>6, <2>1, <2>2 DEF WholeCollection, CheckpointBuild
<1>7. CASE Rewrite \/ Evaluate
  BY <1>7 DEF WholeCollection, Rewrite, Evaluate
<1>8. CASE AllEvaluated \/ Promote
  BY <1>8 DEF WholeCollection, AllEvaluated, Promote
<1>9. CASE Finish
  <2>1. meta'.of = setting
    <3>1. PhaseStatus \in Statuses
      BY <1>1, <1>9 DEF PhaseStatus, Statuses, RunTypes, Finish
    <3>2. QED
      BY <1>1, <1>9, <3>1, MergedMetadata DEF Finish, Builts
  <2>2. QED
    BY <1>9, <2>1 DEF WholeCollection, Finish, Off, NoMetadata
<1>10. CASE Fail
  <2>1. meta'.of = setting /\ meta'.build = previous.build
    BY <1>1, <1>10, MergedMetadata DEF Fail, Statuses, Builts
  <2>2. QED
    BY <1>10, <2>1 DEF WholeCollection, Fail, Off, NoMetadata
<1>11. CASE Kill
  BY <1>11 DEF WholeCollection, Kill, Off, NoMetadata
<1>12. CASE ChangeSetting
  BY <1>1, <1>12 DEF WholeCollection, ChangeSetting, RunTypes, OneIdentity
<1>13. CASE Discard
  BY <1>1, <1>13 DEF WholeCollection, Discard, NoMetadata, RunTypes
<1>14. QED
  BY <1>2, <1>3, <1>4, <1>5, <1>6, <1>7, <1>8, <1>9, <1>10, <1>11, <1>12, <1>13 DEF Next

\* IndexInv is inductive.
LEMMA IndexStep ==
  ASSUME IndexInv, [Next]_vars
  PROVE  IndexInv'
<1>1. RunInv /\ RunInv'
  BY RunStep DEF IndexInv
<1>2. CASE UNCHANGED vars
  BY <1>1, <1>2 DEF IndexInv, WholeIndexes, WholeCollection, vars, disk, process
<1>3. CASE Next
  <2>1. SUFFICES ASSUME ~foreign'
                 PROVE  WholeIndexes'
    BY <1>1 DEF IndexInv
  <2>2. ~ForeignBuild /\ ~foreign
    BY <1>1, <1>3, <2>1
       DEF Next, disk, Invoke, Announce, Reuse, BuildStep, CheckpointBuild, Rewrite,
           Evaluate, AllEvaluated, Promote, Finish, Fail, Kill, ChangeSetting, Discard,
           ForeignBuild
  <2>3. WholeIndexes
    BY <2>2 DEF IndexInv
  <2>4. WholeCollection'
    BY <1>1, <1>3, <2>2, <2>3, CollectionStep DEF WholeIndexes
  <2>5. \A r \in ToSet(output') \cup ToSet(temp') :
          r.index = [of |-> r.of, points |-> "full"]
    <3>1. pc = "case" => collection = [of |-> setting, points |-> "full"]
      BY <2>3 DEF WholeIndexes, WholeCollection
    <3>2. QED
      BY <1>1, <1>3, <2>3, <3>1, NewRecords DEF WholeIndexes
  <2>6. QED
    BY <2>4, <2>5 DEF WholeIndexes
<1>4. QED
  BY <1>2, <1>3

\* What passes for a complete run was retrieved from the whole index of the
\* inputs that its metadata names: no kill in a build, no change of inputs, no
\* discarded file and no reuse puts records of another or of half an index
\* under its name, as long as no run with other files rebuilds the collection
\* (checkpoint_completed_build, verify_reusable_index).
THEOREM RunsMatchTheirIndex == Spec => []IndexMatches
<1>1. Init => IndexInv
  <2>1. SUFFICES ASSUME Init PROVE IndexInv
    OBVIOUS
  <2>2. ToSet(<<>>) = {}
    BY DEF ToSet
  <2>3. QED
    BY <2>1, <2>2, RunInit DEF Init, IndexInv, WholeIndexes, WholeCollection, NoCollection
<1>2. IndexInv /\ [Next]_vars => IndexInv'
  BY IndexStep
<1>3. IndexInv => IndexMatches
  BY DEF IndexInv, WholeIndexes, IndexMatches, Complete, Identity, ToSet
<1>4. QED
  BY <1>1, <1>2, <1>3, PTL DEF Spec
=============================================================================

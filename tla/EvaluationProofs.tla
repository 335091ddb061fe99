-------------------------- MODULE EvaluationProofs --------------------------
(***************************************************************************)
(* A run of the agent evaluation that is killed, torn and started again    *)
(* anywhere sends no case twice, misses no call it paid for, and is called *)
(* completed only when it is.  A gold record that is fixed tells of the    *)
(* snapshot, and what is scored by it can be found.                        *)
(***************************************************************************)
EXTENDS AgentRun, GoldDataset, AscendingProofs

CallLine ==
  [event : {"started"}, attempt : Nat]
    \cup [event : {"finished"}, attempt : Nat, outcome : {"success", "failure"}]
RecordLine == [case : Cases, calls : Nat, ok : BOOLEAN]
Files(Line) ==
  {f \in [lines : Seq(Line), tail : {"clean", "bare", "torn"}] :
     f.tail = "bare" => f.lines # <<>>}

\* Where a case is under evaluation, and where the run has been resumed.
Evaluating == {"case", "call", "record", "finish"}
Running == {"next", "final"} \cup Evaluating

RunTypes ==
  /\ calls \in Files(CallLine) /\ responses \in Files(ResponseLine)
  /\ raw \in Files(RecordLine) /\ temp \in Seq(RecordLine)
  /\ mode \in {"off", "smoke", "full"} /\ (mode = "off" <=> pc = "off")
  /\ pc \in {"off", "reconcile", "resume"} \cup Running
  /\ case \in Nat /\ (pc \in Evaluating => case \in Cases)
  /\ before \in Nat /\ nth \in Nat /\ outcome \in {"none", "success", "failure"}
  /\ sent \in Seq([case : Nat, invocation : Nat]) /\ invocation \in Nat
  /\ smokedAgain \in BOOLEAN /\ completed \in {"no", "smoke", "full"}

\* Attempts are numbered without a gap, every answer in the response ledger
\* is one of an attempt, and what the process has in memory is on disk.
Agreed == Count \in Nat /\ Attempts = 1..Count /\ Consistent(responses.lines)

Ledgers ==
  /\ Agreed
  /\ mode # "off" => events = responses.lines /\ calls.tail = "clean"

\* No attempt is open but the one of the call that is being made.
OpenAttempts ==
  /\ pc \in {"resume", "next", "case", "final"} => Pending = {}
  /\ pc \in {"call", "record", "finish"} => Pending = {Count} /\ nth > 0
  /\ pc \in {"record", "finish"} => outcome # "none"
  /\ pc = "finish" => Response(Count, outcome) \in ToSet(responses.lines)
  /\ pc \in Evaluating => Count = before + nth

LedgerInv == RunTypes /\ Ledgers /\ OpenAttempts

\* A running evaluation has a record for every attempt but those of the case
\* it is at; where no run is on, an output that accounts for every attempt
\* has no open one, and no answer was cut off.
Accounts ==
  /\ pc \in Running => raw.tail = "clean" /\ responses.tail = "clean"
  /\ pc \notin Running \/ mode = "full" => temp = <<>>
  /\ pc = "next" => CallsOf(raw.lines) + CallsOf(temp) = Count
  /\ pc \in Evaluating => CallsOf(raw.lines) + CallsOf(temp) = before
  /\ pc \notin Running /\ CallsOf(raw.lines) = Count =>
       Pending = {} /\ responses.tail = "clean"

\* The records account for all that was sent.
Accounted(records) ==
  /\ Len(sent) = Count
  /\ \A i \in DOMAIN sent : sent[i].case \in Recorded(records)

\* What was sent is in the ledger, what was sent before is recorded, and the
\* rest was sent for the case that is under evaluation.
OneInvocation ==
  \A i, j \in DOMAIN sent :
    sent[i].case = sent[j].case => sent[i].invocation = sent[j].invocation

SentOnce ==
  /\ OneInvocation
  /\ mode = "smoke" /\ pc # "final" => raw.lines = <<>>
  /\ pc \notin Running /\ CallsOf(raw.lines) = Count => Accounted(raw.lines)
  /\ pc = "next" => Accounted(Target)
  /\ pc = "final" => Accounted(raw.lines) /\ CallsOf(raw.lines) = Count
  /\ pc \in Evaluating =>
       /\ case \notin Recorded(Target)
       /\ Len(sent) = IF pc = "call" THEN Count - 1 ELSE Count
       /\ \A i \in DOMAIN sent :
            \/ sent[i].case \in Recorded(Target)
            \/ nth > 0 /\ sent[i].case = case /\ sent[i].invocation = invocation

SentInv ==
  /\ Len(sent) <= Count /\ (pc = "call" => Len(sent) < Count)
  /\ ~smokedAgain => SentOnce

CompletedInv ==
  /\ completed # "no" => mode = "off"
  /\ CompletedExactly

AgentInv == LedgerInv /\ Accounts /\ SentInv /\ CompletedInv

-----------------------------------------------------------------------------
(* Files and sums                                                          *)

\* An append adds its line and nothing else.
LEMMA Appended ==
  ASSUME NEW Line, NEW s \in Seq(Line), NEW x \in Line
  PROVE  /\ Append(s, x) \in Seq(Line) /\ Append(s, x) # <<>>
         /\ ToSet(Append(s, x)) = ToSet(s) \cup {x}
<1> DEFINE t == Append(s, x)
<1>1. /\ t \in Seq(Line) /\ Len(t) = Len(s) + 1 /\ Len(s) \in Nat
      /\ \A i \in 1..Len(s) : t[i] = s[i]
      /\ t[Len(s) + 1] = x
  OBVIOUS
<1>2. DOMAIN t = DOMAIN s \cup {Len(s) + 1} /\ DOMAIN s = 1..Len(s)
  BY <1>1
<1> HIDE DEF t
<1>3. ToSet(t) = ToSet(s) \cup {x}
  BY <1>1, <1>2 DEF ToSet
<1>4. t # <<>>
  BY <1>1
<1>5. QED
  BY <1>1, <1>3, <1>4 DEF t

\* A line that is written whole to a file that ends with a whole line.
LEMMA WholeLine ==
  ASSUME NEW Line, NEW f \in Files(Line), f.tail = "clean", NEW x \in Line
  PROVE  /\ Written(f, x) \in Files(Line)
         /\ Written(f, x).lines = Append(f.lines, x) /\ Written(f, x).tail = "clean"
<1>1. f.lines \in Seq(Line)
  BY DEF Files
<1>2. Append(f.lines, x) \in Seq(Line)
  BY <1>1
<1>3. QED
  BY <1>2 DEF Written, Files

\* A line that is cut off is there or not.
LEMMA CutLine ==
  ASSUME NEW Line, NEW f \in Files(Line), f.tail = "clean", NEW x \in Line,
         NEW g \in Torn(f, x)
  PROVE  g \in Files(Line) /\ g.lines \in {f.lines, Append(f.lines, x)}
<1>1. /\ f.lines \in Seq(Line) /\ Append(f.lines, x) \in Seq(Line)
      /\ Append(f.lines, x) # <<>>
      /\ f = [lines |-> f.lines, tail |-> f.tail]
  BY Appended DEF Files
<1>2. g \in {f, [lines |-> Append(f.lines, x), tail |-> "clean"],
             [lines |-> Append(f.lines, x), tail |-> "bare"],
             [lines |-> f.lines, tail |-> "torn"]}
  <2> DEFINE w == [lines |-> Append(f.lines, x), tail |-> "clean"]
  <2>1. Written(f, x) = w
    BY DEF Written
  <2>2. [w EXCEPT !.tail = "bare"] = [lines |-> Append(f.lines, x), tail |-> "bare"]
    OBVIOUS
  <2>3. [f EXCEPT !.tail = "torn"] = [lines |-> f.lines, tail |-> "torn"]
    BY <1>1
  <2>4. QED
    BY <2>1, <2>2, <2>3 DEF Torn
<1>3. QED
  BY <1>1, <1>2 DEF Files

\* A file that is opened again has the same lines.
LEMMA OpenedAgain ==
  ASSUME NEW Line, NEW f \in Files(Line), Corrupt \notin Line
  PROVE  /\ Healed(f) \in Files(Line) /\ Healed(f).lines = f.lines
         /\ Healed(f).tail = "clean"
         /\ Reopened(f) \in Files(Line) /\ Reopened(f).lines = f.lines
         /\ f.tail = "clean" => Reopened(f).tail = "clean"
<1>1. Healed(f) \in Files(Line) /\ Healed(f).lines = f.lines /\ Healed(f).tail = "clean"
  BY DEF Healed, Files
<1>2. f.tail = "bare" => Last(f.lines) # Corrupt
  <2>1. SUFFICES ASSUME f.tail = "bare" PROVE Last(f.lines) # Corrupt
    OBVIOUS
  <2>2. f.lines \in Seq(Line) /\ f.lines # <<>>
    BY <2>1 DEF Files
  <2>3. Last(f.lines) \in Line
    BY <2>2 DEF Last
  <2>4. QED
    BY <2>3
<1>3. QED
  BY <1>1, <1>2 DEF Reopened, Files

\* Ledgers that get no line have the same attempts.
LEMMA SameLines ==
  ASSUME Agreed, calls'.lines = calls.lines, responses'.lines = responses.lines
  PROVE  Agreed' /\ Count' = Count /\ Pending' = Pending
BY DEF Agreed, Consistent, Count, Attempts, Terminal, Pending

\* The first line of an attempt.
LEMMA StartedLine ==
  ASSUME calls.lines \in Seq(CallLine), Agreed, responses'.lines = responses.lines,
         calls'.lines = Append(calls.lines, Started(Count + 1))
  PROVE  Agreed' /\ Count' = Count + 1 /\ Pending' = Pending \cup {Count'}
<1> USE DEF Agreed
<1>1. Started(Count + 1) \in CallLine
  BY DEF CallLine, Started
<1>2. ToSet(calls'.lines) = ToSet(calls.lines) \cup {Started(Count + 1)}
  BY <1>1, Appended
<1>3. Attempts' = Attempts \cup {Count + 1}
  <2>1. Started(Count + 1).event = "started" /\ Started(Count + 1).attempt = Count + 1
    BY DEF Started
  <2>2. QED
    BY <1>2, <2>1 DEF Attempts
<1>4. Terminal' = Terminal
  BY <1>2 DEF Terminal, Started
<1>5. Attempts' = 1..(Count + 1)
  BY <1>3
<1>6. Count' = Count + 1
  <2>1. Cardinality(1..(Count + 1)) = Count + 1
    BY FS_Interval
  <2>2. QED
    BY <1>5, <2>1 DEF Count
<1>7. \A l \in Terminal : l.attempt \in Attempts
  <2>1. SUFFICES ASSUME NEW l \in Terminal PROVE l.attempt \in Attempts
    OBVIOUS
  <2>2. Response(l.attempt, l.outcome) \in ToSet(responses.lines)
    BY DEF Consistent
  <2>3. Response(l.attempt, l.outcome).attempt \in Attempts
    BY <2>2 DEF Consistent
  <2>4. QED
    BY <2>3 DEF Response
<1>8. Count + 1 \notin {l.attempt : l \in Terminal}
  BY <1>7
<1>9. Pending' = Pending \cup {Count + 1}
  BY <1>3, <1>4, <1>8 DEF Pending
<1>10. Consistent(responses.lines)'
  <2>1. Attempts \subseteq Attempts'
    BY <1>3
  <2>2. QED
    BY <1>4, <2>1 DEF Consistent
<1>11. QED
  BY <1>5, <1>6, <1>9, <1>10

\* The last line of an attempt.
LEMMA FinishedLine ==
  ASSUME calls.lines \in Seq(CallLine), Agreed, responses'.lines = responses.lines,
         NEW n \in Nat, NEW o \in {"success", "failure"},
         Response(n, o) \in ToSet(responses.lines),
         calls'.lines = Append(calls.lines, Finished(n, o))
  PROVE  Agreed' /\ Count' = Count /\ Pending' = Pending \ {n}
<1>1. Finished(n, o) \in CallLine
  BY DEF CallLine, Finished
<1>2. ToSet(calls'.lines) = ToSet(calls.lines) \cup {Finished(n, o)}
  BY <1>1, Appended
<1>3. Finished(n, o).event = "finished" /\ Finished(n, o).attempt = n
  BY DEF Finished
<1>4. Attempts' = Attempts
  BY <1>2, <1>3 DEF Attempts
<1>5. Terminal' = Terminal \cup {Finished(n, o)}
  BY <1>2, <1>3 DEF Terminal
<1>6. Pending' = Pending \ {n}
  BY <1>3, <1>4, <1>5 DEF Pending
<1>7. Consistent(responses.lines)'
  <2>1. \A l \in Terminal' : Response(l.attempt, l.outcome) \in ToSet(responses.lines)
    <3>1. Finished(n, o).outcome = o
      BY DEF Finished
    <3>2. QED
      BY <1>3, <1>5, <3>1 DEF Agreed, Consistent
  <2>2. QED
    BY <1>4, <2>1 DEF Agreed, Consistent
<1>8. QED
  BY <1>4, <1>6, <1>7 DEF Count, Agreed

\* An answer that is added to the response ledger.
LEMMA AnswerLine ==
  ASSUME responses.lines \in Seq(ResponseLine), Agreed, calls'.lines = calls.lines,
         NEW n \in 1..Count, NEW o \in {"success", "failure"},
         responses'.lines = Append(responses.lines, Response(n, o))
  PROVE  /\ Agreed' /\ Count' = Count /\ Pending' = Pending
         /\ Response(n, o) \in ToSet(responses'.lines)
<1>1. Response(n, o) \in ResponseLine /\ Response(n, o).attempt = n
  BY DEF ResponseLine, Response
<1>2. ToSet(responses'.lines) = ToSet(responses.lines) \cup {Response(n, o)}
  BY <1>1, Appended
<1>3. Attempts' = Attempts /\ Terminal' = Terminal /\ Count' = Count /\ Pending' = Pending
  BY DEF Attempts, Terminal, Count, Pending
<1>4. Consistent(responses.lines)'
  BY <1>1, <1>2, <1>3 DEF Consistent, Agreed
<1>5. QED
  BY <1>2, <1>3, <1>4 DEF Agreed

\* The calls of one record are as many as it says.
LEMMA CallsOfOne ==
  ASSUME NEW i, NEW n \in Nat
  PROVE  IsFiniteSet({i} \X (1..n)) /\ Cardinality({i} \X (1..n)) = n
<1>1. IsFiniteSet(1..n) /\ Cardinality(1..n) = n
  BY FS_Interval
<1>2. IsFiniteSet({i}) /\ Cardinality({i}) = 1
  BY FS_Singleton
<1>3. QED
  BY <1>1, <1>2, FS_Product

\* Records account for a number of calls.
LEMMA CallsCounted ==
  ASSUME NEW s \in Seq(RecordLine)
  PROVE  IsFiniteSet(CallsIn(s)) /\ CallsOf(s) \in Nat
<1> DEFINE D == DOMAIN s
           T == {{i} \X (1..s[i].calls) : i \in D}
           f == [i \in D |-> {i} \X (1..s[i].calls)]
<1>1. D = 1..Len(s) /\ Len(s) \in Nat
  OBVIOUS
<1>2. IsFiniteSet(D)
  BY <1>1, FS_Interval
<1>3. \A i \in D : s[i].calls \in Nat
  <2>1. \A i \in D : s[i] \in RecordLine
    OBVIOUS
  <2>2. QED
    BY <2>1 DEF RecordLine
<1>4. \A x \in T : IsFiniteSet(x)
  <2>1. ASSUME NEW x \in T
        PROVE  IsFiniteSet(x)
    <3>1. PICK i \in D : x = {i} \X (1..s[i].calls)
      OBVIOUS
    <3>2. PICK n \in Nat : n = s[i].calls
      BY <1>3
    <3>3. IsFiniteSet({i} \X (1..n))
      BY ONLY n \in Nat, CallsOfOne
    <3>4. QED
      BY <3>1, <3>2, <3>3
  <2>2. QED
    BY <2>1
<1>5. f \in [D -> T] /\ \A x \in T : \E i \in D : f[i] = x
  OBVIOUS
<1>6. CallsIn(s) = UNION T
  BY DEF CallsIn
<1> HIDE DEF D, T, f
<1>7. f \in Surjection(D, T)
  BY <1>5, Fun_IsSurj
<1>8. IsFiniteSet(T)
  BY <1>2, <1>7, FS_Surjection
<1>9. IsFiniteSet(CallsIn(s))
  BY <1>4, <1>6, <1>8, FS_UNION
<1>10. QED
  BY <1>9, FS_CardinalityType DEF CallsOf

\* No record accounts for nothing, another one for its own calls.
LEMMA NoCalls == CallsOf(<<>>) = 0
<1>1. CallsIn(<<>>) = {}
  BY DEF CallsIn
<1>2. QED
  BY <1>1, FS_EmptySet DEF CallsOf

\* A record that is appended adds the calls it reports.
LEMMA CallsAppended ==
  ASSUME NEW s \in Seq(RecordLine), NEW r \in RecordLine
  PROVE  CallsOf(Append(s, r)) = CallsOf(s) + r.calls
<1> DEFINE t == Append(s, r)
           n == Len(s)
           new == {n + 1} \X (1..r.calls)
<1>1. /\ t \in Seq(RecordLine) /\ Len(t) = n + 1 /\ n \in Nat
      /\ \A i \in 1..n : t[i] = s[i]
      /\ t[n + 1] = r
  OBVIOUS
<1>2. DOMAIN t = DOMAIN s \cup {n + 1} /\ DOMAIN s = 1..n
  BY <1>1
<1>3. r.calls \in Nat
  BY DEF RecordLine
<1> HIDE DEF t
<1>4. CallsIn(t) = CallsIn(s) \cup new
  BY <1>1, <1>2 DEF CallsIn
<1>5. CallsIn(s) \cap new = {}
  <2>1. \A x \in CallsIn(s) : x[1] \in 1..n
    BY <1>2 DEF CallsIn
  <2>2. \A x \in new : x[1] = n + 1
    OBVIOUS
  <2>3. n + 1 \notin 1..n
    BY <1>1
  <2>4. QED
    BY <2>1, <2>2, <2>3
<1>6. IsFiniteSet(new) /\ Cardinality(new) = r.calls
  BY <1>3, CallsOfOne
<1>7. IsFiniteSet(CallsIn(s)) /\ CallsOf(s) \in Nat
  BY CallsCounted
<1> HIDE DEF new, n
<1>8. Cardinality(CallsIn(s) \cap new) = 0
  BY <1>5, FS_EmptySet
<1>9. Cardinality(CallsIn(s) \cup new)
        = Cardinality(CallsIn(s)) + Cardinality(new) - Cardinality(CallsIn(s) \cap new)
  BY <1>6, <1>7, FS_Union
<1>10. Cardinality(CallsIn(t)) = Cardinality(CallsIn(s)) + r.calls
  BY <1>3, <1>4, <1>6, <1>7, <1>8, <1>9 DEF CallsOf
<1>11. QED
  BY <1>10 DEF CallsOf, t

\* What a case that gets its record adds to the recorded ones.
LEMMA RecordedAppended ==
  ASSUME NEW s \in Seq(RecordLine), NEW r \in RecordLine
  PROVE  Recorded(Append(s, r)) = Recorded(s) \cup {r.case}
BY Appended DEF Recorded

\* All of a sequence, in its order, is the sequence.
LEMMA WholeSequence ==
  ASSUME NEW T, NEW s \in Seq(T)
  PROVE  SubSequence(s, DOMAIN s) = s
<1> DEFINE n == Len(s)
           I == 1..n
<1>1. n \in Nat /\ DOMAIN s = I /\ I \in SUBSET Nat /\ s = [k \in 1..n |-> s[k]]
  OBVIOUS
<1>2. IsFiniteSet(I) /\ Cardinality(I) = n
  <2>1. \A m \in Nat : IsFiniteSet(1..m) /\ Cardinality(1..m) = m
    BY FS_Interval
  <2>2. QED
    BY <1>1, <2>1
<1>3. ASSUME NEW k \in 1..n
      PROVE  Ascending(I)[k] = k
  <2>1. PICK i \in I : i = Ascending(I)[k] /\ Cardinality(Below(I, i)) = k - 1
    BY <1>1, <1>2, AscendingOrder
  <2>2. Below(I, i) = 1..(i - 1)
    BY <1>1 DEF Below
  <2>3. i - 1 \in Nat /\ i \in Nat
    OBVIOUS
  <2>4. Cardinality(1..(i - 1)) = i - 1
    BY <2>3, FS_Interval
  <2>5. i - 1 = k - 1
    BY <2>1, <2>2, <2>4
  <2>6. QED
    BY <2>1, <2>3, <2>5
<1>4. SubSequence(s, I) = [k \in 1..n |-> s[k]]
  BY <1>2, <1>3 DEF SubSequence
<1>5. QED
  BY <1>1, <1>4

-----------------------------------------------------------------------------
(* What the invariant says of a process that stops                         *)

\* The types that every step starts from.
LEMMA AgentTypes ==
  ASSUME AgentInv
  PROVE  /\ calls.lines \in Seq(CallLine) /\ responses.lines \in Seq(ResponseLine)
         /\ raw.lines \in Seq(RecordLine) /\ temp \in Seq(RecordLine)
         /\ CallsOf(raw.lines) \in Nat /\ CallsOf(temp) \in Nat /\ Count \in Nat
         /\ Len(sent) \in Nat /\ Agreed
<1>1. /\ calls.lines \in Seq(CallLine) /\ responses.lines \in Seq(ResponseLine)
      /\ raw.lines \in Seq(RecordLine) /\ temp \in Seq(RecordLine)
      /\ Len(sent) \in Nat
  BY DEF AgentInv, LedgerInv, RunTypes, Files
<1>2. Count \in Nat /\ Agreed
  BY DEF AgentInv, LedgerInv, Ledgers, Agreed
<1>3. QED
  BY <1>1, <1>2, CallsCounted

\* A case that has made a call is not accounted for.
LEMMA Unaccounted ==
  ASSUME AgentInv, pc \in Evaluating, nth > 0
  PROVE  CallsOf(raw.lines) < Count
<1>1. CallsOf(raw.lines) + CallsOf(temp) = before /\ Count = before + nth
  BY DEF AgentInv, LedgerInv, OpenAttempts, Accounts
<1>2. nth \in Nat /\ before \in Nat
  BY DEF AgentInv, LedgerInv, RunTypes
<1>3. QED
  BY <1>1, <1>2, AgentTypes

\* A process whose output accounts for every attempt has no open one.
LEMMA SettledNow ==
  ASSUME AgentInv, CallsOf(raw.lines) = Count
  PROVE  Pending = {} /\ responses.tail = "clean"
<1>1. CASE pc \notin Running
  BY <1>1 DEF AgentInv, Accounts
<1>2. CASE pc \in {"next", "case", "final"}
  BY <1>2 DEF AgentInv, Accounts, LedgerInv, OpenAttempts, Running, Evaluating
<1>3. CASE pc \in {"call", "record", "finish"}
  <2>1. pc \in Evaluating /\ nth > 0
    BY <1>3 DEF AgentInv, LedgerInv, OpenAttempts, Evaluating
  <2>2. QED
    BY <2>1, Unaccounted, AgentTypes
<1>4. QED
  BY <1>1, <1>2, <1>3 DEF Running, Evaluating

\* Then all that was sent is recorded.
LEMMA AccountedNow ==
  ASSUME AgentInv, ~smokedAgain, CallsOf(raw.lines) = Count
  PROVE  Accounted(raw.lines)
<1>1. SentOnce /\ Len(sent) <= Count
  BY DEF AgentInv, SentInv
<1>2. CASE pc \notin Running \/ pc = "final"
  BY <1>1, <1>2 DEF SentOnce
<1>3. CASE mode = "smoke" /\ pc # "final"
  <2>1. raw.lines = <<>>
    BY <1>1, <1>3 DEF SentOnce
  <2>2. Count = 0
    BY <2>1, NoCalls
  <2>3. Len(sent) = 0
    BY <1>1, <2>2, AgentTypes
  <2>4. QED
    BY <2>2, <2>3 DEF Accounted
<1>4. CASE mode # "smoke" /\ pc = "next"
  BY <1>1, <1>4 DEF SentOnce, Target
<1>5. CASE mode # "smoke" /\ pc \in Evaluating
  <2>1. nth = 0
    <3>1. nth \in Nat
      BY DEF AgentInv, LedgerInv, RunTypes
    <3>2. QED
      BY <1>5, <3>1, Unaccounted, AgentTypes
  <2>2. pc = "case"
    BY <1>5, <2>1 DEF AgentInv, LedgerInv, OpenAttempts, Evaluating
  <2>3. QED
    BY <1>1, <1>5, <2>1, <2>2 DEF SentOnce, Target, Accounted
<1>6. QED
  BY <1>2, <1>3, <1>4, <1>5 DEF Running

\* What has to hold of the files when the process stops.
LEMMA Stopped ==
  ASSUME AgentInv, mode # "off", Off, UNCHANGED <<invocation, smokedAgain>>,
         UNCHANGED completed \/ (completed' \in {"smoke", "full"} /\ CompletedExactly'),
         calls' \in Files(CallLine), responses' \in Files(ResponseLine),
         raw' \in Files(RecordLine), sent' \in Seq([case : Nat, invocation : Nat]),
         Agreed', Len(sent') <= Count',
         CallsOf(raw'.lines) = Count' => Pending' = {} /\ responses'.tail = "clean",
         ~smokedAgain =>
           OneInvocation' /\ (CallsOf(raw'.lines) = Count' => Accounted(raw.lines)')
  PROVE  AgentInv'
<1>1. mode' = "off" /\ pc' = "off" /\ temp' = <<>>
  BY DEF Off
<1>2. RunTypes'
  BY <1>1 DEF Off, RunTypes, AgentInv, LedgerInv, Running, Evaluating
<1>3. Ledgers' /\ OpenAttempts'
  BY <1>1 DEF Ledgers, OpenAttempts, Evaluating
<1>4. Accounts'
  BY <1>1 DEF Accounts, Running, Evaluating
<1>5. SentInv'
  BY <1>1 DEF SentInv, SentOnce, Running, Evaluating
<1>6. CompletedInv'
  BY <1>1 DEF AgentInv, CompletedInv, CompletedExactly
<1>7. QED
  BY <1>2, <1>3, <1>4, <1>5, <1>6 DEF AgentInv, LedgerInv

\* A process that stops where it is.
LEMMA StoppedClean ==
  ASSUME AgentInv, mode # "off", Off, UNCHANGED <<invocation, smokedAgain>>,
         UNCHANGED completed \/ (completed' \in {"smoke", "full"} /\ CompletedExactly'),
         UNCHANGED <<responses, sent>>, calls' \in Files(CallLine),
         raw' \in Files(RecordLine), raw'.lines = raw.lines,
         Agreed', Count' = Count, Pending' \subseteq Pending
  PROVE  AgentInv'
<1>1. /\ responses \in Files(ResponseLine)
      /\ sent \in Seq([case : Nat, invocation : Nat])
  BY DEF AgentInv, LedgerInv, RunTypes
<1>2. Len(sent') <= Count'
  BY DEF AgentInv, SentInv
<1>3. CallsOf(raw'.lines) = Count' => Pending' = {} /\ responses'.tail = "clean"
  BY SettledNow
<1>4. ~smokedAgain => OneInvocation'
  BY DEF AgentInv, SentInv, SentOnce, OneInvocation
<1>5. ~smokedAgain /\ CallsOf(raw'.lines) = Count' => Accounted(raw.lines)'
  <2>1. Accounted(raw.lines)' = Accounted(raw.lines)
    BY DEF Accounted
  <2>2. QED
    BY <2>1, AccountedNow
<1>6. QED
  BY <1>1, <1>2, <1>3, <1>4, <1>5, Stopped

\* A process that stops with calls that no record accounts for.
LEMMA StoppedShort ==
  ASSUME AgentInv, mode # "off", Off, UNCHANGED <<completed, invocation, smokedAgain>>,
         UNCHANGED <<raw, sent>>, calls' \in Files(CallLine),
         responses' \in Files(ResponseLine),
         Agreed', Count' >= Count, CallsOf(raw.lines) < Count'
  PROVE  AgentInv'
<1>1. raw \in Files(RecordLine) /\ sent \in Seq([case : Nat, invocation : Nat])
  BY DEF AgentInv, LedgerInv, RunTypes
<1>2. Len(sent') <= Count'
  <2>1. Len(sent) <= Count
    BY DEF AgentInv, SentInv
  <2>2. Count' \in Nat
    BY DEF Agreed
  <2>3. QED
    BY <2>1, <2>2, AgentTypes
<1>3. CallsOf(raw'.lines) # Count'
  BY AgentTypes DEF Agreed
<1>4. ~smokedAgain => OneInvocation'
  BY DEF AgentInv, SentInv, SentOnce, OneInvocation
<1>5. QED
  BY <1>1, <1>2, <1>3, <1>4, Stopped

\* A call that is sent for the case under evaluation.
LEMMA SentNow ==
  ASSUME AgentInv, pc = "call", Sent
  PROVE  /\ sent' \in Seq([case : Nat, invocation : Nat]) /\ Len(sent') = Len(sent) + 1
         /\ \A i \in DOMAIN sent' :
              (i \in DOMAIN sent /\ sent'[i] = sent[i])
                \/ sent'[i] = [case |-> case, invocation |-> invocation]
         /\ Len(sent') <= Count
         /\ ~smokedAgain => OneInvocation'
<1> DEFINE x == [case |-> case, invocation |-> invocation]
<1>1. x \in [case : Nat, invocation : Nat] /\ sent \in Seq([case : Nat, invocation : Nat])
  BY DEF AgentInv, LedgerInv, RunTypes
<1>2. sent' = Append(sent, x)
  BY DEF Sent
<1>3. x.case = case /\ x.invocation = invocation
  OBVIOUS
<1> HIDE DEF x
<1>4. /\ sent' \in Seq([case : Nat, invocation : Nat]) /\ Len(sent') = Len(sent) + 1
      /\ \A i \in DOMAIN sent' : (i \in DOMAIN sent /\ sent'[i] = sent[i]) \/ sent'[i] = x
  BY <1>1, <1>2
<1>5. Len(sent') <= Count
  <2>1. Len(sent) < Count
    BY DEF AgentInv, SentInv
  <2>2. QED
    BY <1>4, <2>1, AgentTypes
<1>6. ASSUME ~smokedAgain
      PROVE  OneInvocation'
  <2>1. pc \in Evaluating
    BY DEF Evaluating
  <2>2. /\ OneInvocation /\ case \notin Recorded(Target)
        /\ \A i \in DOMAIN sent :
             sent[i].case \in Recorded(Target) \/ sent[i].invocation = invocation
    BY <1>6, <2>1 DEF AgentInv, SentInv, SentOnce
  <2>3. \A i \in DOMAIN sent : sent[i].case = case => sent[i].invocation = invocation
    BY <2>2
  <2>4. \A i \in DOMAIN sent' :
          \/ i \in DOMAIN sent /\ sent'[i] = sent[i]
          \/ sent'[i].case = case /\ sent'[i].invocation = invocation
    BY <1>3, <1>4
  <2>5. ASSUME NEW i \in DOMAIN sent', NEW j \in DOMAIN sent',
               sent'[i].case = sent'[j].case
        PROVE  sent'[i].invocation = sent'[j].invocation
    BY <2>2, <2>3, <2>4, <2>5 DEF OneInvocation
  <2>6. QED
    BY <2>5 DEF OneInvocation
<1>7. QED
  BY <1>4, <1>5, <1>6 DEF x

\* The record of the case under evaluation.
LEMMA NewRecord ==
  ASSUME case \in Cases, nth \in Nat, before \in Nat, Count = before + nth,
         NEW ok \in Outcomes
  PROVE  \E r \in RecordLine : r = CaseRecord(ok) /\ r.case = case /\ r.calls = nth
<1>1. Count - before = nth
  BY SMT
<1>2. ok \in BOOLEAN
  BY DEF Outcomes
<1>3. CaseRecord(ok) = [case |-> case, calls |-> nth, ok |-> ok]
  BY <1>1 DEF CaseRecord
<1>4. [case |-> case, calls |-> nth, ok |-> ok] \in RecordLine
  BY <1>2 DEF RecordLine
<1>5. QED
  BY <1>3, <1>4

-----------------------------------------------------------------------------
(* A killed process                                                        *)

\* The process is killed, possibly inside a write or inside the call.
LEMMA KillKeeps ==
  ASSUME AgentInv, Kill
  PROVE  AgentInv'
<1>1. mode # "off" /\ Off /\ UNCHANGED <<completed, invocation, smokedAgain>>
  BY DEF Kill
<1>2. /\ calls \in Files(CallLine) /\ responses \in Files(ResponseLine)
      /\ raw \in Files(RecordLine) /\ calls.tail = "clean" /\ events = responses.lines
      /\ nth \in Nat /\ before \in Nat /\ outcome \in {"none", "success", "failure"}
  BY <1>1 DEF AgentInv, LedgerInv, RunTypes, Ledgers
<1>3. /\ CallsOf(raw.lines) \in Nat /\ Count \in Nat /\ Agreed
      /\ calls.lines \in Seq(CallLine) /\ responses.lines \in Seq(ResponseLine)
      /\ raw.lines \in Seq(RecordLine)
  BY AgentTypes
<1>4. CASE UNCHANGED <<files, sent>>
  <2>1. UNCHANGED <<calls, responses, raw, sent>>
    BY <1>4 DEF files
  <2>2. Agreed' /\ Count' = Count /\ Pending' = Pending
    BY <1>3, <2>1, SameLines
  <2>3. QED
    BY <1>1, <1>2, <2>1, <2>2, StoppedClean
<1>5. ASSUME NEW n \in Pending, NEW e \in ToSet(events), e.attempt = n,
             calls' \in Torn(calls, Finished(n, e.outcome)),
             UNCHANGED <<responses, raw, sent>>
      PROVE  AgentInv'
  <2>1. e \in ResponseLine
    BY <1>2, <1>3 DEF ToSet
  <2>2. PICK o \in {"success", "failure"} : o = e.outcome
    BY <2>1 DEF ResponseLine
  <2>3. n \in Nat /\ Response(n, o) = e
    BY <1>5, <2>1, <2>2 DEF ResponseLine, Response
  <2>4. Finished(n, o) \in CallLine
    BY <2>3 DEF Finished, CallLine
  <2>5. calls' \in Files(CallLine) /\ calls'.lines \in {calls.lines, Append(calls.lines, Finished(n, o))}
    BY <1>2, <1>5, <2>2, <2>4, CutLine
  <2>6. Agreed' /\ Count' = Count /\ Pending' \subseteq Pending
    <3>1. CASE calls'.lines = calls.lines
      BY <1>3, <1>5, <3>1, SameLines
    <3>2. CASE calls'.lines = Append(calls.lines, Finished(n, o))
      BY <1>2, <1>3, <1>5, <2>3, <3>2, FinishedLine
    <3>3. QED
      BY <2>5, <3>1, <3>2
  <2>7. QED
    BY <1>1, <1>2, <1>5, <2>5, <2>6, StoppedClean
<1>6. CASE /\ pc = "case" /\ nth < 2 /\ outcome # "failure"
           /\ calls' \in Torn(calls, Started(Count + 1))
           /\ UNCHANGED <<responses, raw, sent>>
  <2>1. Started(Count + 1) \in CallLine
    BY <1>3 DEF Started, CallLine
  <2>2. calls' \in Files(CallLine) /\ calls'.lines \in {calls.lines, Append(calls.lines, Started(Count + 1))}
    BY <1>2, <1>6, <2>1, CutLine
  <2>3. CASE calls'.lines = calls.lines
    <3>1. Agreed' /\ Count' = Count /\ Pending' = Pending
      BY <1>3, <1>6, <2>3, SameLines
    <3>2. QED
      BY <1>1, <1>2, <1>6, <2>2, <3>1, StoppedClean
  <2>4. CASE calls'.lines = Append(calls.lines, Started(Count + 1))
    <3>1. Agreed' /\ Count' = Count + 1
      BY <1>3, <1>6, <2>4, StartedLine
    <3>2. CallsOf(raw.lines) <= Count
      <4>1. CallsOf(raw.lines) + CallsOf(temp) = before /\ Count = before + nth
        BY <1>6 DEF AgentInv, Accounts, LedgerInv, OpenAttempts, Evaluating
      <4>2. QED
        BY <1>2, <4>1, AgentTypes
    <3>3. QED
      BY <1>1, <1>2, <1>3, <1>6, <2>2, <3>1, <3>2, StoppedShort
  <2>5. QED
    BY <2>2, <2>3, <2>4
<1>7. ASSUME pc \in {"call", "record", "finish"}
      PROVE  /\ CallsOf(raw.lines) < Count /\ Count \in Pending /\ Count \in 1..Count
  <2>1. pc \in Evaluating /\ nth > 0 /\ Pending = {Count}
    BY <1>7 DEF AgentInv, LedgerInv, OpenAttempts, Evaluating
  <2>2. CallsOf(raw.lines) < Count
    BY <2>1, Unaccounted
  <2>3. QED
    BY <1>3, <2>1, <2>2
<1>8. CASE pc = "call" /\ Sent /\ UNCHANGED files
  <2>1. UNCHANGED <<calls, responses, raw>>
    BY <1>8 DEF files
  <2>2. Agreed' /\ Count' = Count /\ Pending' = Pending
    BY <1>3, <2>1, SameLines
  <2>3. /\ sent' \in Seq([case : Nat, invocation : Nat]) /\ Len(sent') <= Count'
        /\ ~smokedAgain => OneInvocation'
    BY <1>8, <2>2, SentNow
  <2>4. CallsOf(raw'.lines) # Count'
    BY <1>3, <1>7, <1>8, <2>1, <2>2
  <2>5. QED
    BY <1>1, <1>2, <2>1, <2>2, <2>3, <2>4, Stopped
<1>9. CASE /\ pc = "record" /\ responses' \in Torn(responses, Response(Count, outcome))
           /\ UNCHANGED <<calls, raw, sent>>
  <2>1. PICK o \in {"success", "failure"} : o = outcome
    BY <1>2, <1>9 DEF AgentInv, LedgerInv, OpenAttempts
  <2>2. Response(Count, o) \in ResponseLine
    BY <1>3 DEF Response, ResponseLine
  <2>3. responses.tail = "clean"
    BY <1>9 DEF AgentInv, Accounts, Running, Evaluating
  <2>4. /\ responses' \in Files(ResponseLine)
        /\ responses'.lines \in {responses.lines, Append(responses.lines, Response(Count, o))}
    BY <1>2, <1>9, <2>1, <2>2, <2>3, CutLine
  <2>5. Agreed' /\ Count' = Count
    <3>1. CASE responses'.lines = responses.lines
      BY <1>3, <1>9, <3>1, SameLines
    <3>2. CASE responses'.lines = Append(responses.lines, Response(Count, o))
      BY <1>3, <1>7, <1>9, <3>2, AnswerLine
    <3>3. QED
      BY <2>4, <3>1, <3>2
  <2>6. QED
    BY <1>1, <1>2, <1>3, <1>7, <1>9, <2>4, <2>5, StoppedShort
<1>10. CASE /\ pc = "finish" /\ calls' \in Torn(calls, Finished(Count, outcome))
            /\ UNCHANGED <<responses, raw, sent>>
  <2>1. PICK o \in {"success", "failure"} : o = outcome
    BY <1>2, <1>10 DEF AgentInv, LedgerInv, OpenAttempts
  <2>2. Finished(Count, o) \in CallLine
    BY <1>3 DEF Finished, CallLine
  <2>3. /\ calls' \in Files(CallLine)
        /\ calls'.lines \in {calls.lines, Append(calls.lines, Finished(Count, o))}
    BY <1>2, <1>10, <2>1, <2>2, CutLine
  <2>4. Response(Count, o) \in ToSet(responses.lines)
    BY <1>10, <2>1 DEF AgentInv, LedgerInv, OpenAttempts
  <2>5. Agreed' /\ Count' = Count
    <3>1. CASE calls'.lines = calls.lines
      BY <1>3, <1>10, <3>1, SameLines
    <3>2. CASE calls'.lines = Append(calls.lines, Finished(Count, o))
      BY <1>3, <1>10, <2>4, <3>2, FinishedLine
    <3>3. QED
      BY <2>3, <3>1, <3>2
  <2>6. QED
    BY <1>1, <1>2, <1>3, <1>7, <1>10, <2>3, <2>5, StoppedShort
<1>11. ASSUME pc = "case", mode = "full", NEW ok \in Outcomes,
              raw' \in Torn(raw, CaseRecord(ok)), UNCHANGED <<calls, responses, sent>>
       PROVE  AgentInv'
  <2>1. /\ CallsOf(raw.lines) + CallsOf(temp) = before /\ Count = before + nth
        /\ raw.tail = "clean" /\ temp = <<>> /\ Pending = {} /\ responses.tail = "clean"
        /\ case \in Cases
    BY <1>11 DEF AgentInv, Accounts, LedgerInv, OpenAttempts, RunTypes, Running, Evaluating
  <2>2. PICK r \in RecordLine : r = CaseRecord(ok) /\ r.case = case /\ r.calls = nth
    BY <1>2, <1>3, <1>11, <2>1, NewRecord
  <2>3. raw' \in Files(RecordLine) /\ raw'.lines \in {raw.lines, Append(raw.lines, r)}
    BY <1>2, <1>11, <2>1, <2>2, CutLine
  <2>4. Agreed' /\ Count' = Count /\ Pending' = Pending
    BY <1>3, <1>11, SameLines
  <2>5. Len(sent') <= Count' /\ (~smokedAgain => OneInvocation')
    BY <1>11, <2>4 DEF AgentInv, SentInv, SentOnce, OneInvocation
  <2>6. ASSUME ~smokedAgain, CallsOf(raw'.lines) = Count'
        PROVE  Accounted(raw.lines)'
    <3>1. CASE raw'.lines = raw.lines
      <4>1. Accounted(raw.lines)
        BY <2>4, <2>6, <3>1, AccountedNow
      <4>2. QED
        BY <1>11, <2>4, <3>1, <4>1 DEF Accounted
    <3>2. CASE raw'.lines = Append(raw.lines, r)
      <4>1. Recorded(raw'.lines) = Recorded(raw.lines) \cup {case}
        BY <1>3, <2>2, <3>2, RecordedAppended
      <4>2. /\ Len(sent) = Count
            /\ \A i \in DOMAIN sent : sent[i].case \in Recorded(raw.lines) \/ sent[i].case = case
        BY <1>11, <2>6 DEF AgentInv, SentInv, SentOnce, Target, Evaluating
      <4>3. QED
        BY <1>11, <2>4, <4>1, <4>2 DEF Accounted
    <3>3. QED
      BY <2>3, <3>1, <3>2
  <2>7. /\ calls' \in Files(CallLine) /\ responses' \in Files(ResponseLine)
        /\ sent' \in Seq([case : Nat, invocation : Nat])
        /\ Pending' = {} /\ responses'.tail = "clean"
    BY <1>2, <1>11, <2>1, <2>4 DEF AgentInv, LedgerInv, RunTypes
  <2>8. QED
    BY <1>1, <2>3, <2>4, <2>5, <2>6, <2>7, Stopped
<1>12. QED
  BY <1>4, <1>5, <1>6, <1>8, <1>9, <1>10, <1>11 DEF Kill

-----------------------------------------------------------------------------
(* Start and resume                                                        *)

\* The run is started; what the ledgers say is not changed by opening them.
LEMMA InvokeKeeps ==
  ASSUME AgentInv, NEW m \in {"smoke", "full"}, Invoke(m)
  PROVE  AgentInv'
<1>1. /\ mode = "off" /\ pc = "off" /\ temp = <<>>
      /\ calls \in Files(CallLine) /\ responses \in Files(ResponseLine)
      /\ invocation \in Nat /\ smokedAgain \in BOOLEAN
  BY DEF Invoke, AgentInv, LedgerInv, RunTypes, Accounts, Running, Evaluating
<1>2. /\ responses' \in Files(ResponseLine) /\ responses'.lines = responses.lines
      /\ responses.tail = "clean" => responses'.tail = "clean"
  BY <1>1, CaseAssumption, OpenedAgain DEF Invoke
<1>3. calls' \in Files(CallLine) /\ calls'.lines = calls.lines /\ calls'.tail = "clean"
  BY <1>1 DEF Invoke, Healed, Files
<1>4. Agreed' /\ Count' = Count /\ Pending' = Pending
  BY <1>2, <1>3, AgentTypes, SameLines
<1>5. /\ \/ mode' = "off" /\ pc' = "off"
         \/ mode' = m /\ pc' = "reconcile" /\ events' = responses'.lines
      /\ UNCHANGED <<raw, temp, case, before, nth, outcome, sent>>
      /\ completed' = "no" /\ invocation' = invocation + 1
  BY <1>1 DEF Invoke
<1>6. RunTypes'
  BY <1>1, <1>2, <1>3, <1>5 DEF Invoke, AgentInv, LedgerInv, RunTypes, Running, Evaluating
<1>7. Ledgers' /\ OpenAttempts'
  BY <1>3, <1>4, <1>5 DEF Ledgers, OpenAttempts, Evaluating
<1>8. Accounts'
  BY <1>1, <1>2, <1>4, <1>5 DEF AgentInv, Accounts, Running, Evaluating
<1>9. SentInv'
  <2>1. Len(sent') <= Count' /\ pc' # "call"
    BY <1>4, <1>5 DEF AgentInv, SentInv
  <2>2. ASSUME ~smokedAgain'
        PROVE  SentOnce'
    <3>1. ~smokedAgain /\ (m = "smoke" => raw.lines = <<>>)
      BY <2>2 DEF Invoke
    <3>2. OneInvocation /\ (CallsOf(raw.lines) = Count => Accounted(raw.lines))
      BY <1>1, <3>1, AccountedNow DEF AgentInv, SentInv, SentOnce
    <3>3. OneInvocation' /\ Accounted(raw.lines)' = Accounted(raw.lines)
      BY <1>4, <1>5, <3>2 DEF OneInvocation, Accounted
    <3>4. QED
      BY <1>4, <1>5, <3>1, <3>2, <3>3 DEF SentOnce, Running, Evaluating
  <2>3. QED
    BY <2>1, <2>2 DEF SentInv
<1>10. CompletedInv'
  BY <1>5 DEF CompletedInv, CompletedExactly
<1>11. QED
  BY <1>6, <1>7, <1>8, <1>9, <1>10 DEF AgentInv, LedgerInv

\* Steps before the run has been resumed, which add no attempt.
LEMMA StartGoesOn ==
  ASSUME AgentInv, pc \in {"reconcile", "resume"}, pc' \in {"reconcile", "resume"},
         UNCHANGED <<responses, raw, completed, mode, memory, history>>,
         calls' \in Files(CallLine), calls'.tail = "clean",
         Agreed', Count' = Count, Pending' \subseteq Pending, pc' = "resume" => Pending' = {}
  PROVE  AgentInv'
<1> USE DEF memory, history
<1>1. mode # "off"
  BY DEF AgentInv, LedgerInv, RunTypes
<1>2. RunTypes'
  BY DEF AgentInv, LedgerInv, RunTypes, Running, Evaluating
<1>3. Ledgers' /\ OpenAttempts'
  BY <1>1 DEF AgentInv, LedgerInv, Ledgers, OpenAttempts, Evaluating
<1>4. Accounts'
  <2>1. temp = <<>>
    BY DEF AgentInv, Accounts, Running, Evaluating
  <2>2. QED
    BY <2>1, SettledNow DEF Accounts, Running, Evaluating
<1>5. SentInv'
  <2>1. ASSUME ~smokedAgain
        PROVE  SentOnce'
    <3>1. OneInvocation /\ (mode = "smoke" => raw.lines = <<>>)
      BY <2>1 DEF AgentInv, SentInv, SentOnce
    <3>2. CallsOf(raw.lines) = Count => Accounted(raw.lines)
      BY <2>1, AccountedNow
    <3>3. QED
      BY <3>1, <3>2 DEF SentOnce, OneInvocation, Accounted, Running, Evaluating
  <2>2. QED
    BY <2>1 DEF AgentInv, SentInv
<1>6. CompletedInv'
  BY <1>1 DEF AgentInv, CompletedInv, CompletedExactly
<1>7. QED
  BY <1>2, <1>3, <1>4, <1>5, <1>6 DEF AgentInv, LedgerInv

\* reconcile_pending.
LEMMA ReconcileKeeps ==
  ASSUME AgentInv, ReconcileOne \/ Reconciled
  PROVE  AgentInv'
<1>1. /\ pc = "reconcile" /\ mode # "off"
      /\ calls \in Files(CallLine) /\ raw \in Files(RecordLine)
      /\ calls.tail = "clean" /\ events = responses.lines
  BY DEF ReconcileOne, Reconciled, AgentInv, LedgerInv, RunTypes, Ledgers
<1>2. /\ Count \in Nat /\ Agreed /\ calls.lines \in Seq(CallLine)
      /\ responses.lines \in Seq(ResponseLine)
  BY AgentTypes
<1>3. CASE ReconcileOne
  <2>1. PICK n \in Pending, e \in ToSet(events) :
          e.attempt = n /\ calls' = Written(calls, Finished(n, e.outcome))
    BY <1>3 DEF ReconcileOne
  <2>2. e \in ResponseLine
    BY <1>1, <1>2 DEF ToSet
  <2>3. PICK o \in {"success", "failure"} : o = e.outcome
    BY <2>2 DEF ResponseLine
  <2>4. n \in Nat /\ Response(n, o) = e
    BY <2>1, <2>2, <2>3 DEF ResponseLine, Response
  <2>5. Finished(n, o) \in CallLine
    BY <2>4 DEF Finished, CallLine
  <2>6. /\ calls' \in Files(CallLine) /\ calls'.tail = "clean"
        /\ calls'.lines = Append(calls.lines, Finished(n, o))
    BY <1>1, <2>1, <2>3, <2>5, WholeLine
  <2>7. UNCHANGED <<responses, raw, completed, mode, pc, memory, history>>
    BY <1>3 DEF ReconcileOne
  <2>8. Agreed' /\ Count' = Count /\ Pending' \subseteq Pending
    BY <1>1, <1>2, <2>4, <2>6, <2>7, FinishedLine
  <2>9. QED
    BY <1>1, <2>6, <2>7, <2>8, StartGoesOn
<1>4. CASE Reconciled
  <2>1. UNCHANGED <<calls, responses, raw, completed, history>>
    BY <1>4 DEF Reconciled, files
  <2>2. Agreed' /\ Count' = Count /\ Pending' = Pending
    BY <1>2, <2>1, SameLines
  <2>3. CASE Pending = {} /\ pc' = "resume" /\ UNCHANGED <<mode, memory>>
    BY <1>1, <2>1, <2>2, <2>3, StartGoesOn
  <2>4. CASE Off
    BY <1>1, <2>1, <2>2, <2>4, StoppedClean DEF history
  <2>5. QED
    BY <1>4, <2>3, <2>4 DEF Reconciled
<1>5. QED
  BY <1>3, <1>4

\* require_no_orphan_provider_calls: from here on the output accounts for
\* every call.
LEMMA ResumeKeeps ==
  ASSUME AgentInv, Resume
  PROVE  AgentInv'
<1> USE DEF memory, history
<1>1. /\ pc = "resume" /\ mode \in {"smoke", "full"} /\ temp = <<>> /\ Pending = {}
      /\ calls \in Files(CallLine) /\ raw \in Files(RecordLine)
  BY DEF Resume, AgentInv, LedgerInv, RunTypes, OpenAttempts, Accounts, Running, Evaluating
<1>2. raw' \in Files(RecordLine) /\ raw'.lines = raw.lines /\ raw'.tail = "clean"
  BY <1>1 DEF Resume, Healed, Files
<1>3. UNCHANGED <<calls, responses, completed, history>>
  BY DEF Resume
<1>4. Agreed' /\ Count' = Count /\ Pending' = Pending
  BY <1>3, AgentTypes, SameLines
<1>5. CASE CallsOf(raw'.lines) = Count /\ pc' = "next" /\ UNCHANGED <<mode, memory>>
  <2>1. CallsOf(raw.lines) = Count
    BY <1>2, <1>5
  <2>2. RunTypes'
    BY <1>1, <1>2, <1>3, <1>5 DEF AgentInv, LedgerInv, RunTypes, Running, Evaluating
  <2>3. Ledgers' /\ OpenAttempts'
    BY <1>1, <1>3, <1>4, <1>5 DEF AgentInv, LedgerInv, Ledgers, OpenAttempts, Evaluating
  <2>4. responses.tail = "clean"
    BY <2>1, SettledNow
  <2>5. Accounts'
    <3>1. CallsOf(raw'.lines) + CallsOf(temp') = Count'
      BY <1>1, <1>4, <1>5, NoCalls, AgentTypes
    <3>2. QED
      BY <1>1, <1>2, <1>3, <1>5, <2>4, <3>1 DEF Accounts, Running, Evaluating
  <2>6. SentInv'
    <3>1. ASSUME ~smokedAgain
          PROVE  SentOnce'
      <4>1. OneInvocation /\ (mode = "smoke" => raw.lines = <<>>)
        BY <1>1, <3>1 DEF AgentInv, SentInv, SentOnce
      <4>2. Accounted(raw.lines)
        BY <2>1, <3>1, AccountedNow
      <4>3. Target' = raw.lines
        BY <1>1, <1>2, <1>5, <4>1 DEF Target
      <4>4. QED
        BY <1>2, <1>3, <1>4, <1>5, <4>1, <4>2, <4>3
           DEF SentOnce, OneInvocation, Accounted, Running, Evaluating
    <3>2. QED
      BY <1>3, <1>4, <1>5, <3>1 DEF AgentInv, SentInv
  <2>7. CompletedInv'
    BY <1>1, <1>3 DEF AgentInv, CompletedInv, CompletedExactly
  <2>8. QED
    BY <2>2, <2>3, <2>5, <2>6, <2>7 DEF AgentInv, LedgerInv
<1>6. CASE Off
  BY <1>1, <1>2, <1>3, <1>4, <1>6, StoppedClean
<1>7. QED
  BY <1>5, <1>6 DEF Resume

-----------------------------------------------------------------------------
(* A case under evaluation                                                 *)

\* The first scheduled case without a record: nothing was sent for it.
LEMMA NextCaseKeeps ==
  ASSUME AgentInv, NextCase
  PROVE  AgentInv'
<1> USE DEF history
<1>1. PICK c \in Scheduled \ Recorded(Target) : case' = c
  BY DEF NextCase
<1>2. /\ pc = "next" /\ pc' = "case" /\ before' = Count /\ nth' = 0 /\ outcome' = "none"
      /\ UNCHANGED <<calls, responses, raw, completed, mode, events, temp, invocation,
                     smokedAgain, sent>>
  BY DEF NextCase, files
<1>3. Agreed' /\ Count' = Count /\ Pending' = Pending /\ Count \in Nat
  BY <1>2, AgentTypes, SameLines
<1>4. c \in Cases /\ c \in Nat
  BY <1>1, CaseAssumption DEF Scheduled
<1>5. RunTypes'
  BY <1>1, <1>2, <1>3, <1>4 DEF AgentInv, LedgerInv, RunTypes, Running, Evaluating
<1>6. Ledgers' /\ OpenAttempts'
  BY <1>2, <1>3 DEF AgentInv, LedgerInv, Ledgers, OpenAttempts, Evaluating
<1>7. Accounts'
  BY <1>2, <1>3 DEF AgentInv, Accounts, Running, Evaluating
<1>8. SentInv'
  <2>1. ASSUME ~smokedAgain
        PROVE  SentOnce'
    <3>1. /\ OneInvocation /\ Accounted(Target)
          /\ mode = "smoke" => raw.lines = <<>>
      BY <1>2, <2>1 DEF AgentInv, SentInv, SentOnce
    <3>2. Target' = Target
      BY <1>2 DEF Target
    <3>3. QED
      BY <1>1, <1>2, <1>3, <3>1, <3>2
         DEF SentOnce, OneInvocation, Accounted, Running, Evaluating
  <2>2. QED
    BY <1>2, <1>3, <2>1 DEF AgentInv, SentInv
<1>9. CompletedInv'
  BY <1>2 DEF AgentInv, CompletedInv, CompletedExactly, LedgerInv, RunTypes
<1>10. QED
  BY <1>5, <1>6, <1>7, <1>8, <1>9 DEF AgentInv, LedgerInv

\* Steps within a case that leave the outputs alone.
LEMMA CaseGoesOn ==
  ASSUME AgentInv, pc \in Evaluating, pc' \in Evaluating,
         UNCHANGED <<raw, completed, mode, temp, case, before, invocation, smokedAgain>>,
         calls' \in Files(CallLine), calls'.tail = "clean",
         responses' \in Files(ResponseLine), responses'.tail = "clean",
         events' = responses'.lines, nth' \in Nat, outcome' \in {"none", "success", "failure"},
         sent' \in Seq([case : Nat, invocation : Nat]),
         Agreed', OpenAttempts',
         Len(sent') <= Count', pc' = "call" => Len(sent') < Count',
         ~smokedAgain =>
           /\ OneInvocation'
           /\ Len(sent') = IF pc' = "call" THEN Count' - 1 ELSE Count'
           /\ \A i \in DOMAIN sent' :
                \/ sent'[i].case \in Recorded(Target)
                \/ nth' > 0 /\ sent'[i].case = case /\ sent'[i].invocation = invocation
  PROVE  AgentInv'
<1>1. mode # "off" /\ pc' \in Running /\ pc' \notin {"off", "next", "final"}
  BY DEF AgentInv, LedgerInv, RunTypes, Running, Evaluating
<1>2. RunTypes'
  BY <1>1 DEF AgentInv, LedgerInv, RunTypes, Evaluating
<1>3. Ledgers'
  BY DEF Ledgers
<1>4. Accounts'
  BY <1>1 DEF AgentInv, Accounts, Running, Evaluating
<1>5. SentInv'
  <2>1. ASSUME ~smokedAgain
        PROVE  SentOnce'
    <3>1. case \notin Recorded(Target) /\ (mode = "smoke" => raw.lines = <<>>)
      BY <2>1 DEF AgentInv, SentInv, SentOnce, Evaluating
    <3>2. Target' = Target
      BY DEF Target
    <3>3. QED
      BY <1>1, <2>1, <3>1, <3>2 DEF SentOnce
  <2>2. QED
    BY <2>1 DEF SentInv
<1>6. CompletedInv'
  BY <1>1 DEF AgentInv, CompletedInv, CompletedExactly
<1>7. QED
  BY <1>2, <1>3, <1>4, <1>5, <1>6 DEF AgentInv, LedgerInv

\* What holds within a case.
LEMMA WithinCase ==
  ASSUME AgentInv, pc \in Evaluating
  PROVE  /\ calls \in Files(CallLine) /\ calls.tail = "clean"
         /\ responses \in Files(ResponseLine) /\ responses.tail = "clean"
         /\ events = responses.lines /\ raw \in Files(RecordLine) /\ raw.tail = "clean"
         /\ nth \in Nat /\ before \in Nat /\ outcome \in {"none", "success", "failure"}
         /\ Count = before + nth /\ case \in Cases /\ mode \in {"smoke", "full"}
         /\ sent \in Seq([case : Nat, invocation : Nat])
         /\ Len(sent) <= Count /\ (pc = "call" => Len(sent) < Count)
         /\ CallsOf(raw.lines) + CallsOf(temp) = before
         /\ ~smokedAgain =>
              /\ OneInvocation /\ case \notin Recorded(Target)
              /\ mode = "smoke" => raw.lines = <<>>
              /\ Len(sent) = IF pc = "call" THEN Count - 1 ELSE Count
              /\ \A i \in DOMAIN sent :
                   \/ sent[i].case \in Recorded(Target)
                   \/ nth > 0 /\ sent[i].case = case /\ sent[i].invocation = invocation
<1>1. mode # "off" /\ pc # "final"
  BY DEF AgentInv, LedgerInv, RunTypes, Evaluating
<1>2. LedgerInv /\ Accounts /\ SentInv /\ pc \in Running
  BY DEF AgentInv, Running
<1>3. QED
  BY <1>1, <1>2 DEF LedgerInv, RunTypes, Ledgers, OpenAttempts, Accounts, SentInv, SentOnce

\* claim_phase and begin_attempt.
LEMMA BeginKeeps ==
  ASSUME AgentInv, Begin
  PROVE  AgentInv'
<1> USE DEF history
<1>1. /\ pc = "case" /\ pc' = "call" /\ nth' = nth + 1
      /\ calls' = Written(calls, Started(Count + 1))
      /\ UNCHANGED <<responses, raw, completed, mode, events, temp, case, before, outcome,
                     invocation, smokedAgain, sent>>
  BY DEF Begin
<1>2. pc \in Evaluating /\ pc' \in Evaluating
  BY <1>1 DEF Evaluating
<1>3. Started(Count + 1) \in CallLine
  BY AgentTypes DEF Started, CallLine
<1>4. /\ calls' \in Files(CallLine) /\ calls'.tail = "clean"
      /\ calls'.lines = Append(calls.lines, Started(Count + 1))
  BY <1>1, <1>2, <1>3, WithinCase, WholeLine
<1>5. Agreed' /\ Count' = Count + 1 /\ Pending' = Pending \cup {Count'} /\ Count \in Nat
  BY <1>1, <1>4, AgentTypes, StartedLine
<1>50. /\ before \in Nat /\ nth \in Nat /\ Count = before + nth
       /\ Len(sent) \in Nat /\ Len(sent) <= Count
  BY <1>2, WithinCase, AgentTypes
<1>6. OpenAttempts'
  <2>1. Pending = {}
    BY <1>1 DEF AgentInv, LedgerInv, OpenAttempts
  <2>2. Count' = before + nth' /\ nth' > 0
    BY ONLY <1>1, <1>5, <1>50
  <2>3. QED
    BY <1>1, <1>5, <2>1, <2>2 DEF OpenAttempts
<1>7. Len(sent') <= Count' /\ Len(sent') < Count'
  <2>1. Len(sent') = Len(sent)
    BY <1>1
  <2>2. QED
    BY ONLY <1>5, <1>50, <2>1
<1>8. ~smokedAgain =>
        /\ OneInvocation'
        /\ Len(sent') = Count' - 1
        /\ \A i \in DOMAIN sent' :
             \/ sent'[i].case \in Recorded(Target)
             \/ nth' > 0 /\ sent'[i].case = case /\ sent'[i].invocation = invocation
  BY <1>1, <1>2, <1>5, WithinCase DEF OneInvocation
<1>9. nth' \in Nat
  BY <1>1, <1>2, WithinCase
<1>10. QED
  BY <1>1, <1>2, <1>4, <1>5, <1>6, <1>7, <1>8, <1>9, WithinCase, CaseGoesOn

\* The provider answers or raises.
LEMMA CallKeeps ==
  ASSUME AgentInv, Call
  PROVE  AgentInv'
<1>1. /\ pc = "call" /\ pc' = "record" /\ outcome' \in {"success", "failure"} /\ Sent
      /\ UNCHANGED <<calls, responses, raw, completed, mode, events, temp, case, before,
                     nth, invocation, smokedAgain>>
  BY DEF Call, files
<1>2. pc \in Evaluating /\ pc' \in Evaluating
  BY <1>1 DEF Evaluating
<1>3. Agreed' /\ Count' = Count /\ Pending' = Pending
  BY <1>1, AgentTypes, SameLines
<1>4. OpenAttempts'
  BY <1>1, <1>2, <1>3 DEF AgentInv, LedgerInv, OpenAttempts
<1>5. nth > 0
  BY <1>1 DEF AgentInv, LedgerInv, OpenAttempts
<1>6. /\ sent' \in Seq([case : Nat, invocation : Nat]) /\ Len(sent') = Len(sent) + 1
      /\ \A i \in DOMAIN sent' :
           (i \in DOMAIN sent /\ sent'[i] = sent[i])
             \/ sent'[i] = [case |-> case, invocation |-> invocation]
      /\ Len(sent') <= Count
      /\ ~smokedAgain => OneInvocation'
  BY <1>1, SentNow
<1>7. ASSUME ~smokedAgain
      PROVE  /\ Len(sent') = Count'
             /\ \A i \in DOMAIN sent' :
                  \/ sent'[i].case \in Recorded(Target)
                  \/ nth' > 0 /\ sent'[i].case = case /\ sent'[i].invocation = invocation
  <2>1. Len(sent) = Count - 1
    BY <1>1, <1>2, <1>7, WithinCase
  <2>2. \A i \in DOMAIN sent :
          \/ sent[i].case \in Recorded(Target)
          \/ nth > 0 /\ sent[i].case = case /\ sent[i].invocation = invocation
    BY <1>2, <1>7, WithinCase
  <2>3. Len(sent') = Count'
    BY <1>3, <1>6, <2>1, AgentTypes
  <2>4. QED
    BY <1>1, <1>5, <1>6, <2>2, <2>3
<1>8. QED
  BY <1>1, <1>2, <1>3, <1>4, <1>6, <1>7, WithinCase, CaseGoesOn

\* The answer is written to the response ledger.
LEMMA RecordKeeps ==
  ASSUME AgentInv, Record
  PROVE  AgentInv'
<1> USE DEF history
<1>1. /\ pc = "record" /\ pc' = "finish"
      /\ responses' = Written(responses, Response(Count, outcome))
      /\ events' = Append(events, Response(Count, outcome))
      /\ UNCHANGED <<calls, raw, completed, mode, temp, case, before, nth, outcome,
                     invocation, smokedAgain, sent>>
  BY DEF Record
<1>2. pc \in Evaluating /\ pc' \in Evaluating
  BY <1>1 DEF Evaluating
<1>3. outcome # "none" /\ Pending = {Count} /\ nth > 0 /\ Count = before + nth
  BY <1>1, <1>2 DEF AgentInv, LedgerInv, OpenAttempts
<1>4. PICK o \in {"success", "failure"} : o = outcome
  BY <1>2, <1>3, WithinCase
<1>5. Response(Count, o) \in ResponseLine
  BY AgentTypes DEF Response, ResponseLine
<1>6. /\ responses' \in Files(ResponseLine) /\ responses'.tail = "clean"
      /\ responses'.lines = Append(responses.lines, Response(Count, o))
  BY <1>1, <1>2, <1>4, <1>5, WithinCase, WholeLine
<1>7. Count \in 1..Count
  BY <1>2, <1>3, WithinCase, AgentTypes
<1>8. /\ Agreed' /\ Count' = Count /\ Pending' = Pending
      /\ Response(Count, o) \in ToSet(responses'.lines)
  BY <1>1, <1>6, <1>7, AgentTypes, AnswerLine
<1>9. OpenAttempts'
  BY <1>1, <1>3, <1>4, <1>8 DEF OpenAttempts, Evaluating
<1>10. events' = responses'.lines
  BY <1>1, <1>2, <1>4, <1>6, WithinCase
<1>11. ~smokedAgain =>
         /\ OneInvocation'
         /\ Len(sent') = Count'
         /\ \A i \in DOMAIN sent' :
              \/ sent'[i].case \in Recorded(Target)
              \/ nth' > 0 /\ sent'[i].case = case /\ sent'[i].invocation = invocation
  BY <1>1, <1>2, <1>8, WithinCase DEF OneInvocation
<1>12. QED
  BY <1>1, <1>2, <1>6, <1>8, <1>9, <1>10, <1>11, WithinCase, CaseGoesOn

\* finish_attempt: no attempt is open any more.
LEMMA FinishKeeps ==
  ASSUME AgentInv, Finish
  PROVE  AgentInv'
<1> USE DEF history, memory
<1>1. /\ pc = "finish" /\ pc' = "case" /\ calls' = Written(calls, Finished(Count, outcome))
      /\ UNCHANGED <<responses, raw, completed, mode, events, temp, case, before, nth,
                     outcome, invocation, smokedAgain, sent>>
  BY DEF Finish
<1>2. pc \in Evaluating /\ pc' \in Evaluating
  BY <1>1 DEF Evaluating
<1>3. /\ outcome # "none" /\ Pending = {Count} /\ nth > 0 /\ Count = before + nth
      /\ Response(Count, outcome) \in ToSet(responses.lines)
  BY <1>1, <1>2 DEF AgentInv, LedgerInv, OpenAttempts
<1>4. PICK o \in {"success", "failure"} : o = outcome
  BY <1>2, <1>3, WithinCase
<1>5. Finished(Count, o) \in CallLine
  BY AgentTypes DEF Finished, CallLine
<1>6. /\ calls' \in Files(CallLine) /\ calls'.tail = "clean"
      /\ calls'.lines = Append(calls.lines, Finished(Count, o))
  BY <1>1, <1>2, <1>4, <1>5, WithinCase, WholeLine
<1>7. Agreed' /\ Count' = Count /\ Pending' = Pending \ {Count}
  BY <1>1, <1>3, <1>4, <1>6, AgentTypes, FinishedLine
<1>8. OpenAttempts'
  BY <1>1, <1>3, <1>7 DEF OpenAttempts, Evaluating
<1>9. ~smokedAgain =>
        /\ OneInvocation'
        /\ Len(sent') = Count'
        /\ \A i \in DOMAIN sent' :
             \/ sent'[i].case \in Recorded(Target)
             \/ nth' > 0 /\ sent'[i].case = case /\ sent'[i].invocation = invocation
  BY <1>1, <1>2, <1>7, WithinCase DEF OneInvocation
<1>10. QED
  BY <1>1, <1>2, <1>6, <1>7, <1>8, <1>9, WithinCase, CaseGoesOn

\* The case gets its record, which accounts for its calls.
LEMMA EndCaseKeeps ==
  ASSUME AgentInv, EndCase
  PROVE  AgentInv'
<1> USE DEF history
<1>1. /\ pc = "case" /\ pc' = "next"
      /\ UNCHANGED <<calls, responses, completed, mode, events, case, before, nth, outcome,
                     invocation, smokedAgain, sent>>
  BY DEF EndCase
<1>2. pc \in Evaluating /\ pc \in Running /\ pc' \in Running /\ pc' \notin Evaluating
  BY <1>1 DEF Evaluating, Running
<1>3. Agreed' /\ Count' = Count /\ Pending' = Pending
  BY <1>1, AgentTypes, SameLines
<1>4. /\ raw \in Files(RecordLine) /\ raw.tail = "clean" /\ mode \in {"smoke", "full"}
      /\ raw.lines \in Seq(RecordLine) /\ temp \in Seq(RecordLine)
      /\ CallsOf(raw.lines) \in Nat /\ CallsOf(temp) \in Nat
      /\ case \in Cases /\ nth \in Nat /\ before \in Nat /\ Count = before + nth
      /\ CallsOf(raw.lines) + CallsOf(temp) = before
      /\ mode = "full" => temp = <<>>
  BY <1>2, WithinCase, AgentTypes DEF AgentInv, Accounts
<1>5. PICK ok \in Outcomes :
        IF mode = "smoke" THEN temp' = Append(temp, CaseRecord(ok)) /\ UNCHANGED raw
        ELSE raw' = Written(raw, CaseRecord(ok)) /\ UNCHANGED temp
  BY <1>1 DEF EndCase
<1>6. PICK r \in RecordLine : r = CaseRecord(ok) /\ r.case = case /\ r.calls = nth
  BY <1>4, NewRecord
<1>7. /\ raw' \in Files(RecordLine) /\ raw'.tail = "clean" /\ temp' \in Seq(RecordLine)
      /\ CallsOf(raw'.lines) + CallsOf(temp') = Count
      /\ mode = "full" => temp' = <<>>
      /\ mode = "smoke" => raw'.lines = raw.lines
      /\ Recorded(Target') = Recorded(Target) \cup {case}
  <2>1. CASE mode = "smoke"
    <3>1. temp' = Append(temp, r) /\ raw' = raw
      BY <1>5, <1>6, <2>1
    <3>2. temp' \in Seq(RecordLine)
      BY <1>4, <3>1
    <3>3. CallsOf(temp') = CallsOf(temp) + nth
      BY <1>4, <1>6, <3>1, CallsAppended
    <3>4. Recorded(temp') = Recorded(temp) \cup {case}
      BY <1>4, <1>6, <3>1, RecordedAppended
    <3>5. Target = temp /\ Target' = temp'
      BY <1>1, <2>1 DEF Target
    <3>6. PICK a \in Nat, b \in Nat : a = CallsOf(raw.lines) /\ b = CallsOf(temp)
      BY <1>4
    <3>7. CallsOf(temp') = b + nth /\ a + b = before
      BY <1>4, <3>3, <3>6
    <3>8. a + (b + nth) = Count
      BY <1>4, <3>7
    <3>9. QED
      BY <1>4, <2>1, <3>1, <3>2, <3>4, <3>5, <3>6, <3>7, <3>8
  <2>2. CASE mode = "full"
    <3>1. raw' = Written(raw, r) /\ temp' = temp
      BY <1>5, <1>6, <2>2
    <3>2. /\ raw' \in Files(RecordLine) /\ raw'.tail = "clean"
          /\ raw'.lines = Append(raw.lines, r)
      BY <1>4, <3>1, WholeLine
    <3>3. CallsOf(raw'.lines) = CallsOf(raw.lines) + nth
      BY <1>4, <1>6, <3>2, CallsAppended
    <3>4. Recorded(raw'.lines) = Recorded(raw.lines) \cup {case}
      BY <1>4, <1>6, <3>2, RecordedAppended
    <3>5. Target = raw.lines /\ Target' = raw'.lines
      BY <1>1, <2>2 DEF Target
    <3>6. PICK a \in Nat, b \in Nat : a = CallsOf(raw.lines) /\ b = CallsOf(temp)
      BY <1>4
    <3>7. CallsOf(raw'.lines) = a + nth /\ a + b = before
      BY <1>4, <3>3, <3>6
    <3>8. (a + nth) + b = Count
      BY <1>4, <3>7
    <3>9. QED
      BY <1>4, <2>2, <3>1, <3>2, <3>4, <3>5, <3>6, <3>7, <3>8
  <2>3. QED
    BY <1>4, <2>1, <2>2
<1>8. RunTypes'
  BY <1>1, <1>2, <1>7 DEF AgentInv, LedgerInv, RunTypes
<1>9. Ledgers' /\ OpenAttempts'
  BY <1>1, <1>2, <1>3 DEF AgentInv, LedgerInv, Ledgers, OpenAttempts
<1>10. Accounts'
  <2>1. responses.tail = "clean"
    BY <1>2, WithinCase
  <2>2. QED
    BY <1>1, <1>2, <1>3, <1>7, <2>1 DEF Accounts
<1>11. SentInv'
  <2>1. Len(sent') <= Count'
    BY <1>1, <1>2, <1>3, WithinCase
  <2>2. ASSUME ~smokedAgain
        PROVE  SentOnce'
    <3>1. /\ OneInvocation /\ (mode = "smoke" => raw.lines = <<>>)
          /\ Len(sent) = Count
          /\ \A i \in DOMAIN sent : sent[i].case \in Recorded(Target) \cup {case}
      BY <1>1, <1>2, <2>2, WithinCase
    <3>2. OneInvocation' /\ Accounted(Target)'
      BY <1>1, <1>3, <1>7, <3>1 DEF OneInvocation, Accounted
    <3>3. QED
      BY <1>1, <1>2, <1>7, <3>1, <3>2 DEF SentOnce
  <2>3. QED
    BY <1>1, <2>1, <2>2 DEF SentInv
<1>12. CompletedInv'
  BY <1>1, <1>4 DEF AgentInv, CompletedInv, CompletedExactly
<1>13. QED
  BY <1>8, <1>9, <1>10, <1>11, <1>12 DEF AgentInv, LedgerInv

-----------------------------------------------------------------------------
(* The end of the schedule                                                 *)

\* The run comes to its last validation.
LEMMA FinalReached ==
  ASSUME AgentInv, pc = "next", pc' = "final",
         UNCHANGED <<calls, responses, completed, mode, memory, history>>,
         raw' \in Files(RecordLine), raw'.tail = "clean",
         ~smokedAgain => raw'.lines = Target
  PROVE  AgentInv'
<1> USE DEF history, memory
<1>1. mode # "off" /\ pc \in Running /\ pc' \in Running /\ pc' \notin Evaluating
  BY DEF AgentInv, LedgerInv, RunTypes, Running, Evaluating
<1>2. Agreed' /\ Count' = Count /\ Pending' = Pending
  BY AgentTypes, SameLines
<1>3. RunTypes'
  BY <1>1 DEF AgentInv, LedgerInv, RunTypes
<1>4. Ledgers' /\ OpenAttempts'
  BY <1>1, <1>2 DEF AgentInv, LedgerInv, Ledgers, OpenAttempts
<1>5. Accounts'
  BY <1>1 DEF AgentInv, Accounts
<1>6. SentInv'
  <2>1. ASSUME ~smokedAgain
        PROVE  SentOnce'
    <3>1. /\ OneInvocation /\ Accounted(Target) /\ (mode = "smoke" => raw.lines = <<>>)
          /\ CallsOf(raw.lines) + CallsOf(temp) = Count
          /\ mode = "full" => temp = <<>>
      BY <2>1 DEF AgentInv, SentInv, SentOnce, Accounts
    <3>2. CallsOf(Target) = Count
      <4>1. CASE mode = "smoke"
        BY <3>1, <4>1, NoCalls, AgentTypes DEF Target
      <4>2. CASE mode = "full"
        BY <3>1, <4>2, NoCalls, AgentTypes DEF Target
      <4>3. QED
        BY <1>1, <4>1, <4>2 DEF AgentInv, LedgerInv, RunTypes
    <3>3. raw'.lines = Target
      BY <2>1
    <3>4. Accounted(raw.lines)' /\ CallsOf(raw'.lines) = Count'
      BY <1>2, <3>1, <3>2, <3>3 DEF Accounted
    <3>5. QED
      BY <1>1, <3>1, <3>4 DEF SentOnce, OneInvocation
  <2>2. QED
    BY <1>2, <2>1 DEF AgentInv, SentInv
<1>7. CompletedInv'
  BY <1>1 DEF AgentInv, CompletedInv, CompletedExactly
<1>8. QED
  BY <1>3, <1>4, <1>5, <1>6, <1>7 DEF AgentInv, LedgerInv

\* run_agent_smoke_gate: the first smoke run leaves its records in the output
\* as they are.
LEMMA PromoteKeeps ==
  ASSUME AgentInv, Promote
  PROVE  AgentInv'
<1>1. /\ pc = "next" /\ mode = "smoke" /\ raw \in Files(RecordLine) /\ raw.tail = "clean"
      /\ calls \in Files(CallLine)
      /\ UNCHANGED <<calls, responses, completed, invocation, smokedAgain, sent>>
  BY DEF Promote, history, AgentInv, LedgerInv, RunTypes, Accounts, Running
<1>2. CASE Off /\ UNCHANGED raw
  <2>1. Agreed' /\ Count' = Count /\ Pending' = Pending
    BY <1>1, AgentTypes, SameLines
  <2>2. QED
    BY <1>1, <1>2, <2>1, StoppedClean
<1>3. ASSUME LET new == {i \in DOMAIN temp : temp[i].case \notin Recorded(raw.lines)}
             IN raw' = [raw EXCEPT !.lines = @ \o SubSequence(temp, new)],
             pc' = "final", UNCHANGED <<mode, memory>>
      PROVE  AgentInv'
  <2> DEFINE new == {i \in DOMAIN temp : temp[i].case \notin Recorded(raw.lines)}
  <2>1. new \in SUBSET DOMAIN temp
    OBVIOUS
  <2>2. raw.lines = <<>> => new = DOMAIN temp
    <3>1. Recorded(<<>>) = {}
      BY DEF Recorded, ToSet
    <3>2. QED
      BY <3>1
  <2>3. raw' = [raw EXCEPT !.lines = @ \o SubSequence(temp, new)]
    BY <1>3
  <2> HIDE DEF new
  <2>4. PICK s \in Seq(RecordLine) : s = SubSequence(temp, new)
    BY <2>1, AgentTypes, SubSequenceType
  <2>5. raw'.lines = raw.lines \o s /\ raw'.tail = "clean"
    BY <1>1, <2>3, <2>4 DEF Files
  <2>6. raw' \in Files(RecordLine)
    <3>1. raw.lines \o s \in Seq(RecordLine)
      BY AgentTypes
    <3>2. QED
      BY <1>1, <2>3, <2>4, <2>5, <3>1 DEF Files
  <2>7. ASSUME ~smokedAgain
        PROVE  raw'.lines = Target
    <3>1. raw.lines = <<>>
      BY <1>1, <2>7 DEF AgentInv, SentInv, SentOnce
    <3>2. s = temp
      BY <2>2, <2>4, <3>1, AgentTypes, WholeSequence
    <3>3. <<>> \o temp = temp
      BY AgentTypes
    <3>4. QED
      BY <1>1, <2>5, <3>1, <3>2, <3>3 DEF Target
  <2>8. QED
    BY <1>1, <1>3, <2>5, <2>6, <2>7, FinalReached DEF history
<1>4. QED
  BY <1>2, <1>3 DEF Promote

\* A full run that has a record of every case.
LEMMA FullDoneKeeps ==
  ASSUME AgentInv, FullDone
  PROVE  AgentInv'
<1>1. /\ raw \in Files(RecordLine) /\ raw.tail = "clean" /\ mode = "full"
      /\ pc = "next" /\ pc' = "final"
      /\ UNCHANGED <<calls, responses, raw, completed, mode, memory, history>>
  BY DEF FullDone, files, AgentInv, LedgerInv, RunTypes, Accounts, Running
<1>2. raw'.lines = Target
  BY <1>1 DEF Target
<1>3. QED
  BY <1>1, <1>2, FinalReached

\* The last validation, and what the metadata says then.
LEMMA CompleteKeeps ==
  ASSUME AgentInv, Complete
  PROVE  AgentInv'
<1>1. /\ pc = "final" /\ mode \in {"smoke", "full"} /\ Off /\ completed = "no"
      /\ UNCHANGED <<calls, responses, raw, invocation, smokedAgain, sent>>
      /\ calls \in Files(CallLine) /\ raw \in Files(RecordLine)
  BY DEF Complete, files, history, AgentInv, LedgerInv, RunTypes, CompletedInv
<1>2. Agreed' /\ Count' = Count /\ Pending' = Pending /\ Pending = {}
  BY <1>1, AgentTypes, SameLines DEF AgentInv, LedgerInv, OpenAttempts
<1>3. UNCHANGED completed \/ (completed' \in {"smoke", "full"} /\ CompletedExactly')
  <2>1. CASE completed' = completed
    BY <2>1
  <2>2. CASE /\ completed' = mode /\ ScheduledOnce(raw.lines)
             /\ Scheduled \subseteq Recorded(raw.lines)
    <3>1. /\ Recorded(raw.lines) = IF mode = "smoke" THEN SmokeCases ELSE Cases
          /\ Len(raw.lines) = Cardinality(Recorded(raw.lines))
      BY <2>2 DEF ScheduledOnce, Scheduled
    <3>2. ~smokedAgain => CallsOf(raw.lines) = Len(sent) /\ Count = Len(sent)
      BY <1>1 DEF AgentInv, SentInv, SentOnce, Accounted
    <3>3. QED
      BY <1>1, <1>2, <2>2, <3>1, <3>2 DEF CompletedExactly
  <2>3. QED
    BY <2>1, <2>2 DEF Complete
<1>4. QED
  BY <1>1, <1>2, <1>3, StoppedClean

-----------------------------------------------------------------------------
(* The theorems                                                            *)

\* AgentInv is an invariant.
LEMMA AgentInvHolds == Spec => []AgentInv
<1>1. Init => AgentInv
  <2>1. SUFFICES ASSUME Init PROVE AgentInv
    OBVIOUS
  <2>2. /\ calls = NoFile /\ responses = NoFile /\ raw = NoFile /\ sent = <<>>
        /\ pc = "off" /\ mode = "off" /\ temp = <<>> /\ completed = "no"
    BY <2>1 DEF Init
  <2>3. \A Line : NoFile \in Files(Line)
    BY DEF NoFile, Files
  <2>4. RunTypes
    <3>1. /\ calls \in Files(CallLine) /\ responses \in Files(ResponseLine)
          /\ raw \in Files(RecordLine)
      BY <2>2, <2>3
    <3>2. temp \in Seq(RecordLine) /\ sent \in Seq([case : Nat, invocation : Nat])
      BY <2>2
    <3>3. /\ case = 0 /\ before = 0 /\ nth = 0 /\ outcome = "none"
          /\ invocation = 0 /\ smokedAgain = FALSE
      BY <2>1 DEF Init
    <3>4. QED
      BY <2>2, <3>1, <3>2, <3>3 DEF RunTypes, Running, Evaluating
  <2>5. Attempts = {} /\ Terminal = {} /\ Pending = {}
    <3>1. ToSet(calls.lines) = {}
      BY <2>2 DEF NoFile, ToSet
    <3>2. QED
      BY <3>1 DEF Attempts, Terminal, Pending
  <2>6. Count = 0
    BY <2>5, FS_EmptySet DEF Count
  <2>7. Agreed
    <3>1. ToSet(responses.lines) = {}
      BY <2>2 DEF NoFile, ToSet
    <3>2. QED
      BY <2>5, <2>6, <3>1 DEF Agreed, Consistent
  <2>8. LedgerInv /\ Accounts
    BY <2>2, <2>4, <2>5, <2>7
       DEF LedgerInv, Ledgers, OpenAttempts, Accounts, Running, Evaluating, NoFile
  <2>9. SentInv
    BY <2>2, <2>6 DEF SentInv, SentOnce, OneInvocation, Accounted, Running, Evaluating
  <2>10. QED
    BY <2>2, <2>8, <2>9 DEF AgentInv, CompletedInv, CompletedExactly
<1>2. AgentInv /\ [Next]_vars => AgentInv'
  <2>1. SUFFICES ASSUME AgentInv, [Next]_vars PROVE AgentInv'
    OBVIOUS
  <2>2. CASE UNCHANGED vars
    <3>1. UNCHANGED <<calls, responses, raw, completed, mode, pc, events, temp, case, before,
                      nth, outcome, invocation, smokedAgain, sent>>
      BY <2>2 DEF vars, files
    <3>2. Agreed' /\ Count' = Count /\ Pending' = Pending
      BY <2>1, <3>1, AgentTypes, SameLines
    <3>3. RunTypes' /\ Ledgers' /\ OpenAttempts'
      BY <2>1, <3>1, <3>2 DEF AgentInv, LedgerInv, RunTypes, Ledgers, OpenAttempts
    <3>4. Accounts'
      BY <2>1, <3>1, <3>2 DEF AgentInv, Accounts
    <3>5. SentInv'
      BY <2>1, <3>1, <3>2 DEF AgentInv, SentInv, SentOnce, OneInvocation, Accounted, Target
    <3>6. CompletedInv'
      BY <2>1, <3>1, <3>2 DEF AgentInv, CompletedInv, CompletedExactly
    <3>7. QED
      BY <3>3, <3>4, <3>5, <3>6 DEF AgentInv, LedgerInv
  <2>3. CASE Next
    BY <2>1, <2>3, InvokeKeeps, ReconcileKeeps, ResumeKeeps, NextCaseKeeps, BeginKeeps,
       CallKeeps, RecordKeeps, FinishKeeps, EndCaseKeeps, PromoteKeeps, FullDoneKeeps,
       CompleteKeeps, KillKeeps
       DEF Next, Step
  <2>4. QED
    BY <2>1, <2>2, <2>3
<1>3. QED
  BY <1>1, <1>2, PTL DEF Spec

\* The provider is never called for a case in two invocations, whatever was
\* killed, torn or refused, and at every moment there is a started line on
\* disk for each call that reached the provider (begin_attempt before the
\* delegate's create, reconcile_pending, require_no_orphan_provider_calls).
THEOREM CasesNeverResent == Spec => []NeverResent
<1>1. AgentInv => NeverResent
  BY DEF AgentInv, SentInv, SentOnce, OneInvocation, NeverResent
<1>2. QED
  BY <1>1, AgentInvHolds, PTL

\* A run that the metadata calls completed has one record of every scheduled
\* case, its records account for exactly the calls that were made, and every
\* call is finished in the ledger.
THEOREM CompletedIsExact == Spec => []CompletedExactly
<1>1. AgentInv => CompletedExactly
  BY DEF AgentInv, CompletedInv
<1>2. QED
  BY <1>1, AgentInvHolds, PTL

\* A run that was killed and whose output accounts for every call can go on:
\* the response ledger is readable and agrees with the call ledger.
THEOREM RunsAreResumable == Spec => []Resumable
<1>1. AgentInv => Resumable
  <2>1. SUFFICES ASSUME AgentInv PROVE Resumable
    OBVIOUS
  <2>2. Corrupt \notin ResponseLine /\ responses \in Files(ResponseLine)
    BY <2>1, CaseAssumption DEF AgentInv, LedgerInv, RunTypes
  <2>3. Reopened(responses).lines = responses.lines
    BY <2>2, OpenedAgain
  <2>4. Corrupt \notin ToSet(responses.lines)
    BY <2>1, <2>2, AgentTypes DEF ToSet
  <2>5. CallsOf(raw.lines) = Count => Pending = {}
    BY <2>1, SettledNow
  <2>6. Consistent(responses.lines)
    BY <2>1, AgentTypes DEF Agreed
  <2>7. QED
    BY <2>3, <2>4, <2>5, <2>6 DEF Resumable
<1>2. QED
  BY <1>1, AgentInvHolds, PTL

-----------------------------------------------------------------------------
(* Gold records, for any source and any number of scans.                   *)

Marks == {"yes", "no", "unset"}
EntityRecords ==
  [relevance : Relevances, indexed : Marks, reason : BOOLEAN, evidence : BOOLEAN]
NodeRecords == [indexed : Marks, reason : BOOLEAN]
Tables(D, T) == UNION {[s -> T] : s \in SUBSET D}

GoldRecords ==
  [task : Tasks, entities : Tables(Keys, EntityRecords),
   nodes : Tables(Keys, NodeRecords), edges : Tables(Links, Marks),
   complete : Marks, answerable : Answers, source : BOOLEAN,
   uncertain : BOOLEAN, named : BOOLEAN]

\* What a record is, fixed or not: only a trace has a graph.
Shaped(r) ==
  /\ r \in GoldRecords
  /\ EdgesEndInNodes(r) /\ UnanswerableUncertain(r)
  /\ r.task # "TRACE_CHAIN" => DOMAIN r.nodes = {} /\ DOMAIN r.edges = {}

\* The fields of a record.
LEMMA RecordFields ==
  ASSUME NEW r, r \in GoldRecords
  PROVE  /\ r.task \in Tasks /\ r.complete \in Marks /\ r.answerable \in Answers
         /\ r.source \in BOOLEAN /\ r.uncertain \in BOOLEAN /\ r.named \in BOOLEAN
         /\ r.entities \in [DOMAIN r.entities -> EntityRecords]
         /\ r.nodes \in [DOMAIN r.nodes -> NodeRecords]
         /\ r.edges \in [DOMAIN r.edges -> Marks]
         /\ DOMAIN r.entities \in SUBSET Keys /\ DOMAIN r.nodes \in SUBSET Keys
         /\ DOMAIN r.edges \in SUBSET Links
<1>1. /\ r.task \in Tasks /\ r.complete \in Marks /\ r.answerable \in Answers
      /\ r.source \in BOOLEAN /\ r.uncertain \in BOOLEAN /\ r.named \in BOOLEAN
      /\ r.entities \in Tables(Keys, EntityRecords)
      /\ r.nodes \in Tables(Keys, NodeRecords)
      /\ r.edges \in Tables(Links, Marks)
  BY DEF GoldRecords
<1>2. ASSUME NEW D, NEW T, NEW f \in Tables(D, T)
      PROVE  f \in [DOMAIN f -> T] /\ DOMAIN f \in SUBSET D
  <2>1. PICK s \in SUBSET D : f \in [s -> T]
    BY DEF Tables
  <2>2. QED
    BY <2>1
<1>3. QED
  BY <1>1, <1>2

\* What the fix makes of the flags.
NewEntities(r) == [k \in DOMAIN r.entities |-> FixEntity(r.entities[k], k)]
NewNodes(r) == [k \in NodeKeys(r) |-> FixNode(k)]
NewEdges(r) == [e \in DOMAIN r.edges |-> FixEdge(e, NodeKeys(r))]
Flagged(r) == [r EXCEPT !.entities = NewEntities(r), !.nodes = NewNodes(r),
                        !.edges = NewEdges(r), !.source = @ \/ r.named]
Judged(r) == [Flagged(r) EXCEPT !.complete = ChainComplete(Flagged(r)),
                                !.answerable = Answerable(Flagged(r))]

\* The flags of a fixed record.
LEMMA NewFlags ==
  ASSUME NEW r, Shaped(r)
  PROVE  /\ NewEntities(r) \in [DOMAIN r.entities -> EntityRecords]
         /\ NewNodes(r) \in [NodeKeys(r) -> NodeRecords]
         /\ NewEdges(r) \in [DOMAIN r.edges -> Marks]
         /\ NodeKeys(r) \in SUBSET Keys /\ DOMAIN r.nodes \subseteq NodeKeys(r)
         /\ r.task = "TRACE_CHAIN" => DOMAIN r.entities \subseteq NodeKeys(r)
         /\ r.task # "TRACE_CHAIN" => NodeKeys(r) = {}
<1>1. /\ r.entities \in [DOMAIN r.entities -> EntityRecords]
      /\ DOMAIN r.entities \in SUBSET Keys /\ DOMAIN r.nodes \in SUBSET Keys
  BY RecordFields DEF Shaped
<1>2. ASSUME NEW k, NEW e \in EntityRecords
      PROVE  FixEntity(e, k) \in EntityRecords
  BY DEF FixEntity, EntityRecords, Relevances, Marks
<1>3. \A k : FixNode(k) \in NodeRecords
  BY DEF FixNode, NodeRecords, Flag, Marks
<1>4. \A e, n : FixEdge(e, n) \in Marks
  BY DEF FixEdge, Flag, Marks
<1>5. NewEntities(r) \in [DOMAIN r.entities -> EntityRecords]
  BY <1>1, <1>2 DEF NewEntities
<1>6. NewNodes(r) \in [NodeKeys(r) -> NodeRecords]
  BY <1>3 DEF NewNodes
<1>7. NewEdges(r) \in [DOMAIN r.edges -> Marks]
  BY <1>4 DEF NewEdges
<1>8. /\ NodeKeys(r) \in SUBSET Keys /\ DOMAIN r.nodes \subseteq NodeKeys(r)
      /\ r.task = "TRACE_CHAIN" => DOMAIN r.entities \subseteq NodeKeys(r)
      /\ r.task # "TRACE_CHAIN" => NodeKeys(r) = {}
  BY <1>1 DEF NodeKeys, Shaped
<1>9. QED
  BY <1>5, <1>6, <1>7, <1>8

\* The fields after the flags are set, after the record is judged, and after
\* all.
LEMMA FixedFields ==
  ASSUME NEW r, Shaped(r), NEW f, f = Flagged(r), NEW j, j = Judged(r),
         NEW x, x = Fixed(r)
  PROVE  /\ f.task = r.task /\ j.task = r.task /\ x.task = r.task
         /\ f.entities = NewEntities(r) /\ j.entities = NewEntities(r)
         /\ x.entities = NewEntities(r)
         /\ f.nodes = NewNodes(r) /\ j.nodes = NewNodes(r) /\ x.nodes = NewNodes(r)
         /\ f.edges = NewEdges(r) /\ j.edges = NewEdges(r) /\ x.edges = NewEdges(r)
         /\ f.complete = r.complete /\ f.answerable = r.answerable
         /\ j.complete = ChainComplete(f) /\ x.complete = ChainComplete(f)
         /\ j.answerable = Answerable(f) /\ x.answerable = Answerable(f)
         /\ j.uncertain = r.uncertain /\ x.uncertain = Uncertain(j)
         /\ x.source = (r.source \/ r.named) /\ x.named = r.named
         /\ x = [task |-> r.task, entities |-> NewEntities(r), nodes |-> NewNodes(r),
                 edges |-> NewEdges(r), complete |-> ChainComplete(f),
                 answerable |-> Answerable(f), source |-> r.source \/ r.named,
                 uncertain |-> Uncertain(j), named |-> r.named]
<1>1. PICK t, e, n, g, c, a, s, u, m :
        r = [task |-> t, entities |-> e, nodes |-> n, edges |-> g, complete |-> c,
             answerable |-> a, source |-> s, uncertain |-> u, named |-> m]
  BY DEF Shaped, GoldRecords
<1>2. PICK e1, n1, g1, s1 : /\ e1 = NewEntities(r) /\ n1 = NewNodes(r)
                            /\ g1 = NewEdges(r) /\ s1 = (r.source \/ r.named)
  OBVIOUS
<1>3. f = [task |-> t, entities |-> e1, nodes |-> n1, edges |-> g1, complete |-> c,
           answerable |-> a, source |-> s1, uncertain |-> u, named |-> m]
  BY <1>1, <1>2 DEF Flagged
<1>4. PICK c1, a1 : c1 = ChainComplete(f) /\ a1 = Answerable(f)
  OBVIOUS
<1>5. j = [f EXCEPT !.complete = c1, !.answerable = a1]
  BY <1>4 DEF Judged
<1>6. j = [task |-> t, entities |-> e1, nodes |-> n1, edges |-> g1, complete |-> c1,
           answerable |-> a1, source |-> s1, uncertain |-> u, named |-> m]
  BY ONLY <1>3, <1>5
<1>7. PICK u1 : u1 = Uncertain(j)
  OBVIOUS
<1>8. x = [j EXCEPT !.uncertain = u1]
  BY <1>7 DEF Fixed, Judged, Flagged, NewEntities, NewNodes, NewEdges
<1>9. x = [task |-> t, entities |-> e1, nodes |-> n1, edges |-> g1, complete |-> c1,
           answerable |-> a1, source |-> s1, uncertain |-> u1, named |-> m]
  BY <1>6, <1>8
<1>10. QED
  BY <1>1, <1>2, <1>3, <1>4, <1>6, <1>7, <1>9

-----------------------------------------------------------------------------
\* A record that tells of the snapshot as it is.
EntitiesTold(r) ==
  \A k \in DOMAIN r.entities :
    /\ k \in snapshot.keys =>
         /\ r.entities[k].indexed = "yes"
         /\ r.entities[k].reason = FALSE /\ r.entities[k].evidence = FALSE
         /\ r.entities[k].relevance \in {"must_recall", "acceptable_alternative"}
    /\ k \notin snapshot.keys =>
         r.entities[k] = [relevance |-> "source_only", indexed |-> "no",
                          reason |-> TRUE, evidence |-> TRUE]

NodesTold(r) ==
  \A k \in DOMAIN r.nodes :
    r.nodes[k] = [indexed |-> IF k \in snapshot.keys THEN "yes" ELSE "no",
                  reason |-> k \notin snapshot.keys]

EdgesTold(r) ==
  \A e \in DOMAIN r.edges :
    r.edges[e] = IF e \in snapshot.relations THEN "yes" ELSE "no"

Told(r) ==
  /\ EntitiesTold(r) /\ NodesTold(r) /\ EdgesTold(r)
  /\ r.task = "TRACE_CHAIN" => DOMAIN r.entities \subseteq DOMAIN r.nodes
  /\ r.complete = ChainComplete(r)
  /\ r.answerable = Answerable(r)
  /\ r.uncertain = Uncertain(r)
  /\ r.named => r.source

\* The fields that a judgement goes by.
LEMMA SameJudgement ==
  ASSUME NEW r, NEW x, x.task = r.task, x.entities = r.entities,
         x.nodes = r.nodes, x.edges = r.edges
  PROVE  /\ x.complete = r.complete => ChainComplete(x) = ChainComplete(r)
         /\ x.complete = ChainComplete(r) => ChainComplete(x) = ChainComplete(r)
         /\ x.answerable = r.answerable => Answerable(x) = Answerable(r)
         /\ x.answerable = Answerable(r) => Answerable(x) = Answerable(r)
         /\ \A y : y.entities = r.entities /\ y.nodes = r.nodes /\ y.edges = r.edges
                   /\ y.answerable = x.answerable /\ x.uncertain = Uncertain(y) =>
              Uncertain(x) = x.uncertain
<1>1. EdgeFlags(x) = EdgeFlags(r)
  BY DEF EdgeFlags
<1>2. \A s : Recalled(x, s) = Recalled(r, s)
  BY DEF Recalled
<1>3. /\ x.complete = r.complete => ChainComplete(x) = ChainComplete(r)
      /\ x.complete = ChainComplete(r) => ChainComplete(x) = ChainComplete(r)
  BY <1>1 DEF ChainComplete, Flag
<1>4. /\ TraceAnswerable(x) = TraceAnswerable(r)
      /\ QuestionAnswerable(x) = QuestionAnswerable(r)
      /\ PlanAnswerable(x) = PlanAnswerable(r)
  BY <1>1, <1>2 DEF TraceAnswerable, QuestionAnswerable, PlanAnswerable
<1>5. /\ x.answerable = r.answerable => Answerable(x) = Answerable(r)
      /\ x.answerable = Answerable(r) => Answerable(x) = Answerable(r)
  BY <1>4 DEF Answerable
<1>6. ASSUME NEW y, y.entities = r.entities, y.nodes = r.nodes, y.edges = r.edges,
             y.answerable = x.answerable, x.uncertain = Uncertain(y)
      PROVE  Uncertain(x) = x.uncertain
  <2>1. EdgeFlags(y) = EdgeFlags(x)
    BY <1>1, <1>6 DEF EdgeFlags
  <2>2. QED
    BY <1>6, <2>1 DEF Uncertain
<1>7. QED
  BY <1>3, <1>5, <1>6

\* What a judgement is.
LEMMA JudgementType ==
  ASSUME NEW r, r.task \in Tasks, r.complete \in Marks, r.answerable \in Answers
  PROVE  ChainComplete(r) \in Marks /\ Answerable(r) \in Answers
<1>1. ChainComplete(r) \in Marks
  BY DEF ChainComplete, Flag, Marks
<1>2. /\ TraceAnswerable(r) \in Answers /\ QuestionAnswerable(r) \in Answers
      /\ PlanAnswerable(r) \in Answers
  BY DEF TraceAnswerable, QuestionAnswerable, PlanAnswerable, Answers
<1>3. Answerable(r) \in Answers
  BY <1>2 DEF Answerable, Tasks
<1>4. QED
  BY <1>1, <1>3

\* A fixed record is a record, and tells of the snapshot.
LEMMA FixTells ==
  ASSUME NEW r, Shaped(r)
  PROVE  Shaped(Fixed(r)) /\ Told(Fixed(r))
<1>1. PICK f, j, x : f = Flagged(r) /\ j = Judged(r) /\ x = Fixed(r)
  OBVIOUS
<1>2. /\ f.task = r.task /\ j.task = r.task /\ x.task = r.task
      /\ f.entities = NewEntities(r) /\ j.entities = NewEntities(r)
      /\ x.entities = NewEntities(r)
      /\ f.nodes = NewNodes(r) /\ j.nodes = NewNodes(r) /\ x.nodes = NewNodes(r)
      /\ f.edges = NewEdges(r) /\ j.edges = NewEdges(r) /\ x.edges = NewEdges(r)
      /\ f.complete = r.complete /\ f.answerable = r.answerable
      /\ j.complete = ChainComplete(f) /\ x.complete = ChainComplete(f)
      /\ j.answerable = Answerable(f) /\ x.answerable = Answerable(f)
      /\ j.uncertain = r.uncertain /\ x.uncertain = Uncertain(j)
      /\ x.source = (r.source \/ r.named) /\ x.named = r.named
      /\ x = [task |-> r.task, entities |-> NewEntities(r), nodes |-> NewNodes(r),
              edges |-> NewEdges(r), complete |-> ChainComplete(f),
              answerable |-> Answerable(f), source |-> r.source \/ r.named,
              uncertain |-> Uncertain(j), named |-> r.named]
  BY <1>1, FixedFields
<1>3. /\ r.task \in Tasks /\ r.complete \in Marks /\ r.answerable \in Answers
      /\ r.source \in BOOLEAN /\ r.uncertain \in BOOLEAN /\ r.named \in BOOLEAN
      /\ r.entities \in [DOMAIN r.entities -> EntityRecords]
      /\ DOMAIN r.entities \in SUBSET Keys /\ DOMAIN r.edges \in SUBSET Links
  BY RecordFields DEF Shaped
<1>4. /\ NewEntities(r) \in [DOMAIN r.entities -> EntityRecords]
      /\ NewNodes(r) \in [NodeKeys(r) -> NodeRecords]
      /\ NewEdges(r) \in [DOMAIN r.edges -> Marks]
      /\ NodeKeys(r) \in SUBSET Keys /\ DOMAIN r.nodes \subseteq NodeKeys(r)
      /\ r.task = "TRACE_CHAIN" => DOMAIN r.entities \subseteq NodeKeys(r)
      /\ r.task # "TRACE_CHAIN" => NodeKeys(r) = {}
  BY NewFlags
<1>5. /\ DOMAIN NewEntities(r) = DOMAIN r.entities /\ DOMAIN NewNodes(r) = NodeKeys(r)
      /\ DOMAIN NewEdges(r) = DOMAIN r.edges
  BY DEF NewEntities, NewNodes, NewEdges
<1>6. /\ ChainComplete(f) \in Marks /\ Answerable(f) \in Answers
      /\ Uncertain(j) \in BOOLEAN
  <2>1. ChainComplete(f) \in Marks /\ Answerable(f) \in Answers
    <3>1. f.task \in Tasks /\ f.complete \in Marks /\ f.answerable \in Answers
      BY <1>2, <1>3
    <3>2. QED
      BY ONLY <3>1, JudgementType
  <2>2. QED
    BY <2>1 DEF Uncertain
<1>7. /\ NewEntities(r) \in Tables(Keys, EntityRecords)
      /\ NewNodes(r) \in Tables(Keys, NodeRecords)
      /\ NewEdges(r) \in Tables(Links, Marks)
  BY <1>3, <1>4 DEF Tables
<1>8. x \in GoldRecords
  <2>1. (r.source \/ r.named) \in BOOLEAN
    OBVIOUS
  <2>2. QED
    BY <1>2, <1>3, <1>6, <1>7, <2>1 DEF GoldRecords
<1>9. EdgesEndInNodes(x)
  BY <1>2, <1>4, <1>5 DEF Shaped, EdgesEndInNodes
<1>10. UnanswerableUncertain(x)
  <2>1. ~r.source => r.uncertain
    BY DEF Shaped, UnanswerableUncertain
  <2>2. r.uncertain => Uncertain(j)
    BY <1>2 DEF Uncertain
  <2>3. QED
    BY <1>2, <2>1, <2>2 DEF UnanswerableUncertain
<1>11. Shaped(x)
  <2>1. r.task # "TRACE_CHAIN" => DOMAIN r.edges = {}
    BY DEF Shaped
  <2>2. x.task # "TRACE_CHAIN" => DOMAIN x.nodes = {} /\ DOMAIN x.edges = {}
    BY <1>2, <1>4, <1>5, <2>1
  <2>3. QED
    BY <1>8, <1>9, <1>10, <2>2 DEF Shaped
<1>12. EntitiesTold(x)
  <2>1. SUFFICES ASSUME NEW k \in DOMAIN x.entities
                 PROVE  /\ k \in snapshot.keys =>
                             /\ x.entities[k].indexed = "yes"
                             /\ x.entities[k].reason = FALSE
                             /\ x.entities[k].evidence = FALSE
                             /\ x.entities[k].relevance \in
                                  {"must_recall", "acceptable_alternative"}
                        /\ k \notin snapshot.keys =>
                             x.entities[k] =
                               [relevance |-> "source_only", indexed |-> "no",
                                reason |-> TRUE, evidence |-> TRUE]
    BY DEF EntitiesTold
  <2>2. PICK e \in EntityRecords : x.entities[k] = FixEntity(e, k)
    BY <1>2, <1>3, <1>5 DEF NewEntities
  <2>3. e.relevance \in Relevances
    BY DEF EntityRecords
  <2>4. PICK v, i, n, m :
          e = [relevance |-> v, indexed |-> i, reason |-> n, evidence |-> m]
    BY DEF EntityRecords
  <2>5. k \notin snapshot.keys =>
          x.entities[k] = [relevance |-> "source_only", indexed |-> "no",
                           reason |-> TRUE, evidence |-> TRUE]
    BY <2>2 DEF FixEntity
  <2>6. QED
    BY <2>2, <2>3, <2>4, <2>5 DEF FixEntity, Relevances
<1>13. NodesTold(x)
  BY <1>2, <1>5 DEF NodesTold, NewNodes, FixNode, Flag
<1>14. EdgesTold(x)
  <2>1. ASSUME NEW e \in DOMAIN x.edges
        PROVE  x.edges[e] = IF e \in snapshot.relations THEN "yes" ELSE "no"
    <3>1. x.edges[e] = FixEdge(e, NodeKeys(r))
      BY <1>2, <1>5 DEF NewEdges
    <3>2. {e[1], e[2]} \subseteq NodeKeys(r)
      BY <1>2, <1>5, <1>9 DEF EdgesEndInNodes
    <3>3. QED
      BY <3>1, <3>2 DEF FixEdge, Flag
  <2>2. QED
    BY <2>1 DEF EdgesTold
<1>15. /\ x.complete = ChainComplete(x) /\ x.answerable = Answerable(x)
       /\ x.uncertain = Uncertain(x)
  <2>1. /\ x.task = f.task /\ x.entities = f.entities /\ x.nodes = f.nodes
        /\ x.edges = f.edges /\ x.complete = ChainComplete(f)
        /\ x.answerable = Answerable(f)
    BY <1>2
  <2>2. /\ j.entities = f.entities /\ j.nodes = f.nodes /\ j.edges = f.edges
        /\ j.answerable = x.answerable /\ x.uncertain = Uncertain(j)
    BY <1>2
  <2>3. QED
    BY ONLY <2>1, <2>2, SameJudgement
<1>16. /\ x.task = "TRACE_CHAIN" => DOMAIN x.entities \subseteq DOMAIN x.nodes
       /\ x.named => x.source
  BY <1>2, <1>4, <1>5
<1>17. Told(x)
  BY <1>12, <1>13, <1>14, <1>15, <1>16 DEF Told
<1>18. QED
  BY <1>1, <1>11, <1>17

\* To fix such a record changes nothing.
LEMMA ToldIsSettled ==
  ASSUME NEW r, Shaped(r), Told(r)
  PROVE  Fixed(r) = r
<1>1. PICK f, j, x : f = Flagged(r) /\ j = Judged(r) /\ x = Fixed(r)
  OBVIOUS
<1>2. /\ f.task = r.task
      /\ f.entities = NewEntities(r) /\ j.entities = NewEntities(r)
      /\ f.nodes = NewNodes(r) /\ j.nodes = NewNodes(r)
      /\ f.edges = NewEdges(r) /\ j.edges = NewEdges(r)
      /\ f.complete = r.complete /\ f.answerable = r.answerable
      /\ j.answerable = Answerable(f) /\ j.uncertain = r.uncertain
      /\ x = [task |-> r.task, entities |-> NewEntities(r), nodes |-> NewNodes(r),
              edges |-> NewEdges(r), complete |-> ChainComplete(f),
              answerable |-> Answerable(f), source |-> r.source \/ r.named,
              uncertain |-> Uncertain(j), named |-> r.named]
  BY <1>1, FixedFields
<1>3. /\ r.source \in BOOLEAN /\ r.named \in BOOLEAN
      /\ r.entities \in [DOMAIN r.entities -> EntityRecords]
      /\ r.nodes \in [DOMAIN r.nodes -> NodeRecords]
      /\ r.edges \in [DOMAIN r.edges -> Marks]
  BY RecordFields DEF Shaped
<1>4. /\ EntitiesTold(r) /\ NodesTold(r) /\ EdgesTold(r)
      /\ r.task = "TRACE_CHAIN" => DOMAIN r.entities \subseteq DOMAIN r.nodes
      /\ r.complete = ChainComplete(r)
      /\ r.answerable = Answerable(r)
      /\ r.uncertain = Uncertain(r)
      /\ r.named => r.source
  BY DEF Told
<1>5. NodeKeys(r) = DOMAIN r.nodes
  BY <1>4 DEF NodeKeys
<1>6. NewEntities(r) = r.entities
  <2>1. ASSUME NEW k \in DOMAIN r.entities
        PROVE  FixEntity(r.entities[k], k) = r.entities[k]
    <3>1. PICK e : e = r.entities[k]
      OBVIOUS
    <3>2. CASE k \in snapshot.keys
      <4>1. /\ e \in EntityRecords /\ e.indexed = "yes" /\ e.reason = FALSE
            /\ e.evidence = FALSE /\ e.relevance # "source_only"
        BY <1>3, <1>4, <3>1, <3>2 DEF EntitiesTold
      <4>2. PICK y : y = FixEntity(e, k)
        OBVIOUS
      <4>3. /\ y \in EntityRecords /\ y.indexed = "yes" /\ y.reason = FALSE
            /\ y.evidence = FALSE /\ y.relevance = e.relevance
        BY ONLY <3>2, <4>1, <4>2 DEF FixEntity, EntityRecords, Relevances, Marks
      <4>4. y = e
        BY ONLY <4>1, <4>3 DEF EntityRecords
      <4>5. QED
        BY <3>1, <4>2, <4>4
    <3>3. CASE k \notin snapshot.keys
      BY <1>4, <3>3 DEF EntitiesTold, FixEntity
    <3>4. QED
      BY <3>2, <3>3
  <2>2. QED
    BY <1>3, <2>1 DEF NewEntities
<1>7. NewNodes(r) = r.nodes
  BY <1>3, <1>4, <1>5 DEF NewNodes, NodesTold, FixNode, Flag
<1>8. NewEdges(r) = r.edges
  <2>1. ASSUME NEW e \in DOMAIN r.edges
        PROVE  FixEdge(e, NodeKeys(r)) = r.edges[e]
    <3>1. {e[1], e[2]} \subseteq NodeKeys(r)
      BY <1>5 DEF Shaped, EdgesEndInNodes
    <3>2. QED
      BY <1>4, <3>1 DEF EdgesTold, FixEdge, Flag
  <2>2. QED
    BY <1>3, <2>1 DEF NewEdges
<1>9. ChainComplete(f) = r.complete /\ Answerable(f) = r.answerable
  <2>1. /\ f.task = r.task /\ f.entities = r.entities /\ f.nodes = r.nodes
        /\ f.edges = r.edges /\ f.complete = r.complete
        /\ f.answerable = r.answerable
    BY <1>2, <1>6, <1>7, <1>8
  <2>2. ChainComplete(f) = ChainComplete(r) /\ Answerable(f) = Answerable(r)
    BY ONLY <2>1, SameJudgement
  <2>3. QED
    BY <1>4, <2>2
<1>10. Uncertain(j) = r.uncertain
  <2>1. /\ j.entities = r.entities /\ j.nodes = r.nodes /\ j.edges = r.edges
        /\ j.answerable = r.answerable /\ j.uncertain = r.uncertain
    BY <1>2, <1>6, <1>7, <1>8, <1>9
  <2>2. EdgeFlags(j) = EdgeFlags(r)
    BY <2>1 DEF EdgeFlags
  <2>3. QED
    BY <1>4, <2>1, <2>2 DEF Uncertain
<1>11. (r.source \/ r.named) = r.source
  BY <1>3, <1>4
<1>12. r = [task |-> r.task, entities |-> r.entities, nodes |-> r.nodes,
            edges |-> r.edges, complete |-> r.complete,
            answerable |-> r.answerable, source |-> r.source,
            uncertain |-> r.uncertain, named |-> r.named]
  BY DEF Shaped, GoldRecords
<1>13. QED
  BY <1>1, <1>2, <1>6, <1>7, <1>8, <1>9, <1>10, <1>11, <1>12

-----------------------------------------------------------------------------
\* What the flags of such a record are.
FlagsTold(r) ==
  /\ Flags(r.entities) \subseteq {"yes", "no"}
  /\ Flags(r.nodes) \subseteq {"yes", "no"}
  /\ EdgeFlags(r) \subseteq {"yes", "no"}
  /\ \A k \in DOMAIN r.entities :
       /\ r.entities[k].indexed \in {"yes", "no"}
       /\ r.entities[k].indexed = "yes" <=> k \in snapshot.keys
       /\ r.entities[k].relevance = "must_recall" => k \in snapshot.keys
       /\ r.entities[k].relevance = "acceptable_alternative" => k \in snapshot.keys
       /\ k \notin snapshot.keys =>
            r.entities[k].reason = TRUE /\ r.entities[k].evidence = TRUE
  /\ \A k \in DOMAIN r.nodes :
       /\ r.nodes[k].indexed \in {"yes", "no"}
       /\ r.nodes[k].indexed = "yes" <=> k \in snapshot.keys
       /\ r.nodes[k].reason <=> k \notin snapshot.keys
  /\ \A e \in DOMAIN r.edges :
       /\ r.edges[e] \in {"yes", "no"}
       /\ r.edges[e] = "yes" <=> e \in snapshot.relations

\* A record that is told the snapshot has those flags.
LEMMA ToldFlags == ASSUME NEW r, Shaped(r), Told(r) PROVE FlagsTold(r)
<1>1. \A k \in DOMAIN r.entities :
        /\ r.entities[k].indexed \in {"yes", "no"}
        /\ r.entities[k].indexed = "yes" <=> k \in snapshot.keys
        /\ r.entities[k].relevance = "must_recall" => k \in snapshot.keys
        /\ r.entities[k].relevance = "acceptable_alternative" => k \in snapshot.keys
        /\ k \notin snapshot.keys =>
             r.entities[k].reason = TRUE /\ r.entities[k].evidence = TRUE
  BY DEF Told, EntitiesTold
<1>2. \A k \in DOMAIN r.nodes :
        /\ r.nodes[k].indexed \in {"yes", "no"}
        /\ r.nodes[k].indexed = "yes" <=> k \in snapshot.keys
        /\ r.nodes[k].reason <=> k \notin snapshot.keys
  <2>1. SUFFICES ASSUME NEW k \in DOMAIN r.nodes
                 PROVE  /\ r.nodes[k].indexed \in {"yes", "no"}
                        /\ r.nodes[k].indexed = "yes" <=> k \in snapshot.keys
                        /\ r.nodes[k].reason <=> k \notin snapshot.keys
    OBVIOUS
  <2>2. PICK i, b : /\ i = (IF k \in snapshot.keys THEN "yes" ELSE "no")
                    /\ b = (k \notin snapshot.keys)
                    /\ r.nodes[k] = [indexed |-> i, reason |-> b]
    BY DEF Told, NodesTold
  <2>3. r.nodes[k].indexed = i /\ r.nodes[k].reason = b
    BY <2>2
  <2>4. QED
    BY <2>2, <2>3
<1>3. \A e \in DOMAIN r.edges :
        /\ r.edges[e] \in {"yes", "no"}
        /\ r.edges[e] = "yes" <=> e \in snapshot.relations
  BY DEF Told, EdgesTold
<1>4. /\ Flags(r.entities) \subseteq {"yes", "no"}
      /\ Flags(r.nodes) \subseteq {"yes", "no"}
      /\ EdgeFlags(r) \subseteq {"yes", "no"}
  BY <1>1, <1>2, <1>3 DEF Flags, EdgeFlags
<1>5. QED
  BY <1>1, <1>2, <1>3, <1>4 DEF FlagsTold, FlagsTold

\* The validators pass what is told of.
LEMMA ToldIsConsistent ==
  ASSUME NEW r, Shaped(r), Told(r)
  PROVE  /\ FlagRules(r)
         /\ r.task = "TRACE_CHAIN" /\ DOMAIN r.edges # {} =>
              SnapshotRules(r) /\ FormatRules(r)
<1>1. FlagsTold(r)
  BY ToldFlags
<1>2. FlagRules(r)
  <2>1. IndexedFound(r) /\ IndexedEdgesFound(r)
    BY <1>1 DEF FlagsTold, IndexedFound, IndexedEdgesFound
  <2>2. UnindexedExplained(r)
    BY <1>1 DEF FlagsTold, UnindexedExplained, Unindexed
  <2>3. RecallIndexed(r)
    BY <1>1 DEF FlagsTold, RecallIndexed
  <2>4. QED
    BY <2>1, <2>2, <2>3 DEF FlagRules
<1>3. ASSUME r.task = "TRACE_CHAIN", DOMAIN r.edges # {}
      PROVE  SnapshotRules(r) /\ FormatRules(r)
  <2>1. PICK graph : graph = EdgeFlags(r) \cup Flags(r.nodes)
    OBVIOUS
  <2>2. /\ r.complete = IF graph \subseteq {"yes"} THEN "yes" ELSE "no"
        /\ graph \subseteq {"yes", "no"}
    BY <1>1, <1>3, <2>1 DEF FlagsTold, Told, ChainComplete, Flag
  <2>3. r.answerable = IF "no" \notin graph THEN "full"
                       ELSE IF "yes" \in graph \cup Recalled(r, {"must_recall"})
                       THEN "partial" ELSE "insufficient"
    BY <1>3, <2>1 DEF Told, Answerable, TraceAnswerable
  <2>4. /\ UnindexedEdges(r) # {} => "no" \in graph
        /\ Unindexed(r.nodes) # {} => "no" \in graph
    BY <2>1 DEF UnindexedEdges, Unindexed, EdgeFlags, Flags
  <2>5. Unindexed(r.entities) # {} => "no" \in graph
    <3>1. SUFFICES ASSUME NEW k \in DOMAIN r.entities, r.entities[k].indexed = "no"
                   PROVE  "no" \in graph
      BY DEF Unindexed
    <3>2. k \in DOMAIN r.nodes /\ k \notin snapshot.keys
      BY <1>1, <1>3, <3>1 DEF FlagsTold, Told
    <3>3. r.nodes[k].indexed = "no"
      BY <1>1, <3>2 DEF FlagsTold
    <3>4. QED
      BY <2>1, <3>2, <3>3 DEF Flags
  <2>6. UnindexedNotFull(r)
    BY <2>3, <2>5 DEF UnindexedNotFull
  <2>7. CompleteConsistent(r)
    BY <2>2, <2>3, <2>4 DEF CompleteConsistent
  <2>8. "no" \notin Recalled(r, {"must_recall", "acceptable_alternative"})
    BY <1>1 DEF FlagsTold, Recalled
  <2>9. r.answerable = "full" => FullConsistent(r)
    BY <2>2, <2>3, <2>4, <2>8 DEF FullConsistent
  <2>10. r.answerable = "partial" => PartialConsistent(r)
    BY <2>1, <2>3 DEF PartialConsistent
  <2>11. r.answerable = "insufficient" => InsufficientConsistent(r)
    BY <2>1, <2>3 DEF InsufficientConsistent
  <2>12. AnswerConsistent(r)
    <3>1. r.answerable \in {"full", "partial", "insufficient"}
      BY <2>3
    <3>2. QED
      BY <2>9, <2>10, <2>11, <3>1 DEF AnswerConsistent
  <2>13. TraceHasGold(r) /\ EdgesEndInNodes(r) /\ UnanswerableUncertain(r)
    BY <1>3 DEF TraceHasGold, Shaped, EdgesEndInNodes
  <2>14. EdgesIncomplete(r)
    BY <2>2, <2>4 DEF EdgesIncomplete
  <2>15. QED
    BY <1>2, <2>6, <2>7, <2>12, <2>13, <2>14 DEF SnapshotRules, FormatRules
<1>4. QED
  BY <1>2, <1>3

-----------------------------------------------------------------------------
\* Of a finite set that has all of another one, the counts are perfect.
LEMMA AllFound ==
  ASSUME NEW S, NEW G, IsFiniteSet(S), G \subseteq S, G # {}
  PROVE  Perfect(SetCounts(S, G))
<1>1. S \cap G = G
  OBVIOUS
<1>2. IsFiniteSet(G)
  BY FS_Subset
<1>3. Cardinality(G) \in Nat /\ Cardinality(G) # 0
  BY <1>2, FS_CardinalityType, FS_EmptySet
<1>4. QED
  BY <1>1, <1>3 DEF Perfect, SetCounts

\* What is measured of such a record.
LEMMA ToldIsMeasured ==
  ASSUME NEW r, Shaped(r), Told(r)
  PROVE  /\ MeasuredGold(r) \subseteq snapshot.keys
         /\ MeasuredNodes(r) \subseteq snapshot.keys
         /\ MeasuredEdges(r) \subseteq snapshot.relations
         /\ (Unindexed(r.entities) \cup Unindexed(r.nodes)) \cap snapshot.keys = {}
         /\ {k \in DOMAIN r.entities : r.entities[k].relevance = "must_recall"}
              = MeasuredGold(r)
         /\ DOMAIN r.nodes = Unindexed(r.nodes) \cup MeasuredNodes(r)
         /\ DOMAIN r.edges = UnindexedEdges(r) \cup MeasuredEdges(r)
         /\ GraphScored(r) =>
              /\ DOMAIN r.nodes = MeasuredNodes(r) /\ DOMAIN r.nodes # {}
              /\ DOMAIN r.edges = MeasuredEdges(r)
<1>1. FlagsTold(r)
  BY ToldFlags
<1>2. /\ MeasuredGold(r) \subseteq snapshot.keys
      /\ {k \in DOMAIN r.entities : r.entities[k].relevance = "must_recall"}
           = MeasuredGold(r)
      /\ Unindexed(r.entities) \cap snapshot.keys = {}
  BY <1>1 DEF FlagsTold, MeasuredGold, Unindexed
<1>3. /\ MeasuredNodes(r) \subseteq snapshot.keys
      /\ Unindexed(r.nodes) \cap snapshot.keys = {}
      /\ DOMAIN r.nodes = Unindexed(r.nodes) \cup MeasuredNodes(r)
  BY <1>1 DEF FlagsTold, MeasuredNodes, Unindexed
<1>4. /\ MeasuredEdges(r) \subseteq snapshot.relations
      /\ DOMAIN r.edges = UnindexedEdges(r) \cup MeasuredEdges(r)
  BY <1>1 DEF FlagsTold, MeasuredEdges, UnindexedEdges
<1>5. ASSUME GraphScored(r)
      PROVE  /\ DOMAIN r.nodes = MeasuredNodes(r) /\ DOMAIN r.nodes # {}
             /\ DOMAIN r.edges = MeasuredEdges(r)
  <2>1. Flags(r.nodes) \cup EdgeFlags(r) = {"yes"}
    BY <1>5 DEF GraphScored
  <2>2. \A k \in DOMAIN r.nodes : r.nodes[k].indexed = "yes"
    BY <2>1 DEF Flags
  <2>3. \A e \in DOMAIN r.edges : r.edges[e] = "yes"
    BY <2>1 DEF EdgeFlags
  <2>4. DOMAIN r.nodes = {} => DOMAIN r.edges = {}
    BY DEF Shaped, EdgesEndInNodes
  <2>5. DOMAIN r.nodes # {}
    BY <2>1, <2>4 DEF Flags, EdgeFlags
  <2>6. QED
    BY <2>2, <2>3, <2>5 DEF MeasuredNodes, MeasuredEdges
<1>6. QED
  BY <1>2, <1>3, <1>4, <1>5

\* What can be scored of such a record is.
LEMMA ToldIsScored ==
  ASSUME NEW r, Shaped(r), Told(r)
  PROVE  /\ r.source /\ DOMAIN r.edges # {}
              /\ DOMAIN r.nodes \subseteq snapshot.keys
              /\ DOMAIN r.edges \subseteq snapshot.relations =>
                GraphScored(r)
         /\ FormatValid(r) /\ r.source /\ r.answerable # "insufficient" =>
              RetrievalScored(r)
         /\ AgentScored(r) = RetrievalScored(r)
         /\ AgentGraphScored(r) = GraphScored(r)
         /\ r.task = "TRACE_CHAIN" /\ DOMAIN r.edges # {}
              /\ "no" \in Flags(r.nodes) \cup EdgeFlags(r) =>
                ExpectsUncertainty(r)
<1>1. /\ Flags(r.nodes) \subseteq {"yes", "no"}
      /\ EdgeFlags(r) \subseteq {"yes", "no"}
      /\ \A k \in DOMAIN r.nodes : r.nodes[k].indexed = "yes" <=> k \in snapshot.keys
      /\ \A e \in DOMAIN r.edges : r.edges[e] = "yes" <=> e \in snapshot.relations
  BY ToldFlags DEF FlagsTold
<1>2. r.task = "TRACE_CHAIN" /\ DOMAIN r.edges # {} =>
        (r.answerable = "full" <=> "no" \notin EdgeFlags(r) \cup Flags(r.nodes))
  <2>1. ASSUME r.task = "TRACE_CHAIN", DOMAIN r.edges # {}
        PROVE  r.answerable = "full" <=> "no" \notin EdgeFlags(r) \cup Flags(r.nodes)
    BY <2>1 DEF Told, Answerable, TraceAnswerable
  <2>2. QED
    BY <2>1
<1>3. ASSUME r.source, DOMAIN r.edges # {}, DOMAIN r.nodes \subseteq snapshot.keys,
             DOMAIN r.edges \subseteq snapshot.relations
      PROVE  GraphScored(r)
  <2>1. r.task = "TRACE_CHAIN"
    BY <1>3 DEF Shaped
  <2>2. \A k \in DOMAIN r.nodes : r.nodes[k].indexed = "yes"
    BY <1>1, <1>3
  <2>3. \A e \in DOMAIN r.edges : r.edges[e] = "yes"
    BY <1>1, <1>3
  <2>4. Flags(r.nodes) \subseteq {"yes"} /\ EdgeFlags(r) = {"yes"}
    BY <1>3, <2>2, <2>3 DEF Flags, EdgeFlags
  <2>5. r.answerable = "full"
    BY <1>2, <1>3, <2>1, <2>4
  <2>6. QED
    BY <1>3, <2>4, <2>5 DEF GraphScored
<1>4. ASSUME FormatValid(r), r.source, r.answerable # "insufficient"
      PROVE  RetrievalScored(r)
  <2>1. PICK k \in DOMAIN r.entities : r.entities[k].relevance = "must_recall"
    BY <1>4 DEF FormatValid, RetrievalCovered
  <2>2. k \in MeasuredGold(r)
    BY <2>1, ToldIsMeasured
  <2>3. QED
    BY <1>4, <2>2 DEF RetrievalScored
<1>5. AgentScored(r) = RetrievalScored(r)
  BY DEF AgentScored, RetrievalScored
<1>6. AgentGraphScored(r) = GraphScored(r)
  <2>1. /\ MeasuredNodes(r) # {} <=> "yes" \in Flags(r.nodes)
        /\ MeasuredEdges(r) # {} <=> "yes" \in EdgeFlags(r)
    BY DEF MeasuredNodes, MeasuredEdges, Flags, EdgeFlags
  <2>2. Flags(r.nodes) \cup EdgeFlags(r) = {"yes"} <=>
          /\ Flags(r.nodes) \cup EdgeFlags(r) \subseteq {"yes"}
          /\ MeasuredNodes(r) # {} \/ MeasuredEdges(r) # {}
    BY <2>1
  <2>3. QED
    BY <2>2 DEF AgentGraphScored, GraphScored
<1>7. r.task = "TRACE_CHAIN" /\ DOMAIN r.edges # {}
        /\ "no" \in Flags(r.nodes) \cup EdgeFlags(r) =>
          ExpectsUncertainty(r)
  BY <1>2 DEF ExpectsUncertainty
<1>8. QED
  BY <1>3, <1>4, <1>5, <1>6, <1>7

-----------------------------------------------------------------------------
\* The invariant: what the index, its snapshot and the record are, a fixed
\* record tells of the snapshot, and a run has pinned the counts of the index
\* that it used.
GoldInv ==
  /\ scanned \in Indexes
  /\ snapshot = [keys |-> snapshot.keys, relations |-> snapshot.relations,
                 manifest |-> snapshot.manifest]
  /\ snapshot.keys \subseteq Keys /\ snapshot.relations \subseteq Links
  /\ fixed \in BOOLEAN
  /\ Shaped(record)
  /\ fixed => Told(record)
  /\ run # None =>
       /\ run.index \in Indexes
       /\ run.manifest = Counts(run.index.keys, run.index.relations)

\* The tables of what an annotator writes.
DrawnEntities ==
  UNION {[ks -> {RawEntity(v) : v \in Relevances}] : ks \in SUBSET Keys}
DrawnNodes == UNION {[ks -> {RawNode}] : ks \in SUBSET Keys}
DrawnEdges == UNION {[es -> {"unset"}] : es \in SUBSET Links}

\* What an annotator writes is a record.
LEMMA AnnotatedShaped ==
  ASSUME NEW r \in Annotated
  PROVE  Shaped(r)
<1>1. {RawEntity(v) : v \in Relevances} \subseteq EntityRecords
  <2>1. \A v \in Relevances : RawEntity(v) \in EntityRecords
    BY DEF RawEntity, EntityRecords, Marks
  <2>2. QED
    BY <2>1
<1>2. RawNode \in NodeRecords
  BY DEF RawNode, NodeRecords, Marks
<1>3. DrawnEntities \subseteq Tables(Keys, EntityRecords)
  <2>1. SUFFICES ASSUME NEW ks \in SUBSET Keys,
                        NEW f \in [ks -> {RawEntity(v) : v \in Relevances}]
                 PROVE  f \in Tables(Keys, EntityRecords)
    BY DEF DrawnEntities
  <2>2. f \in [ks -> EntityRecords]
    BY <1>1
  <2>3. QED
    BY <2>2 DEF Tables
<1>4. DrawnNodes \subseteq Tables(Keys, NodeRecords)
  <2>1. SUFFICES ASSUME NEW ks \in SUBSET Keys, NEW f \in [ks -> {RawNode}]
                 PROVE  f \in Tables(Keys, NodeRecords)
    BY DEF DrawnNodes
  <2>2. f \in [ks -> NodeRecords]
    BY <1>2
  <2>3. QED
    BY <2>2 DEF Tables
<1>5. DrawnEdges \subseteq Tables(Links, Marks)
  <2>1. SUFFICES ASSUME NEW es \in SUBSET Links, NEW f \in [es -> {"unset"}]
                 PROVE  f \in Tables(Links, Marks)
    BY DEF DrawnEdges
  <2>2. f \in [es -> Marks]
    BY DEF Marks
  <2>3. QED
    BY <2>2 DEF Tables
<1>6. /\ <<>> \in Tables(Keys, NodeRecords) /\ <<>> \in Tables(Links, Marks)
      /\ DOMAIN <<>> = {}
  <2>1. \A T : <<>> \in [{} -> T]
    OBVIOUS
  <2>2. {} \in SUBSET Keys /\ {} \in SUBSET Links
    OBVIOUS
  <2>3. QED
    BY <2>1, <2>2 DEF Tables
<1>7. EdgesEndInNodes(r) /\ UnanswerableUncertain(r)
  BY DEF Annotated
<1>8. \/ r \in [task : {"CODE_QA", "CHANGE_PLAN"}, entities : DrawnEntities,
                nodes : {<<>>}, edges : {<<>>}, complete : {"unset"},
                answerable : Answers, source : BOOLEAN, uncertain : BOOLEAN,
                named : {FALSE}]
      \/ r \in [task : {"TRACE_CHAIN"}, entities : DrawnEntities,
                nodes : DrawnNodes, edges : DrawnEdges,
                complete : {"yes", "no", "unset"},
                answerable : Answers, source : BOOLEAN, uncertain : BOOLEAN,
                named : BOOLEAN]
  BY DEF Annotated, DrawnEntities, DrawnNodes, DrawnEdges
<1>9. /\ r \in GoldRecords
      /\ r.task # "TRACE_CHAIN" => DOMAIN r.nodes = {} /\ DOMAIN r.edges = {}
  BY <1>3, <1>4, <1>5, <1>6, <1>8 DEF GoldRecords, Tasks, Marks
<1>10. QED
  BY <1>7, <1>9 DEF Shaped

\* An annotated record and the first export.
LEMMA GoldStarts == ASSUME GoldInit PROVE GoldInv
<1>1. scanned \in Indexes /\ record \in Annotated /\ fixed = FALSE /\ run = None
  BY DEF GoldInit
<1>2. PICK E : E = ExportedRelations(scanned)
  OBVIOUS
<1>3. snapshot = [keys |-> scanned.keys, relations |-> E,
                  manifest |-> Counts(scanned.keys, E)]
  BY <1>2 DEF GoldInit
<1>4. scanned.keys \subseteq Keys /\ E \subseteq Links
  BY <1>1, <1>2 DEF Indexes, ExportedRelations
<1>5. Shaped(record)
  BY <1>1, AnnotatedShaped
<1>6. QED
  BY <1>1, <1>3, <1>4, <1>5 DEF GoldInv

\* As long as nothing of the snapshot is exported, a fixed record tells of it.
LEMMA StillTold ==
  ASSUME snapshot'.keys = snapshot.keys, snapshot'.relations = snapshot.relations,
         record' = record, Told(record)
  PROVE  Told(record)'
BY DEF Told, EntitiesTold, NodesTold, EdgesTold

\* Each step keeps the invariant.
LEMMA GoldStep == ASSUME GoldInv, [GoldNext]_goldVars PROVE GoldInv'
<1>1. /\ scanned \in Indexes
      /\ snapshot = [keys |-> snapshot.keys, relations |-> snapshot.relations,
                     manifest |-> snapshot.manifest]
      /\ snapshot.keys \subseteq Keys /\ snapshot.relations \subseteq Links
      /\ fixed \in BOOLEAN
      /\ Shaped(record)
      /\ fixed => Told(record)
      /\ run # None =>
           /\ run.index \in Indexes
           /\ run.manifest = Counts(run.index.keys, run.index.relations)
  BY DEF GoldInv
<1>2. scanned.keys \subseteq Keys /\ ExportedRelations(scanned) \subseteq Links
  BY <1>1 DEF Indexes, ExportedRelations
<1>3. CASE Rescan
  <2>1. /\ scanned' \in Indexes
        /\ UNCHANGED <<snapshot, attested, run, record, fixed>>
    BY <1>3 DEF Rescan
  <2>2. fixed => Told(record)'
    BY <1>1, <2>1, StillTold
  <2>3. QED
    BY <1>1, <2>1, <2>2 DEF GoldInv
<1>4. CASE ExportEntities
  <2>1. /\ snapshot' = [snapshot EXCEPT !.keys = scanned.keys] /\ fixed' = FALSE
        /\ UNCHANGED <<scanned, run, record>>
    BY <1>4 DEF ExportEntities
  <2>2. snapshot' = [keys |-> scanned.keys, relations |-> snapshot.relations,
                     manifest |-> snapshot.manifest]
    BY <1>1, <2>1
  <2>3. QED
    BY <1>1, <1>2, <2>1, <2>2 DEF GoldInv
<1>5. CASE ExportRelations
  <2>1. /\ snapshot' = [snapshot EXCEPT !.relations = ExportedRelations(scanned)]
        /\ fixed' = FALSE
        /\ UNCHANGED <<scanned, run, record>>
    BY <1>5 DEF ExportRelations
  <2>2. snapshot' = [keys |-> snapshot.keys, relations |-> ExportedRelations(scanned),
                     manifest |-> snapshot.manifest]
    BY <1>1, <2>1
  <2>3. QED
    BY <1>1, <1>2, <2>1, <2>2 DEF GoldInv
<1>6. CASE ExportManifest
  <2>1. /\ snapshot' = [snapshot EXCEPT !.manifest =
                          Counts(snapshot.keys, snapshot.relations)]
        /\ UNCHANGED <<scanned, run, record, fixed>>
    BY <1>6 DEF ExportManifest
  <2>2. snapshot' = [keys |-> snapshot.keys, relations |-> snapshot.relations,
                     manifest |-> Counts(snapshot.keys, snapshot.relations)]
    BY <1>1, <2>1
  <2>3. fixed => Told(record)'
    BY <1>1, <2>1, <2>2, StillTold
  <2>4. QED
    BY <1>1, <2>1, <2>2, <2>3 DEF GoldInv
<1>7. CASE Fix
  <2>1. /\ record' = Fixed(record) /\ fixed' = TRUE
        /\ UNCHANGED <<scanned, snapshot, run>>
    BY <1>7 DEF Fix
  <2>2. Shaped(Fixed(record)) /\ Told(Fixed(record))
    BY <1>1, FixTells
  <2>3. Told(record)'
    BY <2>1, <2>2 DEF Told, EntitiesTold, NodesTold, EdgesTold
  <2>4. QED
    BY <1>1, <2>1, <2>2, <2>3 DEF GoldInv
<1>8. CASE Attest
  <2>1. UNCHANGED <<scanned, snapshot, run, record, fixed>>
    BY <1>8 DEF Attest
  <2>2. fixed => Told(record)'
    BY <1>1, <2>1, StillTold
  <2>3. QED
    BY <1>1, <2>1, <2>2 DEF GoldInv
<1>9. CASE Run
  <2>1. /\ run' = [record |-> record, manifest |-> snapshot.manifest, index |-> scanned]
        /\ Counts(scanned.keys, scanned.relations) = snapshot.manifest
        /\ UNCHANGED <<scanned, snapshot, record, fixed>>
    BY <1>9 DEF Run, CountsMatch
  <2>2. fixed => Told(record)'
    BY <1>1, <2>1, StillTold
  <2>3. QED
    BY <1>1, <2>1, <2>2 DEF GoldInv
<1>10. CASE UNCHANGED goldVars
  <2>1. UNCHANGED <<scanned, snapshot, run, record, fixed>>
    BY <1>10 DEF goldVars
  <2>2. fixed => Told(record)'
    BY <1>1, <2>1, StillTold
  <2>3. QED
    BY <1>1, <2>1, <2>2 DEF GoldInv
<1>11. QED
  BY <1>3, <1>4, <1>5, <1>6, <1>7, <1>8, <1>9, <1>10 DEF GoldNext

\* The links of a finite source are finitely many, and so is what is in a
\* snapshot.
LEMMA SourceFinite ==
  /\ \A S : S \subseteq Keys => IsFiniteSet(S)
  /\ \A S : S \subseteq Links => IsFiniteSet(S)
<1>1. IsFiniteSet(Keys) /\ Links \subseteq Keys \X Keys
  BY GoldAssumption
<1>2. IsFiniteSet(Links)
  BY <1>1, FS_Product, FS_Subset
<1>3. QED
  BY <1>1, <1>2, FS_Subset

\* The index of an accepted run has what the record is measured by.
LEMMA ToldIsReachable ==
  ASSUME GoldInv, fixed
  PROVE  RunReachable
<1>1. SUFFICES ASSUME run # None, AttestationHolds, Whole(snapshot)
               PROVE  /\ Comparable(run.index.keys, snapshot.keys) =>
                           MeasuredGold(record) \cup MeasuredNodes(record)
                             \subseteq run.index.keys
                      /\ Comparable(run.index.relations, snapshot.relations) =>
                           MeasuredEdges(record) \subseteq run.index.relations
  BY DEF RunReachable, Accepted
<1>2. /\ snapshot.keys \subseteq Keys /\ snapshot.relations \subseteq Links
      /\ Shaped(record) /\ Told(record)
      /\ run.index \in Indexes
      /\ run.manifest = Counts(run.index.keys, run.index.relations)
  BY <1>1 DEF GoldInv
<1>3. Counts(run.index.keys, run.index.relations)
        = Counts(snapshot.keys, snapshot.relations)
  BY <1>1, <1>2 DEF AttestationHolds, Whole
<1>4. /\ Cardinality(run.index.keys) = Cardinality(snapshot.keys)
      /\ Cardinality(run.index.relations) = Cardinality(snapshot.relations)
  BY <1>3 DEF Counts
<1>5. /\ IsFiniteSet(run.index.keys) /\ IsFiniteSet(snapshot.keys)
      /\ IsFiniteSet(run.index.relations) /\ IsFiniteSet(snapshot.relations)
  BY <1>2, SourceFinite DEF Indexes
<1>6. ASSUME NEW S, NEW T, IsFiniteSet(S), IsFiniteSet(T),
             Cardinality(S) = Cardinality(T), Comparable(S, T)
      PROVE  S = T
  <2>1. CASE S \subseteq T
    BY ONLY <1>6, <2>1, FS_Subset
  <2>2. CASE T \subseteq S
    BY ONLY <1>6, <2>2, FS_Subset
  <2>3. QED
    BY <1>6, <2>1, <2>2 DEF Comparable
<1>7. /\ Comparable(run.index.keys, snapshot.keys) => run.index.keys = snapshot.keys
      /\ Comparable(run.index.relations, snapshot.relations) =>
           run.index.relations = snapshot.relations
  BY <1>4, <1>5, <1>6
<1>8. /\ MeasuredGold(record) \subseteq snapshot.keys
      /\ MeasuredNodes(record) \subseteq snapshot.keys
      /\ MeasuredEdges(record) \subseteq snapshot.relations
  BY <1>2, ToldIsMeasured
<1>9. QED
  BY <1>7, <1>8

\* The whole snapshot has all of what is scored.
LEMMA ToldIsPerfect ==
  ASSUME GoldInv, fixed
  PROVE  SnapshotIsPerfect
<1>1. /\ snapshot.keys \subseteq Keys /\ snapshot.relations \subseteq Links
      /\ Shaped(record) /\ Told(record)
  BY DEF GoldInv
<1>2. IsFiniteSet(snapshot.keys) /\ IsFiniteSet(snapshot.relations)
  BY <1>1, SourceFinite
<1>3. /\ MeasuredGold(record) \subseteq snapshot.keys
      /\ MeasuredNodes(record) \subseteq snapshot.keys
      /\ MeasuredEdges(record) \subseteq snapshot.relations
      /\ (Unindexed(record.entities) \cup Unindexed(record.nodes))
           \cap snapshot.keys = {}
      /\ {k \in DOMAIN record.entities :
            record.entities[k].relevance = "must_recall"} = MeasuredGold(record)
      /\ DOMAIN record.nodes = Unindexed(record.nodes) \cup MeasuredNodes(record)
      /\ DOMAIN record.edges = UnindexedEdges(record) \cup MeasuredEdges(record)
      /\ GraphScored(record) =>
           /\ DOMAIN record.nodes = MeasuredNodes(record) /\ DOMAIN record.nodes # {}
           /\ DOMAIN record.edges = MeasuredEdges(record)
  BY <1>1, ToldIsMeasured
<1>4. RetrievalScored(record) => Perfect(SetCounts(snapshot.keys, MeasuredGold(record)))
  BY <1>2, <1>3, AllFound DEF RetrievalScored
<1>5. GraphScored(record) =>
        /\ Perfect(SetCounts(snapshot.keys, MeasuredNodes(record)))
        /\ DOMAIN record.edges # {} =>
             Perfect(SetCounts(snapshot.relations, MeasuredEdges(record)))
        /\ DOMAIN record.nodes = MeasuredNodes(record)
        /\ DOMAIN record.edges = MeasuredEdges(record)
        /\ ChainFound(record, snapshot.keys, snapshot.relations)
  <2>1. ASSUME GraphScored(record)
        PROVE  Perfect(SetCounts(snapshot.keys, MeasuredNodes(record)))
    BY <1>2, <1>3, <2>1, AllFound
  <2>2. ASSUME GraphScored(record), DOMAIN record.edges # {}
        PROVE  Perfect(SetCounts(snapshot.relations, MeasuredEdges(record)))
    BY <1>2, <1>3, <2>2, AllFound
  <2>3. ChainFound(record, snapshot.keys, snapshot.relations)
    BY <1>3 DEF ChainFound
  <2>4. QED
    BY <1>3, <2>1, <2>2, <2>3
<1>6. QED
  BY <1>3, <1>4, <1>5 DEF SnapshotIsPerfect, SourceOnly

\* The invariant holds.
LEMMA GoldInvHolds == GoldSpec => []GoldInv
<1>1. GoldInit => GoldInv
  BY GoldStarts
<1>2. GoldInv /\ [GoldNext]_goldVars => GoldInv'
  BY GoldStep
<1>3. QED
  BY <1>1, <1>2, PTL DEF GoldSpec

\* Whatever the annotator wrote and whatever was scanned and exported, in
\* whichever order, a fixed record passes the validator's rules about flags, and
\* a trace with edges all rules of both validators (fix_dataset against
\* validate_against_snapshot.py and validate_dataset.py).
THEOREM FixedIsConsistent == GoldSpec => []FixedConsistent
<1>1. GoldInv => FixedConsistent
  BY ToldIsConsistent DEF GoldInv, FixedConsistent
<1>2. QED
  BY <1>1, GoldInvHolds, PTL

\* To fix a fixed record again changes nothing: what it tells of the snapshot is
\* what the fix writes, and its own judgement of it stands (fix_dataset).
THEOREM FixIsSettled == GoldSpec => []FixSettled
<1>1. GoldInv => FixSettled
  BY ToldIsSettled DEF GoldInv, FixSettled
<1>2. QED
  BY <1>1, GoldInvHolds, PTL

\* What is scored can be found in the snapshot and what can be found is scored;
\* an index whose counts a scored run has pinned has all of it, as two finite
\* sets of one size are equal once one has the other (_retrieval_metrics,
\* _graph_metrics, validate_snapshot_attestation, compose_runtime).
THEOREM ScoredIsReachable == GoldSpec => []ScoredReachable
<1>1. ASSUME GoldInv, fixed
      PROVE  NothingLeftOut
  <2>1. Shaped(record) /\ Told(record)
    BY <1>1 DEF GoldInv
  <2>2. QED
    BY <2>1, ToldIsScored DEF NothingLeftOut
<1>2. GoldInv => ScoredReachable
  BY <1>1, ToldIsPerfect, ToldIsReachable DEF ScoredReachable
<1>3. QED
  BY <1>2, GoldInvHolds, PTL
=============================================================================

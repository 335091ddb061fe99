------------------------------ MODULE AgentRun ------------------------------
(***************************************************************************)
(* An evaluation run of the agent (evaluation/runners/stage2b_agent.py):   *)
(* it evaluates the scheduled cases one after the other, each with at most *)
(* two calls of a paid LLM provider, and leaves three append-only files:   *)
(* the call ledger, which has a line before and a line after every call,   *)
(* the response ledger, and the output with one record per case.  The      *)
(* process may be killed at any point and be invoked again, as a full run  *)
(* or as a smoke run of the first cases, and has to find out from the      *)
(* files what was done.                                                    *)
(*                                                                         *)
(* A line is written and fsynced in one go.  A kill may leave all of it,   *)
(* none, a torn part, or all but its newline.                              *)
(***************************************************************************)
EXTENDS Naturals, FiniteSets, Sequences, SequencesExt, Ascending

CONSTANTS
  Cases,           \* schedule positions of the cases
  SmokeCases,      \* the cases of a smoke run
  MaxInvocations,  \* bounds how often the run is started
  Corrupt          \* a line that is no JSON

ResponseLine == [attempt : Nat, outcome : {"success", "failure"}]

ASSUME CaseAssumption ==
  /\ Cases \subseteq Nat \ {0} /\ IsFiniteSet(Cases)
  /\ SmokeCases \subseteq Cases
  /\ MaxInvocations \in Nat
  /\ Corrupt \notin ResponseLine

VARIABLES
  calls,      \* file agent_llm.jsonl: [lines, tail]
  responses,  \* file agent_llm_responses.jsonl
  raw,        \* file stage2b_agent.jsonl, the output
  completed,  \* what the metadata file says: "no", or the completed mode
  mode,       \* the running process: "smoke", "full" or "off"
  pc,         \* where it is
  events,     \* DurableLlmResponseRecorder.events, the responses in memory
  temp,       \* the isolated output of a smoke run
  case,       \* the case under evaluation
  before,     \* calls counted when the case began
  nth,        \* calls made for the case
  outcome,    \* of the last call
  invocation, \* how often the run has been started
  smokedAgain, \* whether a smoke run was started on an output with records
  sent        \* every call that reached the provider, in order: its case and
              \* the invocation that made it

files == <<calls, responses, raw>>
vars == <<files, completed, mode, pc, events, temp, case, before, nth,
          outcome, invocation, smokedAgain, sent>>

-----------------------------------------------------------------------------
(* Append-only files of lines.  tail is "clean", "bare" when the last line *)
(* has no newline, or "torn" when a part of a line follows the last one.   *)

NoFile == [lines |-> <<>>, tail |-> "clean"]

\* What an append leaves: it joins a line without newline to the new one.
Written(f, line) ==
  IF f.tail = "bare"
  THEN [lines |-> Append(Front(f.lines), Corrupt), tail |-> "clean"]
  ELSE [lines |-> Append(f.lines, line), tail |-> "clean"]

\* What an append that is killed may leave.
Torn(f, line) ==
  {f, Written(f, line), [Written(f, line) EXCEPT !.tail = "bare"]}
  \cup IF f.tail = "clean" THEN {[f EXCEPT !.tail = "torn"]} ELSE {}

\* DurableCallCounters and JsonlCheckpointWriter: a torn part is cut off, a
\* missing newline is added.
Healed(f) == [f EXCEPT !.tail = "clean"]

\* DurableLlmResponseRecorder: a torn last line is cut off, and a whole one
\* without newline is taken as it is.
Reopened(f) ==
  IF f.tail = "torn" THEN Healed(f)
  ELSE IF f.tail = "bare" /\ Last(f.lines) = Corrupt
  THEN [lines |-> Front(f.lines), tail |-> "clean"]
  ELSE f

-----------------------------------------------------------------------------
Started(n) == [event |-> "started", attempt |-> n]
Finished(n, o) == [event |-> "finished", attempt |-> n, outcome |-> o]
Response(n, o) == [attempt |-> n, outcome |-> o]

Attempts == {l.attempt : l \in {x \in ToSet(calls.lines) : x.event = "started"}}
Count == Cardinality(Attempts)
Terminal == {l \in ToSet(calls.lines) : l.event = "finished"}
Pending == Attempts \ {l.attempt : l \in Terminal}

Recorded(records) == {r.case : r \in ToSet(records)}

\* The calls that records account for, the k-th of the i-th record, and how
\* many they are, the sum of provider_calls.
CallsIn(records) == UNION {{i} \X (1..records[i].calls) : i \in DOMAIN records}
CallsOf(records) == Cardinality(CallsIn(records))

Scheduled == IF mode = "smoke" THEN SmokeCases ELSE Cases
Target == IF mode = "smoke" THEN temp ELSE raw.lines

Init ==
  /\ calls = NoFile /\ responses = NoFile /\ raw = NoFile
  /\ completed = "no"
  /\ mode = "off" /\ pc = "off"
  /\ events = <<>> /\ temp = <<>>
  /\ case = 0 /\ before = 0 /\ nth = 0 /\ outcome = "none"
  /\ invocation = 0 /\ smokedAgain = FALSE
  /\ sent = <<>>

\* The process is gone, and what it had in memory.
Off ==
  /\ mode' = "off" /\ pc' = "off"
  /\ events' = <<>> /\ temp' = <<>>
  /\ case' = 0 /\ before' = 0 /\ nth' = 0 /\ outcome' = "none"

memory == <<events, temp, case, before, nth, outcome>>
history == <<invocation, smokedAgain, sent>>

-----------------------------------------------------------------------------
(* main: start and resume                                                  *)

\* The metadata says "in_progress" and the ledgers are opened; a response
\* ledger that holds no JSON in a line refuses the run.
Invoke(m) ==
  /\ mode = "off"
  /\ invocation < MaxInvocations
  /\ invocation' = invocation + 1
  /\ smokedAgain' = (smokedAgain \/ (m = "smoke" /\ raw.lines # <<>>))
  /\ completed' = "no"
  /\ calls' = Healed(calls)
  /\ responses' = Reopened(responses)
  /\ \/ /\ Corrupt \in ToSet(responses'.lines)
        /\ UNCHANGED <<mode, pc, events>>
     \/ /\ Corrupt \notin ToSet(responses'.lines)
        /\ mode' = m
        /\ pc' = "reconcile"
        /\ events' = responses'.lines
  /\ UNCHANGED <<raw, temp, case, before, nth, outcome, sent>>

\* validate_against: a response for every finished call, with its outcome,
\* and no response of an unknown call.
Consistent(es) ==
  /\ {e.attempt : e \in ToSet(es)} \subseteq Attempts
  /\ \A l \in Terminal : Response(l.attempt, l.outcome) \in ToSet(es)

\* reconcile_pending: a call that was started and has a response is finished
\* from it; one without a response is not sent again, the run is refused.
ReconcileOne ==
  /\ pc = "reconcile"
  /\ \E n \in Pending, e \in ToSet(events) :
       /\ e.attempt = n
       /\ calls' = Written(calls, Finished(n, e.outcome))
  /\ UNCHANGED <<responses, raw, completed, mode, pc, memory, history>>

Reconciled ==
  /\ pc = "reconcile"
  /\ \A n \in Pending : \A e \in ToSet(events) : e.attempt # n
  /\ \/ /\ Pending = {} /\ Consistent(events)
        /\ pc' = "resume"
        /\ UNCHANGED <<mode, memory>>
     \/ /\ Pending # {} \/ ~Consistent(events)
        /\ Off
  /\ UNCHANGED <<files, completed, history>>

\* validate_resume_state: the output has scheduled cases only, each once.
ScheduledOnce(records) ==
  /\ Recorded(records) \subseteq Scheduled
  /\ Cardinality(Recorded(records)) = Len(records)

\* Mutant of Resume: calls without a record do not refuse the run.
ResumeAnyway ==
  /\ pc = "resume"
  /\ raw' = Healed(raw)
  /\ pc' = "next"
  /\ UNCHANGED <<calls, responses, completed, mode, memory, history>>

\* require_no_orphan_provider_calls: the output accounts for every call.
Resume ==
  /\ pc = "resume"
  /\ raw' = Healed(raw)
  /\ LET sound == ScheduledOnce(raw'.lines) /\ CallsOf(raw'.lines) = Count
     IN \/ /\ sound
           /\ pc' = "next"
           /\ UNCHANGED <<mode, memory>>
        \/ ~sound /\ Off
  /\ UNCHANGED <<calls, responses, completed, history>>

-----------------------------------------------------------------------------
(* run_schedule and evaluate_agent_case                                    *)

\* Mutant of NextCase: a resumed run does not look at the output.
NextCaseAgain ==
  /\ pc = "next"
  /\ \E c \in Scheduled :
       /\ c > case
       /\ case' = c
       /\ \A d \in Scheduled : d > case => c <= d
  /\ pc' = "case"
  /\ before' = Count
  /\ nth' = 0 /\ outcome' = "none"
  /\ UNCHANGED <<files, completed, mode, events, temp, history>>

\* The first scheduled case without a record.
NextCase ==
  /\ pc = "next"
  /\ \E c \in Scheduled \ Recorded(Target) :
       /\ case' = c
       /\ \A d \in Scheduled \ Recorded(Target) : c <= d
  /\ pc' = "case"
  /\ before' = Count
  /\ nth' = 0 /\ outcome' = "none"
  /\ UNCHANGED <<files, completed, mode, events, temp, history>>

\* claim_phase and begin_attempt: the call is in the ledger before it is
\* made.  A failed call ends the case.
Begin ==
  /\ pc = "case"
  /\ nth < 2
  /\ outcome # "failure"
  /\ calls' = Written(calls, Started(Count + 1))
  /\ nth' = nth + 1
  /\ pc' = "call"
  /\ UNCHANGED <<responses, raw, completed, mode, events, temp, case, before,
                 outcome, history>>

Sent == sent' = Append(sent, [case |-> case, invocation |-> invocation])

\* The provider answers or raises.
Call ==
  /\ pc = "call"
  /\ Sent
  /\ outcome' \in {"success", "failure"}
  /\ pc' = "record"
  /\ UNCHANGED <<files, completed, mode, events, temp, case, before, nth,
                 invocation, smokedAgain>>

Record ==
  /\ pc = "record"
  /\ responses' = Written(responses, Response(Count, outcome))
  /\ events' = Append(events, Response(Count, outcome))
  /\ pc' = "finish"
  /\ UNCHANGED <<calls, raw, completed, mode, temp, case, before, nth,
                 outcome, history>>

\* Mutant of Finish: a failed call is not finished in the ledger.
FinishSuccess ==
  /\ pc = "finish"
  /\ calls' = IF outcome = "success"
              THEN Written(calls, Finished(Count, outcome)) ELSE calls
  /\ pc' = "case"
  /\ UNCHANGED <<responses, raw, completed, mode, memory, history>>

Finish ==
  /\ pc = "finish"
  /\ calls' = Written(calls, Finished(Count, outcome))
  /\ pc' = "case"
  /\ UNCHANGED <<responses, raw, completed, mode, memory, history>>

\* The record of the case: its calls, and whether it ended without an error,
\* which a failed call rules out.
CaseRecord(ok) == [case |-> case, calls |-> Count - before, ok |-> ok]
Outcomes == IF outcome = "failure" THEN {FALSE} ELSE BOOLEAN

\* The case returns or raises and is checkpointed either way.  The file a
\* smoke run writes is never opened by another invocation.
EndCase ==
  /\ pc = "case"
  /\ \E ok \in Outcomes :
       IF mode = "smoke"
       THEN /\ temp' = Append(temp, CaseRecord(ok))
            /\ UNCHANGED raw
       ELSE /\ raw' = Written(raw, CaseRecord(ok))
            /\ UNCHANGED temp
  /\ pc' = "next"
  /\ UNCHANGED <<calls, responses, completed, mode, events, case, before, nth,
                 outcome, history>>

ScheduleDone == Scheduled \subseteq Recorded(Target)

\* run_agent_smoke_gate: a smoke run with a failed case is set aside, and the
\* records of a good one are merged into the output at once.
Promote ==
  /\ pc = "next"
  /\ mode = "smoke"
  /\ ScheduleDone
  /\ \/ /\ \E r \in ToSet(temp) : ~r.ok
        /\ Off
        /\ UNCHANGED raw
     \/ /\ \A r \in ToSet(temp) : r.ok
        /\ LET new == {i \in DOMAIN temp : temp[i].case \notin Recorded(raw.lines)}
           IN raw' = [raw EXCEPT !.lines = @ \o SubSequence(temp, new)]
        /\ pc' = "final"
        /\ UNCHANGED <<mode, memory>>
  /\ UNCHANGED <<calls, responses, completed, history>>

FullDone ==
  /\ pc = "next"
  /\ mode = "full"
  /\ ScheduleDone
  /\ pc' = "final"
  /\ UNCHANGED <<files, completed, mode, memory, history>>

\* The ledgers and the output are validated again, now without refusing
\* calls that no record accounts for, and the metadata is written.
Complete ==
  /\ pc = "final"
  /\ completed' = IF /\ Consistent(events)
                     /\ ScheduledOnce(raw.lines)
                     /\ Scheduled \subseteq Recorded(raw.lines)
                     /\ CallsOf(raw.lines) <= Count
                  THEN mode ELSE completed
  /\ Off
  /\ UNCHANGED <<files, history>>

-----------------------------------------------------------------------------
\* The process is killed, possibly inside a write or inside the call.
Kill ==
  /\ mode # "off"
  /\ Off
  /\ \/ UNCHANGED <<files, sent>>
     \/ /\ pc = "reconcile"
        /\ \E n \in Pending, e \in ToSet(events) :
             /\ e.attempt = n
             /\ calls' \in Torn(calls, Finished(n, e.outcome))
        /\ UNCHANGED <<responses, raw, sent>>
     \/ /\ pc = "case" /\ nth < 2 /\ outcome # "failure"
        /\ calls' \in Torn(calls, Started(Count + 1))
        /\ UNCHANGED <<responses, raw, sent>>
     \/ /\ pc = "call"
        /\ Sent
        /\ UNCHANGED files
     \/ /\ pc = "record"
        /\ responses' \in Torn(responses, Response(Count, outcome))
        /\ UNCHANGED <<calls, raw, sent>>
     \/ /\ pc = "finish"
        /\ calls' \in Torn(calls, Finished(Count, outcome))
        /\ UNCHANGED <<responses, raw, sent>>
     \/ /\ pc = "case" /\ mode = "full"
        /\ \E ok \in Outcomes : raw' \in Torn(raw, CaseRecord(ok))
        /\ UNCHANGED <<calls, responses, sent>>
  /\ UNCHANGED <<completed, invocation, smokedAgain>>

Step ==
  \/ ReconcileOne \/ Reconciled \/ Resume
  \/ NextCase \/ Begin \/ Call \/ Record \/ Finish \/ EndCase
  \/ Promote \/ FullDone \/ Complete

Next ==
  \/ \E m \in {"smoke", "full"} : Invoke(m)
  \/ Step
  \/ Kill

Spec == Init /\ [][Next]_vars

-----------------------------------------------------------------------------
(* Properties                                                              *)

\* The provider is never called for a case in two invocations: whatever was
\* killed, torn or refused, a case whose first call may have been made is not
\* evaluated again, and at every moment there is a started line on disk for
\* each call that reached the provider (begin_attempt before the delegate's
\* create, reconcile_pending, require_no_orphan_provider_calls).  The
\* exception is a smoke run of an output that has records already, which
\* evaluates the smoke cases anew.
NeverResent ==
  /\ Len(sent) <= Count
  /\ ~smokedAgain =>
       \A i, j \in DOMAIN sent :
         sent[i].case = sent[j].case => sent[i].invocation = sent[j].invocation

\* A run that the metadata calls completed has one record of every scheduled
\* case, its records account for exactly the calls that were made, and every
\* call is finished in the ledger, although the last validation of main
\* tolerates unaccounted and unfinished calls.  A repeated smoke run is
\* completed with calls that its output does not account for.
CompletedExactly ==
  completed # "no" /\ ~smokedAgain =>
    /\ Recorded(raw.lines) = IF completed = "smoke" THEN SmokeCases ELSE Cases
    /\ Len(raw.lines) = Cardinality(Recorded(raw.lines))
    /\ CallsOf(raw.lines) = Len(sent)
    /\ Count = Len(sent)
    /\ Pending = {}

\* A run that was killed and whose output accounts for every call can go on:
\* the response ledger is readable and agrees with the call ledger.  No line
\* is ever joined to one without newline, although the response recorder, as
\* opposed to the two other files, does not add the newline that is missing:
\* the run is refused before it appends.
Resumable ==
  LET reopened == Reopened(responses).lines IN
  /\ Corrupt \notin ToSet(reopened)
  /\ mode = "off" /\ CallsOf(raw.lines) = Count =>
       Pending = {} /\ Consistent(reopened)
=============================================================================

----------------------------- MODULE AgentChat -----------------------------
(***************************************************************************)
(* POST /agent/chat: a client asks a question about a project, in a new    *)
(* conversation or in one it names; the server reads the conversation's    *)
(* last messages, answers by retrieval and at most two LLM calls, which    *)
(* takes seconds, and stores question and answer.  Other clients ask and   *)
(* projects are deleted and registered meanwhile.                          *)
(*                                                                         *)
(* As in ProjectIndex a SELECT is a moment of its own and a write          *)
(* transaction is atomic; ids of deleted last rows are given out again,    *)
(* and SQLite does not enforce foreign keys, which have to be switched on. *)
(***************************************************************************)
EXTENDS Naturals, FiniteSets, Sequences, FiniteSetsExt, Ascending

CONSTANTS
  ProjectIds,  \* row ids of the table projects
  ConvIds,     \* row ids of the table conversations
  MsgIds,      \* row ids of the table messages
  Roots,       \* source directories; tell one project from the next of its id
  Clients,     \* threads serving POST /agent/chat
  Deleters,    \* threads serving DELETE /projects/{id}
  MaxMemory,   \* MAX_MEMORY_MESSAGES
  None         \* no row, a new conversation, no draft

\* An answer passed the validator or is one of the fixed texts (no evidence
\* was found, or two answers failed), or it is a text that failed.
Answers == {"ok", "rejected"}

\* root, in both, is the directory of the project the question was asked
\* about; exchange is the id of the question's message.
Conversation == [project : ProjectIds, root : Roots]
Message == [conv : ConvIds, role : {"user", "assistant"}, exchange : MsgIds,
            answer : Answers \cup {None}, root : Roots \cup {None}]

ASSUME ChatAssumption ==
  /\ ProjectIds \subseteq Nat /\ IsFiniteSet(ProjectIds)
  /\ ConvIds \subseteq Nat /\ IsFiniteSet(ConvIds)
  /\ IsFiniteSet(MsgIds) /\ MsgIds = 1..Cardinality(MsgIds)
  /\ MaxMemory \in Nat /\ MaxMemory % 2 = 0
  /\ Clients \cap Deleters = {}
  /\ None \notin ProjectIds \cup ConvIds \cup Roots
  /\ None \notin Conversation \cup Message

VARIABLES
  projects,       \* table projects: id -> directory, or None
  conversations,  \* table conversations: id -> row, or None
  messages,       \* table messages: id -> row, or None
  pc,             \* where each thread is in its handler
  pid,            \* project id of the request
  conv,           \* conversation id of the request, None for a new one
  asked,          \* the directory of the project when the request arrived
  memory,         \* the messages read as working memory
  draft,          \* the answer so far
  loaded,         \* ids session.delete() loaded: [convs, msgs]
  disturbed       \* whether a project was deleted while it was asked about,
                  \* or twice at once

tables == <<projects, conversations, messages>>
locals == <<pc, pid, conv, asked, memory, draft>>
vars == <<tables, locals, loaded, disturbed>>

-----------------------------------------------------------------------------
Used(table) == {i \in DOMAIN table : table[i] # None}

\* The id SQLite gives the next row; beyond the bound there is none.
Next1(table) == Max(Used(table) \cup {0}) + 1

MessagesOf(c) == {i \in Used(messages) : messages[i].conv = c}

\* The messages of a conversation in their order: (created_at, id).
History(c) == SubSequence(messages, MessagesOf(c))

\* build_conversation_memory.
Recent(s) == SubSeq(s, IF Len(s) > MaxMemory THEN Len(s) - MaxMemory + 1
                       ELSE 1, Len(s))

\* validate_target and get_for_project: the project exists, or the
\* conversation does and is the project's.
ValidTarget(p, c) ==
  IF c = None THEN projects[p] # None
  ELSE conversations[c] # None /\ conversations[c].project = p

Init ==
  /\ projects = [p \in ProjectIds |-> None]
  /\ conversations = [c \in ConvIds |-> None]
  /\ messages = [m \in MsgIds |-> None]
  /\ pc = [t \in Clients \cup Deleters |-> "idle"]
  /\ pid = [t \in Clients \cup Deleters |-> None]
  /\ conv = [t \in Clients |-> None]
  /\ asked = [t \in Clients |-> None]
  /\ memory = [t \in Clients |-> <<>>]
  /\ draft = [t \in Clients |-> None]
  /\ loaded = [t \in Deleters |-> [convs |-> {}, msgs |-> {}]]
  /\ disturbed = FALSE

Goto(t, l) == pc' = [pc EXCEPT ![t] = l]

\* A chat request returns or raises.
Finish(t) ==
  /\ Goto(t, "idle")
  /\ pid' = [pid EXCEPT ![t] = None]
  /\ conv' = [conv EXCEPT ![t] = None]
  /\ asked' = [asked EXCEPT ![t] = None]
  /\ memory' = [memory EXCEPT ![t] = <<>>]
  /\ draft' = [draft EXCEPT ![t] = None]

-----------------------------------------------------------------------------
(* POST /agent/chat                                                        *)

Ask(t, p, c) ==
  /\ pc[t] = "idle"
  /\ ValidTarget(p, c)
  /\ pid' = [pid EXCEPT ![t] = p]
  /\ conv' = [conv EXCEPT ![t] = c]
  /\ asked' = [asked EXCEPT ![t] = projects[p]]
  /\ Goto(t, IF c = None THEN "generate" ELSE "check_memory")
  /\ UNCHANGED <<tables, memory, draft, loaded, disturbed>>

\* get_working_memory looks the conversation up again, then its messages.
CheckMemory(t) ==
  /\ pc[t] = "check_memory"
  /\ ValidTarget(pid[t], conv[t])
  /\ Goto(t, "read_memory")
  /\ UNCHANGED <<tables, pid, conv, asked, memory, draft, loaded, disturbed>>

ReadMemory(t) ==
  /\ pc[t] = "read_memory"
  /\ memory' = [memory EXCEPT ![t] = Recent(History(conv[t]))]
  /\ Goto(t, "generate")
  /\ UNCHANGED <<tables, pid, conv, asked, draft, loaded, disturbed>>

Answered(t) ==
  /\ Goto(t, "check_target")
  /\ memory' = [memory EXCEPT ![t] = <<>>]

\* The search and the context builder find no evidence; or the LLM is called
\* and its answer validated.
Generate(t) ==
  /\ pc[t] = "generate"
  /\ \/ /\ draft' = [draft EXCEPT ![t] = "ok"]
        /\ Answered(t)
     \/ /\ draft' = [draft EXCEPT ![t] = "rejected"]
        /\ Goto(t, "repair")
        /\ UNCHANGED memory
  /\ UNCHANGED <<tables, pid, conv, asked, loaded, disturbed>>

\* The second call; an answer that fails again is replaced by a fixed text.
Repair(t) ==
  /\ pc[t] = "repair"
  /\ draft' = [draft EXCEPT ![t] = "ok"]
  /\ Answered(t)
  /\ UNCHANGED <<tables, pid, conv, asked, loaded, disturbed>>

\* save_exchange, first statement: is the target still there?  The session
\* no longer holds the row it read for the memory.
CheckTarget(t) ==
  /\ pc[t] = "check_target"
  /\ ValidTarget(pid[t], conv[t])
  /\ Goto(t, "save")
  /\ UNCHANGED <<tables, pid, conv, asked, memory, draft, loaded, disturbed>>

\* What the transaction inserts into conversation c.
Exchange(t, c) ==
  LET n == Next1(messages)
      question == [conv |-> c, role |-> "user", exchange |-> n,
                   answer |-> None, root |-> asked[t]]
  IN /\ n + 1 \in MsgIds
     /\ messages' = [messages EXCEPT
          ![n] = question,
          ![n + 1] = [question EXCEPT !.role = "assistant",
                                      !.answer = draft[t]]]

\* Save is an update of the conversation or an insert into the table, and the
\* two messages.  The update misses a row that is gone, and the commit raises.
Save(t) ==
  /\ pc[t] = "save"
  /\ \/ /\ conv[t] = None
        /\ LET c == Next1(conversations)
           IN /\ c \in ConvIds
              /\ conversations' = [conversations EXCEPT
                   ![c] = [project |-> pid[t], root |-> asked[t]]]
              /\ Exchange(t, c)
     \/ /\ conv[t] # None
        /\ conversations[conv[t]] # None
        /\ UNCHANGED conversations
        /\ Exchange(t, conv[t])
  /\ Finish(t)
  /\ disturbed' = (disturbed \/ \E d \in Deleters :
                     pc[d] = "delete_commit" /\ pid[d] = pid[t])
  /\ UNCHANGED <<projects, loaded>>

\* Mutant of Fail: the question is stored although there is no answer.
FailStored(t) ==
  /\ t \in Clients
  /\ pc[t] # "idle"
  /\ \/ /\ pc[t] = "save" /\ conv[t] # None /\ Next1(messages) \in MsgIds
        /\ messages' = [messages EXCEPT ![Next1(messages)] =
             [conv |-> conv[t], role |-> "user", exchange |-> Next1(messages),
              answer |-> None, root |-> asked[t]]]
     \/ UNCHANGED messages
  /\ Finish(t)
  /\ UNCHANGED <<projects, conversations, loaded, disturbed>>

\* The request raises: the target is gone (404, 409), the search, the graph
\* or the LLM fails, a commit does.  Nothing is stored.
Fail(t) ==
  /\ pc[t] # "idle"
  /\ Finish(t)
  /\ UNCHANGED <<tables, loaded, disturbed>>

-----------------------------------------------------------------------------
(* POST /projects and DELETE /projects/{id}, as far as they matter here    *)

Register(r) ==
  /\ \A p \in ProjectIds : projects[p] # r
  /\ Next1(projects) \in ProjectIds
  /\ projects' = [projects EXCEPT ![Next1(projects)] = r]
  /\ UNCHANGED <<conversations, messages, locals, loaded, disturbed>>

DeleteOpen(t, p) ==
  /\ pc[t] = "idle"
  /\ projects[p] # None
  /\ Goto(t, "delete_load")
  /\ pid' = [pid EXCEPT ![t] = p]
  /\ UNCHANGED <<tables, conv, asked, memory, draft, loaded, disturbed>>

\* Mutant of DeleteLoad: the cascade stops at the conversations.
DeleteLoadFlat(t) ==
  /\ pc[t] = "delete_load"
  /\ LET convs == {c \in Used(conversations) :
                     conversations[c].project = pid[t]}
     IN loaded' = [loaded EXCEPT ![t] = [convs |-> convs, msgs |-> {}]]
  /\ Goto(t, "delete_commit")
  /\ UNCHANGED <<tables, pid, conv, asked, memory, draft, disturbed>>

\* session.delete() loads the conversations, then the messages of each; an
\* exchange saved in between counts as saved before, or after if it opened a
\* conversation.
DeleteLoad(t) ==
  /\ pc[t] = "delete_load"
  /\ LET convs == {c \in Used(conversations) :
                     conversations[c].project = pid[t]}
     IN loaded' = [loaded EXCEPT ![t] =
          [convs |-> convs, msgs |-> UNION {MessagesOf(c) : c \in convs}]]
  /\ Goto(t, "delete_commit")
  /\ UNCHANGED <<tables, pid, conv, asked, memory, draft, disturbed>>

Removed(table, ids) ==
  [i \in DOMAIN table |-> IF i \in ids THEN None ELSE table[i]]

\* The rows that were loaded go, by primary key.
DeleteCommit(t) ==
  /\ pc[t] = "delete_commit"
  /\ projects' = Removed(projects, {pid[t]})
  /\ conversations' = Removed(conversations, loaded[t].convs)
  /\ messages' = Removed(messages, loaded[t].msgs)
  /\ loaded' = [loaded EXCEPT ![t] = [convs |-> {}, msgs |-> {}]]
  /\ Goto(t, "idle")
  /\ pid' = [pid EXCEPT ![t] = None]
  /\ disturbed' = \/ disturbed
                  \/ \E c \in Clients : pc[c] # "idle" /\ pid[c] = pid[t]
                  \/ \E d \in Deleters \ {t} :
                       pc[d] = "delete_commit" /\ pid[d] = pid[t]
  /\ UNCHANGED <<conv, asked, memory, draft>>

\* The deletion fails and changes nothing.
DeleteFail(t) ==
  /\ pc[t] \in {"delete_load", "delete_commit"}
  /\ loaded' = [loaded EXCEPT ![t] = [convs |-> {}, msgs |-> {}]]
  /\ Goto(t, "idle")
  /\ pid' = [pid EXCEPT ![t] = None]
  /\ UNCHANGED <<tables, conv, asked, memory, draft, disturbed>>

ChatStep(t) ==
  \/ CheckMemory(t) \/ ReadMemory(t)
  \/ Generate(t) \/ Repair(t)
  \/ CheckTarget(t) \/ Save(t) \/ Fail(t)

Next ==
  \/ \E t \in Clients :
       \/ \E p \in ProjectIds, c \in ConvIds \cup {None} : Ask(t, p, c)
       \/ ChatStep(t)
  \/ \E r \in Roots : Register(r)
  \/ \E t \in Deleters :
       \/ \E p \in ProjectIds : DeleteOpen(t, p)
       \/ DeleteLoad(t) \/ DeleteCommit(t) \/ DeleteFail(t)

Spec == Init /\ [][Next]_vars

-----------------------------------------------------------------------------
(* Properties                                                              *)

IsExchange(q, a) ==
  /\ q.role = "user" /\ a.role = "assistant"
  /\ q.exchange = a.exchange

WholeExchanges(s) ==
  /\ Len(s) % 2 = 0
  /\ \A k \in 1..(Len(s) \div 2) : IsExchange(s[2 * k - 1], s[2 * k])

\* A conversation is a sequence of questions each followed by its answer,
\* whatever fails and whoever else asks or deletes: "a failed task does not
\* save a partial exchange", and two questions in one conversation do not
\* mix.  So is the memory an answer is based on, which is at most the window
\* long (save_exchange, build_conversation_memory, the cascade of
\* Project.conversations).
ExchangesWhole ==
  /\ \A c \in ConvIds : WholeExchanges(History(c))
  /\ \A t \in Clients :
       Len(memory[t]) <= MaxMemory /\ WholeExchanges(memory[t])

\* The memory of an answer comes from questions about the same project:
\* "different projects ... do not share memory".
MemoryIsolated ==
  \A t \in Clients, k \in 1..MaxMemory :
    k \in DOMAIN memory[t] /\ asked[t] # None =>
      memory[t][k].root = asked[t]

\* A conversation belongs to the project that has its project id, and so do
\* its messages; there is none without a project or a conversation.
Isolated ==
  /\ \A c \in Used(conversations) :
       projects[conversations[c].project] = conversations[c].root
  /\ \A m \in Used(messages) :
       /\ conversations[messages[m].conv] # None
       /\ conversations[messages[m].conv].root = messages[m].root

\* As long as no project is deleted while it is asked about or deleted
\* twice at once, what is stored and what an answer remembers stays within
\* its project, although ids of projects and conversations are used again (get_working_memory,
\* save_exchange, the cascades of a deletion).
IsolatedIfQuiet == ~disturbed => Isolated /\ MemoryIsolated

\* Refinement of ConversationPromise: the tables show users conversations
\* that belong to a directory, grow by accepted exchanges and go with it.
Promise == INSTANCE ConversationPromise WITH
  Messages <- Message,
  Nobody <- None,
  registered <- {projects[p] : p \in Used(projects)},
  owner <- [c \in ConvIds |->
              IF conversations[c] = None THEN None ELSE conversations[c].root],
  said <- [c \in ConvIds |-> History(c)]

\* The histories in which nobody works on a project while it is deleted.
QuietSpec == Init /\ [][Next /\ ~disturbed']_vars

\* In these histories every step on the tables is one of ConversationPromise,
\* or changes nothing users see (save_exchange, the cascades of a deletion).
ImplementsPromise == Promise!Spec
=============================================================================

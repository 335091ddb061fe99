------------------------------ MODULE ChatView ------------------------------
(***************************************************************************)
(* The page AgentChat.vue: questions and answers of one conversation, a    *)
(* conversation that is restored by its id, and the code of a reference.   *)
(* The project field can be edited at any time; one question or restore    *)
(* runs at a time, but references are opened beside it.  The backend is    *)
(* AgentChat; of it only the conversations are kept here.                  *)
(***************************************************************************)
EXTENDS Session, Sequences, FiniteSets, SequencesExt

CONSTANTS
  ChatProjects  \* projects of the backend

\* What the page may be waiting for.  When a restore is served, its answer is
\* on the way to the page; overtaken says that the conversation has got another
\* exchange since then (history).
Talk == [op : {"ask", "restore"}, project : ChatProjects \cup {None},
         id : Nat \cup {None}, exchange : Nat \cup {None}, served : BOOLEAN,
         answer : Seq(Nat), overtaken : BOOLEAN]

\* The conversations of the backend; an exchange is a number.
Conversation == [project : ChatProjects \cup {None}, exchanges : Seq(Nat)]

ASSUME ChatViewAssumption == ChatProjects # {} /\ None \notin Nat \cup Talk

VARIABLES
  conversations, \* of the backend: their project and exchanges
  chatProject,   \* projectId
  conversation,  \* conversationId
  messages,      \* the exchanges that are shown
  asking,        \* loading
  reference,     \* selectedReference
  content,       \* referenceContent: of which reference
  talk,          \* the question or restore under way, or None
  opening,       \* references whose code is asked for
  left,          \* questions the page no longer waits for
  lost,          \* history: an exchange of the conversation was not shown
  crossed        \* history: a reference was opened before another was there

dialogue == <<conversation, messages>>
lookup == <<reference, content, opening, crossed>>
chatVars == <<conversations, chatProject, dialogue, asking, talk, lookup, left, lost>>

ChatInit(kept) ==
  /\ conversations = kept /\ chatProject = None
  /\ conversation = None /\ messages = <<>> /\ asking = FALSE /\ talk = None
  /\ reference = None /\ content = None /\ opening = {}
  /\ left = {} /\ lost = FALSE /\ crossed = FALSE

\* The page is opened, with the project of the URL.
ChatMount ==
  /\ chatProject' \in ChatProjects
  /\ UNCHANGED <<conversations, dialogue, asking, talk, lookup, left, lost>>

\* A question that has not come to the backend yet may still do so.
Dropped == {t \in {talk} : t # None /\ t.op = "ask" /\ ~t.served}

\* The page is left: its state goes.
ChatLeave ==
  /\ left' = left \cup Dropped
  /\ conversation' = None /\ messages' = <<>> /\ asking' = FALSE /\ talk' = None
  /\ reference' = None /\ content' = None /\ opening' = {}
  /\ chatProject' = None /\ lost' = FALSE /\ crossed' = FALSE
  /\ UNCHANGED conversations

EditProject ==
  /\ chatProject' \in ChatProjects
  /\ UNCHANGED <<requests, conversations, dialogue, asking, talk, lookup, left, lost>>

Start(call) ==
  /\ ~asking /\ asking' = TRUE /\ talk' = call /\ Request
  /\ UNCHANGED <<conversations, chatProject, dialogue, lookup, left, lost>>

\* submit and restore until the await.
Asks(op, id, exchange) ==
  [op |-> op, project |-> chatProject, id |-> id, exchange |-> exchange,
   served |-> FALSE, answer |-> <<>>, overtaken |-> FALSE]
Submit == Start(Asks("ask", conversation, requests + 2))
Restore ==
  \E id \in DOMAIN conversations \cup {Len(conversations) + 1} :
    Start(Asks("restore", id, None))

\* The backend takes the question t into the conversation id: a new one, or
\* one that has to be of the project.
Take(t, id) ==
  IF t.id = None
    THEN /\ id = Len(conversations) + 1
         /\ conversations' = Append(conversations,
              [project |-> t.project, exchanges |-> <<t.exchange>>])
    ELSE /\ id = t.id /\ conversations[id].project = t.project
         /\ conversations' = [conversations EXCEPT ![id].exchanges = Append(@, t.exchange)]

ServeChat ==
  /\ talk # None /\ talk.op = "ask" /\ ~talk.served
  /\ \E id \in 1..(Len(conversations) + 1) :
       Take(talk, id) /\ talk' = [talk EXCEPT !.served = TRUE, !.id = id]
  /\ UNCHANGED <<requests, chatProject, dialogue, asking, lookup, left, lost>>

\* The backend reads a conversation of the project; the page gets it later.
ServeRestore ==
  /\ talk # None /\ talk.op = "restore" /\ ~talk.served
  /\ talk.id \in DOMAIN conversations /\ conversations[talk.id].project = talk.project
  /\ talk' = [talk EXCEPT !.served = TRUE, !.answer = conversations[talk.id].exchanges]
  /\ UNCHANGED <<requests, conversations, chatProject, dialogue, asking, lookup, left, lost>>

\* A question that the page no longer waits for: its exchange is not shown, and
\* is not in an answer that was read before.
ServeLeft ==
  /\ \E t \in left, id \in 1..(Len(conversations) + 1) :
       /\ Take(t, id) /\ left' = left \ {t} /\ lost' = (lost \/ id = conversation)
       /\ talk' = IF talk # None /\ talk.op = "restore" /\ talk.served /\ talk.id = id
                   THEN [talk EXCEPT !.overtaken = TRUE] ELSE talk
  /\ UNCHANGED <<requests, chatProject, dialogue, asking, lookup>>

Settled == asking' = FALSE /\ talk' = None

\* submit after the await: the question and its answer are shown together.
ChatAnswered ==
  /\ talk # None /\ talk.op = "ask" /\ talk.served /\ Settled
  /\ conversation' = talk.id /\ messages' = Append(messages, talk.exchange)
  /\ UNCHANGED <<requests, conversations, chatProject, lookup, left, lost>>

Restorable == talk # None /\ talk.op = "restore" /\ talk.served

\* Mutant of Restored: the restored messages follow those that are shown.
RestoredAfter ==
  /\ Restorable /\ Settled /\ lost' = talk.overtaken
  /\ conversation' = talk.id /\ messages' = messages \o talk.answer
  /\ UNCHANGED <<requests, conversations, chatProject, lookup, left>>

\* restore after the await: what is shown is the answer, however old it is.
Restored ==
  /\ Restorable /\ Settled /\ lost' = talk.overtaken
  /\ conversation' = talk.id /\ messages' = talk.answer
  /\ UNCHANGED <<requests, conversations, chatProject, lookup, left>>

\* submit or restore fails, before or after the backend has taken it.
TalkFailed ==
  /\ talk # None /\ Settled /\ left' = left \cup Dropped
  /\ lost' = (lost \/ (talk.op = "ask" /\ talk.served /\ talk.id = conversation))
  /\ UNCHANGED <<requests, conversations, chatProject, dialogue, lookup>>

\* Mutant of OpenReference: the code of the last reference is not taken away.
OpenReferenceKept ==
  /\ Request
  /\ \E r \in ToSet(messages) :
       reference' = r /\ opening' = opening \cup {[of |-> r, number |-> requests]}
  /\ crossed' = (opening # {})
  /\ UNCHANGED <<conversations, chatProject, dialogue, asking, talk, left, lost, content>>

\* openReference until the await; an exchange stands for its reference.
OpenReference ==
  /\ Request
  /\ \E r \in ToSet(messages) :
       reference' = r /\ opening' = opening \cup {[of |-> r, number |-> requests]}
  /\ content' = None /\ crossed' = (opening # {})
  /\ UNCHANGED <<conversations, chatProject, dialogue, asking, talk, left, lost>>

\* The code arrives, whatever reference is selected by now, or does not.
ReferenceLoaded ==
  /\ \E o \in opening : opening' = opening \ {o} /\ content' \in {o.of, content}
  /\ UNCHANGED <<requests, conversations, chatProject, dialogue, asking, talk, left, lost,
                 reference, crossed>>

CloseReference ==
  /\ reference # None /\ reference' = None
  /\ UNCHANGED <<requests, conversations, chatProject, dialogue, asking, talk, left, lost,
                 content, opening, crossed>>

\* The steps of the mounted page, and those of the backend.
ChatPageNext ==
  \/ EditProject \/ Submit \/ Restore \/ ChatAnswered \/ Restored \/ TalkFailed
  \/ OpenReference \/ ReferenceLoaded \/ CloseReference
ChatBackendNext == ServeChat \/ ServeRestore \/ ServeLeft

-----------------------------------------------------------------------------
(* Properties                                                              *)

\* The question that the page waits for is in the conversation already.
Ahead == talk # None /\ talk.op = "ask" /\ talk.served

\* The page shows exchanges of one conversation only, the one the next question
\* goes to: whatever is restored, refused because the project field was edited,
\* answered late, or lost.  It shows all of them, in their order, but for two
\* cases: the answer of a question was lost, and a question the page no longer
\* waits for came into the conversation after it was read (submit, restore).
ChatInStep ==
  /\ conversation = None => messages = <<>>
  /\ conversation # None =>
       ToSet(messages) \subseteq ToSet(conversations[conversation].exchanges)
  /\ conversation # None /\ ~lost /\ ~Ahead =>
       messages = conversations[conversation].exchanges

\* The dialog shows the code of the reference it names, unless it was opened
\* while the code of another was on its way (openReference has no token as
\* selectProject has).
ReferenceAlone ==
  ~crossed /\ reference # None /\ content # None => content = reference
=============================================================================

---------------------------- MODULE FrontendProofs ----------------------------
(***************************************************************************)
(* Theorems about Frontend, for any number of projects, of entries in a    *)
(* history, of conversations and of requests.                              *)
(***************************************************************************)
EXTENDS Frontend, AscendingProofs

-----------------------------------------------------------------------------
(* AgentChat.vue                                                           *)

ChatTypes ==
  /\ requests \in Nat
  /\ conversations \in Seq(Conversation)
  /\ chatProject \in ChatProjects \cup {None}
  /\ conversation \in DOMAIN conversations \cup {None}
  /\ messages \in Seq(Nat)
  /\ asking \in BOOLEAN
  /\ talk \in Talk \cup {None}
  /\ left \in SUBSET {t \in Talk : t.op = "ask" /\ t.id \in DOMAIN conversations \cup {None}}

\* What the page waits for goes to the conversation that it shows.
TalkFollows ==
  /\ talk # None => asking
  /\ talk # None /\ talk.op = "ask" =>
       /\ talk.exchange \in Nat
       /\ talk.served => /\ talk.id \in DOMAIN conversations
                         /\ conversation \in {talk.id, None}
       /\ ~talk.served => talk.id = conversation
  /\ talk # None /\ talk.op = "restore" /\ talk.served =>
       /\ talk.id \in DOMAIN conversations
       /\ ~talk.overtaken => talk.answer = conversations[talk.id].exchanges
  /\ \A t \in left : t.exchange \in Nat

\* What it shows is the conversation as it was before the question that the
\* backend has taken.  A conversation that the page does not know yet has this
\* question only, and no question that was left goes there.
MessagesFollow ==
  /\ conversation = None => messages = <<>>
  /\ conversation # None /\ ~lost /\ ~Ahead =>
       messages = conversations[conversation].exchanges
  /\ Ahead /\ (conversation = None \/ ~lost) =>
       conversations[talk.id].exchanges = Append(messages, talk.exchange)
  /\ Ahead /\ conversation = None => \A t \in left : t.id # talk.id

\* What is lost is only missing: the page shows nothing else.
Held(id) == ToSet(conversations[id].exchanges)
MessagesHeld ==
  /\ conversation # None => ToSet(messages) \subseteq Held(conversation)
  /\ Ahead => talk.exchange \in Held(talk.id)
  /\ talk # None /\ talk.op = "restore" /\ talk.served =>
       ToSet(talk.answer) \subseteq Held(talk.id)

ChatInv == ChatTypes /\ TalkFollows /\ MessagesFollow

\* While no other reference is opened, the code on its way is that of the
\* reference that is named.
ReferenceInv ==
  ~crossed /\ reference # None =>
    /\ \A o \in opening : o.of = reference
    /\ content # None => content = reference

\* The ids of conversations are numbers, and none of them is None.
LEMMA ConversationIds ==
  ASSUME ChatTypes
  PROVE  /\ DOMAIN conversations = 1..Len(conversations) /\ Len(conversations) \in Nat
         /\ DOMAIN conversations \subseteq Nat /\ None \notin DOMAIN conversations
         /\ None \notin Nat /\ None \notin Talk
BY ChatViewAssumption DEF ChatTypes

\* A question that comes to the backend ends its conversation, or begins one.
LEMMA Taken ==
  ASSUME ChatTypes, NEW t \in Talk, t.exchange \in Nat,
         t.id \in DOMAIN conversations \cup {None},
         NEW id \in 1..(Len(conversations) + 1), Take(t, id)
  PROVE  /\ conversations' \in Seq(Conversation)
         /\ DOMAIN conversations \subseteq DOMAIN conversations'
         /\ id \in DOMAIN conversations'
         /\ \A i \in DOMAIN conversations :
              i # id => conversations'[i] = conversations[i]
         /\ t.id = None =>
              /\ id \notin DOMAIN conversations
              /\ conversations'[id].exchanges = <<t.exchange>>
         /\ t.id # None =>
              /\ id = t.id /\ id \in DOMAIN conversations
              /\ conversations'[id].exchanges =
                   Append(conversations[id].exchanges, t.exchange)
<1>1. conversations \in Seq(Conversation) /\ Len(conversations) \in Nat
  BY DEF ChatTypes
<1>2. CASE t.id = None
  <2>1. PICK c \in Conversation : c = [project |-> t.project, exchanges |-> <<t.exchange>>]
    <3>1. <<t.exchange>> \in Seq(Nat) /\ t.project \in ChatProjects \cup {None}
      BY DEF Talk
    <3>2. [project |-> t.project, exchanges |-> <<t.exchange>>] \in Conversation
      BY <3>1 DEF Conversation
    <3>3. QED
      BY <3>2
  <2>2. conversations' = Append(conversations, c) /\ id = Len(conversations) + 1
    BY <1>2, <2>1 DEF Take
  <2>3. QED
    BY <1>1, <1>2, <2>1, <2>2
<1>3. CASE t.id # None
  <2>1. t.id \in Nat /\ id = t.id
    BY <1>3 DEF Talk, Take
  <2>2. id \in DOMAIN conversations
    BY <1>3, <2>1
  <2>3. PICK c \in Conversation :
          /\ c = [conversations[id] EXCEPT !.exchanges = Append(@, t.exchange)]
          /\ c.exchanges = Append(conversations[id].exchanges, t.exchange)
    <3>1. /\ conversations[id] \in Conversation
          /\ conversations[id].exchanges \in Seq(Nat)
      <4>1. conversations[id] \in Conversation
        BY <1>1, <2>2
      <4>2. QED
        BY <4>1 DEF Conversation
    <3>2. Append(conversations[id].exchanges, t.exchange) \in Seq(Nat)
      BY <3>1
    <3>3. [conversations[id] EXCEPT !.exchanges = Append(@, t.exchange)] \in Conversation
      BY <3>1, <3>2 DEF Conversation
    <3>4. [conversations[id] EXCEPT !.exchanges = Append(@, t.exchange)].exchanges
            = Append(conversations[id].exchanges, t.exchange)
      BY <3>1 DEF Conversation
    <3>5. QED
      BY <3>3, <3>4
  <2>4. conversations' = [conversations EXCEPT ![id] = c]
    BY <1>3, <2>3 DEF Take
  <2>5. /\ conversations' \in Seq(Conversation)
        /\ DOMAIN conversations' = DOMAIN conversations
        /\ \A i \in DOMAIN conversations :
             conversations'[i] = IF i = id THEN c ELSE conversations[i]
    BY <1>1, <2>2, <2>3, <2>4
  <2>6. QED
    BY <1>3, <2>1, <2>2, <2>3, <2>5
<1>4. QED
  BY <1>2, <1>3

\* ChatInv where only the fields of the page and its requests change.
LEMMA ChatKept ==
  ASSUME ChatInv, requests' \in Nat, chatProject' \in ChatProjects \cup {None},
         UNCHANGED <<conversations, dialogue, asking, talk, left, lost>>
  PROVE  ChatInv'
BY DEF ChatInv, ChatTypes, TalkFollows, MessagesFollow, Ahead, dialogue

\* What submit and restore begin with.
LEMMA AskedTalk ==
  ASSUME ChatTypes, NEW op \in {"ask", "restore"}, NEW id \in Nat \cup {None},
         NEW e \in Nat \cup {None}
  PROVE  /\ Asks(op, id, e) \in Talk /\ Asks(op, id, e).op = op
         /\ Asks(op, id, e).id = id /\ Asks(op, id, e).exchange = e
         /\ ~Asks(op, id, e).served
<1>1. <<>> \in Seq(Nat) /\ chatProject \in ChatProjects \cup {None}
  BY DEF ChatTypes
<1>2. QED
  BY <1>1 DEF Asks, Talk

\* The steps of the page and of the backend keep ChatInv.
LEMMA ChatNextKeeps ==
  ASSUME ChatInv, ChatPageNext \/ ChatBackendNext
  PROVE  ChatInv'
<1> USE DEF dialogue, lookup
<1>1. ChatTypes /\ TalkFollows /\ MessagesFollow
  BY DEF ChatInv
<1>2. None \notin Nat /\ None \notin Talk
  BY <1>1, ConversationIds
<1>3. CASE EditProject \/ OpenReference \/ ReferenceLoaded \/ CloseReference
  <2>1. requests' \in Nat
    BY <1>1, <1>3
       DEF EditProject, OpenReference, ReferenceLoaded, CloseReference, Request, ChatTypes
  <2>2. chatProject' \in ChatProjects \cup {None}
    BY <1>1, <1>3
       DEF EditProject, OpenReference, ReferenceLoaded, CloseReference, ChatTypes
  <2>3. QED
    BY <1>3, <2>1, <2>2, ChatKept
       DEF EditProject, OpenReference, ReferenceLoaded, CloseReference
<1>4. CASE Submit
  <2>1. PICK t \in Talk :
          /\ t = Asks("ask", conversation, requests + 2)
          /\ t.op = "ask" /\ t.id = conversation /\ t.exchange \in Nat /\ ~t.served
    <3>1. conversation \in Nat \cup {None} /\ requests + 2 \in Nat
      BY <1>1, ConversationIds DEF ChatTypes
    <3>2. QED
      BY <1>1, <3>1, AskedTalk
  <2>2. talk' = t /\ asking' = TRUE /\ requests' \in Nat
    BY <1>1, <1>4, <2>1 DEF Submit, Start, Request, ChatTypes
  <2>3. QED
    BY <1>1, <1>2, <1>4, <2>1, <2>2
       DEF Submit, Start, ChatInv, ChatTypes, TalkFollows, MessagesFollow, Ahead
<1>5. CASE Restore
  <2>1. PICK id \in DOMAIN conversations \cup {Len(conversations) + 1} :
          Start(Asks("restore", id, None))
    BY <1>5 DEF Restore
  <2>2. PICK t \in Talk : /\ t = Asks("restore", id, None)
                         /\ t.op = "restore" /\ ~t.served
    <3>1. id \in Nat \cup {None}
      BY <1>1, ConversationIds DEF ChatTypes
    <3>2. QED
      BY <1>1, <3>1, AskedTalk
  <2>3. talk' = t /\ asking' = TRUE /\ requests' \in Nat
    BY <1>1, <2>1, <2>2 DEF Start, Request, ChatTypes
  <2>4. QED
    BY <1>1, <1>2, <2>1, <2>2, <2>3
       DEF Start, ChatInv, ChatTypes, TalkFollows, MessagesFollow, Ahead
<1>6. CASE ServeChat
  <2>1. PICK id \in 1..(Len(conversations) + 1) :
          Take(talk, id) /\ talk' = [talk EXCEPT !.served = TRUE, !.id = id]
    BY <1>6 DEF ServeChat
  <2>2. /\ talk \in Talk /\ talk.op = "ask" /\ talk.exchange \in Nat
        /\ ~talk.served /\ talk.id = conversation
        /\ talk.id \in DOMAIN conversations \cup {None}
    BY <1>1, <1>6 DEF ServeChat, ChatTypes, TalkFollows
  <2>3. /\ conversations' \in Seq(Conversation)
        /\ DOMAIN conversations \subseteq DOMAIN conversations'
        /\ id \in DOMAIN conversations'
        /\ talk.id = None => /\ id \notin DOMAIN conversations
                             /\ conversations'[id].exchanges = <<talk.exchange>>
        /\ talk.id # None => /\ id = talk.id
                             /\ conversations'[id].exchanges =
                                  Append(conversations[id].exchanges, talk.exchange)
    BY <1>1, <2>1, <2>2, Taken
  <2>4. /\ talk' \in Talk /\ talk'.op = "ask" /\ talk'.served /\ talk'.id = id
        /\ talk'.exchange = talk.exchange
    <3>1. id \in Nat
      BY <1>1, ConversationIds
    <3>2. QED
      BY <2>1, <2>2, <3>1 DEF Talk
  <2>5. ChatTypes'
    BY <1>1, <1>6, <2>3, <2>4 DEF ServeChat, ChatTypes
  <2>6. TalkFollows'
    BY <1>1, <1>6, <2>2, <2>3, <2>4 DEF ServeChat, TalkFollows
  <2>7. CASE conversation = None
    <3>1. messages = <<>> /\ conversations'[id].exchanges = Append(messages, talk.exchange)
      BY <1>1, <2>2, <2>3, <2>7 DEF MessagesFollow
    <3>2. \A t \in left : t.id # id
      <4>1. id # None /\ id \notin DOMAIN conversations
        BY <1>1, <2>2, <2>3, <2>7, ConversationIds
      <4>2. QED
        BY <1>1, <4>1 DEF ChatTypes
    <3>3. MessagesFollow'
      BY <1>6, <2>4, <2>7, <3>1, <3>2 DEF ServeChat, MessagesFollow, Ahead
    <3>4. QED
      BY <2>5, <2>6, <3>3 DEF ChatInv
  <2>8. CASE conversation # None
    <3>1. ~lost => conversations'[id].exchanges = Append(messages, talk.exchange)
      BY <1>1, <2>2, <2>3, <2>8 DEF MessagesFollow, Ahead
    <3>2. MessagesFollow'
      BY <1>2, <1>6, <2>4, <2>8, <3>1 DEF ServeChat, MessagesFollow, Ahead
    <3>3. QED
      BY <2>5, <2>6, <3>2 DEF ChatInv
  <2>9. QED
    BY <2>7, <2>8
<1>7. CASE ServeLeft
  <2>1. PICK t \in left, id \in 1..(Len(conversations) + 1) :
          /\ Take(t, id) /\ left' = left \ {t} /\ lost' = (lost \/ id = conversation)
          /\ talk' = IF talk # None /\ talk.op = "restore" /\ talk.served /\ talk.id = id
                     THEN [talk EXCEPT !.overtaken = TRUE] ELSE talk
    BY <1>7 DEF ServeLeft
  <2>2. t \in Talk /\ t.exchange \in Nat /\ t.id \in DOMAIN conversations \cup {None}
    BY <1>1, <2>1 DEF ChatTypes, TalkFollows
  <2>3. /\ conversations' \in Seq(Conversation)
        /\ DOMAIN conversations \subseteq DOMAIN conversations'
        /\ \A i \in DOMAIN conversations :
             i # id => conversations'[i] = conversations[i]
        /\ t.id = None => id \notin DOMAIN conversations
        /\ t.id # None => id = t.id
    BY <1>1, <2>1, <2>2, Taken
  <2>4. /\ talk = None => talk' = None
        /\ talk # None => /\ talk' \in Talk /\ talk'.op = talk.op /\ talk'.id = talk.id
                          /\ talk'.exchange = talk.exchange /\ talk'.served = talk.served
                          /\ talk'.answer = talk.answer
                          /\ ~talk'.overtaken =>
                               /\ ~talk.overtaken
                               /\ talk.op = "restore" /\ talk.served => talk.id # id
    <3>1. talk # None => talk \in Talk
      BY <1>1 DEF ChatTypes
    <3>2. CASE talk # None /\ talk.op = "restore" /\ talk.served /\ talk.id = id
      <4>1. talk' = [talk EXCEPT !.overtaken = TRUE] /\ talk \in Talk
        BY <2>1, <3>1, <3>2
      <4>2. QED
        BY <3>2, <4>1 DEF Talk
    <3>3. CASE ~(talk # None /\ talk.op = "restore" /\ talk.served /\ talk.id = id)
      <4>1. talk' = talk
        BY <2>1, <3>3
      <4>2. QED
        BY <3>1, <3>3, <4>1
    <3>4. QED
      BY <3>2, <3>3
  <2>5. ChatTypes'
    <3>1. talk' \in Talk \cup {None}
      BY <2>4
    <3>2. QED
      BY <1>1, <1>7, <2>1, <2>3, <3>1 DEF ServeLeft, ChatTypes
  <2>6. TalkFollows'
    <3>1. /\ UNCHANGED <<conversation, asking>> /\ left' \subseteq left
          /\ talk' # None => talk # None
      BY <1>2, <1>7, <2>1, <2>4 DEF ServeLeft
    <3>2. talk # None /\ talk.op = "restore" /\ talk.served =>
            /\ talk.id \in DOMAIN conversations'
            /\ ~talk'.overtaken => talk.answer = conversations'[talk.id].exchanges
      BY <1>1, <2>3, <2>4 DEF TalkFollows
    <3>3. talk # None /\ talk.op = "ask" =>
            /\ talk.exchange \in Nat
            /\ talk.served => /\ talk.id \in DOMAIN conversations'
                              /\ conversation \in {talk.id, None}
            /\ ~talk.served => talk.id = conversation
      BY <1>1, <2>3 DEF TalkFollows
    <3>4. (talk # None => asking) /\ \A u \in left : u.exchange \in Nat
      BY <1>1 DEF TalkFollows
    <3>5. QED
      BY <2>4, <3>1, <3>2, <3>3, <3>4 DEF TalkFollows
  <2>7. ASSUME Ahead, conversation = None
        PROVE  id # talk.id /\ talk.id \in DOMAIN conversations
    <3>1. talk.id \in DOMAIN conversations /\ t.id # talk.id
      BY <1>1, <2>1, <2>7 DEF TalkFollows, MessagesFollow, Ahead
    <3>2. QED
      BY <2>3, <3>1
  <2>8. ASSUME Ahead, conversation # None, ~lost'
        PROVE  id # talk.id /\ talk.id \in DOMAIN conversations
    BY <1>1, <2>1, <2>8 DEF TalkFollows, Ahead
  <2>9. MessagesFollow'
    <3>1. UNCHANGED <<conversation, messages, Ahead>> /\ (~lost' => ~lost)
      BY <1>2, <1>7, <2>1, <2>4 DEF ServeLeft, Ahead
    <3>2. ASSUME conversation # None, ~lost', ~Ahead
          PROVE  messages = conversations'[conversation].exchanges
      <4>1. conversation \in DOMAIN conversations /\ conversation # id
        BY <1>1, <2>1, <3>2 DEF ChatTypes
      <4>2. QED
        BY <1>1, <2>3, <3>1, <3>2, <4>1 DEF MessagesFollow
    <3>3. ASSUME Ahead, conversation = None \/ ~lost'
          PROVE  conversations'[talk.id].exchanges = Append(messages, talk.exchange)
      <4>1. conversations[talk.id].exchanges = Append(messages, talk.exchange)
        BY <1>1, <3>1, <3>3 DEF MessagesFollow
      <4>2. QED
        BY <2>3, <2>7, <2>8, <3>3, <4>1
    <3>4. Ahead /\ conversation = None => \A u \in left' : u.id # talk.id
      BY <1>1, <2>1 DEF MessagesFollow
    <3>5. conversation = None => messages = <<>>
      BY <1>1 DEF MessagesFollow
    <3>6. Ahead => talk'.id = talk.id /\ talk'.exchange = talk.exchange
      BY <2>4 DEF Ahead
    <3>7. QED
      BY <3>1, <3>2, <3>3, <3>4, <3>5, <3>6 DEF MessagesFollow
  <2>10. QED
    BY <2>5, <2>6, <2>9 DEF ChatInv
<1>8. CASE ChatAnswered
  <2>1. /\ talk # None /\ talk.op = "ask" /\ talk.served
        /\ talk.id \in DOMAIN conversations /\ talk.exchange \in Nat
        /\ conversation \in {talk.id, None} /\ talk.id # None
    BY <1>1, <1>8, ConversationIds DEF ChatAnswered, TalkFollows
  <2>2. Append(messages, talk.exchange) \in Seq(Nat)
    BY <1>1, <2>1 DEF ChatTypes
  <2>3. QED
    BY <1>1, <1>8, <2>1, <2>2
       DEF ChatAnswered, Settled, ChatInv, ChatTypes, TalkFollows, MessagesFollow, Ahead
<1>9. CASE ServeRestore
  <2>1. /\ talk \in Talk /\ talk.op = "restore" /\ ~talk.served
        /\ talk.id \in DOMAIN conversations
        /\ conversations[talk.id].exchanges \in Seq(Nat)
    <3>1. talk \in Talk /\ talk.op = "restore" /\ talk.id \in DOMAIN conversations
      BY <1>1, <1>9 DEF ServeRestore, ChatTypes
    <3>2. conversations[talk.id] \in Conversation
      BY <1>1, <3>1 DEF ChatTypes
    <3>3. QED
      BY <1>9, <3>1, <3>2 DEF Conversation, ServeRestore
  <2>2. PICK x \in Seq(Nat) : /\ x = conversations[talk.id].exchanges
                              /\ talk' = [talk EXCEPT !.served = TRUE, !.answer = x]
    BY <1>9, <2>1 DEF ServeRestore
  <2>3. /\ talk' \in Talk /\ talk'.op = "restore" /\ talk'.served
        /\ talk'.id = talk.id /\ talk'.answer = x
    BY <2>1, <2>2 DEF Talk
  <2>4. QED
    BY <1>1, <1>2, <1>9, <2>1, <2>2, <2>3
       DEF ServeRestore, ChatInv, ChatTypes, TalkFollows, MessagesFollow, Ahead
<1>10. CASE Restored
  <2>1. /\ talk \in Talk /\ talk.id \in DOMAIN conversations /\ talk.id # None
        /\ talk.answer \in Seq(Nat)
        /\ ~talk.overtaken => talk.answer = conversations[talk.id].exchanges
    <3>1. talk \in Talk /\ talk.op = "restore" /\ talk.served
      BY <1>1, <1>10 DEF Restored, Restorable, ChatTypes
    <3>2. QED
      BY <1>1, <1>2, <3>1, ConversationIds DEF TalkFollows, Talk
  <2>2. QED
    BY <1>1, <1>10, <2>1
       DEF Restored, Settled, ChatInv, ChatTypes, TalkFollows, MessagesFollow, Ahead
<1>11. CASE TalkFailed
  <2>1. \A t \in left' : /\ t \in Talk /\ t.op = "ask" /\ t.exchange \in Nat
                         /\ t.id \in DOMAIN conversations \cup {None}
    BY <1>1, <1>11 DEF TalkFailed, Dropped, ChatTypes, TalkFollows
  <2>2. ASSUME conversation # None, ~lost'
        PROVE  messages = conversations[conversation].exchanges
    <3>1. /\ ~lost /\ talk # None
          /\ ~(talk.op = "ask" /\ talk.served /\ talk.id = conversation)
      BY <1>11, <2>2 DEF TalkFailed
    <3>2. ~Ahead
      BY <1>1, <2>2, <3>1 DEF TalkFollows, Ahead
    <3>3. QED
      BY <1>1, <2>2, <3>1, <3>2 DEF MessagesFollow
  <2>3. QED
    BY <1>1, <1>11, <2>1, <2>2
       DEF TalkFailed, Settled, ChatInv, ChatTypes, TalkFollows, MessagesFollow, Ahead
<1>12. QED
  BY <1>3, <1>4, <1>5, <1>6, <1>7, <1>8, <1>9, <1>10, <1>11 DEF ChatPageNext, ChatBackendNext

\* What is in a sequence with one more item.
LEMMA AppendedSet ==
  ASSUME NEW s \in Seq(Nat), NEW e \in Nat
  PROVE  ToSet(Append(s, e)) = ToSet(s) \cup {e}
<1> DEFINE u == Append(s, e)
<1>1. /\ Len(s) \in Nat /\ DOMAIN s = 1..Len(s) /\ DOMAIN u = 1..(Len(s) + 1)
      /\ u[Len(s) + 1] = e /\ \A i \in 1..Len(s) : u[i] = s[i]
  OBVIOUS
<1> HIDE DEF u
<1>2. DOMAIN u = DOMAIN s \cup {Len(s) + 1}
  BY <1>1
<1>3. ToSet(u) = ToSet(s) \cup {e}
  BY <1>1, <1>2 DEF ToSet
<1>4. QED
  BY <1>3 DEF u

\* A conversation only grows, and the question is in it afterwards.
LEMMA TakenHeld ==
  ASSUME ChatTypes, NEW t \in Talk, t.exchange \in Nat,
         t.id \in DOMAIN conversations \cup {None},
         NEW id \in 1..(Len(conversations) + 1), Take(t, id)
  PROVE  /\ \A i \in DOMAIN conversations : Held(i) \subseteq Held(i)'
         /\ t.exchange \in Held(id)'
<1>1. /\ \A i \in DOMAIN conversations :
            i # id => conversations'[i] = conversations[i]
      /\ t.id = None => /\ id \notin DOMAIN conversations
                        /\ conversations'[id].exchanges = <<t.exchange>>
      /\ t.id # None => /\ id \in DOMAIN conversations
                        /\ conversations'[id].exchanges =
                             Append(conversations[id].exchanges, t.exchange)
  BY Taken
<1>2. \A i \in DOMAIN conversations : i # id => Held(i)' = Held(i)
  BY <1>1 DEF Held
<1>3. CASE t.id = None
  <2>1. Held(id)' = {t.exchange}
    BY <1>1, <1>3 DEF Held, ToSet
  <2>2. QED
    BY <1>1, <1>2, <1>3, <2>1
<1>4. CASE t.id # None
  <2>1. PICK items \in Seq(Nat) : items = conversations[id].exchanges
    <3>1. conversations[id] \in Conversation
      BY <1>1, <1>4 DEF ChatTypes
    <3>2. QED
      BY <3>1 DEF Conversation
  <2>2. Held(id)' = ToSet(Append(items, t.exchange)) /\ Held(id) = ToSet(items)
    BY <1>1, <1>4, <2>1 DEF Held
  <2>3. ToSet(Append(items, t.exchange)) = ToSet(items) \cup {t.exchange}
    BY <2>1, AppendedSet
  <2>4. QED
    BY <1>2, <2>2, <2>3
<1>5. QED
  BY <1>3, <1>4

\* The steps of the page and of the backend keep MessagesHeld.
LEMMA HeldKept ==
  ASSUME ChatInv, MessagesHeld, ChatPageNext \/ ChatBackendNext
  PROVE  MessagesHeld'
<1> USE DEF dialogue, lookup
<1>1. ChatTypes /\ TalkFollows /\ MessagesFollow
  BY DEF ChatInv
<1>2. None \notin Nat /\ None \notin Talk
  BY <1>1, ConversationIds
<1>3. CASE UNCHANGED <<conversations, conversation, messages, talk>>
  BY <1>3 DEF MessagesHeld, Held, Ahead
<1>4. CASE Submit \/ Restore \/ TalkFailed
  <2>1. talk' = None \/ ~talk'.served
    BY <1>4 DEF Submit, Restore, TalkFailed, Settled, Start, Asks
  <2>2. UNCHANGED <<conversations, conversation, messages>>
    BY <1>4 DEF Submit, Restore, TalkFailed, Start
  <2>3. QED
    BY <2>1, <2>2 DEF MessagesHeld, Held, Ahead
<1>5. CASE ServeChat
  <2>1. PICK id \in 1..(Len(conversations) + 1) :
          Take(talk, id) /\ talk' = [talk EXCEPT !.served = TRUE, !.id = id]
    BY <1>5 DEF ServeChat
  <2>2. /\ talk \in Talk /\ talk.op = "ask" /\ talk.exchange \in Nat
        /\ talk.id \in DOMAIN conversations \cup {None}
        /\ UNCHANGED <<conversation, messages>>
    BY <1>1, <1>5 DEF ServeChat, ChatTypes, TalkFollows
  <2>3. /\ \A i \in DOMAIN conversations : Held(i) \subseteq Held(i)'
        /\ talk.exchange \in Held(id)'
    BY <1>1, <2>1, <2>2, TakenHeld
  <2>4. talk'.op = "ask" /\ talk'.id = id /\ talk'.exchange = talk.exchange
    BY <2>1, <2>2 DEF Talk
  <2>5. conversation # None => ToSet(messages) \subseteq Held(conversation)'
    BY <1>1, <2>2, <2>3 DEF ChatTypes, MessagesHeld, Held
  <2>6. QED
    BY <2>2, <2>3, <2>4, <2>5 DEF MessagesHeld, Held
<1>6. CASE ServeLeft
  <2>1. PICK t \in left, id \in 1..(Len(conversations) + 1) :
          /\ Take(t, id)
          /\ talk' \in {talk, [talk EXCEPT !.overtaken = TRUE]}
          /\ talk = None => talk' = talk
    BY <1>6 DEF ServeLeft
  <2>2. t \in Talk /\ t.exchange \in Nat /\ t.id \in DOMAIN conversations \cup {None}
    BY <1>1, <2>1 DEF ChatTypes, TalkFollows
  <2>3. \A i \in DOMAIN conversations : Held(i) \subseteq Held(i)'
    BY <1>1, <2>1, <2>2, TakenHeld
  <2>4. /\ talk = None => talk' = None
        /\ talk # None => /\ talk'.op = talk.op /\ talk'.id = talk.id
                          /\ talk'.exchange = talk.exchange /\ talk'.served = talk.served
                          /\ talk'.answer = talk.answer
    <3>1. CASE talk' = talk
      BY <3>1
    <3>2. CASE talk # None /\ talk' = [talk EXCEPT !.overtaken = TRUE]
      <4>1. talk \in Talk
        BY <1>1, <3>2 DEF ChatTypes
      <4>2. QED
        BY <3>2, <4>1 DEF Talk
    <3>3. QED
      BY <2>1, <3>1, <3>2
  <2>5. UNCHANGED <<conversation, messages>>
    BY <1>6 DEF ServeLeft
  <2>6. conversation # None => ToSet(messages) \subseteq Held(conversation)'
    BY <1>1, <2>3, <2>5 DEF ChatTypes, MessagesHeld, Held
  <2>7. Ahead => talk.exchange \in Held(talk.id)'
    BY <1>1, <2>3, <2>4 DEF TalkFollows, Ahead, MessagesHeld, Held
  <2>8. talk # None /\ talk.op = "restore" /\ talk.served =>
          ToSet(talk.answer) \subseteq Held(talk.id)'
    BY <1>1, <2>3, <2>4 DEF TalkFollows, MessagesHeld, Held
  <2>9. QED
    BY <2>4, <2>5, <2>6, <2>7, <2>8 DEF MessagesHeld, Ahead, Held
<1>7. CASE ChatAnswered
  <2>1. /\ talk.id \in DOMAIN conversations /\ talk.exchange \in Held(talk.id)
        /\ conversation \in {talk.id, None} /\ talk.exchange \in Nat
    BY <1>1, <1>7 DEF ChatAnswered, TalkFollows, Ahead, MessagesHeld
  <2>2. ToSet(Append(messages, talk.exchange)) = ToSet(messages) \cup {talk.exchange}
    BY <1>1, <2>1, AppendedSet DEF ChatTypes
  <2>3. ToSet(messages) \subseteq Held(talk.id)
    <3>1. CASE conversation = None
      BY <1>1, <3>1 DEF MessagesFollow, ToSet
    <3>2. CASE conversation # None
      BY <2>1, <3>2 DEF MessagesHeld
    <3>3. QED
      BY <3>1, <3>2
  <2>4. /\ conversation' = talk.id /\ messages' = Append(messages, talk.exchange)
        /\ talk' = None /\ UNCHANGED conversations
    BY <1>7 DEF ChatAnswered, Settled
  <2>5. QED
    BY <2>1, <2>2, <2>3, <2>4 DEF MessagesHeld, Held, Ahead
<1>8. CASE ServeRestore
  <2>1. talk \in Talk
    BY <1>1, <1>8 DEF ServeRestore, ChatTypes
  <2>2. /\ talk'.op = "restore" /\ talk'.id = talk.id
        /\ talk'.answer = conversations[talk.id].exchanges
    BY <1>8, <2>1 DEF ServeRestore, Talk
  <2>3. UNCHANGED <<conversations, conversation, messages>>
    BY <1>8 DEF ServeRestore
  <2>4. QED
    BY <2>2, <2>3 DEF MessagesHeld, Held, Ahead
<1>9. CASE Restored
  BY <1>9 DEF Restored, Restorable, Settled, MessagesHeld, Held, Ahead
<1>10. QED
  BY <1>3, <1>4, <1>5, <1>6, <1>7, <1>8, <1>9
     DEF ChatPageNext, ChatBackendNext, EditProject, OpenReference, ReferenceLoaded,
         CloseReference

\* The page is left, and another one is mounted.
LEMMA ChatLeaveKeeps ==
  ASSUME ChatInv, ChatLeave, requests' \in Nat
  PROVE  ChatInv'
<1> USE DEF dialogue, lookup
<1>1. \A t \in left' : /\ t \in Talk /\ t.op = "ask" /\ t.exchange \in Nat
                       /\ t.id \in DOMAIN conversations \cup {None}
  BY DEF ChatLeave, Dropped, ChatInv, ChatTypes, TalkFollows
<1>2. <<>> \in Seq(Nat)
  OBVIOUS
<1>3. QED
  BY <1>1, <1>2 DEF ChatLeave, ChatInv, ChatTypes, TalkFollows, MessagesFollow, Ahead

\* ReferenceInv is kept by the steps of the page.
LEMMA ReferenceKept ==
  ASSUME ReferenceInv,
         ChatPageNext \/ ChatBackendNext \/ ChatLeave \/ ChatMount \/ UNCHANGED chatVars
  PROVE  ReferenceInv'
<1> USE DEF dialogue, lookup
<1>1. CASE OpenReference
  <2>1. PICK r : /\ reference' = r /\ content' = None
                 /\ opening' = opening \cup {[of |-> r, number |-> requests]}
    BY <1>1 DEF OpenReference
  <2>2. ~crossed' => opening = {}
    <3>1. crossed' = (opening # {})
      BY <1>1 DEF OpenReference
    <3>2. QED
      BY <3>1, Zenon
  <2>3. QED
    BY <2>1, <2>2 DEF ReferenceInv
<1>2. CASE ReferenceLoaded
  BY <1>2 DEF ReferenceLoaded, ReferenceInv
<1>3. CASE CloseReference \/ ChatLeave
  BY <1>3 DEF CloseReference, ChatLeave, ReferenceInv
<1>4. CASE UNCHANGED lookup
  BY <1>4 DEF ReferenceInv
<1>5. CASE UNCHANGED chatVars
  BY <1>4, <1>5 DEF chatVars
<1>6. CASE Submit \/ Restore
  BY <1>4, <1>6 DEF Submit, Restore, Start
<1>7. QED
  BY <1>1, <1>2, <1>3, <1>4, <1>5, <1>6
     DEF ChatPageNext, ChatBackendNext, ChatMount, EditProject, ChatAnswered,
         Restored, TalkFailed, ServeChat, ServeRestore, ServeLeft

\* They are kept by every step of the frontend.
LEMMA ChatStepKeeps ==
  ASSUME ChatInv, MessagesHeld, ReferenceInv, [Next]_frontendVars
  PROVE  ChatInv' /\ MessagesHeld' /\ ReferenceInv'
<1> USE DEF pages
<1>1. CASE UNCHANGED frontendVars
  <2>1. UNCHANGED <<requests, chatVars>>
    BY <1>1 DEF frontendVars, projectVars
  <2>2. QED
    BY <2>1, ReferenceKept
       DEF ChatInv, ChatTypes, TalkFollows, MessagesFollow, MessagesHeld, Held, Ahead,
           chatVars, dialogue
<1>2. CASE ChatStep
  BY <1>2, ChatNextKeeps, HeldKept, ReferenceKept DEF ChatStep
<1>3. ASSUME UNCHANGED chatVars, requests' \in Nat
      PROVE  ChatInv' /\ MessagesHeld' /\ ReferenceInv'
  BY <1>3, ReferenceKept
     DEF ChatInv, ChatTypes, TalkFollows, MessagesFollow, MessagesHeld, Held, Ahead,
         chatVars, dialogue
<1>4. CASE ProjectStep \/ QueryStep
  <2>1. requests' \in Nat
    <3>1. requests \in Nat
      BY DEF ChatInv, ChatTypes
    <3>2. Request => requests' \in Nat
      BY <3>1 DEF Request
    <3>3. CASE BackendNext
      BY <3>1, <3>3 DEF BackendNext, Serve, Forget
    <3>4. CASE ProjectPageNext
      BY <3>1, <3>2, <3>4
         DEF ProjectPageNext, Select, Refresh, Register, Scan, BuildIndex, Reorder,
             SaveOrder, OpenDelete, CancelDelete, ConfirmDelete, Deliver, DeliverFailure,
             Begin
    <3>5. CASE SearchesNext
      BY <3>1, <3>5 DEF SearchesNext, Answered, SearchFailed
    <3>6. ASSUME NEW page, QueryPageNext(page)
          PROVE  requests' \in Nat
      BY <3>1, <3>2, <3>6
         DEF QueryPageNext, Edit, Search, FillFromHistory, RemoveEntry, ClearHistory, Ask
    <3>7. QED
      BY <1>4, <3>3, <3>4, <3>5, <3>6 DEF ProjectStep, QueryStep
  <2>2. QED
    BY <1>3, <1>4, <2>1 DEF ProjectStep, QueryStep
<1>5. ASSUME NEW page, Visit(page)
      PROVE  ChatInv' /\ MessagesHeld' /\ ReferenceInv'
  <2>1. requests' \in Nat
    BY <1>5 DEF Visit, ChatInv, ChatTypes, Request
  <2>2. CASE UNCHANGED chatVars
    BY <1>3, <2>1, <2>2
  <2>3. CASE ChatLeave
    BY <2>1, <2>3, ChatLeaveKeeps, ReferenceKept DEF ChatLeave, MessagesHeld, Ahead
  <2>4. CASE ChatMount
    <3>1. chatProject' \in ChatProjects \cup {None}
      BY <2>4 DEF ChatMount
    <3>2. QED
      BY <2>1, <2>4, <3>1, ChatKept, ReferenceKept
         DEF ChatMount, dialogue, MessagesHeld, Held, Ahead
  <2>5. QED
    BY <1>5, <2>2, <2>3, <2>4 DEF Visit, Leave, Mount
<1>6. QED
  BY <1>1, <1>2, <1>4, <1>5 DEF Next

\* They are invariants.
LEMMA ChatInvHolds == Spec => [](ChatInv /\ MessagesHeld /\ ReferenceInv)
<1>1. Init => ChatInv /\ MessagesHeld /\ ReferenceInv
  <2>1. SUFFICES ASSUME Init PROVE ChatInv /\ MessagesHeld /\ ReferenceInv
    OBVIOUS
  <2>2. PICK start \in Starts : ChatInit(start.conversations)
    BY <2>1 DEF Init
  <2>3. start.conversations \in Seq(Conversation) /\ <<>> \in Seq(Nat)
    BY StartsAssumption
  <2>4. ChatTypes
    BY <2>1, <2>2, <2>3 DEF Init, ChatInit, ChatTypes
  <2>5. QED
    BY <2>2, <2>4
       DEF ChatInit, ChatInv, TalkFollows, MessagesFollow, MessagesHeld, Ahead,
           ReferenceInv
<1>2. ChatInv /\ MessagesHeld /\ ReferenceInv /\ [Next]_frontendVars
        => (ChatInv /\ MessagesHeld /\ ReferenceInv)'
  BY ChatStepKeeps
<1>3. QED
  BY <1>1, <1>2, PTL DEF Spec

\* The page shows exchanges of one conversation only, the one the next question
\* goes to: whatever is restored, refused because the project field was edited,
\* answered late, or lost.  It shows all of them, in their order, but for two
\* cases: the answer of a question was lost, and a question the page no longer
\* waits for came into the conversation after it was read (submit, restore).
THEOREM ChatStaysInStep == Spec => []ChatInStep
<1>1. ChatInv /\ MessagesHeld => ChatInStep
  BY DEF ChatInv, MessagesFollow, MessagesHeld, Held, ChatInStep
<1>2. QED
  BY <1>1, ChatInvHolds, PTL

\* The dialog shows the code of the reference it names, unless it was opened
\* while the code of another was on its way (openReference).
THEOREM ReferencesStayAlone == Spec => []ReferenceAlone
<1>1. ReferenceInv => ReferenceAlone
  BY DEF ReferenceInv, ReferenceAlone
<1>2. QED
  BY <1>1, ChatInvHolds, PTL

-----------------------------------------------------------------------------
(* SearchView.vue, GraphView.vue and their histories.                      *)

Members(items) == {items[i] : i \in DOMAIN items}

\* A part of a history is a history, without repetitions if that had none.
LEMMA PartOfHistory ==
  ASSUME NEW items \in Seq(Entries), NEW I \in SUBSET DOMAIN items
  PROVE  /\ SubSequence(items, I) \in Seq(Entries)
         /\ \A k \in DOMAIN SubSequence(items, I) :
              \E i \in I : SubSequence(items, I)[k] = items[i]
         /\ Unique(items) => Unique(SubSequence(items, I))
<1> DEFINE u == SubSequence(items, I)
<1>1. u \in Seq(Entries) /\ DOMAIN u = 1..Cardinality(I)
  BY SubSequenceType DEF SubSequence
<1>2. PICK f \in [1..Cardinality(I) -> I] :
        /\ \A k \in 1..Cardinality(I) : u[k] = items[f[k]]
        /\ \A k, l \in 1..Cardinality(I) : f[k] = f[l] => k = l
  BY SubSequencePlaces
<1> HIDE DEF u
<1>3. \A k \in DOMAIN u : f[k] \in I /\ u[k] = items[f[k]]
  BY <1>1, <1>2
<1>4. Unique(items) => Unique(u)
  BY <1>1, <1>2, <1>3 DEF Unique
<1>5. QED
  BY <1>1, <1>3, <1>4 DEF u

\* Cut keeps the latest ones.
LEMMA CutItems ==
  ASSUME NEW items \in Seq(Entries)
  PROVE  /\ Cut(items) \in Seq(Entries)
         /\ Len(Cut(items)) <= MaxHistory
         /\ \A i \in DOMAIN Cut(items) : i \in DOMAIN items /\ Cut(items)[i] = items[i]
         /\ Unique(items) => Unique(Cut(items))
<1> DEFINE n == IF Len(items) > MaxHistory THEN MaxHistory ELSE Len(items)
           u == Cut(items)
<1>1. n \in Nat /\ n <= Len(items) /\ n <= MaxHistory
  BY QueryViewAssumption
<1>2. u = SubSeq(items, 1, n)
  BY DEF Cut
<1> HIDE DEF n, u
<1>3. u \in Seq(Entries) /\ Len(u) = n /\ \A i \in 1..n : u[i] = items[i]
  BY <1>1, <1>2
<1>4. \A i \in DOMAIN u : i \in DOMAIN items /\ u[i] = items[i]
  BY <1>1, <1>3
<1>5. Unique(items) => Unique(u)
  BY <1>4 DEF Unique
<1>6. QED
  BY <1>1, <1>3, <1>4, <1>5 DEF u

\* What a page makes of its store.
LEMMA LoadedItems ==
  ASSUME NEW store \in Seq(Entries)
  PROVE  /\ Load(store) \in Seq(Entries) /\ Len(Load(store)) <= MaxHistory
         /\ \A i \in DOMAIN Load(store) :
              Valid(Load(store)[i]) /\ Load(store)[i] \in Members(store)
         /\ Unique(store) => Unique(Load(store))
<1> DEFINE I == {i \in DOMAIN store : Valid(store[i])}
           u == SubSequence(store, I)
<1>1. /\ u \in Seq(Entries)
      /\ \A k \in DOMAIN u : \E i \in I : u[k] = store[i]
      /\ Unique(store) => Unique(u)
  <2>1. I \in SUBSET DOMAIN store
    OBVIOUS
  <2> HIDE DEF I
  <2>2. QED
    BY <2>1, PartOfHistory
<1>2. \A k \in DOMAIN u : Valid(u[k]) /\ u[k] \in Members(store)
  BY <1>1 DEF Members
<1>3. Load(store) = Cut(u)
  BY DEF Load
<1> HIDE DEF u
<1>4. QED
  BY <1>1, <1>2, <1>3, CutItems

\* The others of an item are none of its forms.
LEMMA OtherItems ==
  ASSUME NEW items \in Seq(Entries), NEW item \in Entries
  PROVE  /\ Others(items, item) \in Seq(Entries)
         /\ \A i \in DOMAIN Others(items, item) :
              /\ Others(items, item)[i] \in Members(items)
              /\ ~Same(Others(items, item)[i], item)
         /\ Unique(items) => Unique(Others(items, item))
<1> DEFINE I == {i \in DOMAIN items : ~Same(items[i], item)}
<1>1. I \in SUBSET DOMAIN items /\ Others(items, item) = SubSequence(items, I)
  BY DEF Others
<1>2. \A i \in I : items[i] \in Members(items) /\ ~Same(items[i], item)
  BY DEF Members
<1> HIDE DEF I
<1>3. QED
  BY <1>1, <1>2, PartOfHistory

\* An item that is recorded comes first, and only once.
LEMMA RecordedItems ==
  ASSUME NEW store \in Seq(Entries), NEW item \in Entries, Unique(store)
  PROVE  /\ Record(store, item) \in Seq(Entries)
         /\ Unique(Record(store, item))
         /\ \A i \in DOMAIN Record(store, item) :
              /\ Valid(Record(store, item)[i])
              /\ Record(store, item)[i] \in {item} \cup Members(store)
<1> DEFINE others == Others(Load(store), item)
           items == <<item>> \o others
<1>1. /\ Load(store) \in Seq(Entries) /\ Unique(Load(store))
      /\ \A i \in DOMAIN Load(store) :
           Valid(Load(store)[i]) /\ Load(store)[i] \in Members(store)
  BY LoadedItems
<1>2. CASE ~Valid(item)
  BY <1>1, <1>2 DEF Record
<1>3. CASE Valid(item)
  <2>1. /\ others \in Seq(Entries) /\ Unique(others)
        /\ \A i \in DOMAIN others : /\ others[i] \in Members(Load(store))
                                    /\ ~Same(others[i], item)
    BY <1>1, OtherItems
  <2>2. \A i \in DOMAIN others : Valid(others[i]) /\ others[i] \in Members(store)
    BY <1>1, <2>1 DEF Members
  <2> HIDE DEF others
  <2>3. /\ items \in Seq(Entries) /\ items[1] = item /\ DOMAIN items \in SUBSET Nat
        /\ \A i \in DOMAIN items : i # 1 =>
             i - 1 \in DOMAIN others /\ items[i] = others[i - 1]
    BY <2>1
  <2> HIDE DEF items
  <2>4. \A i \in DOMAIN items :
          Valid(items[i]) /\ items[i] \in {item} \cup Members(store)
    BY <1>3, <2>2, <2>3
  <2>5. Unique(items)
    <3>1. SUFFICES ASSUME NEW i \in DOMAIN items, NEW j \in DOMAIN items,
                          Valid(items[i]), Valid(items[j]), Same(items[i], items[j])
                   PROVE  i = j
      BY DEF Unique
    <3>2. CASE i = 1 /\ j # 1
      <4>1. items[i] = item /\ items[j] = others[j - 1] /\ j - 1 \in DOMAIN others
        BY <2>3, <3>2
      <4>2. ~Same(others[j - 1], item)
        BY <2>1, <4>1
      <4>3. QED
        BY <3>1, <4>1, <4>2 DEF Same
    <3>3. CASE i # 1 /\ j = 1
      <4>1. items[j] = item /\ items[i] = others[i - 1] /\ i - 1 \in DOMAIN others
        BY <2>3, <3>3
      <4>2. ~Same(others[i - 1], item)
        BY <2>1, <4>1
      <4>3. QED
        BY <3>1, <4>1, <4>2 DEF Same
    <3>4. CASE i # 1 /\ j # 1
      <4>1. /\ i - 1 \in DOMAIN others /\ items[i] = others[i - 1]
            /\ j - 1 \in DOMAIN others /\ items[j] = others[j - 1]
        BY <2>3, <3>4
      <4>2. i - 1 = j - 1
        BY <2>1, <3>1, <4>1 DEF Unique
      <4>3. i \in Nat /\ j \in Nat
        BY <2>3
      <4>4. QED
        BY <4>2, <4>3
    <3>5. QED
      BY <3>2, <3>3, <3>4
  <2>6. Record(store, item) = Cut(items)
    BY <1>3 DEF Record, items, others
  <2>7. QED
    BY <2>3, <2>4, <2>5, <2>6, CutItems
<1>4. QED
  BY <1>2, <1>3

QueryTypes ==
  /\ fields \in Entries /\ history \in Seq(Entries)
  /\ searching \in BOOLEAN /\ touched \in BOOLEAN
  /\ searches \in SUBSET [page : Pages, item : Entries, fields : Entries \cup {None}]
  /\ stores \in [Pages -> Seq(Entries)]
  /\ answered \in [Pages -> SUBSET Entries]

\* One search at a time belongs to the mounted page.
OneSearch ==
  /\ mounted \notin Pages => ~searching
  /\ \A s \in searches : s.fields = None => searching
  /\ \A s1, s2 \in searches : s1.fields = None /\ s2.fields = None => s1 = s2

\* The fields that a search reads when it is answered are what it asked for.
FieldsKept ==
  ~touched => \A s \in searches : s.item = IF s.fields = None THEN fields ELSE s.fields

\* A store has valid items once, and those that were answered.
StoresTrue ==
  \A page \in Pages :
    /\ Unique(stores[page])
    /\ ~touched => \A i \in DOMAIN stores[page] :
         Valid(stores[page][i]) => stores[page][i] \in answered[page]

QueryInv == QueryTypes /\ OneSearch /\ FieldsKept /\ StoresTrue

\* A page begins a search.
LEMMA SearchBegins ==
  ASSUME QueryInv, NEW page \in Pages, NEW item \in Entries, Ask(page, item),
         fields' = item, UNCHANGED <<history, stores, answered, touched, mounted>>,
         mounted \in Pages
  PROVE  QueryInv'
<1> DEFINE new == [page |-> page, item |-> item, fields |-> None]
<1>1. QueryTypes /\ OneSearch /\ FieldsKept /\ StoresTrue
  BY DEF QueryInv
<1>2. ~searching /\ searching' = TRUE /\ searches' = searches \cup {new}
  BY DEF Ask, CanSearch
<1>3. /\ new \in [page : Pages, item : Entries, fields : Entries \cup {None}]
      /\ new.item = item /\ new.fields = None
  OBVIOUS
<1>4. \A s \in searches : s.fields # None
  BY <1>1, <1>2 DEF OneSearch
<1> HIDE DEF new
<1>5. QueryTypes'
  BY <1>1, <1>2, <1>3 DEF QueryTypes
<1>6. OneSearch'
  BY <1>1, <1>2, <1>3, <1>4 DEF OneSearch
<1>7. FieldsKept'
  BY <1>1, <1>2, <1>3, <1>4 DEF FieldsKept
<1>8. StoresTrue'
  BY <1>1 DEF StoresTrue
<1>9. QED
  BY <1>5, <1>6, <1>7, <1>8 DEF QueryInv

\* A store is written by the page, or stays as it is.
LEMMA StoreSaved ==
  ASSUME QueryTypes, StoresTrue, NEW page \in Pages, NEW items \in Seq(Entries),
         Unique(items), Save(page, items),
         answered' \in [Pages -> SUBSET Entries],
         \A p \in Pages : answered[p] \subseteq answered'[p],
         touched' = touched,
         ~touched => \A i \in DOMAIN items : Valid(items[i]) => items[i] \in answered'[page]
  PROVE  stores' \in [Pages -> Seq(Entries)] /\ StoresTrue'
<1>1. stores \in [Pages -> Seq(Entries)]
  BY DEF QueryTypes
<1>2. CASE stores' = stores
  BY <1>1, <1>2 DEF StoresTrue
<1>3. CASE stores' = [stores EXCEPT ![page] = items]
  <2>1. /\ stores' \in [Pages -> Seq(Entries)]
        /\ \A p \in Pages : stores'[p] = IF p = page THEN items ELSE stores[p]
    BY <1>1, <1>3
  <2>2. ASSUME NEW p \in Pages
        PROVE  /\ Unique(stores'[p])
               /\ ~touched' => \A i \in DOMAIN stores'[p] :
                    Valid(stores'[p][i]) => stores'[p][i] \in answered'[p]
    <3>1. CASE p = page
      BY <2>1, <3>1
    <3>2. CASE p # page
      BY <2>1, <3>2 DEF StoresTrue
    <3>3. QED
      BY <3>1, <3>2
  <2>3. QED
    BY <2>1, <2>2 DEF StoresTrue
<1>4. QED
  BY <1>2, <1>3 DEF Save

\* A search is answered, and what it asked for is recorded.
LEMMA AnswerKeeps ==
  ASSUME QueryInv, NEW s \in searches, Answered(s), UNCHANGED mounted
  PROVE  QueryInv'
<1> DEFINE now == IF s.fields = None THEN fields ELSE s.fields
<1> USE DEF queryPage
<1>1. QueryTypes /\ OneSearch /\ FieldsKept /\ StoresTrue
  BY DEF QueryInv
<1>2. /\ s.page \in Pages /\ s.item \in Entries /\ now \in Entries
      /\ stores[s.page] \in Seq(Entries) /\ Unique(stores[s.page])
  BY <1>1 DEF QueryTypes, StoresTrue
<1>3. ~touched => now = s.item
  BY <1>1 DEF FieldsKept
<1>4. PICK items \in Seq(Entries) :
        /\ items = Record(stores[s.page], now)
        /\ Unique(items)
        /\ \A i \in DOMAIN items :
             Valid(items[i]) /\ items[i] \in {now} \cup Members(stores[s.page])
  <2> HIDE DEF now
  <2>1. QED
    BY <1>2, RecordedItems
<1>5. /\ searches' = searches \ {s} /\ Save(s.page, items)
      /\ answered' = [answered EXCEPT ![s.page] = @ \cup {s.item}]
      /\ UNCHANGED touched
      /\ s.fields # None => UNCHANGED <<fields, history, searching>>
      /\ s.fields = None => history' = items /\ searching' = FALSE /\ UNCHANGED fields
  BY <1>4 DEF Answered
<1> HIDE DEF now
<1>6. /\ answered' \in [Pages -> SUBSET Entries]
      /\ \A p \in Pages : answered[p] \subseteq answered'[p]
      /\ s.item \in answered'[s.page]
  BY <1>1, <1>2, <1>5 DEF QueryTypes
<1>7. ~touched => \A i \in DOMAIN items : Valid(items[i]) => items[i] \in answered'[s.page]
  <2>1. SUFFICES ASSUME ~touched, NEW i \in DOMAIN items, Valid(items[i])
                 PROVE  items[i] \in answered'[s.page]
    OBVIOUS
  <2>2. CASE items[i] = now
    BY <1>3, <1>6, <2>1, <2>2
  <2>3. CASE items[i] \in Members(stores[s.page])
    <3>1. items[i] \in answered[s.page]
      BY <1>1, <1>2, <2>1, <2>3 DEF StoresTrue, Members
    <3>2. QED
      BY <1>2, <1>6, <3>1
  <2>4. QED
    BY <1>4, <2>2, <2>3
<1>8. stores' \in [Pages -> Seq(Entries)] /\ StoresTrue'
  BY <1>1, <1>2, <1>4, <1>5, <1>6, <1>7, StoreSaved
<1>9. QueryTypes'
  BY <1>1, <1>5, <1>6, <1>8 DEF QueryTypes
<1>10. OneSearch'
  BY <1>1, <1>5 DEF OneSearch
<1>11. FieldsKept'
  BY <1>1, <1>5 DEF FieldsKept
<1>12. QED
  BY <1>8, <1>9, <1>10, <1>11 DEF QueryInv

\* A search fails, and nothing is recorded.
LEMMA FailureKeeps ==
  ASSUME QueryInv, NEW s \in searches, SearchFailed(s), UNCHANGED mounted
  PROVE  QueryInv'
<1> USE DEF queryPage
<1>1. QueryTypes /\ OneSearch /\ FieldsKept /\ StoresTrue
  BY DEF QueryInv
<1>2. /\ searches' = searches \ {s}
      /\ UNCHANGED <<fields, history, stores, answered, touched>>
      /\ s.fields # None => UNCHANGED searching
      /\ s.fields = None => searching' = FALSE
  BY DEF SearchFailed
<1>3. QueryTypes'
  BY <1>1, <1>2 DEF QueryTypes
<1>4. OneSearch'
  BY <1>1, <1>2 DEF OneSearch
<1>5. FieldsKept' /\ StoresTrue'
  BY <1>1, <1>2 DEF FieldsKept, StoresTrue
<1>6. QED
  BY <1>3, <1>4, <1>5 DEF QueryInv

\* The user edits the fields, searches, or changes the history.
LEMMA QueryPageKeeps ==
  ASSUME QueryInv, NEW page \in Pages, mounted = page, QueryPageNext(page),
         UNCHANGED mounted
  PROVE  QueryInv'
<1>1. QueryTypes /\ OneSearch /\ FieldsKept /\ StoresTrue
  BY DEF QueryInv
<1>2. CASE Edit
  <2>1. PICK p \in Projects, q \in Queries : fields' = Entry(p, q)
    BY <1>2 DEF Edit
  <2>2. fields' \in Entries
    BY <2>1, QueryViewAssumption DEF Entry, Entries
  <2>3. /\ touched' = (touched \/ searching)
        /\ UNCHANGED <<history, searching, searches, stores, answered>>
    BY <1>2 DEF Edit
  <2>4. touched' \in BOOLEAN /\ (~touched' => ~touched /\ ~searching)
    BY <1>1, <2>3 DEF QueryTypes
  <2>5. QueryTypes'
    BY <1>1, <2>2, <2>3, <2>4 DEF QueryTypes
  <2>6. OneSearch' /\ FieldsKept' /\ StoresTrue'
    BY <1>1, <2>3, <2>4 DEF OneSearch, FieldsKept, StoresTrue
  <2>7. QED
    BY <2>5, <2>6 DEF QueryInv
<1>3. CASE Search(page)
  BY <1>1, <1>3, SearchBegins DEF Search, QueryTypes
<1>4. CASE FillFromHistory(page)
  <2>1. PICK i \in DOMAIN history :
          /\ fields' = history[i]
          /\ \/ Ask(page, history[i]) /\ UNCHANGED touched
             \/ /\ searching /\ touched' = TRUE
                /\ UNCHANGED <<requests, searching, searches>>
    BY <1>4 DEF FillFromHistory
  <2>2. history[i] \in Entries /\ UNCHANGED <<history, stores, answered>>
    BY <1>1, <1>4 DEF QueryTypes, FillFromHistory
  <2>3. CASE Ask(page, history[i]) /\ UNCHANGED touched
    BY <2>1, <2>2, <2>3, SearchBegins
  <2>4. CASE searching /\ touched' = TRUE /\ UNCHANGED <<requests, searching, searches>>
    BY <1>1, <2>1, <2>2, <2>4
       DEF QueryInv, QueryTypes, OneSearch, FieldsKept, StoresTrue
  <2>5. QED
    BY <2>1, <2>3, <2>4
<1>5. ASSUME NEW items \in Seq(Entries), Unique(items), Save(page, items), history' = items,
             \A i \in DOMAIN items : items[i] \in Members(stores[page]),
             UNCHANGED <<fields, searching, searches, answered, touched>>
      PROVE  QueryInv'
  <2>1. ~touched => \A i \in DOMAIN items : Valid(items[i]) => items[i] \in answered'[page]
    BY <1>1, <1>5 DEF StoresTrue, Members
  <2>2. answered \in [Pages -> SUBSET Entries]
    BY <1>1 DEF QueryTypes
  <2>3. stores' \in [Pages -> Seq(Entries)] /\ StoresTrue'
    BY <1>1, <1>5, <2>1, <2>2, StoreSaved
  <2>4. QueryTypes'
    BY <1>1, <1>5, <2>3 DEF QueryTypes
  <2>5. OneSearch' /\ FieldsKept'
    BY <1>1, <1>5 DEF OneSearch, FieldsKept
  <2>6. QED
    BY <2>3, <2>4, <2>5 DEF QueryInv
<1>6. CASE RemoveEntry(page)
  <2>1. PICK i \in DOMAIN history :
          /\ history' = Without(stores[page], history[i])
          /\ Save(page, Without(stores[page], history[i]))
    BY <1>6 DEF RemoveEntry
  <2>2. history[i] \in Entries /\ stores[page] \in Seq(Entries) /\ Unique(stores[page])
    BY <1>1 DEF QueryTypes, StoresTrue
  <2>3. /\ Load(stores[page]) \in Seq(Entries) /\ Unique(Load(stores[page]))
        /\ \A j \in DOMAIN Load(stores[page]) :
             Load(stores[page])[j] \in Members(stores[page])
    BY <2>2, LoadedItems
  <2>4. PICK items \in Seq(Entries) :
          /\ items = Without(stores[page], history[i]) /\ Unique(items)
          /\ \A j \in DOMAIN items : items[j] \in Members(Load(stores[page]))
    BY <2>2, <2>3, OtherItems DEF Without
  <2>5. \A j \in DOMAIN items : items[j] \in Members(stores[page])
    BY <2>3, <2>4 DEF Members
  <2>6. QED
    BY <1>5, <1>6, <2>1, <2>4, <2>5 DEF RemoveEntry
<1>7. CASE ClearHistory(page)
  <2>1. <<>> \in Seq(Entries) /\ Unique(<<>>) /\ DOMAIN <<>> = {}
    BY DEF Unique
  <2>2. QED
    BY <1>5, <1>7, <2>1 DEF ClearHistory
<1>8. QED
  BY <1>2, <1>3, <1>4, <1>6, <1>7 DEF QueryPageNext

\* A page is left or mounted.
LEMMA QueryVisitKeeps ==
  ASSUME QueryInv, NEW page, Visit(page)
  PROVE  QueryInv'
<1> USE DEF queryVars, queryPage
<1>1. QueryTypes /\ OneSearch /\ FieldsKept /\ StoresTrue
  BY DEF QueryInv
<1>2. None \notin Pages /\ None \notin Entries
  BY QueryViewAssumption
<1>3. CASE mounted = None /\ Mount(page) /\ mounted' = page
  <2>1. ~searching /\ \A s \in searches : s.fields # None
    BY <1>1, <1>2, <1>3 DEF OneSearch
  <2>2. CASE page \in Pages
    <3>1. PICK p \in Projects : fields' = Entry(p, Blank)
      BY <1>3, <2>2 DEF Mount, QueryMount
    <3>2. /\ history' = Load(stores[page])
          /\ UNCHANGED <<results, searching, searches, stores, answered, touched>>
      BY <1>3, <2>2 DEF Mount, QueryMount
    <3>3. fields' \in Entries
      BY <3>1, QueryViewAssumption DEF Entry, Entries
    <3>4. history' \in Seq(Entries)
      BY <1>1, <2>2, <3>2, LoadedItems DEF QueryTypes
    <3>5. QueryTypes'
      BY <1>1, <3>2, <3>3, <3>4 DEF QueryTypes
    <3>6. OneSearch' /\ FieldsKept' /\ StoresTrue'
      BY <1>1, <2>1, <3>2 DEF OneSearch, FieldsKept, StoresTrue
    <3>7. QED
      BY <3>5, <3>6 DEF QueryInv
  <2>3. CASE page \notin Pages
    BY <1>1, <1>3, <2>1, <2>3
       DEF Mount, QueryInv, QueryTypes, OneSearch, FieldsKept, StoresTrue
  <2>4. QED
    BY <2>2, <2>3
<1>4. CASE Leave /\ mounted' = None
  <2>1. CASE mounted \in Pages
    <3>1. /\ searches' = {[s EXCEPT !.fields = IF @ = None THEN fields ELSE @] :
                            s \in searches}
          /\ fields' = Entry(0, Blank) /\ history' = <<>> /\ searching' = FALSE
          /\ UNCHANGED <<stores, answered, touched>>
      BY <1>4, <2>1 DEF Leave, QueryLeave
    <3>2. fields' \in Entries /\ <<>> \in Seq(Entries)
      BY <3>1, QueryViewAssumption DEF Entry, Entries
    <3>3. ASSUME NEW u \in searches'
          PROVE  \E s \in searches :
                   /\ u.page = s.page /\ u.item = s.item
                   /\ u.fields = IF s.fields = None THEN fields ELSE s.fields
                   /\ u \in [page : Pages, item : Entries, fields : Entries \cup {None}]
      <4>1. PICK s \in searches :
              u = [s EXCEPT !.fields = IF @ = None THEN fields ELSE @]
        BY <3>1
      <4>2. /\ s \in [page : Pages, item : Entries, fields : Entries \cup {None}]
            /\ fields \in Entries
        BY <1>1 DEF QueryTypes
      <4>3. QED
        BY <4>1, <4>2
    <3>4. \A u \in searches' : u.fields # None
      BY <1>1, <1>2, <3>3 DEF QueryTypes
    <3>5. QueryTypes'
      BY <1>1, <3>1, <3>2, <3>3 DEF QueryTypes
    <3>6. OneSearch'
      BY <3>1, <3>4 DEF OneSearch
    <3>7. FieldsKept'
      BY <1>1, <1>2, <3>1, <3>3, <3>4 DEF FieldsKept, QueryTypes
    <3>8. StoresTrue'
      BY <1>1, <3>1 DEF StoresTrue
    <3>9. QED
      BY <3>5, <3>6, <3>7, <3>8 DEF QueryInv
  <2>2. CASE mounted \notin Pages
    BY <1>1, <1>4, <2>2
       DEF Leave, QueryInv, QueryTypes, OneSearch, FieldsKept, StoresTrue
  <2>3. QED
    BY <2>1, <2>2
<1>5. QED
  BY <1>3, <1>4 DEF Visit

\* QueryInv is an invariant.
LEMMA QueryInvHolds == Spec => []QueryInv
<1>1. Init => QueryInv
  <2>1. SUFFICES ASSUME Init PROVE QueryInv
    OBVIOUS
  <2>2. PICK start \in Starts : QueryInit(start.history)
    BY <2>1 DEF Init
  <2>3. start.history \in Seq(Entries) /\ Unique(start.history) /\ <<>> \in Seq(Entries)
    BY StartsAssumption
  <2>4. Entry(0, Blank) \in Entries
    BY QueryViewAssumption DEF Entry, Entries
  <2>5. \A p \in Pages : stores[p] = start.history /\ answered[p] = ToSet(start.history)
    BY <2>2 DEF QueryInit
  <2>6. QueryTypes
    <3>1. ToSet(start.history) \subseteq Entries
      BY <2>3 DEF ToSet
    <3>2. answered = [p \in Pages |-> ToSet(start.history)]
      BY <2>2 DEF QueryInit
    <3>3. QED
      BY <2>2, <2>3, <2>4, <3>1, <3>2 DEF QueryInit, QueryTypes
  <2>7. StoresTrue
    BY <2>3, <2>5 DEF StoresTrue, ToSet
  <2>8. QED
    BY <2>2, <2>6, <2>7 DEF QueryInit, QueryInv, OneSearch, FieldsKept
<1>2. QueryInv /\ [Next]_frontendVars => QueryInv'
  <2>1. SUFFICES ASSUME QueryInv, [Next]_frontendVars PROVE QueryInv'
    OBVIOUS
  <2>2. ASSUME UNCHANGED queryVars, UNCHANGED mounted
        PROVE  QueryInv'
    BY <2>1, <2>2
       DEF QueryInv, QueryTypes, OneSearch, FieldsKept, StoresTrue, queryVars, queryPage
  <2>3. CASE QueryStep
    BY <2>1, <2>3, AnswerKeeps, FailureKeeps, QueryPageKeeps DEF QueryStep, SearchesNext
  <2>4. QED
    BY <2>1, <2>2, <2>3, QueryVisitKeeps
       DEF Next, frontendVars, pages, ProjectStep, ChatStep
<1>3. QED
  BY <1>1, <1>2, PTL DEF Spec

\* A history holds searches that were answered in the project it names, the
\* latest ones and each of them once, also after searches that failed, were
\* repeated from the history or outlived their page; unless somebody edits
\* the fields while a search runs (recordSearchHistory after the await).
THEOREM HistoriesStayTrue == Spec => []HistoryTrue
<1>1. QueryInv => HistoryTrue
  <2>1. SUFFICES ASSUME QueryInv, NEW page \in Pages, NEW items, items = Load(stores[page])
                 PROVE  /\ ~touched => \A i \in DOMAIN items : items[i] \in answered[page]
                        /\ \A i, j \in DOMAIN items : Same(items[i], items[j]) => i = j
                        /\ Len(items) <= MaxHistory
    BY DEF HistoryTrue
  <2>2. /\ stores[page] \in Seq(Entries) /\ Unique(stores[page])
        /\ ~touched => \A i \in DOMAIN stores[page] :
             Valid(stores[page][i]) => stores[page][i] \in answered[page]
    BY <2>1 DEF QueryInv, QueryTypes, StoresTrue
  <2>3. /\ Len(items) <= MaxHistory /\ Unique(items)
        /\ \A i \in DOMAIN items : Valid(items[i]) /\ items[i] \in Members(stores[page])
    BY <2>1, <2>2, LoadedItems
  <2>4. QED
    BY <2>2, <2>3 DEF Unique, Members
<1>2. QED
  BY <1>1, QueryInvHolds, PTL

-----------------------------------------------------------------------------
(* ProjectView.vue: what selectProject asks for.                           *)

IsCall(c) ==
  c = [op |-> c.op, id |-> c.id, after |-> c.after, data |-> c.data,
       current |-> c.current, reply |-> c.reply]

\* A call whose answer selectProject would show.
Shows(c) ==
  /\ c.current /\ c.after # "gone"
  /\ c.op = "stats" \/ (c.op = "diagnostics" /\ c.after = "select")

OwnInv ==
  /\ \A c \in calls : IsCall(c)
  /\ \A c \in calls : Shows(c) => c.id = selected
  /\ OwnAnswers

\* A new call.
LEMMA NewCall ==
  ASSUME NEW op, NEW id, NEW after, NEW data
  PROVE  LET c == Call(op, id, after, data)
         IN /\ IsCall(c) /\ c.op = op /\ c.id = id /\ c.after = after /\ c.data = data
            /\ c.current /\ c.reply = None
BY DEF IsCall, Call

\* A call that is answered.
LEMMA AnsweredCall ==
  ASSUME NEW c, IsCall(c), NEW x
  PROVE  LET d == [c EXCEPT !.reply = x]
         IN /\ IsCall(d) /\ d.op = c.op /\ d.id = c.id /\ d.after = c.after
            /\ d.data = c.data /\ d.current = c.current /\ d.reply = x
BY DEF IsCall

\* A call that is no longer the current one, or is as current as another.
LEMMA StaleCall ==
  ASSUME NEW c, IsCall(c), NEW x
  PROVE  LET d == [c EXCEPT !.current = x]
         IN /\ IsCall(d) /\ d.op = c.op /\ d.id = c.id /\ d.after = c.after
            /\ d.data = c.data /\ d.current = x /\ d.reply = c.reply
BY DEF IsCall

\* A call of a page that is left.
LEMMA GoneCall ==
  ASSUME NEW c, IsCall(c)
  PROVE  LET d == [c EXCEPT !.after = "gone"]
         IN IsCall(d) /\ d.op = c.op /\ d.after = "gone"
BY DEF IsCall

\* Handlers that keep the selection: what they show of it is theirs.
LEMMA SelectionKept ==
  ASSUME OwnInv, UNCHANGED selected,
         \A c \in calls' : c \in calls \/ (IsCall(c) /\ (Shows(c) => c.id = selected)),
         shown' \in {shown, None} \/ (shown'.by = "select" => shown'.id = selected),
         diagnosed' \in {diagnosed, None}
           \/ (diagnosed'.by = "select" => diagnosed'.id = selected)
  PROVE  OwnInv'
BY DEF OwnInv, OwnAnswers, Shows, IsCall

\* selectProject: only what it asks for itself is shown from now on.
LEMMA SelectKeepsOwn ==
  ASSUME OwnInv, NEW l, NEW id, NEW others, \A c \in others : IsCall(c), NEW after,
         SelectProject(l, id, others, after)
  PROVE  OwnInv'
<1> DEFINE stale == {[c EXCEPT !.current = FALSE] : c \in others}
           new == Call("stats", id, after, None)
<1>1. \A c \in stale : IsCall(c) /\ ~Shows(c)
  <2>1. SUFFICES ASSUME NEW d \in others
                 PROVE  /\ IsCall([d EXCEPT !.current = FALSE])
                        /\ ~Shows([d EXCEPT !.current = FALSE])
    OBVIOUS
  <2>2. IsCall(d)
    OBVIOUS
  <2>3. IsCall([d EXCEPT !.current = FALSE]) /\ ~[d EXCEPT !.current = FALSE].current
    BY <2>2, StaleCall
  <2>4. QED
    BY <2>3 DEF Shows
<1>2. IsCall(new) /\ new.id = id
  BY NewCall
<1>3. \A c \in calls' : c \in stale \/ c = new
  BY DEF SelectProject
<1>4. selected' = id /\ shown' = None /\ diagnosed' = None
  BY DEF SelectProject, Clear
<1> HIDE DEF stale, new
<1>5. \A c \in calls' : IsCall(c) /\ (Shows(c) => c.id = selected')
  BY <1>1, <1>2, <1>3, <1>4
<1>6. OwnAnswers'
  BY <1>4 DEF OwnAnswers
<1>7. QED
  BY <1>5, <1>6 DEF OwnInv, Shows, IsCall

\* register after the reload may select.
LEMMA ExistingKeepsOwn ==
  ASSUME OwnInv, NEW c, NEW l, NEW others, \A d \in others : IsCall(d),
         SelectExisting(c, l, others)
  PROVE  OwnInv'
BY SelectKeepsOwn DEF SelectExisting

\* The diagnostics that follow the statistics are shown with them, or not at all.
LEMMA DiagnosingCalls ==
  ASSUME OwnInv, NEW c \in calls, c.op = "stats", c.after # "gone"
  PROVE  /\ \A d \in Diagnosing(c) : IsCall(d)
         /\ \A d \in Diagnosing(c) :
              d \in calls \/ (IsCall(d) /\ (Shows(d) => d.id = selected))
<1>1. c.current => c.id = selected
  BY DEF OwnInv, Shows
<1> DEFINE d == [Call("diagnostics", c.id, "select", None) EXCEPT !.current = c.current]
<1>2. IsCall(d) /\ d.current = c.current /\ d.id = c.id
  BY DEF IsCall, Call
<1>3. Diagnosing(c) = (calls \ {c}) \cup {d}
  BY DEF Diagnosing
<1> HIDE DEF d
<1>4. QED
  BY <1>1, <1>2, <1>3 DEF OwnInv, Shows

\* A call that is given up is shown no more.
LEMMA GivenUp ==
  ASSUME NEW c, IsCall(c)
  PROVE  \A d \in Gone(c) : IsCall(d) /\ d.op = c.op /\ d.after = "gone" /\ ~Shows(d)
BY GoneCall DEF Gone, Shows

\* The user.
LEMMA UserKeepsOwn ==
  ASSUME OwnInv,
         \/ Select \/ Refresh \/ Register \/ Scan \/ BuildIndex \/ Reorder \/ SaveOrder
         \/ OpenDelete \/ CancelDelete \/ ConfirmDelete
  PROVE  OwnInv'
<1> USE DEF panel
<1>1. CASE Select
  <2>1. \A c \in calls : IsCall(c)
    BY DEF OwnInv
  <2>2. QED
    BY <1>1, <2>1, SelectKeepsOwn DEF Select
<1>2. ASSUME UNCHANGED <<selected, shown, diagnosed>>,
             \/ UNCHANGED calls
             \/ \E op \in {"list", "create", "scan", "index", "reorder", "delete"} :
                  \E id, after, data : calls' = calls \cup {Call(op, id, after, data)}
      PROVE  OwnInv'
  <2>1. \A d \in calls' : d \in calls \/ (IsCall(d) /\ ~Shows(d))
    BY <1>2, NewCall DEF Shows
  <2>2. QED
    BY <1>2, <2>1, SelectionKept
<1>3. CASE Refresh
  BY <1>2, <1>3 DEF Refresh, Begin
<1>4. CASE Register
  BY <1>2, <1>4 DEF Register, Begin
<1>5. CASE Scan
  BY <1>2, <1>5 DEF Scan, Begin
<1>6. CASE BuildIndex
  BY <1>2, <1>6 DEF BuildIndex, Begin
<1>7. CASE SaveOrder
  BY <1>2, <1>7 DEF SaveOrder, Begin
<1>8. CASE ConfirmDelete
  BY <1>2, <1>8 DEF ConfirmDelete, Begin
<1>9. CASE Reorder \/ OpenDelete \/ CancelDelete
  BY <1>2, <1>9 DEF Reorder, OpenDelete, CancelDelete
<1>10. QED
  BY <1>1, <1>3, <1>4, <1>5, <1>6, <1>7, <1>8, <1>9

\* What is delivered.
LEMMA DeliveryKeepsOwn ==
  ASSUME OwnInv, NEW c \in calls, Deliver(c)
  PROVE  OwnInv'
<1> USE DEF panel
<1>1. (\A d \in calls \ {c} : IsCall(d)) /\ IsCall(c) /\ c.after # "gone"
  BY DEF OwnInv, Deliver
<1>2. CASE DeliverList(c)
  BY <1>1, <1>2, SelectKeepsOwn, ExistingKeepsOwn DEF DeliverList
<1>3. CASE DeliverCreate(c)
  BY <1>1, <1>3, SelectKeepsOwn DEF DeliverCreate
<1>4. CASE DeliverDelete(c)
  BY <1>1, <1>4, SelectKeepsOwn DEF DeliverDelete
<1>5. CASE DeliverStatsConflict(c)
  BY <1>1, <1>5, DiagnosingCalls, ExistingKeepsOwn DEF DeliverStatsConflict
<1>6. ASSUME NEW op, NEW id, NEW after, NEW data, op # "stats",
             op = "diagnostics" => after # "select",
             calls' = (calls \ {c}) \cup {Call(op, id, after, data)}
      PROVE  \A d \in calls' : d \in calls \/ (IsCall(d) /\ ~Shows(d))
  BY <1>6, NewCall DEF Shows
<1>7. CASE DeliverConflict(c)
  <2>1. calls' = (calls \ {c}) \cup {Call("list", selected, "conflict", None)}
    BY <1>7 DEF DeliverConflict, Reload
  <2>2. \A d \in calls' : d \in calls \/ (IsCall(d) /\ ~Shows(d))
    BY <1>6, <2>1
  <2>3. QED
    BY <1>7, <2>2, SelectionKept DEF DeliverConflict
<1>8. CASE DeliverScan(c)
  <2>1. calls' = (calls \ {c}) \cup {Call("scan_stats", c.id, "scan", None)}
    BY <1>8 DEF DeliverScan, Continue
  <2>2. \A d \in calls' : d \in calls \/ (IsCall(d) /\ ~Shows(d))
    BY <1>6, <2>1
  <2>3. QED
    BY <1>8, <2>2, SelectionKept DEF DeliverScan
<1>9. CASE DeliverScanStats(c)
  <2>1. calls' = (calls \ {c}) \cup {Call("diagnostics", c.id, "scan", None)}
    BY <1>9 DEF DeliverScanStats, Continue
  <2>2. \A d \in calls' : d \in calls \/ (IsCall(d) /\ ~Shows(d))
    BY <1>6, <2>1
  <2>3. shown'.by # "select"
    BY <1>9 DEF DeliverScanStats
  <2>4. QED
    BY <1>9, <2>2, <2>3, SelectionKept DEF DeliverScanStats
<1>10. CASE DeliverStats(c)
  <2>1. c.current => c.id = selected
    BY <1>1, <1>10 DEF DeliverStats, OwnInv, Shows
  <2>2. \A e \in calls' : e \in calls \/ (IsCall(e) /\ (Shows(e) => e.id = selected))
    BY <1>1, <1>10, DiagnosingCalls DEF DeliverStats
  <2>3. shown' = shown \/ (shown'.by = "select" => shown'.id = selected)
    BY <1>10, <2>1 DEF DeliverStats
  <2>4. QED
    BY <1>10, <2>2, <2>3, SelectionKept DEF DeliverStats
<1>11. CASE DeliverDiagnostics(c)
  <2>1. diagnosed' = diagnosed \/ (diagnosed'.by = "select" => diagnosed'.id = selected)
    BY <1>1, <1>11 DEF DeliverDiagnostics, OwnInv, Shows
  <2>2. QED
    BY <1>11, <2>1, SelectionKept DEF DeliverDiagnostics, Return
<1>12. CASE DeliverIndex(c) \/ DeliverReorder(c)
  BY <1>12, SelectionKept DEF DeliverIndex, DeliverReorder, Return
<1>13. QED
  BY <1>2, <1>3, <1>4, <1>5, <1>7, <1>8, <1>9, <1>10, <1>11, <1>12 DEF Deliver

\* What is delivered as a failure.
LEMMA FailureKeepsOwn ==
  ASSUME OwnInv, NEW c \in calls, DeliverFailure(c)
  PROVE  OwnInv'
<1> USE DEF panel
<1>1. (\A d \in calls \ {c} : IsCall(d)) /\ IsCall(c) /\ c.after # "gone"
  BY DEF OwnInv, DeliverFailure
<1>2. CASE FailList(c)
  <2>1. CASE SelectExisting(c, list, calls \ {c})
    BY <1>1, <2>1, ExistingKeepsOwn
  <2>2. CASE Return(c) /\ UNCHANGED <<selected, panel>>
    BY <2>2, SelectionKept DEF Return
  <2>3. QED
    BY <1>2, <2>1, <2>2 DEF FailList
<1>3. \A others \in Failed(c) :
       \A d \in others : d \in calls \/ (IsCall(d) /\ ~Shows(d))
  BY <1>1, GivenUp DEF Failed
<1>4. CASE FailReorder(c)
  <2>1. PICK others \in Failed(c) :
          calls' = others \cup {Call("list", selected, "reload", None)}
    BY <1>4 DEF FailReorder, Reload
  <2>2. \A d \in calls' : d \in calls \/ (IsCall(d) /\ ~Shows(d))
    BY <1>3, <2>1, NewCall DEF Shows
  <2>3. QED
    BY <1>4, <2>2, SelectionKept DEF FailReorder
<1>5. CASE FailStats(c)
  <2>1. c.op = "stats"
    BY <1>5 DEF FailStats
  <2>2. CASE SelectExisting(c, list, Diagnosing(c))
    BY <1>1, <2>1, <2>2, DiagnosingCalls, ExistingKeepsOwn
  <2>3. CASE calls' = Diagnosing(c) /\ UNCHANGED <<selected, panel>>
    BY <1>1, <2>1, <2>3, DiagnosingCalls, SelectionKept
  <2>4. QED
    BY <1>5, <2>2, <2>3 DEF FailStats
<1>6. CASE FailOther(c)
  <2>1. \A d \in calls' : d \in calls \/ (IsCall(d) /\ ~Shows(d))
    BY <1>3, <1>6 DEF FailOther
  <2>2. QED
    BY <1>6, <2>1, SelectionKept DEF FailOther
<1>7. QED
  BY <1>2, <1>4, <1>5, <1>6 DEF DeliverFailure

\* The backend, and the page that is left or mounted.
LEMMA BehindKeepsOwn ==
  ASSUME OwnInv, BackendNext \/ ProjectLeave \/ ProjectMount
  PROVE  OwnInv'
<1> USE DEF view, panel
<1>1. ASSUME NEW c \in calls, Serve(c)
      PROVE  OwnInv'
  <2>1. PICK x : calls' \in {calls, (calls \ {c}) \cup {[c EXCEPT !.reply = x]}}
    BY <1>1 DEF Serve, Answer
  <2>2. IsCall(c) /\ (Shows(c) => c.id = selected)
    BY DEF OwnInv
  <2>3. PICK d : /\ d = [c EXCEPT !.reply = x] /\ IsCall(d)
                 /\ d.op = c.op /\ d.id = c.id /\ d.after = c.after
                 /\ d.current = c.current
    BY <2>2, AnsweredCall
  <2>4. \A e \in calls' : e \in calls \/ (IsCall(e) /\ (Shows(e) => e.id = selected))
    BY <2>1, <2>2, <2>3 DEF Shows
  <2>5. QED
    BY <1>1, <2>4, SelectionKept DEF Serve
<1>2. ASSUME NEW c \in calls, Forget(c)
      PROVE  OwnInv'
  BY <1>2, SelectionKept DEF Forget
<1>3. CASE ProjectLeave
  <2>1. \A d \in calls' : IsCall(d) /\ ~Shows(d)
    <3>1. ASSUME NEW c \in calls, NEW d \in Gone(c)
          PROVE  IsCall(d) /\ ~Shows(d)
      BY <3>1, GivenUp DEF OwnInv
    <3>2. QED
      BY <1>3, <3>1 DEF ProjectLeave
  <2>2. OwnAnswers'
    BY <1>3 DEF ProjectLeave, OwnAnswers
  <2>3. QED
    BY <2>1, <2>2 DEF OwnInv, Shows, IsCall
<1>4. CASE ProjectMount
  <2>1. calls' = calls \cup {Call("list", None, "load", None)}
    BY <1>4 DEF ProjectMount
  <2>2. \A d \in calls' : d \in calls \/ (IsCall(d) /\ ~Shows(d))
    BY <2>1, NewCall DEF Shows
  <2>3. QED
    BY <1>4, <2>2, SelectionKept DEF ProjectMount
<1>5. QED
  BY <1>1, <1>2, <1>3, <1>4 DEF BackendNext

\* OwnInv is an invariant.
LEMMA OwnInvHolds == Spec => []OwnInv
<1>1. Init => OwnInv
  BY DEF Init, ProjectInit, OwnInv, OwnAnswers
<1>2. OwnInv /\ [Next]_frontendVars => OwnInv'
  <2>1. SUFFICES ASSUME OwnInv, [Next]_frontendVars PROVE OwnInv'
    OBVIOUS
  <2>2. ASSUME UNCHANGED <<server, view, calls, doubt>>
        PROVE  OwnInv'
    BY <2>1, <2>2, SelectionKept DEF view, panel
  <2>3. CASE ProjectStep
    BY <2>1, <2>3, UserKeepsOwn, DeliveryKeepsOwn, FailureKeepsOwn, BehindKeepsOwn
       DEF ProjectStep, ProjectPageNext
  <2>4. ASSUME NEW page, Visit(page)
        PROVE  OwnInv'
    BY <2>1, <2>2, <2>4, BehindKeepsOwn DEF Visit, Leave, Mount
  <2>5. QED
    BY <2>1, <2>2, <2>3, <2>4
       DEF Next, frontendVars, pages, projectVars, QueryStep, ChatStep
<1>3. QED
  BY <1>1, <1>2, PTL DEF Spec

\* What selectProject asked for is only ever shown for the project that is
\* still selected, however late or out of order the answers of earlier
\* selections, reloads and failures come (selectionToken).
THEOREM AnswersStayOwn == Spec => []OwnAnswers
<1>1. OwnInv => OwnAnswers
  BY DEF OwnInv
<1>2. QED
  BY <1>1, OwnInvHolds, PTL

-----------------------------------------------------------------------------
(* ProjectView.vue: the list and the backend.                              *)

CallTypes(c) ==
  /\ c.op \in {"list", "reorder"} /\ c.reply # None => c.reply \in Seq(ProjectItem)
  /\ c.op = "create" => c.data \in Roots /\ c.reply \in ProjectItem \cup {None}
  /\ c.op = "reorder" => c.data \in Seq(Nat)
  /\ c.op = "delete" => c.reply \in {None, "done"}

ListTypes ==
  /\ list \in Seq(ProjectItem) /\ server \in Seq(ProjectItem) /\ doubt \in BOOLEAN
  /\ \A c \in calls : IsCall(c) /\ CallTypes(c)

\* What the one call for the list that is under way stands for, before and
\* after the backend has done it.
Agree(c) ==
  /\ c.op = "list" /\ c.reply # None => Ids(c.reply) = Ids(server)
  /\ c.op = "create" =>
       IF c.reply \in {None, Conflict} THEN Ids(list) = Ids(server)
       ELSE Ids(server) = <<c.reply.id>> \o Ids(list)
  /\ c.op = "reorder" =>
       IF c.reply = None THEN Ids(list) = Ids(server) ELSE Ids(c.reply) = Ids(server)
  /\ c.op = "delete" =>
       /\ c.data = Position(list, c.id)
       /\ IF c.reply = None THEN Ids(list) = Ids(server)
          ELSE c.data # 0 /\ Ids(server) = RemoveAt(Ids(list), c.data)

ListCalls == {c \in calls : Waits(c)}

InStep ==
  ~doubt =>
    /\ \A c \in ListCalls : Agree(c)
    /\ \A c, d \in ListCalls : c = d
    /\ ListCalls = {} => Ids(list) = Ids(server)

ListInv == ListTypes /\ InStep

\* The ids of a list.
LEMMA IdsOf ==
  ASSUME NEW s \in Seq(ProjectItem)
  PROVE  /\ Ids(s) \in Seq(Nat) /\ Len(Ids(s)) = Len(s) /\ DOMAIN Ids(s) = DOMAIN s
         /\ \A i \in DOMAIN s : Ids(s)[i] = s[i].id
<1>1. DOMAIN s = 1..Len(s) /\ Len(s) \in Nat /\ \A i \in DOMAIN s : s[i] \in ProjectItem
  OBVIOUS
<1>2. \A i \in DOMAIN s : s[i].id \in Nat
  BY <1>1 DEF ProjectItem
<1>3. Ids(s) = [i \in 1..Len(s) |-> s[i].id]
  BY <1>1 DEF Ids
<1> HIDE <1>1
<1>4. QED
  BY <1>1, <1>2, <1>3

\* Lists of the same ids in the same order have the same ids.
LEMMA SameIds ==
  ASSUME NEW s \in Seq(ProjectItem), NEW t \in Seq(ProjectItem), Len(s) = Len(t),
         \A i \in DOMAIN s : s[i].id = t[i].id
  PROVE  Ids(s) = Ids(t)
<1>1. DOMAIN s = DOMAIN t
  OBVIOUS
<1>2. QED
  BY <1>1 DEF Ids

\* Where a project is found, and whether it is.
LEMMA PositionOf ==
  ASSUME NEW s \in Seq(ProjectItem), NEW id
  PROVE  /\ Position(s, id) \in Nat
         /\ Lists(s, id) => /\ Position(s, id) \in DOMAIN s
                            /\ s[Position(s, id)].id = id
                            /\ Item(s, id) \in ProjectItem /\ Item(s, id).id = id
         /\ id \in ToSet(Ids(s)) => Lists(s, id)
<1> DEFINE I == {i \in 1..Len(Ids(s)) : Ids(s)[i] = id}
<1>1. Position(s, id) = IF I # {} THEN Min(I) ELSE 0
  BY DEF Position, SelectInSeq
<1>2. I \in SUBSET Nat /\ I \in SUBSET DOMAIN s /\ \A i \in I : s[i].id = id /\ i # 0
  BY IdsOf
<1>3. id \in ToSet(Ids(s)) => I # {}
  BY IdsOf DEF ToSet
<1> HIDE DEF I
<1>4. CASE I = {}
  BY <1>1, <1>3, <1>4 DEF Lists
<1>5. CASE I # {}
  <2>1. PICK m \in I : \A i \in I : m <= i
    BY <1>2, <1>5, SmallestExists
  <2>2. Min(I) \in I
    BY <2>1 DEF Min
  <2>3. Position(s, id) \in I
    BY <1>1, <1>5, <2>2
  <2>4. PICK p \in DOMAIN s : p = Position(s, id) /\ s[p].id = id
    BY <1>2, <2>3
  <2>5. s[p] \in ProjectItem
    OBVIOUS
  <2>6. QED
    BY <1>2, <2>3, <2>4, <2>5 DEF Lists, Item
<1>6. QED
  BY <1>4, <1>5

\* A sequence without one of its elements.
LEMMA Removed ==
  ASSUME NEW T, NEW s \in Seq(T), NEW i \in DOMAIN s
  PROVE  /\ RemoveAt(s, i) \in Seq(T) /\ Len(RemoveAt(s, i)) = Len(s) - 1
         /\ Len(s) - 1 \in Nat
         /\ \A k \in 1..(Len(s) - 1) :
              RemoveAt(s, i)[k] = IF k < i THEN s[k] ELSE s[k + 1]
<1>1. DOMAIN s = 1..Len(s) /\ Len(s) \in Nat /\ i \in 1..Len(s)
  OBVIOUS
<1>2. PICK u \in Seq(T) :
        /\ u = SubSeq(s, 1, i - 1) /\ Len(u) = i - 1
        /\ \A k \in 1..(i - 1) : u[k] = s[k]
  <2>1. /\ SubSeq(s, 1, i - 1) \in Seq(T) /\ Len(SubSeq(s, 1, i - 1)) = i - 1
        /\ \A k \in 1..(i - 1) : SubSeq(s, 1, i - 1)[k] = s[k]
    BY <1>1
  <2>2. QED
    BY <2>1
<1>3. PICK v \in Seq(T) :
        /\ v = SubSeq(s, i + 1, Len(s)) /\ Len(v) = Len(s) - i
        /\ \A k \in 1..(Len(s) - i) : v[k] = s[i + k]
  <2>1. /\ SubSeq(s, i + 1, Len(s)) \in Seq(T)
        /\ Len(SubSeq(s, i + 1, Len(s))) = Len(s) - i
        /\ \A k \in 1..(Len(s) - i) : SubSeq(s, i + 1, Len(s))[k] = s[i + k]
    BY <1>1
  <2>2. QED
    BY <2>1
<1>4. RemoveAt(s, i) = u \o v
  BY <1>2, <1>3 DEF RemoveAt
<1>5. /\ u \o v \in Seq(T) /\ Len(u \o v) = Len(s) - 1
      /\ \A k \in 1..(Len(s) - 1) :
           (u \o v)[k] = IF k < i THEN u[k] ELSE v[k - i + 1]
  <2>1. /\ u \o v \in Seq(T) /\ Len(u \o v) = Len(u) + Len(v)
        /\ \A k \in 1..(Len(u) + Len(v)) :
             (u \o v)[k] = IF k <= Len(u) THEN u[k] ELSE v[k - Len(u)]
    OBVIOUS
  <2>2. Len(u) + Len(v) = Len(s) - 1
    <3>1. Len(u) = i - 1 /\ Len(v) = Len(s) - i
      BY <1>2, <1>3
    <3>2. i \in Nat /\ Len(s) \in Nat
      BY <1>1
    <3>3. QED
      BY <3>1, <3>2
  <2>3. \A k \in 1..(Len(s) - 1) :
          /\ k <= Len(u) <=> k < i
          /\ k - Len(u) = k - i + 1
    BY <1>1, <1>2
  <2>4. QED
    BY <2>1, <2>2, <2>3
<1>6. ASSUME NEW k \in 1..(Len(s) - 1)
      PROVE  RemoveAt(s, i)[k] = IF k < i THEN s[k] ELSE s[k + 1]
  <2>1. CASE k < i
    <3>1. k \in 1..(i - 1)
      BY <1>1, <2>1
    <3>2. QED
      BY <1>2, <1>4, <1>5, <2>1, <3>1
  <2>2. CASE ~ (k < i)
    <3>1. k - i + 1 \in 1..(Len(s) - i) /\ i + (k - i + 1) = k + 1
      BY <1>1, <2>2
    <3>2. QED
      BY <1>3, <1>4, <1>5, <2>2, <3>1
  <2>3. QED
    BY <2>1, <2>2
<1>7. Len(s) - 1 \in Nat
  BY <1>1
<1>8. QED
  BY <1>4, <1>5, <1>6, <1>7

\* Sequences of the same length and the same elements are the same.
LEMMA SameSequence ==
  ASSUME NEW T, NEW n \in Nat, NEW s \in Seq(T), NEW t \in Seq(T), Len(s) = n, Len(t) = n,
         \A k \in 1..n : s[k] = t[k]
  PROVE  s = t
<1>1. s = [k \in 1..n |-> s[k]] /\ t = [k \in 1..n |-> t[k]]
  OBVIOUS
<1>2. [k \in 1..n |-> s[k]] = [k \in 1..n |-> t[k]]
  OBVIOUS
<1>3. QED
  BY <1>1, <1>2

\* A project is taken out of a list.
LEMMA RemovedItem ==
  ASSUME NEW s \in Seq(ProjectItem), NEW i \in DOMAIN s
  PROVE  /\ RemoveAt(s, i) \in Seq(ProjectItem)
         /\ Ids(RemoveAt(s, i)) = RemoveAt(Ids(s), i)
<1>1. PICK v \in Seq(ProjectItem) :
        /\ v = RemoveAt(s, i) /\ Len(v) = Len(s) - 1 /\ Len(s) - 1 \in Nat
        /\ \A k \in 1..(Len(s) - 1) : v[k] = IF k < i THEN s[k] ELSE s[k + 1]
  BY Removed
<1>2. PICK u \in Seq(Nat) :
        /\ u = Ids(s) /\ Len(u) = Len(s) /\ DOMAIN u = DOMAIN s
        /\ \A k \in DOMAIN s : u[k] = s[k].id
  BY IdsOf
<1>3. PICK w \in Seq(Nat) :
        /\ w = RemoveAt(u, i) /\ Len(w) = Len(s) - 1
        /\ \A k \in 1..(Len(s) - 1) : w[k] = IF k < i THEN u[k] ELSE u[k + 1]
  <2>1. i \in DOMAIN u
    BY <1>2
  <2>2. /\ RemoveAt(u, i) \in Seq(Nat) /\ Len(RemoveAt(u, i)) = Len(u) - 1
        /\ \A k \in 1..(Len(u) - 1) :
             RemoveAt(u, i)[k] = IF k < i THEN u[k] ELSE u[k + 1]
    BY <2>1, Removed, Zenon
  <2>3. QED
    BY <1>2, <2>2
<1>4. PICK z \in Seq(Nat) :
        /\ z = Ids(v) /\ Len(z) = Len(s) - 1
        /\ \A k \in 1..(Len(s) - 1) : z[k] = v[k].id
  <2>1. DOMAIN v = 1..(Len(s) - 1)
    BY <1>1
  <2>2. QED
    BY <1>1, <2>1, IdsOf
<1>5. \A k \in 1..(Len(s) - 1) : z[k] = w[k]
  <2>1. SUFFICES ASSUME NEW k \in 1..(Len(s) - 1)
                 PROVE  z[k] = w[k]
    OBVIOUS
  <2>2. k \in DOMAIN s /\ k + 1 \in DOMAIN s
    BY <1>1
  <2>3. QED
    BY <1>1, <1>2, <1>3, <1>4, <2>2
<1>6. z = w
  <2>1. PICK n \in Nat : n = Len(s) - 1
    BY <1>1
  <2>2. Len(z) = n /\ Len(w) = n /\ \A k \in 1..n : z[k] = w[k]
    BY <1>3, <1>4, <1>5, <2>1
  <2>3. QED
    BY <2>2, SameSequence, Zenon
<1>7. QED
  BY <1>1, <1>2, <1>3, <1>4, <1>6

\* A project is put before the others.
LEMMA PrependedItem ==
  ASSUME NEW s \in Seq(ProjectItem), NEW p \in ProjectItem
  PROVE  /\ <<p>> \o s \in Seq(ProjectItem)
         /\ Ids(<<p>> \o s) = <<p.id>> \o Ids(s)
<1> DEFINE v == <<p>> \o s
           w == <<p.id>> \o Ids(s)
<1>1. /\ v \in Seq(ProjectItem) /\ Len(v) = Len(s) + 1 /\ v[1] = p /\ Len(s) \in Nat
      /\ \A k \in 2..(Len(s) + 1) : v[k] = s[k - 1]
  OBVIOUS
<1>2. p.id \in Nat
  BY DEF ProjectItem
<1>3. Ids(s) \in Seq(Nat) /\ Len(Ids(s)) = Len(s) /\ \A k \in DOMAIN s : Ids(s)[k] = s[k].id
  BY IdsOf
<1>4. /\ w \in Seq(Nat) /\ Len(w) = Len(s) + 1 /\ w[1] = p.id
      /\ \A k \in 2..(Len(s) + 1) : w[k] = Ids(s)[k - 1]
  BY <1>2, <1>3
<1> HIDE DEF v, w
<1>5. \A k \in 1..(Len(s) + 1) : v[k].id = w[k]
  <2>1. SUFFICES ASSUME NEW k \in 2..(Len(s) + 1)
                 PROVE  v[k].id = w[k]
    BY <1>1, <1>4
  <2>2. k - 1 \in DOMAIN s
    BY <1>1
  <2>3. QED
    BY <1>1, <1>3, <1>4, <2>2
<1>6. /\ Ids(v) \in Seq(Nat) /\ Len(Ids(v)) = Len(s) + 1
      /\ \A k \in 1..(Len(s) + 1) : Ids(v)[k] = v[k].id
  BY <1>1, IdsOf
<1>7. Ids(v) = w
  <2>1. \A k \in 1..(Len(s) + 1) : Ids(v)[k] = w[k]
    BY <1>5, <1>6
  <2>2. Len(s) + 1 \in Nat
    BY <1>1
  <2>3. QED
    BY <1>4, <1>6, <2>1, <2>2, SameSequence
<1>8. QED
  BY <1>1, <1>7 DEF v, w

\* The id of a new project is a number that is not zero.
LEMMA NewIdType ==
  ASSUME server \in Seq(ProjectItem)
  PROVE  NewId \in Nat /\ NewId # 0
<1> DEFINE S == {0} \cup ToSet(Ids(server))
<1>1. S \in SUBSET Nat
  BY IdsOf DEF ToSet
<1>2. IsFiniteSet(S)
  <2> DEFINE D == DOMAIN server
             f == [i \in D |-> Ids(server)[i]]
  <2>1. D = 1..Len(server) /\ Len(server) \in Nat
    OBVIOUS
  <2>2. IsFiniteSet(D)
    BY <2>1, FS_Interval
  <2>3. \A i \in D : Ids(server)[i] \in ToSet(Ids(server))
    BY IdsOf DEF ToSet
  <2>4. f \in [D -> ToSet(Ids(server))]
    BY <2>3
  <2>5. \A x \in ToSet(Ids(server)) : \E i \in D : f[i] = x
    BY IdsOf DEF ToSet
  <2> HIDE DEF f, D
  <2>6. f \in Surjection(D, ToSet(Ids(server)))
    BY <2>4, <2>5, Fun_IsSurj
  <2>7. IsFiniteSet(ToSet(Ids(server)))
    BY <2>2, <2>6, FS_Surjection
  <2>8. QED
    BY <2>7, FS_Singleton, FS_Union
<1>3. 0 \in S
  OBVIOUS
<1> HIDE DEF S
<1>4. PICK m \in S : \A i \in S : i <= m
  BY <1>1, <1>2, <1>3, LargestExists
<1>5. Max(S) \in S
  <2>1. \A i \in S : m >= i
    BY <1>1, <1>4
  <2>2. QED
    BY <2>1 DEF Max
<1>6. Max(S) \in Nat
  BY <1>1, <1>5
<1>7. QED
  BY <1>6 DEF NewId, S

\* A project becomes ready, in the list or in the backend.
LEMMA ReadyItem ==
  ASSUME NEW s \in Seq(ProjectItem), NEW t,
         \/ \E p \in DOMAIN s : t = [s EXCEPT ![p].ready = TRUE]
         \/ \E id : t = [i \in DOMAIN s |->
                           IF s[i].id = id THEN [s[i] EXCEPT !.ready = TRUE] ELSE s[i]]
  PROVE  t \in Seq(ProjectItem) /\ Ids(t) = Ids(s)
<1>1. /\ DOMAIN s = 1..Len(s) /\ Len(s) \in Nat
      /\ \A i \in DOMAIN s : s[i] \in ProjectItem
  OBVIOUS
<1>2. \A i \in DOMAIN s : /\ [s[i] EXCEPT !.ready = TRUE] \in ProjectItem
                          /\ [s[i] EXCEPT !.ready = TRUE].id = s[i].id
  BY <1>1 DEF ProjectItem
<1>3. /\ t \in [1..Len(s) -> ProjectItem]
      /\ \A i \in 1..Len(s) : t[i].id = s[i].id
  <2>1. CASE \E p \in DOMAIN s : t = [s EXCEPT ![p].ready = TRUE]
    BY <1>1, <1>2, <2>1
  <2>2. CASE \E id : t = [i \in DOMAIN s |->
                           IF s[i].id = id THEN [s[i] EXCEPT !.ready = TRUE] ELSE s[i]]
    BY <1>1, <1>2, <2>2
  <2>3. QED
    BY <2>1, <2>2
<1>4. t \in Seq(ProjectItem) /\ Len(t) = Len(s) /\ DOMAIN t = 1..Len(s)
  BY <1>1, <1>3
<1>5. \A i \in DOMAIN t : t[i].id = s[i].id
  BY <1>3, <1>4
<1>6. Ids(t) = Ids(s)
  BY <1>4, <1>5, SameIds
<1>7. QED
  BY <1>4, <1>6

\* A project that is spliced out of the list.
LEMMA SplicedItem ==
  ASSUME NEW s \in Seq(ProjectItem), NEW i
  PROVE  /\ Splice(s, i) \in Seq(ProjectItem)
         /\ i \in DOMAIN s => Ids(Splice(s, i)) = RemoveAt(Ids(s), i)
<1>1. DOMAIN s = 1..Len(s) /\ Len(s) \in Nat
  OBVIOUS
<1>2. CASE i \in DOMAIN s
  BY <1>1, <1>2, RemovedItem DEF Splice
<1>3. CASE i \notin DOMAIN s
  <2>1. s # <<>> => Front(s) \in Seq(ProjectItem)
    BY <1>1 DEF Front
  <2>2. QED
    BY <1>3, <2>1 DEF Splice
<1>4. QED
  BY <1>2, <1>3

\* What a call of the list stands for does not depend on its handler, only on
\* the ids and their order.
LEMMA AgreeKept ==
  ASSUME NEW c, NEW d, Agree(c), d.op = c.op, d.id = c.id, d.data = c.data,
         d.reply = c.reply, Ids(list') = Ids(list), Ids(server') = Ids(server)
  PROVE  Agree(d)'
<1>1. Position(list', d.id) = Position(list, d.id)
  BY DEF Position
<1>2. QED
  BY <1>1 DEF Agree

Stale(S) == {[c EXCEPT !.current = FALSE] : c \in S}
CallsTyped(S) == \A c \in S : IsCall(c) /\ CallTypes(c)

\* The calls of the list without those of the handler c.
Rest(c) == {x \in calls \ {c} : Waits(x)}

\* Calls that are no longer current are of the same kind.
LEMMA StaleTyped ==
  ASSUME NEW S, CallsTyped(S)
  PROVE  /\ CallsTyped(Stale(S))
         /\ {d \in Stale(S) : Waits(d)} = Stale({c \in S : Waits(c)})
<1>1. ASSUME NEW c \in S
      PROVE  LET d == [c EXCEPT !.current = FALSE]
             IN IsCall(d) /\ CallTypes(d) /\ (Waits(d) <=> Waits(c))
  <2>1. IsCall(c) /\ CallTypes(c)
    BY DEF CallsTyped
  <2>2. PICK d : d = [c EXCEPT !.current = FALSE]
    OBVIOUS
  <2>3. /\ IsCall(d) /\ d.op = c.op /\ d.data = c.data /\ d.reply = c.reply
        /\ d.after = c.after
    BY <2>1, <2>2, StaleCall
  <2>4. CallTypes(d) /\ (Waits(d) <=> Waits(c))
    BY <2>1, <2>3 DEF CallTypes, Waits
  <2>5. QED
    BY <2>2, <2>3, <2>4
<1>2. QED
  BY <1>1 DEF CallsTyped, Stale

\* selectProject asks for nothing that the list depends on.
LEMMA SelectTyped ==
  ASSUME NEW l, NEW id, NEW others, CallsTyped(others), NEW after,
         SelectProject(l, id, others, after)
  PROVE  /\ CallsTyped(calls')
         /\ ListCalls' = Stale({c \in others : Waits(c)})
<1> DEFINE new == Call("stats", id, after, None)
<1>1. IsCall(new) /\ new.op = "stats"
  BY NewCall
<1>2. CallTypes(new) /\ ~Waits(new)
  BY <1>1 DEF CallTypes, Waits, OfList
<1>3. calls' \in {Stale(others), Stale(others) \cup {new}}
  BY DEF SelectProject, Stale
<1> HIDE DEF new
<1>4. QED
  BY <1>1, <1>2, <1>3, StaleTyped DEF CallsTyped, ListCalls

\* Nor does register after a conflict.
LEMMA ExistingTyped ==
  ASSUME NEW c, NEW l, NEW others, CallsTyped(others), SelectExisting(c, l, others)
  PROVE  CallsTyped(calls') /\ ListCalls' = Stale({d \in others : Waits(d)})
BY SelectTyped DEF SelectExisting

\* Nor do the diagnostics.
LEMMA DiagnosingTyped ==
  ASSUME CallsTyped(calls), NEW c \in calls
  PROVE  CallsTyped(Diagnosing(c)) /\ {d \in Diagnosing(c) : Waits(d)} = Rest(c)
<1> DEFINE new == [Call("diagnostics", c.id, "select", None) EXCEPT !.current = c.current]
<1>1. IsCall(new) /\ new.op = "diagnostics"
  BY DEF IsCall, Call
<1>2. CallTypes(new) /\ ~Waits(new)
  BY <1>1 DEF CallTypes, Waits, OfList
<1>3. Diagnosing(c) = (calls \ {c}) \cup {new}
  BY DEF Diagnosing
<1> HIDE DEF new
<1>4. QED
  BY <1>1, <1>2, <1>3 DEF CallsTyped, Rest

\* Nor does a call that is given up.
LEMMA GoneTyped ==
  ASSUME NEW c, IsCall(c), CallTypes(c)
  PROVE  CallsTyped(Gone(c)) /\ \A d \in Gone(c) : ~Waits(d)
<1>1. ASSUME NEW d, d = [c EXCEPT !.after = "gone"]
      PROVE  IsCall(d) /\ CallTypes(d) /\ ~Waits(d)
  <2>1. IsCall(d) /\ d.op = c.op /\ d.data = c.data /\ d.reply = c.reply /\ d.after = "gone"
    BY <1>1 DEF IsCall
  <2>2. QED
    BY <2>1 DEF CallTypes, Waits
<1>2. QED
  BY <1>1 DEF Gone, CallsTyped

\* The calls after a failure.
LEMMA FailedTyped ==
  ASSUME CallsTyped(calls), NEW c \in calls, NEW others \in Failed(c)
  PROVE  CallsTyped(others) /\ {d \in others : Waits(d)} = Rest(c)
<1>1. IsCall(c) /\ CallTypes(c)
  BY DEF CallsTyped
<1>2. CallsTyped(Gone(c)) /\ \A d \in Gone(c) : ~Waits(d)
  BY <1>1, GoneTyped
<1>3. others = calls \ {c} \/ others = (calls \ {c}) \cup Gone(c)
  BY DEF Failed
<1>4. QED
  BY <1>2, <1>3 DEF CallsTyped, Rest

\* Steps that leave the ids and the calls of the list as they are.
LEMMA ListUntouched ==
  ASSUME ListInv, list' \in Seq(ProjectItem), server' \in Seq(ProjectItem),
         Ids(list') = Ids(list), Ids(server') = Ids(server),
         doubt' \in BOOLEAN, ~doubt' => ~doubt,
         CallsTyped(calls'), ListCalls' \in {ListCalls, Stale(ListCalls)}
  PROVE  ListInv'
<1>1. ListTypes'
  BY DEF ListTypes, CallsTyped
<1>2. \A c \in ListCalls : IsCall(c)
  BY DEF ListInv, ListTypes, ListCalls
<1>3. ASSUME NEW d \in ListCalls'
      PROVE  \E c \in ListCalls :
               /\ d.op = c.op /\ d.id = c.id /\ d.data = c.data /\ d.reply = c.reply
               /\ d.after = c.after
               /\ d = c \/ d = [c EXCEPT !.current = FALSE]
  <2>1. CASE d \in ListCalls
    BY <2>1
  <2>2. CASE d \in Stale(ListCalls)
    <3>1. PICK c \in ListCalls : d = [c EXCEPT !.current = FALSE]
      BY <2>2 DEF Stale
    <3>2. QED
      BY <1>2, <3>1, StaleCall
  <2>3. QED
    BY <2>1, <2>2
<1>4. CASE ~doubt'
  <2>1. /\ \A c \in ListCalls : Agree(c)
        /\ \A c, d \in ListCalls : c = d
        /\ ListCalls = {} => Ids(list) = Ids(server)
    BY <1>4 DEF ListInv, InStep
  <2>2. \A d \in ListCalls' : Agree(d)'
    BY <1>3, <2>1, AgreeKept
  <2>3. \A c, d \in ListCalls' : c = d
    BY <2>1 DEF Stale
  <2>4. ListCalls' = {} => ListCalls = {}
    BY DEF Stale
  <2>5. QED
    BY <1>1, <2>1, <2>2, <2>3, <2>4 DEF ListInv, InStep
<1>5. CASE doubt'
  BY <1>1, <1>5 DEF ListInv, InStep
<1>6. QED
  BY <1>1, <1>4, <1>5 DEF ListTypes

\* Steps after which no call of the list is under way.
LEMMA ListSettled ==
  ASSUME list' \in Seq(ProjectItem), server' \in Seq(ProjectItem), doubt' \in BOOLEAN,
         CallsTyped(calls'),
         ~doubt' => ListCalls' = {} /\ Ids(list') = Ids(server')
  PROVE  ListInv'
BY DEF ListInv, ListTypes, InStep, CallsTyped

\* Steps that begin a call of the list.
LEMMA ListBegun ==
  ASSUME ListInv, UNCHANGED <<list, server>>, NEW c, IsCall(c), CallTypes(c),
         c.op \in OfList, c.after # "gone", c.reply = None,
         NEW others, CallsTyped(others), calls' = others \cup {c},
         doubt' \in BOOLEAN, ~doubt' => ~doubt /\ ~Meets(c, others),
         c.op = "list" \/ others = calls,
         c.op = "delete" => c.data = Position(list, c.id)
  PROVE  ListInv'
<1>1. ListTypes'
  BY DEF ListInv, ListTypes, CallsTyped
<1>2. CASE ~doubt'
  <2>1. \A d \in others : d.op \notin OfList
    BY <1>2 DEF Meets
  <2>2. ListCalls' = {c}
    BY <2>1 DEF ListCalls, Waits
  <2>3. c.op # "list" => Ids(list) = Ids(server)
    BY <1>2, <2>1 DEF ListInv, InStep, ListCalls, Waits
  <2>4. Agree(c)'
    BY <2>3 DEF Agree, OfList
  <2>5. QED
    BY <1>1, <2>2, <2>4 DEF ListInv, InStep
<1>3. CASE doubt'
  BY <1>1, <1>3 DEF ListInv, InStep
<1>4. QED
  BY <1>2, <1>3 DEF ListTypes

\* An order that is saved is a sequence of ids.
LEMMA SavedOrder ==
  ASSUME list \in Seq(ProjectItem), NEW ids \in SetToSeqs(ToSet(Ids(list)))
  PROVE  ids \in Seq(Nat)
<1> DEFINE S == ToSet(Ids(list))
<1>1. S \in SUBSET Nat
  BY IdsOf DEF ToSet
<1>2. IsFiniteSet(S)
  <2> DEFINE D == DOMAIN list
             f == [i \in D |-> Ids(list)[i]]
  <2>1. D = 1..Len(list) /\ Len(list) \in Nat
    OBVIOUS
  <2>2. IsFiniteSet(D)
    BY <2>1, FS_Interval
  <2>3. f \in [D -> S]
    BY IdsOf DEF ToSet
  <2>4. \A x \in S : \E i \in D : f[i] = x
    BY IdsOf DEF ToSet
  <2> HIDE DEF f, D, S
  <2>5. f \in Surjection(D, S)
    BY <2>3, <2>4, Fun_IsSurj
  <2>6. QED
    BY <2>2, <2>5, FS_Surjection
<1>3. ids \in [1..Cardinality(S) -> S]
  BY DEF SetToSeqs
<1> HIDE DEF S
<1>4. Cardinality(S) \in Nat
  BY <1>2, FS_CardinalityType
<1>5. PICK n \in Nat : n = Cardinality(S)
  BY <1>4
<1>6. ids \in [1..n -> Nat]
  BY <1>1, <1>3, <1>5
<1>7. QED
  BY <1>6

\* A new call that is not for the list.
LEMMA OtherBegun ==
  ASSUME ListInv, UNCHANGED <<list, server>>, NEW c, IsCall(c), CallTypes(c),
         c.op \notin OfList, Begin(c)
  PROVE  ListInv'
<1>1. CallsTyped(calls') /\ ListCalls' = ListCalls
  BY DEF Begin, ListInv, ListTypes, CallsTyped, ListCalls, Waits
<1>2. doubt' = doubt
  BY DEF Begin, Meets, ListInv, ListTypes
<1>3. QED
  BY <1>1, <1>2, ListUntouched DEF ListInv, ListTypes

\* A new call for the list.
LEMMA CallBegun ==
  ASSUME ListInv, UNCHANGED <<list, server>>, NEW c, IsCall(c), CallTypes(c),
         c.op \in OfList, c.after # "gone", c.reply = None, Begin(c),
         c.op = "delete" => c.data = Position(list, c.id)
  PROVE  ListInv'
<1>1. /\ calls' = calls \cup {c} /\ doubt' \in BOOLEAN
      /\ ~doubt' => ~doubt /\ ~Meets(c, calls)
      /\ CallsTyped(calls)
  BY DEF Begin, ListInv, ListTypes, Meets, CallsTyped
<1>2. QED
  BY <1>1, ListBegun

\* What the user does.
LEMMA UserKeepsList ==
  ASSUME ListInv,
         \/ Select \/ Refresh \/ Register \/ Scan \/ BuildIndex \/ Reorder \/ SaveOrder
         \/ OpenDelete \/ CancelDelete \/ ConfirmDelete
  PROVE  ListInv'
<1>1. /\ list \in Seq(ProjectItem) /\ server \in Seq(ProjectItem) /\ doubt \in BOOLEAN
      /\ CallsTyped(calls)
  BY DEF ListInv, ListTypes, CallsTyped
<1>2. CASE Select
  <2>1. CallsTyped(calls') /\ ListCalls' = Stale(ListCalls)
    BY <1>1, <1>2, SelectTyped DEF Select, ListCalls
  <2>2. QED
    BY <1>1, <1>2, <2>1, ListUntouched DEF Select
<1>3. CASE Refresh
  <2>1. PICK c : c = Call("list", selected, "load", None) /\ IsCall(c) /\ CallTypes(c)
                 /\ c.op = "list" /\ c.after = "load" /\ c.reply = None
    BY NewCall DEF CallTypes
  <2>2. QED
    BY <1>3, <2>1, CallBegun DEF Refresh, OfList
<1>4. CASE Register
  <2>1. PICK root \in Roots : Begin(Call("create", None, "register", root))
    BY <1>4 DEF Register
  <2>2. PICK c : /\ c = Call("create", None, "register", root) /\ IsCall(c)
                 /\ c.op = "create" /\ c.after = "register" /\ c.reply = None
                 /\ c.data = root
    BY NewCall
  <2>3. CallTypes(c)
    BY <2>2 DEF CallTypes
  <2>4. QED
    BY <1>4, <2>1, <2>2, <2>3, CallBegun DEF Register, OfList
<1>5. CASE Scan \/ BuildIndex
  <2>1. PICK op, id : op \in {"scan", "index"} /\ Begin(Call(op, id, op, None))
    BY <1>5 DEF Scan, BuildIndex
  <2>2. PICK c : c = Call(op, id, op, None) /\ IsCall(c) /\ c.op = op
    BY NewCall
  <2>3. CallTypes(c) /\ c.op \notin OfList
    BY <2>1, <2>2 DEF CallTypes, OfList
  <2>4. QED
    BY <1>5, <2>1, <2>2, <2>3, OtherBegun DEF Scan, BuildIndex
<1>6. CASE SaveOrder
  <2>1. PICK ids \in SetToSeqs(ToSet(Ids(list))) : Begin(Call("reorder", None, "reorder", ids))
    BY <1>6 DEF SaveOrder
  <2>2. PICK c : /\ c = Call("reorder", None, "reorder", ids) /\ IsCall(c)
                 /\ c.op = "reorder" /\ c.after = "reorder" /\ c.reply = None
                 /\ c.data = ids
    BY NewCall
  <2>3. CallTypes(c)
    BY <1>1, <2>2, SavedOrder DEF CallTypes
  <2>4. QED
    BY <1>6, <2>1, <2>2, <2>3, CallBegun DEF SaveOrder, OfList
<1>7. CASE ConfirmDelete
  <2>1. PICK c : /\ c = Call("delete", dialog, "delete", Position(list, dialog))
                 /\ IsCall(c) /\ c.op = "delete" /\ c.after = "delete" /\ c.reply = None
                 /\ c.data = Position(list, dialog) /\ c.id = dialog
    BY NewCall
  <2>2. CallTypes(c)
    BY <2>1 DEF CallTypes
  <2>3. QED
    BY <1>7, <2>1, <2>2, CallBegun DEF ConfirmDelete, OfList
<1>8. CASE Reorder \/ OpenDelete \/ CancelDelete
  <2>1. UNCHANGED <<list, server, calls, doubt>>
    BY <1>8 DEF Reorder, OpenDelete, CancelDelete
  <2>2. CallsTyped(calls') /\ ListCalls' = ListCalls
    BY <1>1, <2>1 DEF ListCalls
  <2>3. QED
    BY <1>1, <2>1, <2>2, ListUntouched
<1>9. QED
  BY <1>2, <1>3, <1>4, <1>5, <1>6, <1>7, <1>8

\* The backend answers a call: no other call for the list is touched, and there
\* is doubt about the list if the page no longer waits for this one.
LEMMA ListAnswered ==
  ASSUME ListInv, NEW c \in calls, c.reply = None, NEW projects \in Seq(ProjectItem), NEW x,
         x # None, Answer(c, projects, x), UNCHANGED list,
         doubt' = (doubt \/ (c.after = "gone" /\ c.op \in OfList)),
         \A d : /\ IsCall(d) /\ d.op = c.op /\ d.id = c.id /\ d.after = c.after
                /\ d.data = c.data /\ d.reply = x
                => /\ CallTypes(d)
                   /\ c.op \in OfList /\ Agree(c) => Agree(d)',
         c.op \notin OfList => Ids(projects) = Ids(server)
  PROVE  ListInv'
<1>1. IsCall(c) /\ CallTypes(c) /\ server' = projects
  BY DEF ListInv, ListTypes, Answer
<1>2. PICK d : /\ d = [c EXCEPT !.reply = x] /\ IsCall(d)
               /\ d.op = c.op /\ d.id = c.id /\ d.after = c.after
               /\ d.data = c.data /\ d.reply = x
  BY <1>1, AnsweredCall
<1>3. calls' = (calls \ {c}) \cup {d}
  BY <1>2 DEF Answer
<1>4. CallTypes(d)
  BY <1>2
<1>5. ListTypes' /\ CallsTyped(calls')
  BY <1>1, <1>2, <1>3, <1>4 DEF ListInv, ListTypes, CallsTyped
<1>6. CASE c.op \notin OfList
  <2>1. ListCalls' = ListCalls
    BY <1>2, <1>3, <1>6 DEF ListCalls, Waits
  <2>2. QED
    BY <1>1, <1>5, <1>6, <2>1, ListUntouched DEF ListInv, ListTypes
<1>7. CASE Waits(c) /\ ~doubt
  <2>1. c \in ListCalls
    BY <1>7 DEF ListCalls
  <2>2. ListCalls = {c} /\ Agree(c)
    BY <1>7, <2>1 DEF ListInv, InStep
  <2>3. ListCalls' = {d}
    BY <1>2, <1>3, <1>7, <2>2 DEF ListCalls, Waits
  <2>4. Agree(d)'
    BY <1>2, <1>7, <2>2 DEF Waits
  <2>5. QED
    BY <1>5, <2>3, <2>4 DEF ListInv, InStep
<1>8. CASE doubt \/ (c.after = "gone" /\ c.op \in OfList)
  BY <1>5, <1>8 DEF ListInv, InStep
<1>9. QED
  BY <1>6, <1>7, <1>8 DEF ListInv, ListTypes, Waits

\* The projects in the order that was asked for.
LEMMA OrderedItems ==
  ASSUME server \in Seq(ProjectItem), NEW ids \in Seq(Nat), ToSet(ids) = ToSet(Ids(server))
  PROVE  [i \in DOMAIN ids |-> Item(server, ids[i])] \in Seq(ProjectItem)
<1>1. \A i \in DOMAIN ids : ids[i] \in ToSet(Ids(server))
  BY DEF ToSet
<1>2. \A i \in DOMAIN ids : Item(server, ids[i]) \in ProjectItem
  BY <1>1, PositionOf
<1>3. DOMAIN ids = 1..Len(ids) /\ Len(ids) \in Nat
  OBVIOUS
<1>4. QED
  BY <1>2, <1>3

\* What the backend does.
LEMMA ServeKeepsList ==
  ASSUME ListInv, NEW c \in calls, Serve(c)
  PROVE  ListInv'
<1>1. /\ list \in Seq(ProjectItem) /\ server \in Seq(ProjectItem)
      /\ IsCall(c) /\ CallTypes(c) /\ c.reply = None /\ UNCHANGED list
      /\ doubt' = (doubt \/ (c.after = "gone" /\ c.op \in OfList))
  BY DEF ListInv, ListTypes, Serve, view
<1>2. None \notin Seq(ProjectItem) /\ None \notin ProjectItem /\ None # "done"
  BY ProjectViewAssumption
<1>3. CASE c.op = "list" /\ Answer(c, server, server)
  <2>1. server' = server
    BY <1>3 DEF Answer
  <2>2. ASSUME NEW d, d.op = c.op, d.reply = server
        PROVE  CallTypes(d) /\ Agree(d)'
    BY <1>1, <1>3, <2>1, <2>2 DEF CallTypes, Agree
  <2>3. QED
    BY <1>1, <1>2, <1>3, <2>2, ListAnswered DEF OfList
<1>4. CASE c.op = "create" /\ Answer(c, server, Conflict)
  <2>1. server' = server /\ Conflict \in ProjectItem
    BY <1>4 DEF Answer, Conflict, ProjectItem
  <2>2. ASSUME NEW d, d.op = c.op, d.data = c.data, d.reply = Conflict
        PROVE  CallTypes(d) /\ (Agree(c) => Agree(d)')
    BY <1>1, <1>4, <2>1, <2>2 DEF CallTypes, Agree
  <2>3. QED
    BY <1>1, <1>2, <1>4, <2>1, <2>2, ListAnswered DEF OfList
<1>5. ASSUME c.op = "create",
             LET p == [id |-> NewId, root |-> c.data, ready |-> FALSE]
             IN Answer(c, <<p>> \o server, p)
      PROVE  ListInv'
  <2>1. PICK p : /\ p = [id |-> NewId, root |-> c.data, ready |-> FALSE]
                 /\ Answer(c, <<p>> \o server, p)
    BY <1>5
  <2>2. c.data \in Roots
    BY <1>1, <1>5 DEF CallTypes
  <2>3. p \in ProjectItem /\ p.id # 0
    BY <1>1, <2>1, <2>2, NewIdType DEF ProjectItem
  <2>4. p # Conflict /\ p # None
    BY <1>2, <2>3 DEF Conflict
  <2>5. <<p>> \o server \in Seq(ProjectItem) /\ Ids(<<p>> \o server) = <<p.id>> \o Ids(server)
    BY <1>1, <2>3, PrependedItem
  <2>6. PICK projects \in Seq(ProjectItem) : /\ Answer(c, projects, p)
                                             /\ Ids(projects) = <<p.id>> \o Ids(server)
    BY <2>1, <2>5
  <2>7. server' = projects
    BY <2>6 DEF Answer
  <2>8. ASSUME NEW d, d.op = c.op, d.data = c.data, d.reply = p
        PROVE  CallTypes(d) /\ (Agree(c) => Agree(d)')
    <3>1. CallTypes(d)
      BY <1>1, <1>5, <2>2, <2>3, <2>8 DEF CallTypes
    <3>2. ASSUME Agree(c)
          PROVE  Agree(d)'
      <4>1. Ids(list) = Ids(server)
        BY <1>1, <1>5, <3>2 DEF Agree
      <4>2. Ids(list') = Ids(list) /\ Ids(server') = <<p.id>> \o Ids(list)
        BY <1>1, <2>6, <2>7, <4>1
      <4>3. QED
        BY <1>5, <2>4, <2>8, <4>2 DEF Agree
    <3>3. QED
      BY <3>1, <3>2
  <2>9. QED
    BY <1>1, <1>5, <2>4, <2>6, <2>8, ListAnswered DEF OfList
<1>6. CASE /\ c.op = "scan" /\ Lists(server, c.id)
           /\ Answer(c, [server EXCEPT ![Position(server, c.id)].ready = TRUE], "done")
  <2>1. Position(server, c.id) \in DOMAIN server
    BY <1>1, <1>6, PositionOf
  <2>2. PICK projects \in Seq(ProjectItem) : /\ Answer(c, projects, "done")
                                             /\ Ids(projects) = Ids(server)
    BY <1>1, <1>6, <2>1, ReadyItem
  <2>3. \A d : d.op = c.op => CallTypes(d)
    BY <1>6 DEF CallTypes
  <2>4. QED
    BY <1>1, <1>2, <1>6, <2>2, <2>3, ListAnswered DEF OfList
<1>7. ASSUME c.op = "reorder", ToSet(c.data) = ToSet(Ids(server)),
             LET ordered == [i \in DOMAIN c.data |-> Item(server, c.data[i])]
             IN Answer(c, ordered, ordered)
      PROVE  ListInv'
  <2>1. c.data \in Seq(Nat)
    BY <1>1, <1>7 DEF CallTypes
  <2>2. PICK ordered \in Seq(ProjectItem) : Answer(c, ordered, ordered)
    BY <1>1, <1>7, <2>1, OrderedItems
  <2>3. server' = ordered
    BY <2>2 DEF Answer
  <2>4. ASSUME NEW d, d.op = c.op, d.data = c.data, d.reply = ordered
        PROVE  CallTypes(d) /\ Agree(d)'
    <3>1. CallTypes(d)
      BY <1>7, <2>1, <2>4 DEF CallTypes
    <3>2. QED
      BY <1>2, <1>7, <2>3, <2>4, <3>1 DEF Agree
  <2>5. QED
    BY <1>1, <1>2, <1>7, <2>2, <2>4, ListAnswered DEF OfList
<1>8. CASE /\ c.op = "delete" /\ Lists(server, c.id)
           /\ Answer(c, RemoveAt(server, Position(server, c.id)), "done")
  <2>1. Position(server, c.id) \in DOMAIN server /\ Position(server, c.id) # 0
    BY <1>1, <1>8, PositionOf DEF Lists
  <2>2. PICK projects \in Seq(ProjectItem) :
          /\ Answer(c, projects, "done")
          /\ Ids(projects) = RemoveAt(Ids(server), Position(server, c.id))
    BY <1>1, <1>8, <2>1, RemovedItem
  <2>3. server' = projects
    BY <2>2 DEF Answer
  <2>4. ASSUME NEW d, d.op = c.op, d.id = c.id, d.data = c.data, d.reply = "done"
        PROVE  CallTypes(d) /\ (Agree(c) => Agree(d)')
    <3>1. CallTypes(d)
      BY <1>8, <2>4 DEF CallTypes
    <3>2. ASSUME Agree(c)
          PROVE  Agree(d)'
      <4>1. Ids(list) = Ids(server) /\ c.data = Position(list, c.id)
        BY <1>1, <1>8, <3>2 DEF Agree
      <4>2. Position(list, c.id) = Position(server, c.id)
        BY <4>1 DEF Position
      <4>3. Position(list', d.id) = Position(list, c.id)
        BY <1>1, <2>4 DEF Position
      <4>4. Ids(list') = Ids(list)
        BY <1>1
      <4>5. Ids(server') = RemoveAt(Ids(list'), d.data)
        BY <2>2, <2>3, <2>4, <4>1, <4>2, <4>4
      <4>6. QED
        BY <1>2, <1>8, <2>1, <2>4, <4>1, <4>2, <4>3, <4>5 DEF Agree
    <3>3. QED
      BY <3>1, <3>2
  <2>5. QED
    BY <1>1, <1>2, <1>8, <2>2, <2>4, ListAnswered DEF OfList
<1>9. CASE c.op = "index" /\ Answer(c, server, "done")
  <2>1. \A d : d.op = c.op => CallTypes(d)
    BY <1>9 DEF CallTypes
  <2>2. QED
    BY <1>1, <1>2, <1>9, <2>1, ListAnswered DEF OfList
<1>10. QED
  BY <1>3, <1>4, <1>5, <1>6, <1>7, <1>8, <1>9 DEF Serve

\* The calls of the list beside the one that is delivered.
LEMMA RestOf ==
  ASSUME ListInv, NEW c \in calls, c.after # "gone"
  PROVE  /\ c.op \in OfList /\ ~doubt => Rest(c) = {} /\ Stale(Rest(c)) = {} /\ Agree(c)
         /\ c.op \notin OfList => Rest(c) = ListCalls
BY DEF ListInv, InStep, ListCalls, Rest, Stale, Waits

\* The handler of another call ends, or sends its next call.
LEMMA OtherEnded ==
  ASSUME ListInv, UNCHANGED server, list' \in Seq(ProjectItem), Ids(list') = Ids(list),
         NEW c \in calls, c.op \notin OfList, doubt' \in BOOLEAN, ~doubt' => ~doubt,
         \/ calls' = calls \ {c}
         \/ \E d : /\ IsCall(d) /\ d.op \in {"scan_stats", "diagnostics"}
                   /\ calls' = (calls \ {c}) \cup {d}
  PROVE  ListInv'
<1>1. \A d : d.op \in {"scan_stats", "diagnostics"} => CallTypes(d) /\ ~Waits(d)
  BY DEF CallTypes, OfList, Waits
<1>2. CallsTyped(calls') /\ ListCalls' = ListCalls
  BY <1>1 DEF ListInv, ListTypes, CallsTyped, ListCalls, Waits
<1>3. QED
  BY <1>2, ListUntouched DEF ListInv, ListTypes

\* selectProject ends, with its answers or without them.
LEMMA StatsEnded ==
  ASSUME ListInv, UNCHANGED <<server, list, doubt>>, NEW c \in calls, c.op \notin OfList,
         c.after # "gone", calls' = Diagnosing(c)
  PROVE  ListInv'
<1>1. CallsTyped(calls)
  BY DEF ListInv, ListTypes, CallsTyped
<1>2. CallsTyped(calls') /\ ListCalls' = ListCalls
  BY <1>1, DiagnosingTyped, RestOf DEF ListCalls
<1>3. QED
  BY <1>2, ListUntouched DEF ListInv, ListTypes

\* register after a conflict, when the list is not loaded again.
LEMMA OtherSelects ==
  ASSUME ListInv, UNCHANGED <<server, list>>, NEW c \in calls, c.op \notin OfList,
         c.after # "gone", SelectExisting(c, list, Diagnosing(c)), UNCHANGED doubt
  PROVE  ListInv'
<1>1. CallsTyped(calls)
  BY DEF ListInv, ListTypes, CallsTyped
<1>2. CallsTyped(calls') /\ ListCalls' = Stale(ListCalls)
  BY <1>1, DiagnosingTyped, ExistingTyped, RestOf
<1>3. QED
  BY <1>2, ListUntouched DEF ListInv, ListTypes

\* A handler that loads the list.
LEMMA LoadBegun ==
  ASSUME ListInv, UNCHANGED <<server, list>>, NEW others, CallsTyped(others), NEW after,
         after # "gone", Reload(others, after)
  PROVE  ListInv'
<1>1. PICK d : /\ d = Call("list", selected, after, None) /\ IsCall(d)
               /\ d.op = "list" /\ d.after = after /\ d.reply = None
  BY NewCall
<1>2. CallTypes(d) /\ d.op \in OfList
  BY <1>1 DEF CallTypes, OfList
<1>3. calls' = others \cup {d} /\ doubt' = (doubt \/ Meets(d, others))
  BY <1>1 DEF Reload
<1>4. doubt' \in BOOLEAN /\ (~doubt' => ~doubt /\ ~Meets(d, others))
  BY <1>3 DEF Meets, ListInv, ListTypes
<1>5. QED
  BY <1>1, <1>2, <1>3, <1>4, ListBegun

\* What is delivered.
LEMMA DeliveryKeepsList ==
  ASSUME ListInv, NEW c \in calls, Deliver(c)
  PROVE  ListInv'
<1>1. /\ list \in Seq(ProjectItem) /\ server \in Seq(ProjectItem) /\ doubt \in BOOLEAN
      /\ IsCall(c) /\ CallTypes(c) /\ CallsTyped(calls)
      /\ UNCHANGED server /\ CallsTyped(calls \ {c}) /\ c.after # "gone"
  BY DEF ListInv, ListTypes, CallsTyped, Deliver
<1>2. c.op \notin Reads => c.reply # None
  BY DEF Deliver
<1>3. ASSUME NEW l, NEW id, NEW after, SelectProject(l, id, calls \ {c}, after)
      PROVE  CallsTyped(calls') /\ ListCalls' = Stale(Rest(c))
  BY <1>1, <1>3, SelectTyped DEF Rest
<1>4. CASE DeliverList(c)
  <2>1. c.op = "list" /\ list' = c.reply /\ UNCHANGED doubt
    BY <1>4 DEF DeliverList
  <2>2. c.op \in OfList /\ c.reply # None
    BY <1>2, <2>1 DEF OfList, Reads
  <2>3. list' \in Seq(ProjectItem)
    BY <1>1, <2>1, <2>2 DEF CallTypes
  <2>4. CallsTyped(calls') /\ ListCalls' = Stale(Rest(c))
    <3>1. CASE \E l : SelectExisting(c, l, calls \ {c})
      BY <1>1, <3>1, ExistingTyped DEF Rest
    <3>2. CASE \E l, id, after : SelectProject(l, id, calls \ {c}, after)
      BY <1>3, <3>2
    <3>3. QED
      BY <1>4, <3>1, <3>2 DEF DeliverList
  <2>5. ~doubt => ListCalls' = {} /\ Agree(c)
    BY <1>1, <2>2, <2>4, RestOf
  <2>6. ~doubt => Ids(list') = Ids(server')
    BY <1>1, <2>1, <2>2, <2>5 DEF Agree
  <2>7. QED
    BY <1>1, <2>1, <2>3, <2>4, <2>5, <2>6, ListSettled
<1>5. CASE DeliverCreate(c)
  <2>1. c.op = "create" /\ c.reply # Conflict /\ list' = <<c.reply>> \o list /\ UNCHANGED doubt
    BY <1>5 DEF DeliverCreate
  <2>2. c.op \in OfList /\ c.reply # None
    BY <1>2, <2>1 DEF OfList, Reads
  <2>3. PICK p \in ProjectItem : p = c.reply
    BY <1>1, <2>1, <2>2 DEF CallTypes
  <2>4. list' \in Seq(ProjectItem) /\ Ids(list') = <<p.id>> \o Ids(list)
    BY <1>1, <2>1, <2>3, PrependedItem
  <2>5. CallsTyped(calls') /\ ListCalls' = Stale(Rest(c))
    BY <1>3, <1>5 DEF DeliverCreate
  <2>6. ~doubt => ListCalls' = {} /\ Agree(c)
    BY <1>1, <2>2, <2>5, RestOf
  <2>7. ~doubt => Ids(list') = Ids(server')
    BY <1>1, <2>1, <2>2, <2>3, <2>4, <2>6 DEF Agree
  <2>8. QED
    BY <1>1, <2>1, <2>4, <2>5, <2>6, <2>7, ListSettled
<1>6. CASE DeliverConflict(c)
  BY <1>1, <1>6, LoadBegun DEF DeliverConflict
<1>7. CASE DeliverScan(c)
  <2>1. list' \in Seq(ProjectItem) /\ Ids(list') = Ids(list)
    BY <1>1, <1>7, ReadyItem DEF DeliverScan
  <2>2. PICK d : d = Call("scan_stats", c.id, "scan", None) /\ IsCall(d) /\ d.op = "scan_stats"
    BY NewCall
  <2>3. calls' = (calls \ {c}) \cup {d} /\ UNCHANGED doubt /\ c.op \notin OfList
    BY <1>7, <2>2 DEF DeliverScan, Continue, OfList
  <2>4. QED
    BY <1>1, <2>1, <2>2, <2>3, OtherEnded
<1>8. CASE DeliverScanStats(c)
  <2>1. PICK d : d = Call("diagnostics", c.id, "scan", None) /\ IsCall(d) /\ d.op = "diagnostics"
    BY NewCall
  <2>2. calls' = (calls \ {c}) \cup {d} /\ UNCHANGED <<list, doubt>> /\ c.op \notin OfList
    BY <1>8, <2>1 DEF DeliverScanStats, Continue, OfList
  <2>3. QED
    BY <1>1, <2>1, <2>2, OtherEnded
<1>9. CASE DeliverStats(c)
  <2>1. calls' = Diagnosing(c) /\ UNCHANGED <<list, doubt>> /\ c.op \notin OfList
    BY <1>9 DEF DeliverStats, OfList
  <2>2. QED
    BY <1>1, <2>1, StatsEnded
<1>10. CASE DeliverStatsConflict(c)
  BY <1>1, <1>10, OtherSelects DEF DeliverStatsConflict, OfList
<1>11. CASE DeliverDiagnostics(c) \/ DeliverIndex(c)
  BY <1>1, <1>11, OtherEnded DEF DeliverDiagnostics, DeliverIndex, Return, OfList
<1>12. CASE DeliverReorder(c)
  <2>1. c.op = "reorder" /\ list' = c.reply /\ UNCHANGED doubt /\ calls' = calls \ {c}
    BY <1>12 DEF DeliverReorder, Return
  <2>2. c.op \in OfList /\ c.reply # None
    BY <1>2, <2>1 DEF OfList, Reads
  <2>3. list' \in Seq(ProjectItem)
    BY <1>1, <2>1, <2>2 DEF CallTypes
  <2>4. CallsTyped(calls') /\ ListCalls' = Rest(c)
    BY <1>1, <2>1 DEF ListCalls, Rest
  <2>5. ~doubt => ListCalls' = {} /\ Agree(c)
    BY <1>1, <2>2, <2>4, RestOf
  <2>6. ~doubt => Ids(list') = Ids(server')
    BY <1>1, <2>1, <2>2, <2>5 DEF Agree
  <2>7. QED
    BY <1>1, <2>1, <2>3, <2>4, <2>5, <2>6, ListSettled
<1>13. CASE DeliverDelete(c)
  <2>1. c.op = "delete" /\ list' = Splice(list, c.data) /\ UNCHANGED doubt
    BY <1>13 DEF DeliverDelete
  <2>2. c.op \in OfList /\ c.reply # None
    BY <1>2, <2>1 DEF OfList, Reads
  <2>3. list' \in Seq(ProjectItem)
    BY <1>1, <2>1, SplicedItem
  <2>4. CallsTyped(calls') /\ ListCalls' = Stale(Rest(c))
    BY <1>3, <1>13 DEF DeliverDelete
  <2>5. ~doubt => ListCalls' = {} /\ Agree(c)
    BY <1>1, <2>2, <2>4, RestOf
  <2>6. ASSUME ~doubt
        PROVE  Ids(list') = Ids(server')
    <3>1. /\ c.data = Position(list, c.id) /\ c.data # 0
          /\ Ids(server) = RemoveAt(Ids(list), c.data)
      BY <2>1, <2>2, <2>5, <2>6 DEF Agree
    <3>2. c.data \in DOMAIN list
      BY <1>1, <3>1, PositionOf DEF Lists
    <3>3. QED
      BY <1>1, <2>1, <3>1, <3>2, SplicedItem
  <2>7. QED
    BY <1>1, <2>1, <2>3, <2>4, <2>5, <2>6, ListSettled
<1>14. QED
  BY <1>4, <1>5, <1>6, <1>7, <1>8, <1>9, <1>10, <1>11, <1>12, <1>13 DEF Deliver

\* What is delivered as a failure.
LEMMA FailureKeepsList ==
  ASSUME ListInv, NEW c \in calls, DeliverFailure(c)
  PROVE  ListInv'
<1>1. /\ list \in Seq(ProjectItem) /\ server \in Seq(ProjectItem) /\ doubt \in BOOLEAN
      /\ IsCall(c) /\ CallTypes(c) /\ CallsTyped(calls) /\ CallsTyped(calls \ {c})
      /\ c.after # "gone" /\ UNCHANGED <<list, server>>
  BY DEF ListInv, ListTypes, CallsTyped, DeliverFailure
<1>2. CASE FailList(c)
  <2>1. CallsTyped(calls')
    <3>1. CASE SelectExisting(c, list, calls \ {c})
      BY <1>1, <3>1, ExistingTyped
    <3>2. CASE calls' = calls \ {c}
      BY <1>1, <3>2
    <3>3. QED
      BY <1>2, <3>1, <3>2 DEF FailList, Return
  <2>2. doubt' = TRUE
    BY <1>2 DEF FailList
  <2>3. QED
    BY <1>1, <2>1, <2>2, ListSettled
<1>3. CASE FailReorder(c)
  <2>1. PICK others \in Failed(c) : Reload(others, "reload")
    BY <1>3 DEF FailReorder
  <2>2. CallsTyped(others)
    BY <1>1, <2>1, FailedTyped
  <2>3. QED
    BY <1>1, <2>1, <2>2, LoadBegun
<1>4. CASE FailStats(c)
  <2>1. c.op \notin OfList /\ UNCHANGED doubt
    BY <1>4 DEF FailStats, OfList
  <2>2. CASE SelectExisting(c, list, Diagnosing(c))
    BY <1>1, <2>1, <2>2, OtherSelects
  <2>3. CASE calls' = Diagnosing(c)
    BY <1>1, <2>1, <2>3, StatsEnded
  <2>4. QED
    BY <1>4, <2>2, <2>3 DEF FailStats
<1>5. CASE FailOther(c)
  <2>1. calls' \in Failed(c) /\ c.op \notin {"list", "reorder"}
    BY <1>5 DEF FailOther
  <2>2. CallsTyped(calls') /\ ListCalls' = Rest(c)
    BY <1>1, <2>1, FailedTyped DEF ListCalls
  <2>3. CASE c.op \notin OfList
    <3>1. doubt' = doubt /\ ListCalls' = ListCalls
      BY <1>1, <1>5, <2>2, <2>3, RestOf DEF FailOther
    <3>2. QED
      BY <1>1, <2>2, <3>1, ListUntouched
  <2>4. CASE c.op \in OfList
    <3>1. c.op \in {"create", "delete"}
      BY <2>1, <2>4 DEF OfList
    <3>2. doubt' \in BOOLEAN
      BY <1>1, <1>5 DEF FailOther
    <3>3. ASSUME ~doubt'
          PROVE  ListCalls' = {} /\ Ids(list') = Ids(server')
      <4>1. ~doubt /\ (c.reply = None \/ (c.op = "create" /\ c.reply = Conflict))
        BY <1>5, <2>4, <3>3 DEF FailOther
      <4>2. Agree(c) /\ ListCalls' = {}
        BY <1>1, <2>2, <2>4, <4>1, RestOf
      <4>3. Ids(list) = Ids(server)
        BY <3>1, <4>1, <4>2 DEF Agree
      <4>4. QED
        BY <1>1, <4>2, <4>3
    <3>4. QED
      BY <1>1, <2>2, <3>2, <3>3, ListSettled
  <2>5. QED
    BY <2>3, <2>4
<1>6. QED
  BY <1>2, <1>3, <1>4, <1>5 DEF DeliverFailure

\* What goes on also when the page was left, its end and its beginning.
LEMMA BehindKeepsList ==
  ASSUME ListInv, BackendNext \/ ProjectLeave \/ ProjectMount
  PROVE  ListInv'
<1>1. /\ list \in Seq(ProjectItem) /\ server \in Seq(ProjectItem) /\ doubt \in BOOLEAN
      /\ CallsTyped(calls)
  BY DEF ListInv, ListTypes, CallsTyped
<1>2. ASSUME NEW c \in calls, Forget(c)
      PROVE  ListInv'
  <2>1. /\ calls' = calls \ {c} /\ c.after = "gone" /\ UNCHANGED <<list, server, doubt>>
    BY <1>2 DEF Forget, view
  <2>2. CallsTyped(calls')
    BY <1>1, <2>1 DEF CallsTyped
  <2>3. ListCalls' = ListCalls
    BY <2>1 DEF ListCalls, Waits
  <2>4. QED
    BY <1>1, <2>1, <2>2, <2>3, ListUntouched
<1>3. CASE ProjectLeave
  <2>1. ASSUME NEW c \in calls
        PROVE  CallsTyped(Gone(c))
    BY <1>1, GoneTyped DEF CallsTyped
  <2>2. CallsTyped(calls')
    BY <1>3, <2>1 DEF ProjectLeave, CallsTyped
  <2>3. list' = <<>> /\ server' = server /\ doubt' = TRUE
    BY <1>3 DEF ProjectLeave
  <2>4. QED
    BY <1>1, <2>2, <2>3, ListSettled
<1>4. CASE ProjectMount
  <2>1. PICK c : /\ c = Call("list", None, "load", None) /\ IsCall(c)
                 /\ c.op = "list" /\ c.after = "load" /\ c.reply = None
    BY NewCall
  <2>2. CallTypes(c) /\ c.op \in OfList
    BY <2>1 DEF CallTypes, OfList
  <2>3. calls' = calls \cup {c} /\ doubt' = Meets(c, calls) /\ UNCHANGED <<list, server>>
    BY <1>4, <2>1 DEF ProjectMount
  <2>4. CallsTyped(calls') /\ doubt' \in BOOLEAN
    BY <1>1, <2>1, <2>2, <2>3 DEF CallsTyped, Meets
  <2>5. ASSUME ~doubt'
        PROVE  ListCalls' = {c} /\ Agree(c)'
    <3>1. \A d \in calls : d.op \notin OfList
      BY <2>2, <2>3, <2>5 DEF Meets
    <3>2. ListCalls' = {c}
      BY <2>1, <2>2, <2>3, <3>1 DEF ListCalls, Waits
    <3>3. Agree(c)'
      BY <2>1 DEF Agree
    <3>4. QED
      BY <2>1, <3>2, <3>3
  <2>6. QED
    BY <1>1, <2>3, <2>4, <2>5 DEF ListInv, ListTypes, InStep, CallsTyped
<1>5. QED
  BY <1>2, <1>3, <1>4, ServeKeepsList DEF BackendNext

\* ListInv is an invariant.
LEMMA ListInvHolds == Spec => []ListInv
<1>1. Init => ListInv
  <2>1. SUFFICES ASSUME Init PROVE ListInv
    OBVIOUS
  <2>2. PICK start \in Starts : ProjectInit(start.projects)
    BY <2>1 DEF Init
  <2>3. server \in Seq(ProjectItem) /\ list = <<>> /\ calls = {} /\ doubt = TRUE
    BY <2>2, StartsAssumption DEF ProjectInit
  <2>4. QED
    BY <2>3 DEF ListInv, ListTypes, InStep
<1>2. ListInv /\ [Next]_frontendVars => ListInv'
  <2>1. SUFFICES ASSUME ListInv, [Next]_frontendVars PROVE ListInv'
    OBVIOUS
  <2>2. ASSUME UNCHANGED <<server, view, calls, doubt>>
        PROVE  ListInv'
    <3>1. UNCHANGED <<server, list, doubt>> /\ ListCalls' = ListCalls
      BY <2>2 DEF view, ListCalls
    <3>2. CallsTyped(calls')
      BY <2>1, <2>2 DEF ListInv, ListTypes, CallsTyped
    <3>3. QED
      BY <2>1, <3>1, <3>2, ListUntouched DEF ListInv, ListTypes
  <2>3. CASE ProjectStep
    BY <2>1, <2>3, UserKeepsList, DeliveryKeepsList, FailureKeepsList, BehindKeepsList
       DEF ProjectStep, ProjectPageNext
  <2>4. ASSUME NEW page, Visit(page)
        PROVE  ListInv'
    BY <2>1, <2>2, <2>4, BehindKeepsList DEF Visit, Leave, Mount
  <2>5. QED
    BY <2>1, <2>2, <2>3, <2>4
       DEF Next, frontendVars, pages, projectVars, QueryStep, ChatStep
<1>3. QED
  BY <1>1, <1>2, PTL DEF Spec

\* The page changes its list itself after a registration or a deletion
\* instead of loading it again.  When it waits for no such call, what it shows
\* is what the backend has, in its order, also after calls were refused or have
\* not come there, but for three cases: such calls have overlapped, an answer
\* was lost, and the backend did what the page had seen fail.
THEOREM ListStaysInStep == Spec => []ListInStep
<1>1. ListInv => ListInStep
  BY DEF ListInv, InStep, ListInStep, ListCalls
<1>2. QED
  BY <1>1, ListInvHolds, PTL
=============================================================================

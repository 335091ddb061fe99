------------------------- MODULE ConversationPromise -------------------------
(***************************************************************************)
(* What the conversations of a project promise their users: a question is  *)
(* stored together with its answer or not at all, an answer was accepted,  *)
(* a conversation belongs to one source directory and only grows, and it   *)
(* goes as a whole when the directory is removed.                          *)
(***************************************************************************)
EXTENDS Sequences

CONSTANTS
  Roots,     \* source directories
  ConvIds,   \* names of conversations, which may be used again
  Messages,  \* questions and answers
  Nobody     \* the owner of a conversation that there is not

VARIABLES
  registered,  \* the directories that are registered
  owner,       \* conversation -> the directory it is about, or Nobody
  said         \* conversation -> what was asked and answered in it

vars == <<registered, owner, said>>

Init ==
  /\ registered = {}
  /\ owner = [c \in ConvIds |-> Nobody]
  /\ said = [c \in ConvIds |-> <<>>]

\* One question about r and its answer.
IsExchange(q, a, r) ==
  /\ q.role = "user" /\ q.root = r
  /\ a.role = "assistant" /\ a.root = r /\ a.answer = "ok"
  /\ a.exchange = q.exchange

\* What is said in c goes on with one exchange about r.
Exchange(c, r) ==
  \E q, a \in Messages :
    /\ IsExchange(q, a, r)
    /\ said' = [said EXCEPT ![c] = said[c] \o <<q, a>>]

Register(r) ==
  /\ r \notin registered
  /\ registered' = registered \cup {r}
  /\ UNCHANGED <<owner, said>>

Open(c, r) ==
  /\ owner[c] = Nobody /\ said[c] = <<>>
  /\ r \in registered
  /\ owner' = [owner EXCEPT ![c] = r]
  /\ Exchange(c, r)
  /\ UNCHANGED registered

Continue(c) ==
  /\ owner[c] \in registered
  /\ Exchange(c, owner[c])
  /\ UNCHANGED <<registered, owner>>

Delete(r) ==
  /\ r \in registered
  /\ registered' = registered \ {r}
  /\ owner' = [c \in ConvIds |-> IF owner[c] = r THEN Nobody ELSE owner[c]]
  /\ said' = [c \in ConvIds |-> IF owner[c] = r THEN <<>> ELSE said[c]]

Next ==
  \/ \E r \in Roots : Register(r) \/ Delete(r)
  \/ \E c \in ConvIds : Continue(c) \/ \E r \in Roots : Open(c, r)

Spec == Init /\ [][Next]_vars
=============================================================================

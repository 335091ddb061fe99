--------------------------- MODULE AgentChatProofs ---------------------------
(***************************************************************************)
(* Theorems about AgentChat, for any number of clients, of deletions at    *)
(* once, of rows and of messages in a working memory.                      *)
(***************************************************************************)
EXTENDS AgentChat, AscendingProofs

Threads == Clients \cup Deleters
ClientPlaces == {"idle", "check_memory", "read_memory", "generate", "repair",
                 "check_target", "save"}
DeleterPlaces == {"idle", "delete_load", "delete_commit"}

TableTypes ==
  /\ projects \in [ProjectIds -> Roots \cup {None}]
  /\ conversations \in [ConvIds -> Conversation \cup {None}]
  /\ messages \in [MsgIds -> Message \cup {None}]
  /\ disturbed \in BOOLEAN

LocalTypes ==
  /\ pc \in [Threads -> ClientPlaces \cup DeleterPlaces]
  /\ \A t \in Clients : pc[t] \in ClientPlaces
  /\ \A d \in Deleters : pc[d] \in DeleterPlaces
  /\ pid \in [Threads -> ProjectIds \cup {None}]
  /\ \A t \in Threads : pc[t] # "idle" => pid[t] \in ProjectIds
  /\ conv \in [Clients -> ConvIds \cup {None}]
  /\ asked \in [Clients -> Roots \cup {None}]
  /\ \A t \in Clients : pc[t] # "idle" /\ conv[t] = None => asked[t] \in Roots
  /\ memory \in [Clients -> Seq(Message)]
  /\ draft \in [Clients -> Answers \cup {None}]
  /\ loaded \in [Deleters -> [convs : SUBSET ConvIds, msgs : SUBSET MsgIds]]

Types == TableTypes /\ LocalTypes

-----------------------------------------------------------------------------
(* Operators of the model.                                                 *)

\* The row a table gets next is after all others, and directly after one.
LEMMA NextRow ==
  ASSUME NEW table, DOMAIN table \subseteq Nat, IsFiniteSet(DOMAIN table)
  PROVE  /\ Next1(table) \in Nat \ {0}
         /\ \A i \in Used(table) : i < Next1(table)
         /\ Next1(table) - 1 \in Used(table) \cup {0}
<1> DEFINE S == Used(table) \cup {0}
<1>1. Used(table) \in SUBSET DOMAIN table
  BY DEF Used
<1>2. S \in SUBSET Nat /\ S # {}
  BY <1>1
<1>3. IsFiniteSet(S)
  BY <1>1, FS_Subset, FS_AddElement
<1>4. \E m \in S : \A i \in S : i <= m
  BY <1>2, <1>3, LargestExists
<1>5. \E m \in S : \A i \in S : m >= i
  BY <1>2, <1>4
<1>6. Max(S) \in S /\ \A i \in S : Max(S) >= i
  BY <1>5 DEF Max
<1>7. Next1(table) = Max(S) + 1
  BY DEF Next1
<1>8. QED
  BY <1>2, <1>6, <1>7

\* The messages of a conversation, in their order, are messages of it.
LEMMA HistoryType ==
  ASSUME TableTypes, NEW c
  PROVE  /\ MessagesOf(c) \in SUBSET MsgIds
         /\ MsgIds \subseteq Nat /\ IsFiniteSet(MessagesOf(c))
         /\ messages \in Seq(Message \cup {None})
         /\ History(c) \in Seq(Message)
         /\ Len(History(c)) = Cardinality(MessagesOf(c))
         /\ \A k \in 1..Cardinality(MessagesOf(c)) :
              \E m \in MessagesOf(c) : History(c)[k] = messages[m]
<1>1. MsgIds = 1..Cardinality(MsgIds) /\ Cardinality(MsgIds) \in Nat
  BY ChatAssumption, FS_CardinalityType
<1>2. messages \in Seq(Message \cup {None}) /\ DOMAIN messages = MsgIds
  BY <1>1 DEF TableTypes
<1>3. MessagesOf(c) \in SUBSET MsgIds
  BY <1>2 DEF MessagesOf, Used
<1>4. IsFiniteSet(MessagesOf(c))
  BY <1>3, ChatAssumption, FS_Subset
<1>5. /\ History(c) \in Seq(Message \cup {None})
      /\ Len(History(c)) = Cardinality(MessagesOf(c))
      /\ \A k \in 1..Cardinality(MessagesOf(c)) :
           \E m \in MessagesOf(c) : History(c)[k] = messages[m]
  BY <1>2, <1>3, SubSequenceType DEF History
<1>6. \A m \in MessagesOf(c) : messages[m] \in Message
  BY DEF MessagesOf, Used, TableTypes
<1>7. \A k \in 1..Len(History(c)) : History(c)[k] \in Message
  BY <1>5, <1>6
<1>8. History(c) \in Seq(Message)
  BY <1>5, <1>7
<1>9. QED
  BY <1>1, <1>3, <1>2, <1>4, <1>5, <1>8

\* The working memory is the end of the history.
LEMMA RecentType ==
  ASSUME NEW T, NEW s \in Seq(T)
  PROVE  /\ Recent(s) \in Seq(T)
         /\ Len(Recent(s)) = IF Len(s) > MaxMemory THEN MaxMemory ELSE Len(s)
         /\ \A k \in 1..Len(Recent(s)) :
              /\ Len(s) - Len(Recent(s)) + k \in 1..Len(s)
              /\ Recent(s)[k] = s[Len(s) - Len(Recent(s)) + k]
<1>1. MaxMemory \in Nat /\ Len(s) \in Nat
  BY ChatAssumption
<1>2. CASE Len(s) > MaxMemory
  <2>1. PICK a \in Nat : a = Len(s) - MaxMemory + 1
    BY <1>1, <1>2
  <2>2. Recent(s) = SubSeq(s, a, Len(s))
    BY <1>2, <2>1 DEF Recent
  <2>3. a \in 1..(Len(s) + 1)
    BY <1>1, <1>2, <2>1
  <2>4. Recent(s) \in Seq(T) /\ Len(Recent(s)) = Len(s) - a + 1
    BY <1>1, <2>2, <2>3
  <2>5. \A k \in 1..Len(Recent(s)) : Recent(s)[k] = s[a + k - 1]
    BY <1>1, <2>2, <2>3, <2>4
  <2>6. QED
    BY <1>1, <1>2, <2>1, <2>3, <2>4, <2>5
<1>3. CASE ~ (Len(s) > MaxMemory)
  <2>1. Recent(s) = SubSeq(s, 1, Len(s))
    BY <1>3 DEF Recent
  <2>2. Recent(s) = s
    BY <1>1, <2>1
  <2>3. QED
    BY <1>1, <1>3, <2>2
<1>4. QED
  BY <1>2, <1>3

-----------------------------------------------------------------------------
(* The types, kept by every step.                                          *)

\* A request that ends leaves nothing behind in its thread.
LEMMA FinishTypes ==
  ASSUME LocalTypes, NEW t \in Clients, Finish(t), loaded' = loaded
  PROVE  LocalTypes'
<1> USE DEF LocalTypes, Finish, Goto, Threads, ClientPlaces, DeleterPlaces
<1>1. t \notin Deleters
  BY ChatAssumption
<1>2. pc' \in [Threads -> ClientPlaces \cup DeleterPlaces]
  OBVIOUS
<1>3. /\ \A u \in Clients : pc'[u] \in ClientPlaces
      /\ \A d \in Deleters : pc'[d] \in DeleterPlaces
  BY <1>1
<1>4. pid' \in [Threads -> ProjectIds \cup {None}]
  OBVIOUS
<1>5. \A u \in Threads : pc'[u] # "idle" => pid'[u] \in ProjectIds
  OBVIOUS
<1>6. conv' \in [Clients -> ConvIds \cup {None}] /\ asked' \in [Clients -> Roots \cup {None}]
  OBVIOUS
<1>7. \A u \in Clients : pc'[u] # "idle" /\ conv'[u] = None => asked'[u] \in Roots
  OBVIOUS
<1>8. memory' \in [Clients -> Seq(Message)]
  <2>1. <<>> \in Seq(Message)
    OBVIOUS
  <2>2. QED
    BY <2>1
<1>9. draft' \in [Clients -> Answers \cup {None}]
  OBVIOUS
<1>10. QED
  BY <1>2, <1>3, <1>4, <1>5, <1>6, <1>7, <1>8, <1>9

\* The two messages of an exchange are rows of their table.
LEMMA ExchangeRows ==
  ASSUME Types, NEW t \in Clients, NEW c \in ConvIds, Exchange(t, c)
  PROVE  LET n == Next1(messages)
             question == [conv |-> c, role |-> "user", exchange |-> n,
                          answer |-> None, root |-> asked[t]]
             answer == [question EXCEPT !.role = "assistant", !.answer = draft[t]]
         IN  /\ n \in MsgIds /\ n + 1 \in MsgIds
             /\ n \in Nat \ {0}
             /\ \A i \in Used(messages) : i < n
             /\ n - 1 \in Used(messages) \cup {0}
             /\ question \in Message /\ answer \in Message
             /\ messages' = [messages EXCEPT ![n] = question, ![n + 1] = answer]
             /\ Used(messages') = Used(messages) \cup {n, n + 1}
             /\ messages' \in [MsgIds -> Message \cup {None}]
<1> DEFINE n == Next1(messages)
           question == [conv |-> c, role |-> "user", exchange |-> n,
                        answer |-> None, root |-> asked[t]]
           answer == [question EXCEPT !.role = "assistant", !.answer = draft[t]]
<1>0. MsgIds \subseteq Nat
  BY ChatAssumption, FS_CardinalityType
<1>1. DOMAIN messages = MsgIds /\ MsgIds \subseteq Nat /\ IsFiniteSet(MsgIds)
  BY <1>0, ChatAssumption DEF Types, TableTypes
<1>2. /\ n \in Nat \ {0}
      /\ \A i \in Used(messages) : i < n
      /\ n - 1 \in Used(messages) \cup {0}
  BY <1>1, NextRow
<1>3. n + 1 \in MsgIds
  BY DEF Exchange
<1>4. n \in MsgIds
  BY <1>2, <1>3, ChatAssumption, FS_CardinalityType
<1>5. question \in Message
  BY <1>4 DEF Message, Types, LocalTypes
<1>6. answer \in Message
  BY <1>4 DEF Message, Types, LocalTypes
<1>7. messages' = [messages EXCEPT ![n] = question, ![n + 1] = answer]
  BY DEF Exchange
<1> HIDE DEF question, answer, n
<1>8. messages' \in [MsgIds -> Message \cup {None}]
  BY <1>5, <1>6, <1>7 DEF Types, TableTypes
<1>9. ASSUME NEW i \in MsgIds
      PROVE  messages'[i] # None <=> messages[i] # None \/ i \in {n, n + 1}
  BY <1>1, <1>3, <1>4, <1>5, <1>6, <1>7, ChatAssumption DEF Types, TableTypes
<1>10. Used(messages') = Used(messages) \cup {n, n + 1}
  BY <1>1, <1>3, <1>4, <1>8, <1>9 DEF Used
<1>11. QED
  BY <1>2, <1>3, <1>4, <1>5, <1>6, <1>7, <1>8, <1>10 DEF n, question, answer

\* An opened conversation is a row of its table.
LEMMA OpenedRow ==
  ASSUME Types, NEW t \in Clients, pc[t] = "save", conv[t] = None,
         Next1(conversations) \in ConvIds,
         conversations' = [conversations EXCEPT
           ![Next1(conversations)] = [project |-> pid[t], root |-> asked[t]]]
  PROVE  /\ Next1(conversations) \notin Used(conversations)
         /\ [project |-> pid[t], root |-> asked[t]] \in Conversation
         /\ conversations' \in [ConvIds -> Conversation \cup {None}]
<1>1. DOMAIN conversations \subseteq Nat /\ IsFiniteSet(DOMAIN conversations)
  BY ChatAssumption DEF Types, TableTypes
<1>2. Next1(conversations) \notin Used(conversations)
  BY <1>1, NextRow DEF Used
<1>3. pid[t] \in ProjectIds /\ asked[t] \in Roots
  BY DEF Types, LocalTypes, Threads
<1>4. [project |-> pid[t], root |-> asked[t]] \in Conversation
  BY <1>3 DEF Conversation
<1>5. QED
  BY <1>2, <1>4 DEF Types, TableTypes

\* Every row and every local variable stays in its range.
LEMMA TypesStep == ASSUME Types, [Next]_vars PROVE Types'
<1> USE DEF Types
<1>1. CASE UNCHANGED vars
  BY <1>1 DEF vars, tables, locals, TableTypes, LocalTypes
<1>2. ASSUME NEW t \in Clients, NEW p \in ProjectIds, NEW c \in ConvIds \cup {None},
             Ask(t, p, c)
      PROVE  Types'
  <2>1. TableTypes'
    BY <1>2 DEF Ask, tables, TableTypes
  <2>2. projects[p] \in Roots \cup {None} /\ (c = None => projects[p] \in Roots)
    BY <1>2 DEF Ask, ValidTarget, TableTypes
  <2>3. t \notin Deleters
    BY ChatAssumption
  <2>4. LocalTypes'
    BY <1>2, <2>2, <2>3
       DEF Ask, Goto, LocalTypes, Threads, ClientPlaces, DeleterPlaces
  <2>5. QED
    BY <2>1, <2>4
<1>3. ASSUME NEW t \in Clients,
             CheckMemory(t) \/ Generate(t) \/ Repair(t) \/ CheckTarget(t)
      PROVE  Types'
  <2>1. TableTypes'
    BY <1>3 DEF CheckMemory, Generate, Repair, CheckTarget, tables, TableTypes
  <2>2. t \notin Deleters
    BY ChatAssumption
  <2>3. <<>> \in Seq(Message)
    OBVIOUS
  <2>4. /\ UNCHANGED <<pid, conv, asked, loaded>>
        /\ pc[t] # "idle"
        /\ \E l \in ClientPlaces : pc' = [pc EXCEPT ![t] = l]
        /\ memory' = memory \/ memory' = [memory EXCEPT ![t] = <<>>]
        /\ draft' = draft \/ \E a \in Answers : draft' = [draft EXCEPT ![t] = a]
    BY <1>3 DEF CheckMemory, Generate, Repair, CheckTarget, Answered, Goto,
                ClientPlaces, Answers
  <2>5. memory' \in [Clients -> Seq(Message)]
    BY <2>3, <2>4 DEF LocalTypes
  <2>6. draft' \in [Clients -> Answers \cup {None}]
    BY <2>4 DEF LocalTypes
  <2>7. LocalTypes'
    BY <2>2, <2>4, <2>5, <2>6 DEF LocalTypes, Threads
  <2>8. QED
    BY <2>1, <2>7
<1>4. ASSUME NEW t \in Clients, ReadMemory(t)
      PROVE  Types'
  <2>1. TableTypes'
    BY <1>4 DEF ReadMemory, tables, TableTypes
  <2>2. t \notin Deleters
    BY ChatAssumption
  <2>3. Recent(History(conv[t])) \in Seq(Message)
    BY HistoryType, RecentType
  <2>4. LocalTypes'
    BY <1>4, <2>2, <2>3
       DEF ReadMemory, Goto, LocalTypes, Threads, ClientPlaces, DeleterPlaces
  <2>5. QED
    BY <2>1, <2>4
<1>5. ASSUME NEW t \in Clients, Save(t)
      PROVE  Types'
  <2>1. LocalTypes'
    BY <1>5, FinishTypes DEF Save
  <2>2. \E c \in ConvIds : Exchange(t, c)
    BY <1>5 DEF Save, LocalTypes
  <2>3. messages' \in [MsgIds -> Message \cup {None}]
    BY <2>2, ExchangeRows
  <2>4. conversations' \in [ConvIds -> Conversation \cup {None}]
    <3>1. CASE conv[t] = None
      BY <1>5, <3>1, OpenedRow DEF Save
    <3>2. CASE conv[t] # None
      BY <1>5, <3>2 DEF Save, TableTypes
    <3>3. QED
      BY <3>1, <3>2
  <2>5. projects' = projects /\ disturbed' \in BOOLEAN
    BY <1>5 DEF Save, TableTypes
  <2>6. QED
    BY <2>1, <2>3, <2>4, <2>5 DEF TableTypes
<1>6. ASSUME NEW t \in Clients, Fail(t)
      PROVE  Types'
  <2>1. LocalTypes'
    BY <1>6, FinishTypes DEF Fail
  <2>2. QED
    BY <1>6, <2>1 DEF Fail, tables, TableTypes
<1>7. ASSUME NEW r \in Roots, Register(r)
      PROVE  Types'
  BY <1>7 DEF Register, locals, TableTypes, LocalTypes
<1>8. ASSUME NEW t \in Deleters, NEW p \in ProjectIds, DeleteOpen(t, p)
      PROVE  Types'
  <2>1. t \notin Clients
    BY ChatAssumption
  <2>2. LocalTypes'
    BY <1>8, <2>1
       DEF DeleteOpen, Goto, LocalTypes, Threads, ClientPlaces, DeleterPlaces
  <2>3. QED
    BY <1>8, <2>2 DEF DeleteOpen, tables, TableTypes
<1>9. ASSUME NEW t \in Deleters, DeleteLoad(t)
      PROVE  Types'
  <2>1. t \notin Clients
    BY ChatAssumption
  <2>2. PICK convs, msgs :
          /\ convs \in SUBSET ConvIds /\ msgs \in SUBSET MsgIds
          /\ loaded' = [loaded EXCEPT ![t] = [convs |-> convs, msgs |-> msgs]]
    <3> DEFINE convs == {c \in Used(conversations) : conversations[c].project = pid[t]}
               msgs == UNION {MessagesOf(c) : c \in convs}
    <3>1. convs \in SUBSET ConvIds /\ msgs \in SUBSET MsgIds
      BY HistoryType DEF Used, TableTypes
    <3>2. loaded' = [loaded EXCEPT ![t] = [convs |-> convs, msgs |-> msgs]]
      BY <1>9 DEF DeleteLoad
    <3>3. QED
      BY <3>1, <3>2
  <2>3. LocalTypes'
    BY <1>9, <2>1, <2>2
       DEF DeleteLoad, Goto, LocalTypes, Threads, ClientPlaces, DeleterPlaces
  <2>4. QED
    BY <1>9, <2>3 DEF DeleteLoad, tables, TableTypes
<1>10. ASSUME NEW t \in Deleters, DeleteCommit(t) \/ DeleteFail(t)
       PROVE  Types'
  <2>1. t \notin Clients
    BY ChatAssumption
  <2>2. /\ UNCHANGED <<conv, asked, memory, draft>>
        /\ pc' = [pc EXCEPT ![t] = "idle"]
        /\ pid' = [pid EXCEPT ![t] = None]
        /\ loaded' = [loaded EXCEPT ![t] = [convs |-> {}, msgs |-> {}]]
    BY <1>10 DEF DeleteCommit, DeleteFail, Goto
  <2>3. LocalTypes'
    BY <2>1, <2>2 DEF LocalTypes, Threads, DeleterPlaces
  <2>4. TableTypes'
    <3>1. CASE DeleteCommit(t)
      BY <3>1 DEF DeleteCommit, Removed, TableTypes
    <3>2. CASE DeleteFail(t)
      BY <3>2 DEF DeleteFail, tables, TableTypes
    <3>3. QED
      BY <1>10, <3>1, <3>2
  <2>5. QED
    BY <2>3, <2>4
<1>11. QED
  BY <1>1, <1>2, <1>3, <1>4, <1>5, <1>6, <1>7, <1>8, <1>9, <1>10 DEF Next, ChatStep

-----------------------------------------------------------------------------
(* Exchanges are pairs of rows with consecutive ids, the question's odd.   *)

Paired(S) ==
  \A i \in S : /\ i % 2 = 1 => i + 1 \in S
               /\ i % 2 = 0 => i - 1 \in S

\* A paired set in ascending order is a sequence of pairs.
LEMMA PairedOrder ==
  ASSUME NEW S \in SUBSET (Nat \ {0}), IsFiniteSet(S), Paired(S)
  PROVE  /\ Cardinality(S) % 2 = 0
         /\ \A k \in 1..(Cardinality(S) \div 2) :
              /\ Ascending(S)[2 * k - 1] % 2 = 1
              /\ Ascending(S)[2 * k] = Ascending(S)[2 * k - 1] + 1
<1> DEFINE A == Ascending(S)
           n == Cardinality(S)
           N == {j \in Nat : 2 * j + 1 \in 1..n => A[2 * j + 1] % 2 = 1}
<1>1. /\ n \in Nat
      /\ A \in [1..n -> S]
      /\ \A k \in 1..n : Cardinality(Below(S, A[k])) = k - 1
      /\ \A i \in S : /\ Cardinality(Below(S, i)) + 1 \in 1..n
                      /\ A[Cardinality(Below(S, i)) + 1] = i
  BY AscendingOrder
<1>2. \A k, l \in 1..n : A[k] = A[l] => k = l
  BY <1>1
<1> HIDE DEF A, n
<1>3. ASSUME NEW k \in 1..n, A[k] % 2 = 1
      PROVE  k + 1 \in 1..n /\ A[k + 1] = A[k] + 1
  <2>1. PICK o \in S : o = A[k]
    BY <1>1
  <2>2. o + 1 \in S
    BY <1>3, <2>1 DEF Paired
  <2>3. \A i \in S : i < o + 1 <=> i < o \/ i = o
    BY <2>1
  <2>4. Below(S, o + 1) = Below(S, o) \cup {o}
    BY <2>3 DEF Below
  <2>5. Below(S, o) \in SUBSET S /\ o \notin Below(S, o)
    BY DEF Below
  <2>6. Cardinality(Below(S, o + 1)) = Cardinality(Below(S, o)) + 1
    BY <2>4, <2>5, FS_Subset, FS_AddElement
  <2>7. Cardinality(Below(S, o + 1)) = k
    BY <1>1, <2>1, <2>6
  <2>8. QED
    BY <1>1, <2>1, <2>2, <2>7
<1>4. ASSUME NEW k \in 1..n, A[k] % 2 = 0
      PROVE  k - 1 \in 1..n /\ A[k - 1] = A[k] - 1
  <2>1. PICK o \in S : o = A[k] - 1
    BY <1>1, <1>4 DEF Paired
  <2>2. A[k] \in Nat /\ o % 2 = 1
    <3>1. PICK a \in Nat \ {0} : a = A[k]
      BY <1>1
    <3>2. a % 2 = 0 /\ o = a - 1
      BY <1>4, <2>1, <3>1
    <3>3. (a - 1) % 2 = 1
      BY <3>2
    <3>4. QED
      BY <3>1, <3>2, <3>3
  <2>3. PICK j \in 1..n : A[j] = o
    BY <1>1
  <2>4. j + 1 \in 1..n /\ A[j + 1] = o + 1
    BY <1>3, <2>2, <2>3
  <2>5. j + 1 = k
    BY <1>2, <2>1, <2>2, <2>4
  <2>6. QED
    BY <1>1, <2>1, <2>3, <2>5
<1>5. 0 \in N
  <2>1. CASE 1 \in 1..n
    <3>1. A[1] \in Nat
      BY <1>1, <2>1
    <3>2. A[1] % 2 # 0
      BY <1>4, <2>1
    <3>3. QED
      BY <3>1, <3>2
  <2>2. QED
    BY <2>1
<1>6. ASSUME NEW j \in Nat, j \in N
      PROVE  j + 1 \in N
  <2>1. SUFFICES ASSUME 2 * (j + 1) + 1 \in 1..n, A[2 * (j + 1) + 1] % 2 # 1
                 PROVE  FALSE
    BY <1>6
  <2>2. PICK a \in 1..n : a = 2 * j + 1
    BY <1>1, <2>1
  <2>3. A[a] % 2 = 1
    BY <1>6, <2>2
  <2>4. a + 1 \in 1..n /\ A[a + 1] = A[a] + 1
    BY <1>3, <2>3
  <2>5. PICK b \in 1..n : b = a + 2 /\ b = 2 * (j + 1) + 1
    BY <2>1, <2>2
  <2>6. A[b] \in Nat /\ A[a] \in Nat
    BY <1>1
  <2>7. A[b] % 2 = 0
    BY <2>1, <2>5, <2>6
  <2>8. A[b - 1] = A[b] - 1
    BY <1>4, <2>7
  <2>9. b - 1 = a + 1
    BY <2>5
  <2>10. QED
    BY <2>3, <2>4, <2>6, <2>7, <2>8, <2>9
<1>7. Nat \subseteq N
  <2> HIDE DEF N
  <2>1. QED
    BY <1>5, <1>6, NatSetInduction
<1>8. \A j \in Nat : 2 * j + 1 \in 1..n => A[2 * j + 1] % 2 = 1
  BY <1>7
<1>9. n % 2 = 0
  <2>1. SUFFICES ASSUME n % 2 # 0 PROVE FALSE
    OBVIOUS
  <2>2. PICK j \in Nat : n = 2 * j + 1
    BY <1>1, <2>1
  <2>3. n \in 1..n
    BY <1>1, <2>2
  <2>4. A[n] % 2 = 1
    BY <1>8, <2>2, <2>3
  <2>5. n + 1 \in 1..n
    BY <1>3, <2>3, <2>4
  <2>6. QED
    BY <1>1, <2>5
<1>10. ASSUME NEW k \in 1..(n \div 2)
       PROVE  A[2 * k - 1] % 2 = 1 /\ A[2 * k] = A[2 * k - 1] + 1
  <2>1. PICK j \in Nat : j = k - 1
    BY <1>10
  <2>2. 2 * j + 1 \in 1..n /\ 2 * j + 1 = 2 * k - 1
    BY <1>1, <1>9, <2>1
  <2>3. A[2 * k - 1] % 2 = 1
    BY <1>8, <2>2
  <2>4. A[(2 * k - 1) + 1] = A[2 * k - 1] + 1
    BY <1>3, <2>2, <2>3
  <2>5. (2 * k - 1) + 1 = 2 * k
    BY <1>10
  <2>6. QED
    BY <2>3, <2>4, <2>5
<1>11. QED
  BY <1>9, <1>10 DEF A, n

RowsPaired ==
  \A i \in Used(messages) :
    /\ i % 2 = 1 =>
         /\ i + 1 \in Used(messages)
         /\ messages[i].conv = messages[i + 1].conv
         /\ IsExchange(messages[i], messages[i + 1])
    /\ i % 2 = 0 => i - 1 \in Used(messages)

LoadedPaired == \A d \in Deleters : Paired(loaded[d].msgs)

MemoryWhole ==
  \A t \in Clients : Len(memory[t]) <= MaxMemory /\ WholeExchanges(memory[t])

ChatInv == Types /\ RowsPaired /\ LoadedPaired /\ MemoryWhole

\* A conversation has both rows of an exchange or neither.
LEMMA ConversationPaired ==
  ASSUME Types, RowsPaired, NEW c
  PROVE  Paired(MessagesOf(c))
<1>1. Used(messages) \subseteq Nat \ {0}
  <2>1. Used(messages) \subseteq MsgIds
    BY DEF Used, Types, TableTypes
  <2>2. MsgIds \subseteq Nat \ {0}
    BY ChatAssumption, FS_CardinalityType
  <2>3. QED
    BY <2>1, <2>2
<1>2. SUFFICES ASSUME NEW i \in MessagesOf(c)
               PROVE  /\ i % 2 = 1 => i + 1 \in MessagesOf(c)
                      /\ i % 2 = 0 => i - 1 \in MessagesOf(c)
  BY DEF Paired
<1>3. i \in Used(messages) /\ messages[i].conv = c
  BY DEF MessagesOf
<1>4. CASE i % 2 = 1
  BY <1>1, <1>3, <1>4 DEF RowsPaired, MessagesOf
<1>5. CASE i % 2 = 0
  <2>1. PICK j \in Used(messages) : j = i - 1
    BY <1>3, <1>5 DEF RowsPaired
  <2>2. j % 2 = 1 /\ j + 1 = i
    BY <1>1, <1>3, <1>5, <2>1
  <2>3. messages[j].conv = messages[i].conv
    BY <2>2 DEF RowsPaired
  <2>4. j \in MessagesOf(c)
    BY <1>3, <2>3 DEF MessagesOf
  <2>5. QED
    BY <1>5, <2>1, <2>4
<1>6. QED
  BY <1>4, <1>5

\* So a conversation is a sequence of whole exchanges.
LEMMA HistoryWhole ==
  ASSUME Types, RowsPaired, NEW c
  PROVE  WholeExchanges(History(c))
<1> DEFINE S == MessagesOf(c)
<1>1. /\ S \in SUBSET MsgIds /\ S \subseteq Used(messages)
      /\ MsgIds \subseteq Nat \ {0}
      /\ IsFiniteSet(S)
      /\ Len(History(c)) = Cardinality(S)
  <2>1. MsgIds \subseteq Nat \ {0}
    BY ChatAssumption, FS_CardinalityType
  <2>2. QED
    BY <2>1, HistoryType DEF Types, MessagesOf
<1>2. S \in SUBSET (Nat \ {0}) /\ Paired(S)
  BY <1>1, ConversationPaired
<1> HIDE DEF S
<1>3. /\ Cardinality(S) % 2 = 0
      /\ \A k \in 1..(Cardinality(S) \div 2) :
           /\ Ascending(S)[2 * k - 1] % 2 = 1
           /\ Ascending(S)[2 * k] = Ascending(S)[2 * k - 1] + 1
  BY <1>1, <1>2, PairedOrder
<1>4. Cardinality(S) \in Nat /\ Ascending(S) \in [1..Cardinality(S) -> S]
  BY <1>1, <1>2, AscendingOrder
<1>5. \A k \in 1..Cardinality(S) : History(c)[k] = messages[Ascending(S)[k]]
  BY DEF History, SubSequence, S
<1>6. ASSUME NEW k \in 1..(Cardinality(S) \div 2)
      PROVE  IsExchange(History(c)[2 * k - 1], History(c)[2 * k])
  <2>1. 2 * k - 1 \in 1..Cardinality(S) /\ 2 * k \in 1..Cardinality(S)
    BY <1>4
  <2>2. PICK o \in Used(messages) : o = Ascending(S)[2 * k - 1]
    BY <1>1, <1>4, <2>1
  <2>3. o % 2 = 1 /\ Ascending(S)[2 * k] = o + 1
    BY <1>3, <2>2
  <2>4. IsExchange(messages[o], messages[o + 1])
    BY <2>3 DEF RowsPaired
  <2>5. QED
    BY <1>5, <2>1, <2>2, <2>3, <2>4
<1>7. QED
  BY <1>1, <1>3, <1>6 DEF WholeExchanges

\* Its end too, because the window is even.
LEMMA RecentWhole ==
  ASSUME NEW T, NEW s \in Seq(T), WholeExchanges(s)
  PROVE  Len(Recent(s)) <= MaxMemory /\ WholeExchanges(Recent(s))
<1> DEFINE r == Recent(s)
<1>1. /\ r \in Seq(T)
      /\ Len(r) = IF Len(s) > MaxMemory THEN MaxMemory ELSE Len(s)
      /\ \A k \in 1..Len(r) : r[k] = s[Len(s) - Len(r) + k]
  BY RecentType
<1>2. MaxMemory \in Nat /\ MaxMemory % 2 = 0 /\ Len(s) \in Nat /\ Len(s) % 2 = 0
  BY ChatAssumption DEF WholeExchanges
<1> HIDE DEF r
<1>3. Len(r) \in Nat /\ Len(r) % 2 = 0 /\ Len(r) <= Len(s) /\ Len(r) <= MaxMemory
  <2>1. CASE Len(s) > MaxMemory
    <3>1. Len(r) = MaxMemory
      BY <1>1, <2>1
    <3>2. MaxMemory <= Len(s)
      BY <1>2, <2>1
    <3>3. QED
      BY <1>2, <3>1, <3>2
  <2>2. CASE ~ (Len(s) > MaxMemory)
    <3>1. Len(r) = Len(s)
      BY <1>1, <2>2
    <3>2. Len(s) <= MaxMemory
      BY <1>2, <2>2
    <3>3. QED
      BY <1>2, <3>1, <3>2
  <2>3. QED
    BY <2>1, <2>2
<1>4. PICK d \in Nat : Len(s) - Len(r) = 2 * d
  BY <1>2, <1>3
<1>5. ASSUME NEW k \in 1..(Len(r) \div 2)
      PROVE  IsExchange(r[2 * k - 1], r[2 * k])
  <2>1. 2 * k - 1 \in 1..Len(r) /\ 2 * k \in 1..Len(r)
    BY <1>3
  <2>2. r[2 * k - 1] = s[2 * d + (2 * k - 1)] /\ r[2 * k] = s[2 * d + 2 * k]
    BY <1>1, <1>4, <2>1
  <2>3. PICK l \in 1..(Len(s) \div 2) : l = d + k
    BY <1>2, <1>3, <1>4
  <2>4. 2 * l - 1 = 2 * d + (2 * k - 1) /\ 2 * l = 2 * d + 2 * k
    BY <1>4, <2>3
  <2>5. IsExchange(s[2 * l - 1], s[2 * l])
    BY DEF WholeExchanges
  <2>6. QED
    BY <2>2, <2>4, <2>5
<1>6. QED
  BY <1>3, <1>5 DEF WholeExchanges, r

\* What a saved exchange adds to the table and what it leaves.
LEMMA SavedRows ==
  ASSUME Types, NEW t \in Clients, NEW c \in ConvIds, Exchange(t, c)
  PROVE  \E n \in MsgIds :
           /\ n + 1 \in MsgIds /\ n \in Nat \ {0}
           /\ \A i \in Used(messages) : i < n /\ messages'[i] = messages[i]
           /\ n - 1 \in Used(messages) \cup {0}
           /\ Used(messages') = Used(messages) \cup {n, n + 1}
           /\ messages'[n].conv = c /\ messages'[n + 1].conv = c
           /\ messages'[n].root = asked[t] /\ messages'[n + 1].root = asked[t]
           /\ IsExchange(messages'[n], messages'[n + 1])
<1> DEFINE n == Next1(messages)
           question == [conv |-> c, role |-> "user", exchange |-> n,
                        answer |-> None, root |-> asked[t]]
           answer == [question EXCEPT !.role = "assistant", !.answer = draft[t]]
<1>1. /\ n \in MsgIds /\ n + 1 \in MsgIds
      /\ n \in Nat \ {0}
      /\ \A i \in Used(messages) : i < n
      /\ n - 1 \in Used(messages) \cup {0}
      /\ messages' = [messages EXCEPT ![n] = question, ![n + 1] = answer]
      /\ Used(messages') = Used(messages) \cup {n, n + 1}
  BY ExchangeRows
<1>2. /\ question.conv = c /\ question.root = asked[t]
      /\ answer.conv = c /\ answer.root = asked[t]
      /\ IsExchange(question, answer)
  BY DEF IsExchange
<1> HIDE DEF question, answer, n
<1>3. DOMAIN messages = MsgIds /\ MsgIds \subseteq Nat
  BY ChatAssumption, FS_CardinalityType DEF Types, TableTypes
<1>4. messages'[n] = question /\ messages'[n + 1] = answer
  BY <1>1, <1>3
<1>5. ASSUME NEW i \in Used(messages)
      PROVE  messages'[i] = messages[i]
  <2>1. i \in MsgIds /\ i < n
    BY <1>1, <1>3 DEF Used
  <2>2. i # n /\ i # n + 1
    BY <1>1, <1>3, <2>1
  <2>3. QED
    BY <1>1, <1>3, <2>1, <2>2
<1>6. QED
  BY <1>1, <1>2, <1>4, <1>5

\* What the commit of a deletion takes away.
LEMMA RemovedRows ==
  ASSUME NEW table, NEW ids
  PROVE  /\ DOMAIN Removed(table, ids) = DOMAIN table
         /\ Used(Removed(table, ids)) = Used(table) \ ids
         /\ \A i \in Used(table) \ ids : Removed(table, ids)[i] = table[i]
  BY DEF Removed, Used

\* Both rows of an exchange come and go together, whatever was loaded when.
LEMMA RowsPairedStep == ASSUME ChatInv, Next PROVE RowsPaired'
<1> USE DEF ChatInv
<1>1. CASE messages' = messages
  BY <1>1 DEF RowsPaired, Used
<1>2. ASSUME NEW t \in Clients, Save(t)
      PROVE  RowsPaired'
  <2>1. PICK c \in ConvIds : Exchange(t, c)
    BY <1>2 DEF Save, Types, LocalTypes
  <2>2. PICK n \in MsgIds :
           /\ n + 1 \in MsgIds /\ n \in Nat \ {0}
           /\ \A i \in Used(messages) : i < n /\ messages'[i] = messages[i]
           /\ n - 1 \in Used(messages) \cup {0}
           /\ Used(messages') = Used(messages) \cup {n, n + 1}
           /\ messages'[n].conv = c /\ messages'[n + 1].conv = c
           /\ IsExchange(messages'[n], messages'[n + 1])
    BY <2>1, SavedRows
  <2>3. n % 2 = 1
    <3>1. SUFFICES ASSUME n % 2 # 1 PROVE FALSE
      OBVIOUS
    <3>2. n - 1 # 0 /\ (n - 1) % 2 = 1
      BY <2>2, <3>1
    <3>3. (n - 1) + 1 \in Used(messages)
      BY <2>2, <3>2 DEF RowsPaired
    <3>4. (n - 1) + 1 < n
      BY <2>2, <3>3
    <3>5. QED
      BY <2>2, <3>4
  <2>4. (n + 1) % 2 = 0 /\ (n + 1) - 1 = n
    BY <2>2, <2>3
  <2>5. ASSUME NEW i \in Used(messages)
        PROVE  /\ i % 2 = 1 =>
                    /\ i + 1 \in Used(messages')
                    /\ messages'[i].conv = messages'[i + 1].conv
                    /\ IsExchange(messages'[i], messages'[i + 1])
               /\ i % 2 = 0 => i - 1 \in Used(messages')
    BY <2>2 DEF RowsPaired
  <2>6. ASSUME NEW i \in {n, n + 1}
        PROVE  /\ i % 2 = 1 =>
                    /\ i + 1 \in Used(messages')
                    /\ messages'[i].conv = messages'[i + 1].conv
                    /\ IsExchange(messages'[i], messages'[i + 1])
               /\ i % 2 = 0 => i - 1 \in Used(messages')
    <3>1. CASE i = n
      BY <2>2, <2>3, <3>1
    <3>2. CASE i = n + 1
      BY <2>2, <2>4, <3>2
    <3>3. QED
      BY <3>1, <3>2
  <2>7. \A i \in Used(messages') : i \in Used(messages) \/ i \in {n, n + 1}
    BY <2>2
  <2>8. QED
    BY <2>5, <2>6, <2>7 DEF RowsPaired
<1>3. ASSUME NEW t \in Deleters, DeleteCommit(t)
      PROVE  RowsPaired'
  <2>1. PICK M \in SUBSET MsgIds : M = loaded[t].msgs
    BY DEF Types, LocalTypes
  <2>2. messages' = Removed(messages, M)
    BY <1>3, <2>1 DEF DeleteCommit
  <2>3. Paired(M)
    BY <2>1 DEF LoadedPaired
  <2>4. /\ Used(messages') = Used(messages) \ M
        /\ \A i \in Used(messages) \ M : messages'[i] = messages[i]
    BY <2>2, RemovedRows
  <2>5. Used(messages) \subseteq Nat \ {0}
    <3>1. MsgIds \subseteq Nat \ {0}
      BY ChatAssumption, FS_CardinalityType
    <3>2. QED
      BY <3>1 DEF Used, Types, TableTypes
  <2>6. ASSUME NEW i \in Used(messages) \ M, i % 2 = 1
        PROVE  /\ i + 1 \in Used(messages) \ M
               /\ messages'[i].conv = messages'[i + 1].conv
               /\ IsExchange(messages'[i], messages'[i + 1])
    <3>1. /\ i + 1 \in Used(messages)
          /\ messages[i].conv = messages[i + 1].conv
          /\ IsExchange(messages[i], messages[i + 1])
      BY <2>6 DEF RowsPaired
    <3>2. (i + 1) % 2 = 0 /\ (i + 1) - 1 = i
      BY <2>5, <2>6
    <3>3. i + 1 \notin M
      BY <2>3, <2>6, <3>2 DEF Paired
    <3>4. QED
      BY <2>4, <2>6, <3>1, <3>3
  <2>7. ASSUME NEW i \in Used(messages) \ M, i % 2 = 0
        PROVE  i - 1 \in Used(messages) \ M
    <3>1. i - 1 \in Used(messages)
      BY <2>7 DEF RowsPaired
    <3>2. (i - 1) % 2 = 1 /\ (i - 1) + 1 = i
      BY <2>5, <2>7
    <3>3. i - 1 \notin M
      BY <2>3, <2>7, <3>2 DEF Paired
    <3>4. QED
      BY <3>1, <3>3
  <2>8. QED
    BY <2>4, <2>6, <2>7 DEF RowsPaired
<1>4. QED
  BY <1>1, <1>2, <1>3
     DEF Next, ChatStep, Ask, CheckMemory, ReadMemory, Generate, Repair, CheckTarget,
         Fail, Register, DeleteOpen, DeleteLoad, DeleteFail, tables

\* A deletion loads whole exchanges.
LEMMA LoadedPairedStep == ASSUME ChatInv, Next PROVE LoadedPaired'
<1> USE DEF ChatInv
<1>1. CASE loaded' = loaded
  BY <1>1 DEF LoadedPaired
<1>2. loaded \in [Deleters -> [convs : SUBSET ConvIds, msgs : SUBSET MsgIds]]
  BY DEF Types, LocalTypes
<1>3. ASSUME NEW t \in Deleters, DeleteLoad(t)
      PROVE  LoadedPaired'
  <2>1. PICK convs : loaded' = [loaded EXCEPT ![t] =
                       [convs |-> convs, msgs |-> UNION {MessagesOf(c) : c \in convs}]]
    BY <1>3 DEF DeleteLoad
  <2>2. \A c \in convs : Paired(MessagesOf(c))
    BY ConversationPaired
  <2>3. Paired(UNION {MessagesOf(c) : c \in convs})
    BY <2>2 DEF Paired
  <2>4. QED
    BY <1>2, <2>1, <2>3 DEF LoadedPaired
<1>4. ASSUME NEW t \in Deleters, DeleteCommit(t) \/ DeleteFail(t)
      PROVE  LoadedPaired'
  <2>1. loaded' = [loaded EXCEPT ![t] = [convs |-> {}, msgs |-> {}]]
    BY <1>4 DEF DeleteCommit, DeleteFail
  <2>2. Paired({})
    BY DEF Paired
  <2>3. QED
    BY <1>2, <2>1, <2>2 DEF LoadedPaired
<1>5. QED
  BY <1>1, <1>3, <1>4
     DEF Next, ChatStep, Ask, CheckMemory, ReadMemory, Generate, Repair, CheckTarget,
         Save, Fail, Register, DeleteOpen, locals

\* A working memory is whole from the moment it is read.
LEMMA MemoryWholeStep == ASSUME ChatInv, Next PROVE MemoryWhole'
<1> USE DEF ChatInv
<1>1. CASE memory' = memory
  BY <1>1 DEF MemoryWhole
<1>2. memory \in [Clients -> Seq(Message)]
  BY DEF Types, LocalTypes
<1>3. ASSUME NEW t \in Clients, ReadMemory(t)
      PROVE  MemoryWhole'
  <2>1. memory' = [memory EXCEPT ![t] = Recent(History(conv[t]))]
    BY <1>3 DEF ReadMemory
  <2>2. History(conv[t]) \in Seq(Message)
    BY HistoryType DEF Types
  <2>3. /\ Len(Recent(History(conv[t]))) <= MaxMemory
        /\ WholeExchanges(Recent(History(conv[t])))
    BY <2>2, HistoryWhole, RecentWhole
  <2>4. QED
    BY <1>2, <2>1, <2>3 DEF MemoryWhole
<1>4. ASSUME NEW t \in Clients, memory' = [memory EXCEPT ![t] = <<>>]
      PROVE  MemoryWhole'
  <2>1. WholeExchanges(<<>>) /\ Len(<<>>) <= MaxMemory
    BY ChatAssumption DEF WholeExchanges
  <2>2. QED
    BY <1>2, <1>4, <2>1 DEF MemoryWhole
<1>5. QED
  BY <1>1, <1>3, <1>4
     DEF Next, ChatStep, Ask, CheckMemory, Generate, Answered, Repair, CheckTarget,
         Save, Fail, Finish, Register, DeleteOpen, DeleteLoad, DeleteCommit,
         DeleteFail, locals

\* ChatInv is inductive.
LEMMA ChatInvHolds == Spec => []ChatInv
<1>1. Init => ChatInv
  <2>1. SUFFICES ASSUME Init PROVE ChatInv
    OBVIOUS
  <2>2. <<>> \in Seq(Message) /\ WholeExchanges(<<>>) /\ Len(<<>>) <= MaxMemory
    BY ChatAssumption DEF WholeExchanges
  <2>3. Types
    BY <2>1, <2>2 DEF Init, Types, TableTypes, LocalTypes, Threads, ClientPlaces,
                      DeleterPlaces
  <2>4. RowsPaired /\ LoadedPaired /\ MemoryWhole
    BY <2>1, <2>2 DEF Init, RowsPaired, LoadedPaired, MemoryWhole, Paired, Used
  <2>5. QED
    BY <2>3, <2>4 DEF ChatInv
<1>2. ChatInv /\ [Next]_vars => ChatInv'
  <2>1. CASE UNCHANGED vars
    BY <2>1 DEF ChatInv, Types, TableTypes, LocalTypes, RowsPaired, LoadedPaired,
                MemoryWhole, Used, vars, tables, locals
  <2>2. ASSUME ChatInv, Next PROVE ChatInv'
    BY <2>2, TypesStep, RowsPairedStep, LoadedPairedStep, MemoryWholeStep DEF ChatInv
  <2>3. QED
    BY <2>1, <2>2
<1>3. QED
  BY <1>1, <1>2, PTL DEF Spec

\* A conversation is a sequence of questions each followed by its answer, and
\* so is the memory an answer is based on, whatever fails and whoever else
\* asks or deletes (save_exchange, build_conversation_memory, the cascade of
\* Project.conversations).
THEOREM ExchangesAreWhole == Spec => []ExchangesWhole
<1>1. ChatInv => ExchangesWhole
  BY HistoryWhole DEF ChatInv, MemoryWhole, ExchangesWhole
<1>2. QED
  BY <1>1, ChatInvHolds, PTL

-----------------------------------------------------------------------------
(* What is stored and remembered stays within its project.                 *)

\* A question is about the project that has its id, and its conversation is
\* of that project.
QuestionsAttached ==
  \A t \in Clients : pc[t] # "idle" =>
    /\ asked[t] \in Roots
    /\ projects[pid[t]] = asked[t]
    /\ conv[t] # None =>
         /\ conversations[conv[t]] # None
         /\ conversations[conv[t]].project = pid[t]

\* What was remembered is of the directory that was asked about.
MemoriesAttached ==
  \A t \in Clients :
    /\ pc[t] = "idle" => memory[t] = <<>>
    /\ \A k \in DOMAIN memory[t] : memory[t][k].root = asked[t]

\* A deletion about to commit has loaded all that belongs to its project.
DeletionsCurrent ==
  \A d \in Deleters : pc[d] = "delete_commit" =>
    /\ loaded[d].convs = {c \in Used(conversations) : conversations[c].project = pid[d]}
    /\ loaded[d].msgs = UNION {MessagesOf(c) : c \in loaded[d].convs}

Attached == Isolated /\ QuestionsAttached /\ MemoriesAttached /\ DeletionsCurrent

QuietChatInv == Types /\ (~disturbed => Attached)

\* A question starts attached to its project.
LEMMA AskAttached ==
  ASSUME Types, Attached, NEW t \in Clients, NEW p \in ProjectIds,
         NEW c \in ConvIds \cup {None}, Ask(t, p, c)
  PROVE  Attached'
<1> USE DEF Attached
<1>1. t \notin Deleters
  BY ChatAssumption
<1>2. UNCHANGED <<projects, conversations, messages, memory, loaded>>
  BY DEF Ask, tables
<1>3. /\ pc' = [pc EXCEPT ![t] = IF c = None THEN "generate" ELSE "check_memory"]
      /\ pid' = [pid EXCEPT ![t] = p]
      /\ conv' = [conv EXCEPT ![t] = c]
      /\ asked' = [asked EXCEPT ![t] = projects[p]]
      /\ pc[t] = "idle"
      /\ ValidTarget(p, c)
  BY DEF Ask, Goto
<1>4. projects[p] \in Roots
  <2>1. CASE c = None
    BY <1>3, <2>1 DEF ValidTarget, Types, TableTypes
  <2>2. CASE c # None
    <3>1. c \in Used(conversations) /\ conversations[c].project = p
      BY <1>3, <2>2 DEF ValidTarget, Used, Types, TableTypes
    <3>2. conversations[c] \in Conversation
      BY <3>1 DEF Used, Types, TableTypes
    <3>3. conversations[c].root \in Roots
      BY <3>2 DEF Conversation
    <3>4. QED
      BY <3>1, <3>3 DEF Isolated
  <2>3. QED
    BY <2>1, <2>2
<1>5. Isolated'
  BY <1>2 DEF Isolated, Used
<1>6. QuestionsAttached'
  <2>1. ASSUME NEW u \in Clients, u # t
        PROVE  pc'[u] = pc[u] /\ pid'[u] = pid[u] /\ conv'[u] = conv[u] /\ asked'[u] = asked[u]
    BY <1>3, <2>1 DEF Types, LocalTypes, Threads
  <2>2. /\ pid'[t] = p /\ conv'[t] = c /\ asked'[t] = projects[p]
    BY <1>3 DEF Types, LocalTypes, Threads
  <2>3. QED
    BY <1>2, <1>3, <1>4, <2>1, <2>2 DEF QuestionsAttached, ValidTarget
<1>7. MemoriesAttached'
  <2>1. memory[t] = <<>>
    BY <1>3 DEF MemoriesAttached
  <2>2. \A u \in Clients : u # t => pc'[u] = pc[u] /\ asked'[u] = asked[u]
    BY <1>3 DEF Types, LocalTypes, Threads
  <2>3. DOMAIN memory[t] = {}
    BY <2>1
  <2>4. QED
    BY <1>2, <2>1, <2>2, <2>3 DEF MemoriesAttached
<1>8. DeletionsCurrent'
  <2>1. \A d \in Deleters : pc'[d] = pc[d] /\ pid'[d] = pid[d]
    BY <1>1, <1>3 DEF Types, LocalTypes, Threads
  <2>2. QED
    BY <1>2, <2>1 DEF DeletionsCurrent, Used, MessagesOf
<1>9. QED
  BY <1>5, <1>6, <1>7, <1>8

\* It stays so while its own thread moves on, and what it then remembers is of
\* its project.
LEMMA ThreadAttached ==
  ASSUME Types, Attached, NEW t \in Clients,
         CheckMemory(t) \/ ReadMemory(t) \/ Generate(t) \/ Repair(t) \/ CheckTarget(t)
  PROVE  Attached'
<1> USE DEF Attached
<1>1. t \notin Deleters
  BY ChatAssumption
<1>2. UNCHANGED <<projects, conversations, messages, pid, conv, asked, loaded>>
  BY DEF CheckMemory, ReadMemory, Generate, Repair, CheckTarget, tables
<1>3. /\ pc[t] # "idle"
      /\ \E l \in ClientPlaces \ {"idle"} : pc' = [pc EXCEPT ![t] = l]
      /\ \/ memory' = memory
         \/ memory' = [memory EXCEPT ![t] = <<>>]
         \/ memory' = [memory EXCEPT ![t] = Recent(History(conv[t]))]
  BY DEF CheckMemory, ReadMemory, Generate, Repair, CheckTarget, Answered, Goto,
         ClientPlaces
<1>4. /\ pc'[t] # "idle"
      /\ \A u \in Threads : u # t => pc'[u] = pc[u]
  BY <1>3 DEF Types, LocalTypes, Threads
<1>5. Isolated'
  BY <1>2 DEF Isolated, Used
<1>6. QuestionsAttached'
  BY <1>2, <1>3, <1>4 DEF QuestionsAttached, Threads
<1>7. DeletionsCurrent'
  BY <1>1, <1>2, <1>4 DEF DeletionsCurrent, Used, MessagesOf, Threads
<1>8. ASSUME NEW k \in DOMAIN Recent(History(conv[t]))
      PROVE  Recent(History(conv[t]))[k].root = asked[t]
  <2>1. History(conv[t]) \in Seq(Message)
    BY HistoryType DEF Types
  <2>2. PICK l \in 1..Len(History(conv[t])) :
          Recent(History(conv[t]))[k] = History(conv[t])[l]
    <3>1. DOMAIN Recent(History(conv[t])) = 1..Len(Recent(History(conv[t])))
      BY <2>1, RecentType
    <3>2. QED
      BY <2>1, <3>1, RecentType
  <2>3. PICK m \in MessagesOf(conv[t]) : History(conv[t])[l] = messages[m]
    BY HistoryType DEF Types
  <2>4. m \in Used(messages) /\ messages[m].conv = conv[t] /\ messages[m] \in Message
    BY DEF MessagesOf, Used, Types, TableTypes
  <2>5. conv[t] # None
    BY <2>4, ChatAssumption DEF Message
  <2>6. /\ projects[pid[t]] = asked[t]
        /\ conversations[conv[t]] # None
        /\ conversations[conv[t]].project = pid[t]
    BY <1>3, <2>5 DEF QuestionsAttached
  <2>7. conv[t] \in Used(conversations)
    BY <2>5, <2>6 DEF Used, Types, TableTypes, LocalTypes
  <2>8. QED
    BY <2>2, <2>3, <2>4, <2>6, <2>7 DEF Isolated
<1>9. MemoriesAttached'
  <2>1. memory \in [Clients -> Seq(Message)]
    BY DEF Types, LocalTypes
  <2>2. \A u \in Clients : u # t => memory'[u] = memory[u]
    BY <1>3, <2>1
  <2>3. \A k \in DOMAIN memory'[t] : memory'[t][k].root = asked[t]
    <3>1. CASE memory' = memory
      BY <3>1 DEF MemoriesAttached
    <3>2. CASE memory' = [memory EXCEPT ![t] = <<>>]
      BY <2>1, <3>2
    <3>3. CASE memory' = [memory EXCEPT ![t] = Recent(History(conv[t]))]
      BY <2>1, <1>8, <3>3
    <3>4. QED
      BY <1>3, <3>1, <3>2, <3>3
  <2>4. QED
    BY <1>2, <1>4, <2>2, <2>3 DEF MemoriesAttached, Threads
<1>10. QED
  BY <1>5, <1>6, <1>7, <1>9

\* A request that ends takes its own question and memory with it.
LEMMA FinishLocals ==
  ASSUME Types, NEW t \in Clients, Finish(t)
  PROVE  /\ pc'[t] = "idle" /\ memory'[t] = <<>>
         /\ \A u \in Clients : u # t =>
              /\ pc'[u] = pc[u] /\ pid'[u] = pid[u] /\ conv'[u] = conv[u]
              /\ asked'[u] = asked[u] /\ memory'[u] = memory[u]
         /\ \A d \in Deleters : pc'[d] = pc[d] /\ pid'[d] = pid[d]
<1>1. t \notin Deleters
  BY ChatAssumption
<1>2. QED
  BY <1>1 DEF Finish, Goto, Types, LocalTypes, Threads

\* A request that raises stores nothing.
LEMMA FailAttached ==
  ASSUME Types, Attached, NEW t \in Clients, Fail(t)
  PROVE  Attached'
<1> USE DEF Attached
<1>1. UNCHANGED <<projects, conversations, messages, loaded>> /\ Finish(t)
  BY DEF Fail, tables
<1>2. Isolated'
  BY <1>1 DEF Isolated, Used
<1>3. QuestionsAttached'
  BY <1>1, FinishLocals DEF QuestionsAttached
<1>4. MemoriesAttached'
  <2>1. \A u \in Clients : u # t => /\ pc'[u] = pc[u]
                                    /\ asked'[u] = asked[u]
                                    /\ memory'[u] = memory[u]
    BY <1>1, FinishLocals
  <2>2. memory'[t] = <<>> /\ DOMAIN memory'[t] = {}
    BY <1>1, FinishLocals
  <2>3. QED
    BY <2>1, <2>2 DEF MemoriesAttached
<1>5. DeletionsCurrent'
  BY <1>1, FinishLocals DEF DeletionsCurrent, Used, MessagesOf
<1>6. QED
  BY <1>2, <1>3, <1>4, <1>5

\* A saved exchange goes into a conversation of the project asked about, and
\* into none that a deletion has loaded.
LEMMA SaveAttached ==
  ASSUME Types, Attached, NEW t \in Clients, Save(t), ~disturbed'
  PROVE  Attached'
<1> USE DEF Attached
<1>1. /\ Finish(t) /\ pc[t] = "save"
      /\ projects' = projects /\ loaded' = loaded
      /\ \A d \in Deleters : pc[d] = "delete_commit" => pid[d] # pid[t]
  BY DEF Save
<1>2. /\ pid[t] \in ProjectIds /\ asked[t] \in Roots
      /\ projects[pid[t]] = asked[t]
  BY <1>1 DEF QuestionsAttached, Types, LocalTypes, Threads
<1>3. conversations \in [ConvIds -> Conversation \cup {None}]
  BY DEF Types, TableTypes
<1>4. PICK c \in ConvIds :
        /\ Exchange(t, c)
        /\ \/ /\ conv[t] = c
              /\ conversations' = conversations
           \/ /\ c \notin Used(conversations)
              /\ [project |-> pid[t], root |-> asked[t]] \in Conversation
              /\ conversations' = [conversations EXCEPT
                   ![c] = [project |-> pid[t], root |-> asked[t]]]
  <2>1. CASE conv[t] = None
    BY <1>1, <2>1, OpenedRow DEF Save
  <2>2. CASE conv[t] # None
    BY <1>1, <2>2 DEF Save, Types, LocalTypes
  <2>3. QED
    BY <2>1, <2>2
<1>5. /\ conversations'[c] # None
      /\ conversations'[c].project = pid[t]
      /\ conversations'[c].root = asked[t]
  <2>1. CASE conv[t] = c /\ conversations' = conversations
    <3>1. /\ conversations[c] # None /\ conversations[c].project = pid[t]
          /\ c \in Used(conversations)
      BY <1>1, <1>3, <2>1, ChatAssumption DEF QuestionsAttached, Used
    <3>2. QED
      BY <1>2, <2>1, <3>1 DEF Isolated
  <2>2. CASE /\ [project |-> pid[t], root |-> asked[t]] \in Conversation
             /\ conversations' = [conversations EXCEPT
                  ![c] = [project |-> pid[t], root |-> asked[t]]]
    BY <1>3, <2>2, ChatAssumption
  <2>3. QED
    BY <1>4, <2>1, <2>2
<1>6. /\ Used(conversations') = Used(conversations) \cup {c}
      /\ \A i \in Used(conversations) : conversations'[i] = conversations[i]
  BY <1>3, <1>4, <1>5 DEF Used
<1>7. PICK n \in MsgIds :
         /\ n + 1 \in MsgIds
         /\ \A i \in Used(messages) : i < n /\ messages'[i] = messages[i]
         /\ Used(messages') = Used(messages) \cup {n, n + 1}
         /\ messages'[n].conv = c /\ messages'[n + 1].conv = c
         /\ messages'[n].root = asked[t] /\ messages'[n + 1].root = asked[t]
  BY <1>4, SavedRows
<1>8. Isolated'
  <2>1. \A i \in Used(conversations') :
          projects[conversations'[i].project] = conversations'[i].root
    BY <1>2, <1>5, <1>6 DEF Isolated
  <2>2. ASSUME NEW m \in Used(messages)
        PROVE  /\ conversations'[messages'[m].conv] # None
               /\ conversations'[messages'[m].conv].root = messages'[m].root
    <3>1. /\ conversations[messages[m].conv] # None
          /\ conversations[messages[m].conv].root = messages[m].root
      BY DEF Isolated
    <3>2. messages[m].conv \in ConvIds
      BY DEF Used, Types, TableTypes, Message
    <3>3. messages[m].conv \in Used(conversations)
      BY <1>3, <3>1, <3>2 DEF Used
    <3>4. QED
      BY <1>6, <1>7, <3>1, <3>3
  <2>3. ASSUME NEW m \in {n, n + 1}
        PROVE  /\ conversations'[messages'[m].conv] # None
               /\ conversations'[messages'[m].conv].root = messages'[m].root
    BY <1>5, <1>7
  <2>4. QED
    BY <1>1, <1>7, <2>1, <2>2, <2>3 DEF Isolated
<1>9. QuestionsAttached'
  <2>1. \A u \in Clients : u # t /\ pc[u] # "idle" /\ conv[u] # None =>
          conv[u] \in Used(conversations)
    BY <1>3 DEF QuestionsAttached, Used, Types, LocalTypes
  <2>2. QED
    BY <1>1, <1>6, <2>1, FinishLocals DEF QuestionsAttached
<1>10. MemoriesAttached'
  <2>1. \A u \in Clients : u # t => /\ pc'[u] = pc[u]
                                    /\ asked'[u] = asked[u]
                                    /\ memory'[u] = memory[u]
    BY <1>1, FinishLocals
  <2>2. memory'[t] = <<>> /\ DOMAIN memory'[t] = {}
    BY <1>1, FinishLocals
  <2>3. QED
    BY <2>1, <2>2 DEF MemoriesAttached
<1>11. DeletionsCurrent'
  <2>1. SUFFICES ASSUME NEW d \in Deleters, pc[d] = "delete_commit"
                 PROVE  /\ loaded[d].convs = {i \in Used(conversations') :
                                                conversations'[i].project = pid[d]}
                        /\ loaded[d].msgs = UNION {MessagesOf(i)' : i \in loaded[d].convs}
    BY <1>1, FinishLocals DEF DeletionsCurrent
  <2>2. /\ loaded[d].convs = {i \in Used(conversations) :
                                conversations[i].project = pid[d]}
        /\ loaded[d].msgs = UNION {MessagesOf(i) : i \in loaded[d].convs}
    BY <2>1 DEF DeletionsCurrent
  <2>3. pid[d] # pid[t]
    BY <1>1, <2>1
  <2>4. loaded[d].convs = {i \in Used(conversations') :
                             conversations'[i].project = pid[d]}
    BY <1>5, <1>6, <2>2, <2>3
  <2>5. c \notin loaded[d].convs
    BY <1>5, <2>3, <2>4
  <2>6. ASSUME NEW i \in loaded[d].convs
        PROVE  MessagesOf(i)' = MessagesOf(i)
    <3>1. i # c
      BY <2>5
    <3>2. MessagesOf(i)' = {m \in Used(messages') : messages'[m].conv = i}
      BY DEF MessagesOf
    <3>3. QED
      BY <1>7, <3>1, <3>2 DEF MessagesOf
  <2>7. QED
    BY <2>2, <2>4, <2>6
<1>12. QED
  BY <1>8, <1>9, <1>10, <1>11

\* A new project takes an id that no conversation and no question has.
LEMMA RegisterAttached ==
  ASSUME Types, Attached, NEW r \in Roots, Register(r)
  PROVE  Attached'
<1> USE DEF Attached
<1>1. UNCHANGED <<conversations, messages, pc, pid, conv, asked, memory, loaded>>
  BY DEF Register, locals
<1>2. PICK n \in ProjectIds : n = Next1(projects) /\ projects' = [projects EXCEPT ![n] = r]
  BY DEF Register
<1>3. DOMAIN projects \subseteq Nat /\ IsFiniteSet(DOMAIN projects)
  BY ChatAssumption DEF Types, TableTypes
<1>4. n \notin Used(projects)
  BY <1>2, <1>3, NextRow DEF Used
<1>5. projects[n] = None
  BY <1>4 DEF Used, Types, TableTypes
<1>6. ASSUME NEW p \in ProjectIds, projects[p] \in Roots
      PROVE  projects'[p] = projects[p]
  BY <1>2, <1>5, <1>6, ChatAssumption DEF Types, TableTypes
<1>7. Isolated'
  <2>1. \A c \in Used(conversations) : conversations[c] \in Conversation
    BY DEF Used, Types, TableTypes
  <2>2. \A c \in Used(conversations) :
          conversations[c].project \in ProjectIds /\ conversations[c].root \in Roots
    BY <2>1 DEF Conversation
  <2>3. QED
    BY <1>1, <1>6, <2>2 DEF Isolated, Used
<1>8. QuestionsAttached'
  BY <1>1, <1>6 DEF QuestionsAttached, Types, LocalTypes, Threads
<1>9. MemoriesAttached' /\ DeletionsCurrent'
  BY <1>1 DEF MemoriesAttached, DeletionsCurrent, Used, MessagesOf
<1>10. QED
  BY <1>7, <1>8, <1>9

\* A deletion is attached when it has loaded.
LEMMA LoadAttached ==
  ASSUME Types, Attached, NEW t \in Deleters,
         (\E p \in ProjectIds : DeleteOpen(t, p)) \/ DeleteLoad(t) \/ DeleteFail(t)
  PROVE  Attached'
<1> USE DEF Attached
<1>1. t \notin Clients
  BY ChatAssumption
<1>2. UNCHANGED <<projects, conversations, messages, conv, asked, memory>>
  BY DEF DeleteOpen, DeleteLoad, DeleteFail, tables
<1>3. \A u \in Clients : pc'[u] = pc[u] /\ pid'[u] = pid[u]
  BY <1>1 DEF DeleteOpen, DeleteLoad, DeleteFail, Goto, Types, LocalTypes, Threads
<1>4. \A d \in Deleters : d # t =>
        pc'[d] = pc[d] /\ pid'[d] = pid[d] /\ loaded'[d] = loaded[d]
  BY DEF DeleteOpen, DeleteLoad, DeleteFail, Goto, Types, LocalTypes, Threads
<1>5. Isolated'
  BY <1>2 DEF Isolated, Used
<1>6. QuestionsAttached' /\ MemoriesAttached'
  BY <1>2, <1>3 DEF QuestionsAttached, MemoriesAttached
<1>7. pc'[t] = "delete_commit" =>
        /\ loaded'[t].convs = {c \in Used(conversations) : conversations[c].project = pid'[t]}
        /\ loaded'[t].msgs = UNION {MessagesOf(c) : c \in loaded'[t].convs}
  <2>1. CASE DeleteLoad(t)
    <3> DEFINE convs == {c \in Used(conversations) : conversations[c].project = pid[t]}
               msgs == UNION {MessagesOf(c) : c \in convs}
    <3>1. loaded' = [loaded EXCEPT ![t] = [convs |-> convs, msgs |-> msgs]]
      BY <2>1 DEF DeleteLoad
    <3>2. loaded'[t] = [convs |-> convs, msgs |-> msgs]
      BY <3>1 DEF Types, LocalTypes
    <3>3. pid' = pid
      BY <2>1 DEF DeleteLoad
    <3> HIDE DEF msgs
    <3>4. loaded'[t].convs = convs /\ loaded'[t].msgs = msgs
      BY <3>2
    <3>5. QED
      BY <3>3, <3>4 DEF msgs
  <2>2. CASE (\E p \in ProjectIds : DeleteOpen(t, p)) \/ DeleteFail(t)
    BY <2>2 DEF DeleteOpen, DeleteFail, Goto, Types, LocalTypes, Threads
  <2>3. QED
    BY <2>1, <2>2
<1>8. \A c : MessagesOf(c)' = MessagesOf(c)
  BY <1>2 DEF MessagesOf, Used
<1>9. DeletionsCurrent'
  BY <1>2, <1>4, <1>7, <1>8 DEF DeletionsCurrent, Used
<1>10. QED
  BY <1>5, <1>6, <1>9

\* What a deletion removes is all of its project and nothing else.
LEMMA CommitAttached ==
  ASSUME Types, Attached, NEW t \in Deleters, DeleteCommit(t), ~disturbed'
  PROVE  Attached'
<1> USE DEF Attached
<1>1. PICK p \in ProjectIds : p = pid[t]
  BY DEF DeleteCommit, Types, LocalTypes, Threads
<1>2. PICK C, M : C = loaded[t].convs /\ M = loaded[t].msgs
  OBVIOUS
<1>3. /\ C = {c \in Used(conversations) : conversations[c].project = p}
      /\ M = UNION {MessagesOf(c) : c \in C}
  BY <1>1, <1>2 DEF DeletionsCurrent, DeleteCommit
<1>4. /\ projects' = Removed(projects, {p})
      /\ conversations' = Removed(conversations, C)
      /\ messages' = Removed(messages, M)
      /\ UNCHANGED <<conv, asked, memory>>
      /\ \A c \in Clients : pc[c] # "idle" => pid[c] # p
      /\ \A d \in Deleters : d # t /\ pc[d] = "delete_commit" => pid[d] # p
  BY <1>1, <1>2 DEF DeleteCommit
<1>5. /\ \A u \in Clients : pc'[u] = pc[u] /\ pid'[u] = pid[u]
      /\ \A d \in Deleters : d # t =>
           pc'[d] = pc[d] /\ pid'[d] = pid[d] /\ loaded'[d] = loaded[d]
      /\ pc'[t] = "idle"
  <2>1. t \notin Clients
    BY ChatAssumption
  <2>2. QED
    BY <2>1 DEF DeleteCommit, Goto, Types, LocalTypes, Threads
<1>6. \A q \in ProjectIds : q # p => projects'[q] = projects[q]
  BY <1>4 DEF Removed, Types, TableTypes
<1>7. /\ Used(conversations') = Used(conversations) \ C
      /\ \A c \in Used(conversations) \ C : conversations'[c] = conversations[c]
  BY <1>4, RemovedRows
<1>8. /\ Used(messages') = Used(messages) \ M
      /\ \A m \in Used(messages) \ M : messages'[m] = messages[m]
  BY <1>4, RemovedRows
<1>9. \A c \in Used(conversations) : conversations[c].project \in ProjectIds
  BY DEF Used, Types, TableTypes, Conversation
<1>10. \A m \in Used(messages) \ M : messages[m].conv \in Used(conversations) \ C
  <2>1. SUFFICES ASSUME NEW m \in Used(messages) \ M
                 PROVE  messages[m].conv \in Used(conversations) \ C
    OBVIOUS
  <2>2. messages[m].conv \in ConvIds /\ conversations[messages[m].conv] # None
    BY DEF Isolated, Used, Types, TableTypes, Message
  <2>3. messages[m].conv \in Used(conversations)
    BY <2>2 DEF Used, Types, TableTypes
  <2>4. messages[m].conv \notin C
    BY <1>3, <2>1 DEF MessagesOf
  <2>5. QED
    BY <2>3, <2>4
<1>11. \A c \in Used(conversations) \ C : conversations'[c] # None
  BY <1>7 DEF Used
<1>12. Isolated'
  <2>1. ASSUME NEW c \in Used(conversations')
        PROVE  projects'[conversations'[c].project] = conversations'[c].root
    <3>1. c \in Used(conversations) \ C /\ conversations'[c] = conversations[c]
      BY <1>7
    <3>2. conversations[c].project # p /\ conversations[c].project \in ProjectIds
      BY <1>3, <1>9, <3>1
    <3>3. QED
      BY <1>6, <3>1, <3>2 DEF Isolated
  <2>2. ASSUME NEW m \in Used(messages')
        PROVE  /\ conversations'[messages'[m].conv] # None
               /\ conversations'[messages'[m].conv].root = messages'[m].root
    BY <1>7, <1>8, <1>10, <1>11 DEF Isolated
  <2>3. QED
    BY <2>1, <2>2 DEF Isolated
<1>13. QuestionsAttached'
  <2>1. ASSUME NEW u \in Clients, pc[u] # "idle"
        PROVE  /\ projects'[pid[u]] = asked[u]
               /\ conv[u] # None =>
                    /\ conversations'[conv[u]] # None
                    /\ conversations'[conv[u]].project = pid[u]
    <3>1. pid[u] \in ProjectIds /\ pid[u] # p
      BY <1>4, <2>1 DEF Types, LocalTypes, Threads
    <3>2. projects'[pid[u]] = asked[u]
      BY <1>6, <2>1, <3>1 DEF QuestionsAttached
    <3>3. CASE conv[u] # None
      <4>1. /\ conv[u] \in Used(conversations)
            /\ conversations[conv[u]].project = pid[u]
        BY <2>1, <3>3 DEF QuestionsAttached, Used, Types, LocalTypes, TableTypes
      <4>2. conv[u] \notin C
        BY <1>3, <3>1, <4>1
      <4>3. QED
        BY <1>7, <1>11, <3>2, <4>1, <4>2
    <3>4. QED
      BY <3>2, <3>3
  <2>2. QED
    BY <1>4, <1>5, <2>1 DEF QuestionsAttached
<1>14. MemoriesAttached'
  BY <1>4, <1>5 DEF MemoriesAttached
<1>15. DeletionsCurrent'
  <2>1. SUFFICES ASSUME NEW d \in Deleters, d # t, pc[d] = "delete_commit"
                 PROVE  /\ loaded[d].convs = {c \in Used(conversations') :
                                                conversations'[c].project = pid[d]}
                        /\ loaded[d].msgs = UNION {MessagesOf(c)' : c \in loaded[d].convs}
    BY <1>5 DEF DeletionsCurrent
  <2>2. /\ loaded[d].convs = {c \in Used(conversations) :
                                conversations[c].project = pid[d]}
        /\ loaded[d].msgs = UNION {MessagesOf(c) : c \in loaded[d].convs}
    BY <2>1 DEF DeletionsCurrent
  <2>3. pid[d] # p
    BY <1>4, <2>1
  <2>4. loaded[d].convs = {c \in Used(conversations') :
                             conversations'[c].project = pid[d]}
    BY <1>3, <1>7, <2>2, <2>3
  <2>5. ASSUME NEW c \in loaded[d].convs
        PROVE  MessagesOf(c)' = MessagesOf(c)
    <3>1. c \notin C
      BY <1>3, <2>2, <2>3
    <3>2. \A m \in Used(messages) : messages[m].conv = c => m \notin M
      BY <1>3, <3>1 DEF MessagesOf
    <3>3. MessagesOf(c)' = {m \in Used(messages') : messages'[m].conv = c}
      BY DEF MessagesOf
    <3>4. QED
      BY <1>8, <3>2, <3>3 DEF MessagesOf
  <2>6. QED
    BY <2>2, <2>4, <2>5
<1>16. QED
  BY <1>12, <1>13, <1>14, <1>15

\* Whatever step is taken, as long as nobody works on a project while it goes.
LEMMA AttachedStep ==
  ASSUME Types, Attached, Next, ~disturbed'
  PROVE  Attached'
BY AskAttached, ThreadAttached, SaveAttached, FailAttached, RegisterAttached,
   LoadAttached, CommitAttached DEF Next, ChatStep

\* At the start there is nothing to belong anywhere.
LEMMA QuietChatInit == Init => QuietChatInv
<1>1. SUFFICES ASSUME Init PROVE QuietChatInv
  OBVIOUS
<1>2. <<>> \in Seq(Message) /\ DOMAIN <<>> = {}
  OBVIOUS
<1>3. Types
  BY <1>1, <1>2 DEF Init, Types, TableTypes, LocalTypes, Threads, ClientPlaces,
                    DeleterPlaces
<1>4. Used(conversations) = {} /\ Used(messages) = {}
  BY <1>1 DEF Init, Used
<1>5. Attached
  BY <1>1, <1>2, <1>4
     DEF Init, Attached, Isolated, QuestionsAttached, MemoriesAttached, DeletionsCurrent
<1>6. QED
  BY <1>3, <1>5 DEF QuietChatInv

\* A step that changes nothing keeps it.
LEMMA AttachedStutter ==
  ASSUME Types, Attached, UNCHANGED vars
  PROVE  Types' /\ Attached'
<1>1. \A c : MessagesOf(c)' = MessagesOf(c)
  BY DEF vars, tables, MessagesOf, Used
<1>2. QED
  BY <1>1 DEF Types, TableTypes, LocalTypes, Attached, Isolated, QuestionsAttached,
     MemoriesAttached, DeletionsCurrent, Used, vars, tables, locals

\* QuietChatInv is inductive: a history that was disturbed stays so.
LEMMA QuietChatInvHolds == Spec => []QuietChatInv
<1>1. Init => QuietChatInv
  BY QuietChatInit
<1>2. QuietChatInv /\ [Next]_vars => QuietChatInv'
  <2>1. CASE UNCHANGED vars
    <3>1. disturbed' = disturbed
      BY <2>1 DEF vars
    <3>2. QuietChatInv => Types'
      BY <2>1, TypesStep DEF QuietChatInv
    <3>3. QED
      BY <2>1, <3>1, <3>2, AttachedStutter DEF QuietChatInv
  <2>2. ASSUME QuietChatInv, Next, ~disturbed'
        PROVE  Attached'
    <3>1. ~disturbed
      BY <2>2 DEF Next, ChatStep, Ask, CheckMemory, ReadMemory, Generate, Repair,
                  CheckTarget, Save, Fail, Register, DeleteOpen, DeleteLoad,
                  DeleteCommit, DeleteFail
    <3>2. Types /\ Attached
      BY <2>2, <3>1 DEF QuietChatInv
    <3>3. QED
      BY <2>2, <3>2, AttachedStep
  <2>3. QED
    BY <2>1, <2>2, TypesStep DEF QuietChatInv
<1>3. QED
  BY <1>1, <1>2, PTL DEF Spec

\* As long as no project is deleted while it is asked about or twice at once,
\* a conversation and its messages are of the project that has their id, and
\* an answer is based on messages about the project it is asked about
\* (get_working_memory, save_exchange, the cascades of a deletion).
THEOREM QuietIsolated == Spec => []IsolatedIfQuiet
<1>1. QuietChatInv => IsolatedIfQuiet
  BY DEF QuietChatInv, Attached, MemoriesAttached, MemoryIsolated, IsolatedIfQuiet
<1>2. QED
  BY <1>1, QuietChatInvHolds, PTL

-----------------------------------------------------------------------------
(* The tables implement ConversationPromise.                               *)

\* A directory is registered once.
OneEach ==
  \A p, q \in Used(projects) : projects[p] = projects[q] => p = q

\* An answer that is about to be stored was accepted.
Accepted ==
  \A t \in Clients : pc[t] \in {"check_target", "save"} => draft[t] = "ok"

KeepingInv == Types /\ Attached /\ OneEach /\ Accepted

\* Registration refuses a directory that is registered.
LEMMA OneEachStep ==
  ASSUME Types, OneEach, Next
  PROVE  OneEach'
<1>1. CASE projects' = projects
  BY <1>1 DEF OneEach, Used
<1>2. ASSUME NEW r \in Roots, Register(r)
      PROVE  OneEach'
  <2>1. PICK n \in ProjectIds : projects' = [projects EXCEPT ![n] = r]
    BY <1>2 DEF Register
  <2>2. \A p \in ProjectIds : projects[p] # r
    BY <1>2 DEF Register
  <2>3. \A p \in Used(projects') :
          \/ p = n /\ projects'[p] = r
          \/ p # n /\ p \in Used(projects) /\ projects'[p] = projects[p]
    BY <2>1 DEF Used, Types, TableTypes
  <2>4. QED
    BY <2>2, <2>3 DEF OneEach, Used, Types, TableTypes
<1>3. ASSUME NEW t \in Deleters, DeleteCommit(t)
      PROVE  OneEach'
  <2>1. /\ Used(projects') = Used(projects) \ {pid[t]}
        /\ \A p \in Used(projects) \ {pid[t]} : projects'[p] = projects[p]
    BY <1>3, RemovedRows DEF DeleteCommit
  <2>2. QED
    BY <2>1 DEF OneEach
<1>4. QED
  BY <1>1, <1>2, <1>3
     DEF Next, ChatStep, Ask, CheckMemory, ReadMemory, Generate, Repair, CheckTarget,
         Save, Fail, DeleteOpen, DeleteLoad, DeleteFail, tables

\* Only an accepted answer leads to the end of a request.
LEMMA AcceptedStep ==
  ASSUME Types, Accepted, Next
  PROVE  Accepted'
<1>1. ASSUME NEW t \in Clients,
             (\E p \in ProjectIds, c \in ConvIds \cup {None} : Ask(t, p, c)) \/ ChatStep(t)
      PROVE  Accepted'
  <2>1. \A u \in Clients : u # t => pc'[u] = pc[u] /\ draft'[u] = draft[u]
    BY <1>1 DEF ChatStep, Ask, CheckMemory, ReadMemory, Generate, Repair, CheckTarget,
                Save, Fail, Finish, Answered, Goto, Types, LocalTypes, Threads
  <2>2. pc'[t] \in {"check_target", "save"} => draft'[t] = "ok"
    BY <1>1 DEF Accepted, ChatStep, Ask, CheckMemory, ReadMemory, Generate, Repair,
                CheckTarget, Save, Fail, Finish, Answered, Goto, Types, LocalTypes, Threads
  <2>3. QED
    BY <2>1, <2>2 DEF Accepted
<1>2. ASSUME NEW t \in Deleters,
             \/ \E p \in ProjectIds : DeleteOpen(t, p)
             \/ DeleteLoad(t) \/ DeleteCommit(t) \/ DeleteFail(t)
      PROVE  Accepted'
  <2>1. t \notin Clients
    BY ChatAssumption
  <2>2. \A u \in Clients : pc'[u] = pc[u] /\ draft'[u] = draft[u]
    BY <1>2, <2>1 DEF DeleteOpen, DeleteLoad, DeleteCommit, DeleteFail, Goto, Types,
                      LocalTypes, Threads
  <2>3. QED
    BY <2>2 DEF Accepted
<1>3. ASSUME NEW r \in Roots, Register(r)
      PROVE  Accepted'
  BY <1>3 DEF Register, locals, Accepted
<1>4. QED
  BY <1>1, <1>2, <1>3 DEF Next

\* What is appended to a sequence is found behind it.
LEMMA AppendedAt ==
  ASSUME NEW T, NEW s \in Seq(T), NEW w \in Seq(T), NEW j \in 1..Len(w)
  PROVE  (s \o w)[Len(s) + j] = w[j]
<1>1. Len(s) \in Nat /\ Len(w) \in Nat
  OBVIOUS
<1>2. PICK i \in 1..(Len(s) + Len(w)) : i = Len(s) + j
  BY <1>1
<1>3. ~ (i <= Len(s)) /\ i - Len(s) = j
  BY <1>1, <1>2
<1>4. (s \o w)[i] = w[i - Len(s)]
  BY <1>2, <1>3
<1>5. QED
  BY <1>2, <1>3, <1>4

\* Two rows after all others come last in their conversation.
LEMMA AppendedOrder ==
  ASSUME NEW S \in SUBSET Nat, IsFiniteSet(S), NEW n \in Nat, \A i \in S : i < n,
         NEW T, T = S \cup {n, n + 1}
  PROVE  /\ Cardinality(S) \in Nat /\ Cardinality(T) = Cardinality(S) + 2
         /\ \A k \in 1..Cardinality(S) : Ascending(T)[k] = Ascending(S)[k]
         /\ Ascending(T)[Cardinality(S) + 1] = n
         /\ Ascending(T)[Cardinality(S) + 2] = n + 1
<1>1. PICK M \in SUBSET Nat : M = S \cup {n}
  OBVIOUS
<1>2. /\ IsFiniteSet(M)
      /\ Cardinality(S) \in Nat /\ Cardinality(M) = Cardinality(S) + 1
      /\ \A k \in 1..Cardinality(S) : Ascending(M)[k] = Ascending(S)[k]
      /\ Ascending(M)[Cardinality(S) + 1] = n
  BY <1>1, AscendingAbove
<1>3. PICK m \in Nat : m = n + 1
  OBVIOUS
<1>4. \A i \in M : i < m
  BY <1>1, <1>3
<1>5. /\ Cardinality(M \cup {m}) = Cardinality(M) + 1
      /\ \A k \in 1..Cardinality(M) : Ascending(M \cup {m})[k] = Ascending(M)[k]
      /\ Ascending(M \cup {m})[Cardinality(M) + 1] = m
  BY <1>2, <1>4, AscendingAbove
<1>6. T = M \cup {m}
  BY <1>1, <1>3
<1>7. PICK l \in Nat : l = Cardinality(S)
  BY <1>2
<1>8. Cardinality(M) = l + 1 /\ l + 1 + 1 = l + 2
  BY <1>2, <1>7
<1>9. Cardinality(T) = l + 2 /\ Ascending(T)[l + 2] = n + 1
  BY <1>3, <1>5, <1>6, <1>8
<1>10. \A k \in 1..(l + 1) : Ascending(T)[k] = Ascending(M)[k]
  BY <1>5, <1>6, <1>8
<1>11. \A k \in 1..l : k \in 1..(l + 1)
  OBVIOUS
<1>12. l + 1 \in 1..(l + 1)
  OBVIOUS
<1>13. \A k \in 1..l : Ascending(T)[k] = Ascending(S)[k]
  BY <1>2, <1>7, <1>10, <1>11
<1>14. Ascending(T)[l + 1] = n
  BY <1>2, <1>7, <1>10, <1>12
<1>15. QED
  BY <1>7, <1>9, <1>13, <1>14

\* What is saved is said in its conversation after all that was said before.
LEMMA SavedHistory ==
  ASSUME Types, NEW t \in Clients, NEW c \in ConvIds, Exchange(t, c)
  PROVE  /\ \E q, a \in Message :
              /\ q.role = "user" /\ q.root = asked[t]
              /\ a.role = "assistant" /\ a.root = asked[t] /\ a.answer = draft[t]
              /\ a.exchange = q.exchange
              /\ History(c)' = History(c) \o <<q, a>>
         /\ \A d : d # c => History(d)' = History(d)
<1>1. PICK n, q, a :
        /\ n \in MsgIds /\ n + 1 \in MsgIds
        /\ \A i \in Used(messages) : i < n
        /\ q \in Message /\ a \in Message
        /\ q.role = "user" /\ q.root = asked[t] /\ q.conv = c
        /\ a.role = "assistant" /\ a.root = asked[t] /\ a.answer = draft[t] /\ a.conv = c
        /\ a.exchange = q.exchange
        /\ messages' = [messages EXCEPT ![n] = q, ![n + 1] = a]
        /\ Used(messages') = Used(messages) \cup {n, n + 1}
  <2> DEFINE m == Next1(messages)
             question == [conv |-> c, role |-> "user", exchange |-> m,
                          answer |-> None, root |-> asked[t]]
             answer == [question EXCEPT !.role = "assistant", !.answer = draft[t]]
  <2>1. /\ m \in MsgIds /\ m + 1 \in MsgIds
        /\ \A i \in Used(messages) : i < m
        /\ question \in Message /\ answer \in Message
        /\ messages' = [messages EXCEPT ![m] = question, ![m + 1] = answer]
        /\ Used(messages') = Used(messages) \cup {m, m + 1}
    BY ExchangeRows
  <2>2. /\ question.role = "user" /\ question.root = asked[t] /\ question.conv = c
        /\ answer.role = "assistant" /\ answer.root = asked[t]
        /\ answer.answer = draft[t] /\ answer.conv = c
        /\ answer.exchange = question.exchange
    OBVIOUS
  <2> HIDE DEF m, question, answer
  <2>3. QED
    BY <2>1, <2>2
<1>2. /\ DOMAIN messages = MsgIds /\ MsgIds \subseteq Nat /\ IsFiniteSet(MsgIds)
      /\ Used(messages) \in SUBSET MsgIds
  BY ChatAssumption, FS_CardinalityType DEF Types, TableTypes, Used
<1>3. /\ messages'[n] = q /\ messages'[n + 1] = a
      /\ \A i \in Used(messages) : messages'[i] = messages[i]
  <2>1. n \in Nat /\ n # n + 1
    BY <1>1, <1>2
  <2>2. \A i \in Used(messages) : i # n /\ i # n + 1
    BY <1>1, <1>2, <2>1
  <2>3. QED
    BY <1>1, <1>2, <2>1, <2>2
<1>4. ASSUME NEW d, d # c
      PROVE  History(d)' = History(d)
  <2>1. MessagesOf(d)' = {i \in Used(messages') : messages'[i].conv = d}
    BY DEF MessagesOf
  <2>2. MessagesOf(d)' = MessagesOf(d)
    BY <1>1, <1>3, <1>4, <2>1 DEF MessagesOf
  <2>3. PICK S \in SUBSET Used(messages) : S = MessagesOf(d)
    BY DEF MessagesOf
  <2>4. Ascending(S) \in [1..Cardinality(S) -> S]
    BY <1>2, AscendingOrder, FS_Subset
  <2>5. \A k \in 1..Cardinality(S) : messages'[Ascending(S)[k]] = messages[Ascending(S)[k]]
    BY <1>3, <2>4
  <2>6. QED
    BY <2>2, <2>3, <2>5 DEF History, SubSequence
<1>5. PICK S \in SUBSET Used(messages) : S = MessagesOf(c)
  BY DEF MessagesOf
<1>6. PICK T : T = S \cup {n, n + 1}
  OBVIOUS
<1>7. MessagesOf(c)' = T
  <2>1. MessagesOf(c)' = {i \in Used(messages') : messages'[i].conv = c}
    BY DEF MessagesOf
  <2>2. QED
    BY <1>1, <1>3, <1>5, <1>6, <2>1 DEF MessagesOf
<1>8. /\ Cardinality(S) \in Nat /\ Cardinality(T) = Cardinality(S) + 2
      /\ \A k \in 1..Cardinality(S) : Ascending(T)[k] = Ascending(S)[k]
      /\ Ascending(T)[Cardinality(S) + 1] = n
      /\ Ascending(T)[Cardinality(S) + 2] = n + 1
      /\ Ascending(S) \in [1..Cardinality(S) -> S]
  <2>1. S \in SUBSET Nat /\ IsFiniteSet(S) /\ n \in Nat /\ \A i \in S : i < n
    BY <1>1, <1>2, <1>5, FS_Subset
  <2>2. /\ Cardinality(S) \in Nat /\ Cardinality(T) = Cardinality(S) + 2
        /\ \A k \in 1..Cardinality(S) : Ascending(T)[k] = Ascending(S)[k]
        /\ Ascending(T)[Cardinality(S) + 1] = n
        /\ Ascending(T)[Cardinality(S) + 2] = n + 1
    BY ONLY <1>6, <2>1, AppendedOrder
  <2>3. Ascending(S) \in [1..Cardinality(S) -> S]
    BY ONLY <2>1, AscendingOrder
  <2>4. QED
    BY <2>2, <2>3
<1>9. PICK l \in Nat : l = Cardinality(S)
  BY <1>8
<1>10. PICK s \in Seq(Message) : s = History(c) /\ Len(s) = l
  BY <1>5, <1>9, HistoryType DEF Types
<1>11. s = [k \in 1..l |-> messages[Ascending(S)[k]]]
  BY <1>5, <1>9, <1>10 DEF History, SubSequence
<1>12. History(c)' = [k \in 1..(l + 2) |-> messages'[Ascending(T)[k]]]
  BY <1>7, <1>8, <1>9 DEF History, SubSequence
<1>13. ASSUME NEW k \in 1..(l + 2)
       PROVE  messages'[Ascending(T)[k]] = (s \o <<q, a>>)[k]
  <2>1. CASE k \in 1..l
    <3>1. Ascending(T)[k] = Ascending(S)[k] /\ Ascending(S)[k] \in Used(messages)
      BY <1>8, <1>9, <2>1
    <3>2. messages'[Ascending(T)[k]] = s[k]
      BY <1>3, <1>11, <2>1, <3>1
    <3>3. (s \o <<q, a>>)[k] = s[k]
      BY <1>10, <2>1
    <3>4. QED
      BY <3>2, <3>3
  <2>2. (s \o <<q, a>>)[l + 1] = q /\ (s \o <<q, a>>)[l + 2] = a
    <3>1. <<q, a>> \in Seq(Message) /\ Len(<<q, a>>) = 2
          /\ <<q, a>>[1] = q /\ <<q, a>>[2] = a
      BY <1>1
    <3>2. ASSUME NEW y \in Seq(Message), Len(y) = 2
          PROVE  (s \o y)[l + 1] = y[1] /\ (s \o y)[l + 2] = y[2]
      <4>1. Len(s) = l /\ 1 \in 1..Len(y) /\ 2 \in 1..Len(y)
        BY <1>10, <3>2
      <4>2. (s \o y)[Len(s) + 1] = y[1] /\ (s \o y)[Len(s) + 2] = y[2]
        BY ONLY <4>1, s \in Seq(Message), y \in Seq(Message), AppendedAt
      <4>3. QED
        BY <4>1, <4>2
    <3>3. QED
      BY <3>1, <3>2
  <2>3. Ascending(T)[l + 1] = n /\ Ascending(T)[l + 2] = n + 1
    BY <1>8, <1>9
  <2>4. CASE k = l + 1
    BY <1>3, <2>2, <2>3, <2>4
  <2>5. CASE k = l + 2
    BY <1>3, <2>2, <2>3, <2>5
  <2>6. k \in 1..l \/ k = l + 1 \/ k = l + 2
    OBVIOUS
  <2>7. QED
    BY <2>1, <2>4, <2>5, <2>6
<1>14. s \o <<q, a>> = [k \in 1..(l + 2) |-> (s \o <<q, a>>)[k]]
  BY <1>1, <1>10
<1>15. History(c)' = s \o <<q, a>>
  BY ONLY <1>12, <1>13, <1>14
<1>16. QED
  BY <1>1, <1>4, <1>10, <1>15

\* What ConversationPromise sees of the tables.
Directories == {projects[p] : p \in Used(projects)}
OwnerOf ==
  [c \in ConvIds |-> IF conversations[c] = None THEN None ELSE conversations[c].root]
SaidIn == [c \in ConvIds |-> History(c)]

\* A conversation that there is not has nothing said in it.
LEMMA NothingSaid ==
  ASSUME Types, Isolated, NEW c \in ConvIds, conversations[c] = None
  PROVE  History(c) = <<>>
<1>1. MessagesOf(c) = {}
  BY DEF MessagesOf, Isolated
<1>2. History(c) \in Seq(Message) /\ Len(History(c)) = 0
  BY <1>1, HistoryType, FS_EmptySet DEF Types
<1>3. QED
  BY <1>2

\* A saved exchange opens a conversation of the directory asked about, or
\* continues one.
LEMMA SaveKeeps ==
  ASSUME KeepingInv, NEW t \in Clients, Save(t)
  PROVE  Promise!Next
<1> USE DEF KeepingInv, Attached
<1>1. /\ pc[t] = "save" /\ pid[t] \in ProjectIds
      /\ asked[t] \in Roots /\ projects[pid[t]] = asked[t]
      /\ draft[t] = "ok" /\ projects' = projects
  BY DEF Save, QuestionsAttached, Accepted, Types, LocalTypes, Threads
<1>2. asked[t] \in Directories /\ Directories' = Directories
  BY <1>1, ChatAssumption DEF Directories, Used, Types, TableTypes
<1>3. conversations \in [ConvIds -> Conversation \cup {None}]
  BY DEF Types, TableTypes
<1>4. ASSUME NEW c \in ConvIds, Exchange(t, c)
      PROVE  /\ \E q, a \in Message :
                  /\ Promise!IsExchange(q, a, asked[t])
                  /\ SaidIn' = [SaidIn EXCEPT ![c] = SaidIn[c] \o <<q, a>>]
  <2>1. PICK q \in Message, a \in Message :
          /\ q.role = "user" /\ q.root = asked[t]
          /\ a.role = "assistant" /\ a.root = asked[t] /\ a.answer = draft[t]
          /\ a.exchange = q.exchange
          /\ History(c)' = History(c) \o <<q, a>>
    BY <1>4, SavedHistory
  <2>2. \A d : d # c => History(d)' = History(d)
    BY <1>4, SavedHistory
  <2>3. Promise!IsExchange(q, a, asked[t])
    BY <1>1, <2>1 DEF Promise!IsExchange
  <2>4. SaidIn[c] = History(c) /\ SaidIn' = [d \in ConvIds |-> History(d)']
    BY DEF SaidIn
  <2>5. SaidIn' = [SaidIn EXCEPT ![c] = SaidIn[c] \o <<q, a>>]
    BY <2>1, <2>2, <2>4 DEF SaidIn
  <2>6. QED
    BY <2>3, <2>5
<1>5. CASE conv[t] = None
  <2>1. PICK c \in ConvIds :
          /\ Exchange(t, c) /\ c = Next1(conversations)
          /\ conversations' = [conversations EXCEPT
               ![c] = [project |-> pid[t], root |-> asked[t]]]
    BY <1>5 DEF Save
  <2>2. /\ c \notin Used(conversations)
        /\ [project |-> pid[t], root |-> asked[t]] \in Conversation
    BY <1>1, <1>5, <2>1, OpenedRow
  <2>3. conversations[c] = None
    BY <1>3, <2>2 DEF Used
  <2>4. OwnerOf[c] = None /\ SaidIn[c] = <<>>
    BY <2>3, NothingSaid DEF OwnerOf, SaidIn
  <2>5. PICK row \in Conversation : row = [project |-> pid[t], root |-> asked[t]]
    BY <2>2
  <2>6. row.root = asked[t] /\ row # None
    BY <2>5, ChatAssumption
  <2>7. OwnerOf' = [OwnerOf EXCEPT ![c] = asked[t]]
    BY <1>3, <2>1, <2>5, <2>6 DEF OwnerOf
  <2>8. PICK r \in Roots : r = asked[t]
    BY <1>1
  <2>9. Promise!Exchange(c, r)
    <3>1. Promise!Exchange(c, asked[t])
      BY <1>4, <2>1 DEF Promise!Exchange, SaidIn
    <3>2. QED
      BY <2>8, <3>1
  <2>10. Promise!Open(c, r)
    BY <1>2, <2>4, <2>7, <2>8, <2>9 DEF Promise!Open, Directories, OwnerOf, SaidIn
  <2>11. QED
    BY <2>10 DEF Promise!Next
<1>6. CASE conv[t] # None
  <2>1. PICK c \in ConvIds : c = conv[t]
    BY <1>6 DEF Types, LocalTypes
  <2>2. Exchange(t, c) /\ conversations' = conversations
    BY <1>6, <2>1 DEF Save
  <2>3. /\ conversations[c] # None /\ conversations[c].project = pid[t]
        /\ c \in Used(conversations)
    BY <1>1, <1>3, <1>6, <2>1 DEF QuestionsAttached, Used
  <2>4. conversations[c].root = asked[t]
    BY <1>1, <2>3 DEF Isolated
  <2>5. OwnerOf[c] = asked[t] /\ OwnerOf' = OwnerOf
    BY <2>2, <2>3, <2>4 DEF OwnerOf
  <2>6. Promise!Exchange(c, asked[t])
    BY <1>4, <2>2 DEF Promise!Exchange, SaidIn
  <2>7. Promise!Exchange(c, OwnerOf[c])
    BY <2>5, <2>6
  <2>8. Promise!Continue(c)
    BY <1>2, <2>5, <2>7 DEF Promise!Continue, Directories, OwnerOf
  <2>9. QED
    BY <2>8 DEF Promise!Next
<1>7. QED
  BY <1>5, <1>6

\* A registration is one.
LEMMA RegisterKeeps ==
  ASSUME KeepingInv, NEW r \in Roots, Register(r)
  PROVE  Promise!Next
<1> USE DEF KeepingInv
<1>1. /\ conversations' = conversations /\ messages' = messages
      /\ \A p \in ProjectIds : projects[p] # r
  BY DEF Register
<1>2. PICK n \in ProjectIds : n = Next1(projects) /\ projects' = [projects EXCEPT ![n] = r]
  BY DEF Register
<1>3. n \notin Used(projects)
  <2>1. DOMAIN projects \subseteq Nat /\ IsFiniteSet(DOMAIN projects)
    BY ChatAssumption DEF Types, TableTypes
  <2>2. QED
    BY <1>2, <2>1, NextRow DEF Used
<1>4. /\ DOMAIN projects = ProjectIds /\ r # None
      /\ projects'[n] = r
      /\ \A p \in ProjectIds : p # n => projects'[p] = projects[p]
  BY <1>2, ChatAssumption DEF Types, TableTypes
<1>5. Used(projects') = Used(projects) \cup {n}
  BY <1>2, <1>4 DEF Used
<1>6. r \notin Directories /\ Directories' = Directories \cup {r}
  BY <1>1, <1>3, <1>4, <1>5 DEF Directories, Used
<1>7. OwnerOf' = OwnerOf /\ SaidIn' = SaidIn
  BY <1>1 DEF OwnerOf, SaidIn, History, MessagesOf, Used
<1>8. Promise!Register(r)
  BY <1>6, <1>7 DEF Promise!Register, Directories, OwnerOf, SaidIn
<1>9. QED
  BY <1>8 DEF Promise!Next

\* A deletion takes the conversations of its directory and nothing else; the
\* second of two deletions of one project finds nothing left to take.
LEMMA CommitKeeps ==
  ASSUME KeepingInv, NEW t \in Deleters, DeleteCommit(t)
  PROVE  [Promise!Next]_(Promise!vars)
<1> USE DEF KeepingInv, Attached
<1>1. PICK p \in ProjectIds : p = pid[t]
  BY DEF DeleteCommit, Types, LocalTypes, Threads
<1>2. PICK C, M : C = loaded[t].convs /\ M = loaded[t].msgs
  OBVIOUS
<1>3. /\ C = {c \in Used(conversations) : conversations[c].project = p}
      /\ M = UNION {MessagesOf(c) : c \in C}
  BY <1>1, <1>2 DEF DeletionsCurrent, DeleteCommit
<1>4. /\ Used(projects') = Used(projects) \ {p}
      /\ \A q \in Used(projects) \ {p} : projects'[q] = projects[q]
  BY <1>1, RemovedRows DEF DeleteCommit
<1>5. conversations' = Removed(conversations, C)
  BY <1>2 DEF DeleteCommit
<1>6. /\ Used(messages') = Used(messages) \ M
      /\ \A m \in Used(messages) \ M : messages'[m] = messages[m]
  BY <1>2, RemovedRows DEF DeleteCommit
<1>7. \A c \in Used(conversations) :
        conversations[c] \in Conversation /\ c \in ConvIds
  BY DEF Used, Types, TableTypes
<1>8. \A c \in Used(conversations) :
        /\ conversations[c].project \in Used(projects)
        /\ conversations[c].root = projects[conversations[c].project]
        /\ conversations[c].root # None
  <2>1. \A c \in Used(conversations) :
          conversations[c].project \in ProjectIds /\ conversations[c].root \in Roots
    BY <1>7 DEF Conversation
  <2>2. QED
    BY <2>1, ChatAssumption DEF Isolated, Used, Types, TableTypes
<1>9. ASSUME NEW c \in C
      PROVE  History(c)' = <<>>
  <2>1. MessagesOf(c) \subseteq M
    BY <1>3
  <2>2. MessagesOf(c)' = {m \in Used(messages') : messages'[m].conv = c}
    BY DEF MessagesOf
  <2>3. MessagesOf(c)' = {}
    BY <1>6, <2>1, <2>2 DEF MessagesOf
  <2>4. QED
    BY <2>3, FS_EmptySet DEF History, SubSequence
<1>10. ASSUME NEW c \in ConvIds, c \notin C
       PROVE  History(c)' = History(c)
  <2>1. \A m \in Used(messages) : messages[m].conv = c => m \notin M
    BY <1>3, <1>10 DEF MessagesOf
  <2>2. MessagesOf(c)' = {m \in Used(messages') : messages'[m].conv = c}
    BY DEF MessagesOf
  <2>3. MessagesOf(c)' = MessagesOf(c)
    BY <1>6, <2>1, <2>2 DEF MessagesOf
  <2>4. PICK S : S = MessagesOf(c) /\ S \subseteq Used(messages) \ M
    BY <2>1 DEF MessagesOf
  <2>5. IsFiniteSet(S) /\ S \in SUBSET Nat
    BY <2>4, HistoryType DEF Types
  <2>6. Ascending(S) \in [1..Cardinality(S) -> S]
    BY <2>5, AscendingOrder
  <2>7. \A k \in 1..Cardinality(S) : messages'[Ascending(S)[k]] = messages[Ascending(S)[k]]
    BY <1>6, <2>4, <2>6
  <2>8. QED
    BY <2>3, <2>4, <2>7 DEF History, SubSequence
<1>11. \A c \in ConvIds : conversations'[c] = IF c \in C THEN None ELSE conversations[c]
  BY <1>5 DEF Removed, Types, TableTypes
<1>12. CASE p \in Used(projects)
  <2>1. PICK r \in Roots : r = projects[p]
    BY <1>12 DEF Used, Types, TableTypes
  <2>2. r # None /\ r \in Directories
    BY <1>12, <2>1, ChatAssumption DEF Directories
  <2>3. Directories' = Directories \ {r}
    <3>1. \A q \in Used(projects) : projects[q] = r <=> q = p
      BY <1>12, <2>1 DEF OneEach
    <3>2. QED
      BY <1>4, <3>1 DEF Directories
  <2>4. ASSUME NEW c \in ConvIds
        PROVE  OwnerOf[c] = r <=> c \in C
    <3>1. CASE c \in Used(conversations)
      <4>1. OwnerOf[c] = projects[conversations[c].project]
        BY <1>8, <3>1 DEF OwnerOf, Used
      <4>2. projects[conversations[c].project] = r <=> conversations[c].project = p
        BY <1>8, <1>12, <2>1, <3>1 DEF OneEach
      <4>3. QED
        BY <1>3, <3>1, <4>1, <4>2
    <3>2. CASE c \notin Used(conversations)
      <4>1. OwnerOf[c] = None
        BY <3>2 DEF OwnerOf, Used, Types, TableTypes
      <4>2. QED
        BY <1>3, <2>2, <3>2, <4>1
    <3>3. QED
      BY <3>1, <3>2
  <2>5. OwnerOf' = [c \in ConvIds |-> IF OwnerOf[c] = r THEN None ELSE OwnerOf[c]]
    <3>1. ASSUME NEW c \in ConvIds
          PROVE  OwnerOf'[c] = IF OwnerOf[c] = r THEN None ELSE OwnerOf[c]
      BY <1>11, <2>4 DEF OwnerOf
    <3>2. QED
      BY <3>1 DEF OwnerOf
  <2>6. SaidIn' = [c \in ConvIds |-> IF OwnerOf[c] = r THEN <<>> ELSE SaidIn[c]]
    <3>1. ASSUME NEW c \in ConvIds
          PROVE  History(c)' = IF OwnerOf[c] = r THEN <<>> ELSE SaidIn[c]
      BY <1>9, <1>10, <2>4 DEF SaidIn
    <3>2. SaidIn' = [c \in ConvIds |-> History(c)']
      BY DEF SaidIn
    <3>3. QED
      BY <3>1, <3>2
  <2>7. Promise!Delete(r)
    BY <2>2, <2>3, <2>5, <2>6 DEF Promise!Delete, Directories, OwnerOf, SaidIn
  <2>8. QED
    BY <2>7 DEF Promise!Next
<1>13. CASE p \notin Used(projects)
  <2>1. C = {}
    BY <1>3, <1>8, <1>13
  <2>2. Directories' = Directories
    BY <1>4, <1>13 DEF Directories
  <2>3. OwnerOf' = OwnerOf
    BY <1>11, <2>1 DEF OwnerOf
  <2>4. SaidIn' = SaidIn
    BY <1>10, <2>1 DEF SaidIn
  <2>5. QED
    BY <2>2, <2>3, <2>4 DEF Promise!vars, Directories, OwnerOf, SaidIn
<1>14. QED
  BY <1>12, <1>13

\* The other steps change none of the tables.
LEMMA TablesKeep ==
  ASSUME UNCHANGED tables
  PROVE  UNCHANGED (Promise!vars)
<1>1. UNCHANGED <<projects, conversations, messages>>
  BY DEF tables
<1>2. Directories' = Directories /\ OwnerOf' = OwnerOf
  BY <1>1 DEF Directories, OwnerOf, Used
<1>3. SaidIn' = SaidIn
  BY <1>1 DEF SaidIn, History, MessagesOf, Used
<1>4. QED
  BY <1>2, <1>3 DEF Promise!vars, Directories, OwnerOf, SaidIn

LEMMA PromiseStep ==
  ASSUME KeepingInv, [Next /\ ~disturbed']_vars
  PROVE  [Promise!Next]_(Promise!vars)
<1>1. CASE UNCHANGED tables
  BY <1>1, TablesKeep
<1>2. CASE \/ \E t \in Clients : Save(t)
           \/ \E r \in Roots : Register(r)
           \/ \E t \in Deleters : DeleteCommit(t)
  BY <1>2, SaveKeeps, RegisterKeeps, CommitKeeps
<1>3. QED
  BY <1>1, <1>2
     DEF vars, Next, ChatStep, Ask, CheckMemory, ReadMemory, Generate, Repair,
         CheckTarget, Fail, DeleteOpen, DeleteLoad, DeleteFail

\* Nothing is registered, owned or said at the start.
LEMMA PromiseInit == Init => Promise!Init
<1>1. SUFFICES ASSUME Init PROVE Promise!Init
  OBVIOUS
<1>2. Used(projects) = {} /\ Used(messages) = {}
  BY <1>1 DEF Init, Used
<1>3. Directories = {}
  BY <1>2 DEF Directories
<1>4. OwnerOf = [c \in ConvIds |-> None]
  BY <1>1 DEF Init, OwnerOf
<1>5. SaidIn = [c \in ConvIds |-> <<>>]
  <2>1. \A c : MessagesOf(c) = {}
    BY <1>2 DEF MessagesOf
  <2>2. ASSUME NEW c PROVE History(c) = <<>>
    <3>1. Cardinality(MessagesOf(c)) = 0
      BY <2>1, FS_EmptySet
    <3>2. 1..Cardinality(MessagesOf(c)) = {}
      BY <3>1
    <3>3. History(c) = [k \in {} |-> messages[Ascending(MessagesOf(c))[k]]]
      BY <3>2 DEF History, SubSequence
    <3>4. QED
      BY <3>3
  <2>3. QED
    BY <2>2 DEF SaidIn
<1>6. QED
  BY <1>3, <1>4, <1>5 DEF Promise!Init, Directories, OwnerOf, SaidIn

\* While nobody works on a project that is deleted, the tables implement
\* ConversationPromise: a question is stored with an accepted answer or not at
\* all, at the end of its conversation, and a deletion takes the conversations
\* of its directory and no others, whichever ids are given out again
\* (save_exchange, the cascades of a deletion).
THEOREM ConversationsKept == QuietSpec => ImplementsPromise
<1>1. Init => KeepingInv
  BY QuietChatInit DEF Init, KeepingInv, QuietChatInv, OneEach, Accepted, Used
<1>2. KeepingInv /\ [Next /\ ~disturbed']_vars => KeepingInv'
  <2>1. SUFFICES ASSUME KeepingInv, [Next /\ ~disturbed']_vars PROVE KeepingInv'
    OBVIOUS
  <2>2. CASE UNCHANGED vars
    <3>1. Types' /\ Attached'
      BY <2>1, <2>2, AttachedStutter DEF KeepingInv
    <3>2. QED
      BY <2>1, <2>2, <3>1
         DEF KeepingInv, OneEach, Accepted, Used, vars, tables, locals
  <2>3. CASE Next /\ ~disturbed'
    BY <2>1, <2>3, TypesStep, AttachedStep, OneEachStep, AcceptedStep DEF KeepingInv
  <2>4. QED
    BY <2>1, <2>2, <2>3
<1>3. KeepingInv /\ [Next /\ ~disturbed']_vars => [Promise!Next]_(Promise!vars)
  BY PromiseStep
<1>4. QED
  BY <1>1, <1>2, <1>3, PromiseInit, PTL DEF QuietSpec, ImplementsPromise, Promise!Spec
=============================================================================

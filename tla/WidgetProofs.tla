---------------------------- MODULE WidgetProofs ----------------------------
(***************************************************************************)
(* The visitor's side of a chat, in two parts that share no state: which   *)
(* agent his first message is routed to (Routing), and how the chat's      *)
(* messages reach his page (WidgetDelivery).                               *)
(*                                                                         *)
(* Routing gives an agent fewer chats than his limit plus the number of    *)
(* first messages handled at the same time, for any number of agents,      *)
(* limits and chats.  The argument counts promises: a request that has     *)
(* seen room for an agent may still give him a chat.  While it counts, the *)
(* agent has less than his limit; afterwards chats and promises together   *)
(* do not grow, because each chat given uses one promise up.               *)
(*                                                                         *)
(* The page, for any length of chat and of history, any number of          *)
(* histories under way, of dropped sockets and of reloads, shows no note,  *)
(* nothing twice, and lacks nothing once a whole history that was read     *)
(* from within the chat's room has been rendered.  The last one rests on   *)
(* what such a history promises while it is under way (Promised): as long  *)
(* as the socket stays in the room, whatever was stored after it was read  *)
(* comes as an event.                                                      *)
(***************************************************************************)
EXTENDS Routing, WidgetDelivery, FiniteSetTheorems, SequenceTheorems, TLAPS

(***************************************************************************)
(* The agent.                                                              *)
(***************************************************************************)
\* Requests that have seen room for agent a.
Promises(a) ==
    {r \in Requests : req[r].open[a] # None /\ req[r].open[a] < MaxOpenChats[a]}

Bounded(a) ==
    (routed[a] > 0 \/ Promises(a) # {}) =>
        routed[a] + Cardinality(Promises(a)) < MaxOpenChats[a] + Cardinality(Requests)

\* The inductive invariant: chats and promises together stay below the bound.
IInv == RoutingTypeOK /\ \A a \in Agents : Bounded(a)

-----------------------------------------------------------------------------
(***************************************************************************)
(* Lemmas.                                                                 *)
(***************************************************************************)

\* The steps of RoutingNext, one by one.
LEMMA StepCases ==
    ASSUME Step, NEW P,
           ASSUME NEW r \in Requests, Receive(r) PROVE P,
           ASSUME NEW r \in Requests, ReadAgents(r) PROVE P,
           ASSUME NEW r \in Requests, Lose(r) PROVE P,
           ASSUME NEW r \in Requests, NEW a \in Agents, Count(r, a) PROVE P,
           ASSUME NEW r \in Requests, NEW a \in Owners, Create(r, a) PROVE P,
           ASSUME NEW a \in Agents, ComeOrGo(a) PROVE P,
           ASSUME NEW a \in Agents, Start(a) PROVE P,
           ASSUME NEW a \in Owners, Finish(a) PROVE P,
           ASSUME NEW a \in Owners, Reopen(a) PROVE P,
           ASSUME NEW a \in Owners, NEW b \in Agents, Assign(a, b) PROVE P
    PROVE  P
  BY DEF Step, Owners

\* The promises are a finite set with a natural number of members, at most all
\* requests.
LEMMA PromisesAreFinite ==
    ASSUME NEW a \in Agents
    PROVE  /\ IsFiniteSet(Promises(a))
           /\ Cardinality(Promises(a)) \in Nat
           /\ Cardinality(Requests) \in Nat
           /\ Cardinality(Promises(a)) <= Cardinality(Requests)
  <1>1. Promises(a) \subseteq Requests
    BY DEF Promises
  <1> QED
    BY <1>1, RequestsAssumption, FS_Subset, FS_CardinalityType

\* The initial state is well typed.
LEMMA InitType == RoutingInit => RoutingTypeOK
  <1> SUFFICES ASSUME RoutingInit PROVE RoutingTypeOK
    OBVIOUS
  <1>1. Idle \in [pc : {"idle", "reading", "counting"}, left : SUBSET Agents,
                  open : [Agents -> Nat \cup {None}]]
    BY DEF Idle
  <1> QED
    BY <1>1, MaxChatsAssumption DEF RoutingInit, RoutingTypeOK, Idle

\* What a request has read is well typed after each step, and the history too.
LEMMA FreeType ==
    ASSUME RoutingTypeOK, RecordFree, online' \in SUBSET Agents
    PROVE  free' \in [Requests -> SUBSET Agents]
  <1>1. Free \subseteq Agents
    BY DEF Free, RoutingTypeOK
  <1>2. \A r \in Requests : free[r] \cap Free' \subseteq Agents
    BY DEF RoutingTypeOK
  <1> QED
    BY <1>1, <1>2 DEF RecordFree

\* A step keeps the state well typed.
LEMMA NextType == RoutingTypeOK /\ [RoutingNext]_routingVars => RoutingTypeOK'
  <1> SUFFICES ASSUME RoutingTypeOK, RoutingNext PROVE RoutingTypeOK'
    <2>1. CASE UNCHANGED routingVars
      BY <2>1 DEF RoutingTypeOK, routingVars, chats
    <2> QED
      BY <2>1
  <1> USE NoneAssumption
  <1> DEFINE RestOK ==
        /\ online' \in SUBSET Agents
        /\ routed' \in [Agents -> Nat]
        /\ other' \in [Owners -> Nat]
        /\ finished' \in [Owners -> Nat]
        /\ created' \in 0 .. MaxChats
        /\ req' \in [Requests -> [pc : {"idle", "reading", "counting"}, left : SUBSET Agents,
                                  open : [Agents -> Nat \cup {None}]]]
  <1>0. Idle \in [pc : {"idle", "reading", "counting"}, left : SUBSET Agents,
                  open : [Agents -> Nat \cup {None}]]
    BY DEF Idle
  <1>1. ASSUME NEW r \in Requests, Receive(r) PROVE RestOK
    BY <1>1, SMTT(30) DEF Receive, RoutingTypeOK, chats
  <1>2. ASSUME NEW r \in Requests, ReadAgents(r) PROVE RestOK
    BY <1>2, ZenonT(40) DEF ReadAgents, RoutingTypeOK, chats
  <1>3. ASSUME NEW r \in Requests, Lose(r) PROVE RestOK
    BY <1>3, <1>0 DEF Lose, RoutingTypeOK, chats
  <1>4. ASSUME NEW r \in Requests, NEW a \in Agents, Count(r, a) PROVE RestOK
    <2>1. Open(a) \in Nat
      BY DEF Open, RoutingTypeOK, Owners
    <2> DEFINE left == req[r].left \ {a}
    <2> DEFINE open == [req[r].open EXCEPT ![a] = Open(a)]
    <2>2. left \in SUBSET Agents /\ open \in [Agents -> Nat \cup {None}]
      BY <2>1 DEF RoutingTypeOK
    <2>3. req' = [req EXCEPT ![r] = [req[r] EXCEPT !.left = left, !.open = open]]
      BY <1>4, ZenonT(40) DEF Count, RoutingTypeOK
    <2> HIDE DEF left, open
    <2>4. [req[r] EXCEPT !.left = left, !.open = open]
             \in [pc : {"idle", "reading", "counting"}, left : SUBSET Agents,
                  open : [Agents -> Nat \cup {None}]]
      BY <2>2, ZenonT(40) DEF RoutingTypeOK
    <2>5. UNCHANGED <<online, chats>>
      BY <1>4 DEF Count
    <2> QED
      BY <2>3, <2>4, <2>5 DEF RoutingTypeOK, chats
  <1>5. ASSUME NEW r \in Requests, NEW a \in Owners, Create(r, a) PROVE RestOK
    BY <1>5, <1>0, MaxChatsAssumption, SMTT(30) DEF Create, CountChat, RoutingTypeOK, Owners
  <1>6. ASSUME NEW a \in Agents, ComeOrGo(a) PROVE RestOK
    BY <1>6 DEF ComeOrGo, RoutingTypeOK, chats
  <1>7. ASSUME NEW a \in Agents, Start(a) PROVE RestOK
    BY <1>7, MaxChatsAssumption DEF Start, CountChat, RoutingTypeOK, Owners
  <1>8. ASSUME NEW a \in Owners, Finish(a) PROVE RestOK
    BY <1>8, SMTT(30) DEF Finish, TakeOther, TakeRouted, RoutingTypeOK, Owners
  <1>9. ASSUME NEW a \in Owners, Reopen(a) PROVE RestOK
    BY <1>9 DEF Reopen, RoutingTypeOK
  <1>10. ASSUME NEW a \in Owners, NEW b \in Agents, Assign(a, b) PROVE RestOK
    BY <1>10 DEF Assign, TakeRouted, RoutingTypeOK, Owners
  <1>11. RestOK
    <2> HIDE DEF RestOK
    <2> QED
      BY <1>1, <1>2, <1>3, <1>4, <1>5, <1>6, <1>7, <1>8, <1>9, <1>10, StepCases DEF RoutingNext
  <1> QED
    BY <1>11, FreeType DEF RoutingTypeOK, RoutingNext

\* A step that neither gives agent a a chat nor makes a promise keeps his bound.
LEMMA Shrinking ==
    ASSUME RoutingTypeOK, RoutingTypeOK', NEW a \in Agents, Bounded(a),
           routed'[a] <= routed[a], Promises(a)' \subseteq Promises(a)
    PROVE  Bounded(a)'
  <1>1. /\ routed[a] \in Nat /\ routed'[a] \in Nat
        /\ MaxOpenChats[a] \in Nat
    BY MaxOpenChatsAssumption DEF RoutingTypeOK
  <1>2. Cardinality(Promises(a)') <= Cardinality(Promises(a))
    BY PromisesAreFinite, FS_Subset
  <1>3. Cardinality(Promises(a)') \in Nat
    BY PromisesAreFinite, FS_Subset, FS_CardinalityType
  <1> QED
    BY <1>1, <1>2, <1>3, PromisesAreFinite DEF Bounded

-----------------------------------------------------------------------------
\* The inductive invariant is preserved by every step.
LEMMA Preserved == IInv /\ [RoutingNext]_routingVars => IInv'
  <1> SUFFICES ASSUME IInv, RoutingNext PROVE IInv'
    <2>1. CASE UNCHANGED routingVars
      BY <2>1 DEF IInv, RoutingTypeOK, Bounded, Promises, routingVars, chats
    <2> QED
      BY <2>1
  <1>1. RoutingTypeOK /\ RoutingTypeOK'
    BY NextType DEF IInv
  <1> SUFFICES ASSUME NEW q \in Agents PROVE Bounded(q)'
    BY <1>1 DEF IInv
  <1>2. Bounded(q)
    BY DEF IInv
  <1> USE NoneAssumption
  <1> DEFINE P == Bounded(q)'
  <1>a. ASSUME routed' = routed, req' = req PROVE P
    BY <1>a, <1>1, <1>2, Shrinking DEF Promises, RoutingTypeOK
  <1>b. ASSUME req' = req, routed'[q] <= routed[q] PROVE P
    BY <1>b, <1>1, <1>2, Shrinking DEF Promises
  <1>c. ASSUME NEW r \in Requests, routed' = routed, req' = [req EXCEPT ![r] = Idle] PROVE P
    <2>1. Promises(q)' \subseteq Promises(q)
      BY <1>c, <1>1 DEF Promises, Idle, RoutingTypeOK
    <2> QED
      BY <2>1, <1>c, <1>1, <1>2, Shrinking DEF RoutingTypeOK
  <1>3. ASSUME NEW r \in Requests, Receive(r) PROVE P
    <2>1. Promises(q)' = Promises(q)
      BY <1>3, <1>1 DEF Receive, Promises, RoutingTypeOK
    <2>2. routed'[q] <= routed[q]
      BY <1>3, <1>1 DEF Receive, chats, RoutingTypeOK
    <2> QED
      BY <2>1, <2>2, <1>1, <1>2, Shrinking
  <1>4. ASSUME NEW r \in Requests, ReadAgents(r) PROVE P
    <2>1. Promises(q)' = Promises(q)
      BY <1>4, <1>1 DEF ReadAgents, Promises, RoutingTypeOK
    <2>2. routed'[q] <= routed[q]
      BY <1>4, <1>1 DEF ReadAgents, chats, RoutingTypeOK
    <2> QED
      BY <2>1, <2>2, <1>1, <1>2, Shrinking
  <1>5. ASSUME NEW r \in Requests, Lose(r) PROVE P
    BY <1>5, <1>c DEF Lose, chats
  \* A promise to agent a is made when he has less than his limit.
  <1>6. ASSUME NEW r \in Requests, NEW a \in Agents, Count(r, a) PROVE P
    <2>0. routed' = routed /\ \A s \in Requests : s # r => req'[s] = req[s]
      BY <1>6, <1>1 DEF Count, chats, RoutingTypeOK
    <2>1. CASE a # q \/ ~(Open(a) < MaxOpenChats[a])
      <3>1. Promises(q)' \subseteq Promises(q)
        BY <1>6, <1>1, <2>0, <2>1 DEF Count, Promises, RoutingTypeOK
      <3>2. routed'[q] <= routed[q]
        BY <2>0, <1>1 DEF RoutingTypeOK
      <3> QED
        BY <3>1, <3>2, <1>1, <1>2, Shrinking
    <2>2. CASE a = q /\ Open(a) < MaxOpenChats[a]
      <3>1. routed[q] < MaxOpenChats[q]
        BY <2>2, <1>1, MaxOpenChatsAssumption DEF Open, RoutingTypeOK, Owners
      <3>2. Cardinality(Promises(q)') <= Cardinality(Requests)
        BY PromisesAreFinite, FS_Subset, RequestsAssumption DEF Promises
      <3>3. Cardinality(Promises(q)') \in Nat /\ Cardinality(Requests) \in Nat
        BY RequestsAssumption, FS_Subset, FS_CardinalityType DEF Promises
      <3>4. routed[q] \in Nat /\ MaxOpenChats[q] \in Nat
        BY <1>1, MaxOpenChatsAssumption DEF RoutingTypeOK
      <3> QED
        BY <3>1, <3>2, <3>3, <3>4, <2>0 DEF Bounded
    <2> QED
      BY <2>1, <2>2
  \* A chat given to agent a uses up the promise it rests on.
  <1>7. ASSUME NEW r \in Requests, NEW a \in Owners, Create(r, a) PROVE P
    <2>0. req' = [req EXCEPT ![r] = Idle]
      BY <1>7 DEF Create
    <2>1. CASE a = None
      BY <1>7, <2>1, <2>0, <1>c DEF Create
    <2>2. CASE a # None /\ a # q
      <3>1. routed'[q] = routed[q]
        BY <1>7, <1>1, <2>2 DEF Create, RoutingTypeOK, Owners
      <3>2. Promises(q)' \subseteq Promises(q)
        BY <2>0, <1>1 DEF Promises, Idle, RoutingTypeOK
      <3>3. routed'[q] <= routed[q]
        BY <3>1, <1>1 DEF RoutingTypeOK
      <3> QED
        BY <3>1, <3>2, <3>3, <1>1, <1>2, Shrinking
    <2>3. CASE a = q
      <3>1. r \in Promises(q)
        BY <1>7, <2>3 DEF Create, Candidates, WithRoom, Counted, Promises
      <3>2. Promises(q)' = Promises(q) \ {r}
        BY <2>0, <1>1 DEF Promises, Idle, RoutingTypeOK
      <3>3. Cardinality(Promises(q)') = Cardinality(Promises(q)) - 1
        BY <3>1, <3>2, PromisesAreFinite, FS_RemoveElement
      <3>4. routed'[q] = routed[q] + 1
        BY <1>7, <1>1, <2>3 DEF Create, RoutingTypeOK
      <3>5. routed[q] \in Nat /\ MaxOpenChats[q] \in Nat
        BY <1>1, MaxOpenChatsAssumption DEF RoutingTypeOK
      <3> QED
        BY <3>1, <3>3, <3>4, <3>5, <1>2, PromisesAreFinite DEF Bounded
    <2> QED
      BY <2>1, <2>2, <2>3
  <1>8. ASSUME NEW a \in Agents, ComeOrGo(a) PROVE P
    BY <1>8, <1>a DEF ComeOrGo, chats
  <1>9. ASSUME NEW a \in Agents, Start(a) PROVE P
    BY <1>9, <1>a DEF Start
  <1>10. ASSUME NEW a \in Owners, Finish(a) PROVE P
    BY <1>10, <1>b, <1>1 DEF Finish, TakeRouted, RoutingTypeOK, Owners
  <1>11. ASSUME NEW a \in Owners, Reopen(a) PROVE P
    BY <1>11, <1>a DEF Reopen
  <1>12. ASSUME NEW a \in Owners, NEW b \in Agents, Assign(a, b) PROVE P
    BY <1>12, <1>b, <1>1 DEF Assign, TakeRouted, RoutingTypeOK, Owners
  <1> HIDE DEF P
  <1>13. P
    BY <1>3, <1>4, <1>5, <1>6, <1>7, <1>8, <1>9, <1>10, <1>11, <1>12, StepCases DEF RoutingNext
  <1> QED
    BY <1>13 DEF P

\* Nobody has a chat or a promise at first.
LEMMA InitBounded == RoutingInit => IInv
  <1> SUFFICES ASSUME RoutingInit PROVE IInv
    OBVIOUS
  <1>1. \A a \in Agents : routed[a] = 0 /\ Promises(a) = {}
    BY DEF RoutingInit, Promises, Idle
  <1> QED
    BY <1>1, InitType DEF IInv, Bounded

-----------------------------------------------------------------------------
\* The state is well typed, whatever the number of agents, requests and chats.
THEOREM RoutingTyping == RoutingSpec => []RoutingTypeOK
  <1> QED
    BY InitType, NextType, PTL DEF RoutingSpec

\* Chats and promises stay below limit plus requests.
THEOREM Invariance == RoutingSpec => []IInv
  <1> QED
    BY InitBounded, Preserved, PTL DEF RoutingSpec

\* pickAgentForRouting gives an agent at most one chat above his limit for each
\* other first message that is handled at the same time.
THEOREM Overrun == RoutingSpec => []OverrunIsBounded
  <1>1. IInv => OverrunIsBounded
    <2> SUFFICES ASSUME IInv, NEW a \in Agents, routed[a] > 0
                 PROVE  routed[a] < MaxOpenChats[a] + Cardinality(Requests)
      BY DEF OverrunIsBounded
    <2>1. routed[a] \in Nat /\ MaxOpenChats[a] \in Nat
      BY MaxOpenChatsAssumption DEF IInv, RoutingTypeOK
    <2> QED
      BY <2>1, PromisesAreFinite DEF IInv, Bounded
  <1> QED
    BY <1>1, Invariance, PTL

-----------------------------------------------------------------------------
(***************************************************************************)
(* The queue.  What a request knows of the agents that had room all along  *)
(* is that it has yet to count them, or saw their room.                    *)
(***************************************************************************)
Remembered(r) ==
    req[r].pc = "counting" => free[r] \subseteq req[r].left \cup WithRoom(r)

QInv == RoutingTypeOK /\ \A r \in Requests : Remembered(r)

\* An agent with room at the end of a step is online and below his limit.
LEMMA FreeOnlyShrinks ==
    ASSUME RoutingTypeOK, RecordFree, NEW r \in Requests, req[r].pc = "counting"
    PROVE  /\ free'[r] \subseteq free[r]
           /\ \A a \in free'[r] : Open(a)' < MaxOpenChats[a]
  <1>1. CASE req'[r].pc # "counting"
    BY <1>1 DEF RecordFree
  <1>2. CASE req'[r].pc = "counting"
    <2>1. free'[r] = free[r] \cap Free'
      BY <1>2 DEF RecordFree
    <2> QED
      BY <2>1 DEF Free, HasRoom
  <1> QED
    BY <1>1, <1>2

\* A request that a step does not work on keeps what it remembers.
LEMMA Bystander ==
    ASSUME QInv, RecordFree, NEW s \in Requests, req'[s] = req[s]
    PROVE  Remembered(s)'
  <1> SUFFICES ASSUME req[s].pc = "counting"
               PROVE  free'[s] \subseteq req[s].left \cup WithRoom(s)'
    BY DEF Remembered
  <1>1. WithRoom(s)' = WithRoom(s)
    BY DEF WithRoom, Counted
  <1> QED
    BY <1>1, FreeOnlyShrinks DEF QInv, Remembered

\* Every step keeps what the requests remember.
LEMMA QPreserved == QInv /\ [RoutingNext]_routingVars => QInv'
  <1> SUFFICES ASSUME QInv, RoutingNext PROVE QInv'
    <2>1. CASE UNCHANGED routingVars
      BY <2>1 DEF QInv, RoutingTypeOK, Remembered, WithRoom, Counted, routingVars, chats
    <2> QED
      BY <2>1
  <1>1. RoutingTypeOK /\ RoutingTypeOK' /\ RecordFree
    BY NextType DEF QInv, RoutingNext
  <1> SUFFICES ASSUME NEW s \in Requests PROVE Remembered(s)'
    BY <1>1 DEF QInv
  <1> DEFINE P == Remembered(s)'
  <1>a. ASSUME req'[s] = req[s] PROVE P
    BY <1>a, <1>1, Bystander
  <1>b. ASSUME req'[s].pc # "counting" PROVE P
    BY <1>b DEF Remembered
  <1>2. ASSUME NEW r \in Requests, Receive(r) PROVE P
    BY <1>2, <1>1, <1>a, <1>b DEF Receive, RoutingTypeOK
  <1>3. ASSUME NEW r \in Requests, ReadAgents(r) PROVE P
    <2>1. CASE r # s
      BY <2>1, <1>3, <1>1, <1>a DEF ReadAgents, RoutingTypeOK
    <2>2. CASE r = s
      <3>1. free'[s] = Free /\ req'[s].left = online
        BY <2>2, <1>3, <1>1 DEF ReadAgents, RecordFree, RoutingTypeOK
      <3> QED
        BY <3>1 DEF Remembered, Free
    <2> QED
      BY <2>1, <2>2
  <1>4. ASSUME NEW r \in Requests, Lose(r) PROVE P
    BY <1>4, <1>1, <1>a, <1>b DEF Lose, Idle, RoutingTypeOK
  <1>5. ASSUME NEW r \in Requests, NEW a \in Agents, Count(r, a) PROVE P
    <2>1. CASE r # s
      BY <2>1, <1>5, <1>1, <1>a DEF Count, RoutingTypeOK
    <2>2. CASE r = s
      <3> SUFFICES ASSUME req'[s].pc = "counting", NEW b \in free'[s],
                          b \notin req'[s].left
                   PROVE  b \in WithRoom(s)'
        BY DEF Remembered
      <3>1. /\ req[s].pc = "counting"
            /\ req'[s].left = req[s].left \ {a}
            /\ req'[s].open = [req[s].open EXCEPT ![a] = Open(a)]
            /\ routed' = routed /\ other' = other
        BY <2>2, <1>5, <1>1 DEF Count, RoutingTypeOK, chats
      <3>2. b \in free[s] /\ Open(b)' < MaxOpenChats[b] /\ b \in Agents
        BY <3>1, <1>1, FreeOnlyShrinks DEF RoutingTypeOK
      <3>3. CASE b = a
        <4>1. req'[s].open[b] = Open(b)
          BY <3>1, <3>3, <1>1 DEF RoutingTypeOK
        <4>2. Open(b) \in Nat /\ Open(b)' = Open(b)
          BY <3>1, <3>2, <1>1 DEF Open, RoutingTypeOK, Owners
        <4> QED
          BY <4>1, <4>2, <3>2, NoneAssumption DEF WithRoom, Counted
      <3>4. CASE b # a
        <4>1. b \in WithRoom(s)
          BY <3>1, <3>2, <3>4 DEF QInv, Remembered
        <4>2. req'[s].open[b] = req[s].open[b]
          BY <3>1, <3>2, <3>4, <1>1 DEF RoutingTypeOK
        <4> QED
          BY <4>1, <4>2 DEF WithRoom, Counted
      <3> QED
        BY <3>3, <3>4
    <2> QED
      BY <2>1, <2>2
  <1>6. ASSUME NEW r \in Requests, NEW a \in Owners, Create(r, a) PROVE P
    BY <1>6, <1>1, <1>a, <1>b DEF Create, Idle, RoutingTypeOK
  <1>7. ASSUME req' = req PROVE P
    BY <1>7, <1>a
  <1> HIDE DEF P
  <1>8. P
    BY <1>2, <1>3, <1>4, <1>5, <1>6, <1>7, StepCases
       DEF RoutingNext, ComeOrGo, Start, Finish, Reopen, Assign
  <1> QED
    BY <1>8 DEF P

\* A visitor is queued only when no agent has been online with room throughout.
THEOREM Queueing == RoutingSpec => NobodyFreeIsOverlooked
  <1> DEFINE Queues(r) ==
        req[r].pc = "counting" /\ req'[r].pc = "idle" /\ other'[None] > other[None]
  <1>1. RoutingInit => QInv
    <2>1. RoutingInit => \A r \in Requests : req[r].pc # "counting"
      BY DEF RoutingInit, Idle
    <2> QED
      BY <2>1, InitType DEF QInv, Remembered
  <1>2. ASSUME QInv, [RoutingNext]_routingVars PROVE \A r \in Requests : Queues(r) => free[r] = {}
    <2> SUFFICES ASSUME NEW s \in Requests, Queues(s), RoutingNext PROVE free[s] = {}
      <3>1. CASE UNCHANGED routingVars
        BY <3>1, <1>2 DEF routingVars
      <3> QED
        BY <3>1, <1>2
    <2> DEFINE P == free[s] = {}
    <2>0. RoutingTypeOK /\ None \in Owners /\ None \notin Agents
      BY <1>2, NoneAssumption DEF QInv, Owners
    <2>1. ASSUME req'[s] = req[s] PROVE P
      BY <2>1
    <2>2. ASSUME other' = other PROVE P
      BY <2>2, <2>0 DEF RoutingTypeOK
    <2>3. ASSUME NEW r \in Requests, Receive(r) PROVE P
      BY <2>3, <2>2 DEF Receive, chats
    <2>4. ASSUME NEW r \in Requests, ReadAgents(r) PROVE P
      BY <2>4, <2>2 DEF ReadAgents, chats
    <2>5. ASSUME NEW r \in Requests, Lose(r) PROVE P
      BY <2>5, <2>2 DEF Lose, chats
    <2>6. ASSUME NEW r \in Requests, NEW a \in Agents, Count(r, a) PROVE P
      BY <2>6, <2>2 DEF Count, chats
    <2>7. ASSUME NEW r \in Requests, NEW a \in Owners, Create(r, a) PROVE P
      <3>1. CASE r # s
        BY <3>1, <2>7, <2>0, <2>1 DEF Create, RoutingTypeOK
      <3>2. CASE a # None
        BY <3>2, <2>7, <2>2 DEF Create
      <3>3. CASE r = s /\ a = None
        <4>1. req[s].left = {} /\ None \in Candidates(s)
          BY <3>3, <2>7 DEF Create
        <4>2. WithRoom(s) = {}
          BY <4>1, <2>0 DEF Candidates, WithRoom, Counted
        <4> QED
          BY <4>1, <4>2, <1>2 DEF QInv, Remembered
      <3> QED
        BY <3>1, <3>2, <3>3
    <2>8. ASSUME req' = req PROVE P
      BY <2>8, <2>1
    <2> HIDE DEF P, Queues
    <2>9. P
      BY <2>3, <2>4, <2>5, <2>6, <2>7, <2>8, StepCases
         DEF RoutingNext, ComeOrGo, Start, Finish, Reopen, Assign
    <2> QED
      BY <2>9 DEF P
  <1>3. RoutingSpec => []QInv
    BY <1>1, QPreserved, PTL DEF RoutingSpec
  <1>4. QInv /\ [RoutingNext]_routingVars => [\A r \in Requests : Queues(r) => free[r] = {}]_routingVars
    BY <1>2
  <1> QED
    BY <1>3, <1>4, PTL DEF RoutingSpec, NobodyFreeIsOverlooked

-----------------------------------------------------------------------------
(***************************************************************************)
(* The page.                                                               *)
(***************************************************************************)
Message == [by : Authors, event : {"due", "sent", "lost"}]
Answer == [upto : 0 .. MaxMessages, inRoom : BOOLEAN]
PostSet == [pc : {"idle", "sent", "handled", "answered"}, id : 0 .. MaxMessages,
            first : BOOLEAN, heard : BOOLEAN]

LogOK == log \in Seq(Message) /\ Len(log) <= MaxMessages
SocketOK == socket \in {"off", "on", "in"} /\ queue \in Seq(1 .. MaxMessages) /\ caught \in BOOLEAN
PanelOK == shown \in BOOLEAN /\ panel \in [1 .. MaxMessages -> 0 .. 2] /\ faults \in 0 .. MaxFaults
PostOK == post \in PostSet /\ (post.pc \in {"idle", "sent"} <=> post.id = 0)
LoadsOK ==
    /\ asked \in 0 .. MaxLoads /\ timers \in 0 .. 2
    /\ answers \subseteq Answer /\ IsFiniteSet(answers)

Typed == LogOK /\ SocketOK /\ PanelOK /\ PostOK /\ LoadsOK

\* Message i is on the page, on its way there, or will be, or was lost by a dead process.
Comes(i) == i \in Rendered \cup Range(queue) \/ log[i].event \in {"due", "lost"}

\* The page has, and is told of, public messages only.
Clean ==
    /\ Rendered \cup Range(queue) \subseteq Public
    /\ post.id # 0 => post.id \in Public

\* A history read from within the room leaves out only what comes as an event.
Promised ==
    /\ caught => socket = "in" /\ \A i \in Public : Comes(i)
    /\ \A a \in answers : /\ a.upto <= Len(log)
                          /\ a.inRoom => socket = "in" /\ \A i \in Public : i <= a.upto \/ Comes(i)

Delivered == Clean /\ RenderedOnce /\ Promised

-----------------------------------------------------------------------------
(***************************************************************************)
(* Lemmas.                                                                 *)
(***************************************************************************)
\* The steps of Next, one by one.
LEMMA NextCases ==
    ASSUME Next, NEW P,
           ASSUME NEW by \in Authors, Store(by) PROVE P,
           ASSUME NEW i \in Ids, Emit(i) PROVE P,
           ASSUME NEW i \in Ids, LoseEvent(i) PROVE P,
           ASSUME StartChat PROVE P,
           ASSUME StorePost PROVE P,
           ASSUME AnswerPost PROVE P,
           ASSUME Connect PROVE P,
           ASSUME Disconnect PROVE P,
           ASSUME Join PROVE P,
           ASSUME ReceiveEvent PROVE P,
           ASSUME SendFirst PROVE P,
           ASSUME Send PROVE P,
           ASSUME ReceiveFirst PROVE P,
           ASSUME ReceivePost PROVE P,
           ASSUME LosePost PROVE P,
           ASSUME Adopt PROVE P,
           ASSUME Invited PROVE P,
           ASSUME Reload PROVE P,
           ASSUME OpenPanel PROVE P,
           ASSUME AnswerLoad PROVE P,
           ASSUME LoseLoad PROVE P,
           ASSUME Refetch PROVE P,
           ASSUME NEW a \in answers, ReceiveLoad(a) PROVE P
    PROVE  P
  BY DEF Next, Messages, Line, Page

LEMMA TypedImplies == Typed => TypeOK
  BY DEF Typed, LogOK, SocketOK, PanelOK, PostOK, LoadsOK, TypeOK, Message, Answer, PostSet

\* A message is stored at the end.
LEMMA Appended ==
    ASSUME NEW S, NEW s \in Seq(S), NEW e \in S
    PROVE  /\ Append(s, e) \in Seq(S) /\ Len(Append(s, e)) = Len(s) + 1
           /\ DOMAIN Append(s, e) = DOMAIN s \cup {Len(s) + 1}
           /\ Append(s, e)[Len(s) + 1] = e /\ \A i \in DOMAIN s : Append(s, e)[i] = s[i]
           /\ Range(Append(s, e)) = Range(s) \cup {e}
           /\ Len(s) \in Nat /\ DOMAIN s = 1 .. Len(s)
  BY DEF Range

\* What a sequence has is its first and the rest.
LEMMA FirstAndRest ==
    ASSUME NEW S, NEW s \in Seq(S), s # <<>>
    PROVE  /\ Head(s) \in S /\ Tail(s) \in Seq(S)
           /\ Range(s) = {Head(s)} \cup Range(Tail(s))
  <1>1. /\ Len(s) \in Nat \ {0} /\ DOMAIN s = 1 .. Len(s) /\ Head(s) = s[1] /\ Head(s) \in S
        /\ Tail(s) \in Seq(S) /\ Len(Tail(s)) = Len(s) - 1
        /\ \A i \in 1 .. Len(s) - 1 : Tail(s)[i] = s[i + 1]
    BY HeadTailProperties, EmptySeq, LenProperties
  <1>2. DOMAIN Tail(s) = 1 .. Len(s) - 1
    BY <1>1, LenProperties
  <1>3. ASSUME NEW x \in Range(s) PROVE x \in {Head(s)} \cup Range(Tail(s))
    <2>1. PICK i \in 1 .. Len(s) : x = s[i]
      BY <1>1, <1>3 DEF Range
    <2>2. i = 1 \/ (i - 1 \in 1 .. Len(s) - 1 /\ Tail(s)[i - 1] = s[i])
      BY <1>1
    <2> QED
      BY <1>1, <1>2, <2>1, <2>2 DEF Range
  <1>4. ASSUME NEW x \in Range(Tail(s)) PROVE x \in Range(s)
    <2>1. PICK i \in 1 .. Len(s) - 1 : x = Tail(s)[i]
      BY <1>2, <1>4 DEF Range
    <2>2. i + 1 \in 1 .. Len(s) /\ x = s[i + 1]
      BY <1>1, <2>1
    <2> QED
      BY <1>1, <2>2 DEF Range
  <1>5. Head(s) \in Range(s)
    BY <1>1 DEF Range
  <1> QED
    BY <1>1, <1>3, <1>4, <1>5

LEMMA NothingInRange == Range(<<>>) = {}
  BY DEF Range

\* The messages stored are numbered.
LEMMA Numbered ==
    ASSUME Typed
    PROVE  /\ Len(log) \in 0 .. MaxMessages /\ Ids = 1 .. Len(log) /\ Ids \subseteq 1 .. MaxMessages
           /\ \A i \in Ids : log[i] \in Message
  BY BoundsAssumption DEF Typed, LogOK, Ids

\* What renderMessage does.
LEMMA Renders ==
    ASSUME Typed, NEW items, items \subseteq 1 .. MaxMessages, Render(items)
    PROVE  /\ panel' \in [1 .. MaxMessages -> 0 .. 2]
           /\ Rendered' = Rendered \cup items
           /\ RenderedOnce => RenderedOnce'
  <1>1. panel \in [1 .. MaxMessages -> 0 .. 2] /\ DOMAIN panel = 1 .. MaxMessages
    BY DEF Typed, PanelOK
  <1>2. panel' = [i \in 1 .. MaxMessages |-> IF i \in items \ Rendered THEN panel[i] + 1 ELSE panel[i]]
    BY <1>1 DEF Render, Add
  <1>3. \A i \in 1 .. MaxMessages : i \in items \ Rendered => panel[i] = 0
    BY <1>1 DEF Rendered
  <1>4. \A i \in 1 .. MaxMessages : panel'[i] = IF i \in items \ Rendered THEN 1 ELSE panel[i]
    BY <1>2, <1>3
  <1>5. DOMAIN panel' = 1 .. MaxMessages
    BY <1>2
  <1>6. panel' \in [1 .. MaxMessages -> 0 .. 2]
    BY <1>1, <1>2, <1>4
  <1>7. Rendered' = Rendered \cup items
    <2>1. \A i \in 1 .. MaxMessages : panel[i] \in 0 .. 2
      BY <1>1
    <2>2. ASSUME NEW i \in 1 .. MaxMessages PROVE i \in Rendered' <=> i \in Rendered \cup items
      BY <1>1, <1>4, <1>5, <2>1, <2>2 DEF Rendered
    <2>3. Rendered' \subseteq 1 .. MaxMessages /\ Rendered \subseteq 1 .. MaxMessages
      BY <1>1, <1>5 DEF Rendered
    <2> QED
      BY <2>2, <2>3
  <1>8. RenderedOnce => RenderedOnce'
    BY <1>1, <1>4, <1>5 DEF RenderedOnce
  <1> QED
    BY <1>6, <1>7, <1>8

\* loadHistory keeps to the bound.
LEMMA Loading ==
    ASSUME Typed, NEW n \in Nat, Loads(n)
    PROVE  asked' \in 0 .. MaxLoads
  <1>1. Cardinality(answers) \in Nat
    BY FS_CardinalityType DEF Typed, LoadsOK
  <1> QED
    BY <1>1, BoundsAssumption DEF Loads, Typed, LoadsOK

\* A history has public messages only.
LEMMA HistoryIsPublic == \A n : History(n) \subseteq PublicUpTo(n) /\ PublicUpTo(n) \subseteq Public
  BY DEF History, PublicUpTo

-----------------------------------------------------------------------------
(***************************************************************************)
(* Types.                                                                  *)
(***************************************************************************)
LEMMA InitTyped == Init => Typed
  <1> SUFFICES ASSUME Init PROVE Typed
    OBVIOUS
  <1>1. LogOK /\ SocketOK
    <2>1. <<>> \in Seq(Message) /\ <<>> \in Seq(1 .. MaxMessages) /\ Len(<<>>) = 0
      BY EmptySeq
    <2>2. 0 <= MaxMessages
      BY BoundsAssumption
    <2>3. LogOK
      BY <2>1, <2>2 DEF Init, LogOK
    <2>4. SocketOK
      BY <2>1 DEF Init, SocketOK
    <2> QED
      BY <2>3, <2>4
  <1>2. PanelOK /\ PostOK
    <2>1. 0 \in 0 .. 2 /\ 0 \in 0 .. MaxFaults /\ 0 \in 0 .. MaxMessages
      BY BoundsAssumption
    <2>2. PanelOK
      BY <2>1 DEF Init, PanelOK, Blank
    <2>3. post \in PostSet
      BY <2>1 DEF Init, PostSet, NoPost
    <2>4. post.pc = "idle" /\ post.id = 0
      BY DEF Init, NoPost
    <2> QED
      BY <2>2, <2>3, <2>4 DEF PostOK
  <1>3. LoadsOK
    BY BoundsAssumption, FS_EmptySet DEF Init, LoadsOK
  <1> QED
    BY <1>1, <1>2, <1>3 DEF Typed

\* A message more, within the bound.
LEMMA Inserted ==
    ASSUME Typed, NEW by \in Authors, Insert(by)
    PROVE  /\ LogOK' /\ Len(log) + 1 \in 1 .. MaxMessages
           /\ Ids' = Ids \cup {Len(log) + 1} /\ log'[Len(log) + 1] = [by |-> by, event |-> "due"]
           /\ \A i \in Ids : i <= Len(log) /\ log'[i] = log[i]
           /\ Len(log') = Len(log) + 1
  <1>1. [by |-> by, event |-> "due"] \in Message
    BY DEF Message
  <1>2. log \in Seq(Message) /\ log' = Append(log, [by |-> by, event |-> "due"]) /\ Len(log) < MaxMessages
    BY DEF Insert, Typed, LogOK
  <1>3. /\ log' \in Seq(Message) /\ Len(log') = Len(log) + 1
        /\ Ids' = Ids \cup {Len(log) + 1} /\ log'[Len(log) + 1] = [by |-> by, event |-> "due"]
        /\ \A i \in Ids : log'[i] = log[i]
    BY <1>1, <1>2, Appended DEF Ids
  <1> QED
    BY <1>2, <1>3, Numbered, BoundsAssumption DEF LogOK

\* A message's event is sent or lost.
LEMMA Relogged ==
    ASSUME Typed, NEW i \in Ids, NEW e \in {"sent", "lost"}, log' = [log EXCEPT ![i].event = e]
    PROVE  /\ LogOK' /\ Ids' = Ids /\ Len(log') = Len(log) /\ log'[i].event = e
           /\ \A j \in Ids : log'[j].by = log[j].by /\ (j # i => log'[j] = log[j])
  <1>1. /\ log \in Seq(Message) /\ Len(log) <= MaxMessages /\ i \in 1 .. Len(log) /\ Ids = 1 .. Len(log)
        /\ log[i] \in Message
    BY Numbered DEF Typed, LogOK
  <1>2. [log[i] EXCEPT !.event = e] \in Message
    BY <1>1 DEF Message
  <1>3. log' = [log EXCEPT ![i] = [log[i] EXCEPT !.event = e]]
    BY <1>1
  <1>4. log' \in Seq(Message) /\ Len(log') = Len(log)
    BY <1>1, <1>2, <1>3, ExceptSeq
  <1>5. Ids' = Ids
    BY <1>1, <1>4 DEF Ids
  <1>6. log'[i] = [log[i] EXCEPT !.event = e] /\ \A j \in Ids : j # i => log'[j] = log[j]
    BY <1>1, <1>3
  <1>7. log'[i].event = e /\ log'[i].by = log[i].by
    BY <1>1, <1>6 DEF Message
  <1> QED
    BY <1>1, <1>4, <1>5, <1>6, <1>7 DEF LogOK

\* A part that a step leaves alone stays as it is.
LEMMA Alone ==
    ASSUME Typed
    PROVE  /\ UNCHANGED log => LogOK'
           /\ UNCHANGED line => SocketOK'
           /\ UNCHANGED <<queue, caught>> /\ socket' \in {"off", "on", "in"} => SocketOK'
           /\ UNCHANGED <<shown, panel, faults>> => PanelOK'
           /\ UNCHANGED <<shown, panel>> /\ (Fault \/ UNCHANGED faults) => PanelOK'
           /\ UNCHANGED post => PostOK'
           /\ UNCHANGED <<asked, answers, timers>> => LoadsOK'
           /\ UNCHANGED <<answers, timers>> /\ asked' \in 0 .. MaxLoads => LoadsOK'
  <1>1. faults \in 0 .. MaxFaults /\ MaxFaults \in Nat /\ (Fault => faults' \in 0 .. MaxFaults)
    BY BoundsAssumption DEF Typed, PanelOK, Fault
  <1> QED
    BY <1>1 DEF Typed, LogOK, SocketOK, line, PanelOK, PostOK, LoadsOK

LEMMA NextTyped ==
    ASSUME Typed, Next
    PROVE  Typed'
  <1> DEFINE P == Typed'
  <1> USE DEF Typed
  <1>p. ASSUME post' = NoPost \/ post' = [NoPost EXCEPT !.pc = "sent"]
               \/ post' = [NoPost EXCEPT !.pc = "sent", !.first = TRUE]
        PROVE  PostOK'
    <2>1. 0 \in 0 .. MaxMessages
      BY BoundsAssumption
    <2>2. PICK pc \in {"idle", "sent"}, first \in BOOLEAN :
             post' = [pc |-> pc, id |-> 0, first |-> first, heard |-> TRUE]
      <3>1. CASE post' = NoPost
        BY <3>1 DEF NoPost
      <3>2. CASE post' = [NoPost EXCEPT !.pc = "sent"]
        BY <3>2 DEF NoPost
      <3>3. CASE post' = [NoPost EXCEPT !.pc = "sent", !.first = TRUE]
        BY <3>3 DEF NoPost
      <3> QED
        BY <1>p, <3>1, <3>2, <3>3
    <2>3. post' \in PostSet
      BY <2>1, <2>2 DEF PostSet
    <2>4. post'.pc \in {"idle", "sent"} /\ post'.id = 0
      BY <2>2
    <2> QED
      BY <2>3, <2>4 DEF PostOK
  <1>l. \A n \in Nat : Loads(n) => asked' \in 0 .. MaxLoads
    BY Loading
  <1>q. \A i \in Ids : i \in 1 .. MaxMessages
    BY Numbered
  <1>h. \A n : History(n) \subseteq 1 .. MaxMessages
    BY <1>q, HistoryIsPublic DEF Public
  <1>1. ASSUME NEW by \in Authors, Store(by) PROVE P
    BY <1>1, Inserted, Alone DEF Store, loads
  <1>2. ASSUME NEW i \in Ids, Emit(i) PROVE P
    <2>1. LogOK' /\ PanelOK' /\ PostOK' /\ LoadsOK'
      BY <1>2, Relogged, Alone DEF Emit, loads
    <2>2. Append(queue, i) \in Seq(1 .. MaxMessages)
      BY <1>q, Appended DEF SocketOK
    <2>3. SocketOK'
      BY <1>2, <2>2 DEF Emit, SocketOK
    <2> QED
      BY <2>1, <2>3
  <1>3. ASSUME NEW i \in Ids, LoseEvent(i) PROVE P
    BY <1>3, Relogged, Alone DEF LoseEvent, loads
  <1>4. ASSUME StartChat PROVE P
    <2>1. Insert("agent") /\ "agent" \in Authors
      BY <1>4 DEF StartChat, Authors
    <2>2. LogOK'
      BY <2>1, Inserted
    <2> QED
      BY <1>4, <2>2, Alone DEF StartChat, loads
  <1>5. ASSUME StorePost PROVE P
    <2>1. Insert("visitor") /\ "visitor" \in Authors
      BY <1>5 DEF StorePost, Authors
    <2>2. LogOK' /\ Len(log) + 1 \in 1 .. MaxMessages
      BY <2>1, Inserted
    <2>3. Len(log) + 1 \in 0 .. MaxMessages /\ Len(log) + 1 # 0
      BY <2>2
    <2>4. post' \in PostSet /\ post'.pc = "handled" /\ post'.id = Len(log) + 1
      BY <1>5, <2>3 DEF StorePost, PostOK, PostSet
    <2>5. PostOK'
      BY <2>3, <2>4 DEF PostOK
    <2> QED
      BY <1>5, <2>2, <2>5, Alone DEF StorePost, loads
  <1>6. ASSUME AnswerPost PROVE P
    <2>1. PostOK'
      BY <1>6 DEF AnswerPost, PostOK, PostSet
    <2> QED
      BY <1>6, <2>1, Alone DEF AnswerPost, loads
  <1>7. ASSUME Connect PROVE P
    BY <1>7, Alone DEF Connect, loads
  <1>8. ASSUME Disconnect PROVE P
    <2>1. SocketOK'
      BY <1>8, EmptySeq DEF Disconnect, SocketOK
    <2>2. \A a \in answers : [a EXCEPT !.inRoom = FALSE] \in Answer
      BY DEF LoadsOK, Answer
    <2>3. IsFiniteSet(answers')
      <3> DEFINE f == [a \in answers |-> [a EXCEPT !.inRoom = FALSE]]
      <3>1. f \in Surjection(answers, answers')
        BY <1>8 DEF Disconnect, Surjection
      <3> HIDE DEF f
      <3> QED
        BY <3>1, FS_Surjection DEF LoadsOK
    <2>4. LoadsOK'
      BY <1>8, <2>2, <2>3 DEF Disconnect, LoadsOK
    <2> QED
      BY <1>8, <2>1, <2>4, Alone DEF Disconnect
  <1>9. ASSUME Join PROVE P
    BY <1>9, Alone DEF Join, loads
  <1>10. ASSUME ReceiveEvent PROVE P
    <2>1. Head(queue) \in 1 .. MaxMessages /\ Tail(queue) \in Seq(1 .. MaxMessages)
      BY <1>10, FirstAndRest DEF ReceiveEvent, SocketOK
    <2>2. SocketOK'
      BY <1>10, <2>1 DEF ReceiveEvent, SocketOK
    <2>3. PanelOK'
      BY <1>10, <2>1, Renders DEF ReceiveEvent, PanelOK
    <2> QED
      BY <1>10, <2>2, <2>3, Alone DEF ReceiveEvent, loads
  <1>11. ASSUME SendFirst PROVE P
    BY <1>11, <1>p, Alone DEF SendFirst, loads
  <1>12. ASSUME Send PROVE P
    BY <1>12, <1>p, <1>l, Alone DEF Send, Load
  <1>13. ASSUME ReceiveFirst PROVE P
    <2>1. post.id \in 1 .. MaxMessages
      BY <1>13, BoundsAssumption DEF ReceiveFirst, PostOK, PostSet
    <2>2. PanelOK'
      BY <1>13, <2>1, Renders DEF ReceiveFirst, Render, PanelOK
    <2>3. LoadsOK'
      BY <1>13, <1>l DEF ReceiveFirst, Load, LoadsOK
    <2> QED
      BY <1>13, <1>p, <2>2, <2>3, Alone DEF ReceiveFirst
  <1>14. ASSUME ReceivePost PROVE P
    <2>1. post.id \in 1 .. MaxMessages
      BY <1>14, BoundsAssumption DEF ReceivePost, PostOK, PostSet
    <2>2. PanelOK'
      BY <1>14, <2>1, Renders DEF ReceivePost, PanelOK
    <2> QED
      BY <1>14, <1>p, <2>2, Alone DEF ReceivePost, loads
  <1>15. ASSUME LosePost PROVE P
    BY <1>15, <1>p, Alone DEF LosePost, loads
  <1>16. ASSUME Adopt PROVE P
    <2>1. PanelOK'
      BY <1>16 DEF Adopt, PanelOK
    <2> QED
      BY <1>16, <1>l, <2>1, Alone DEF Adopt, line
  <1>17. ASSUME Invited PROVE P
    <2>1. 1 \in 1 .. MaxMessages
      BY <1>17, Numbered, BoundsAssumption, EmptySeq, SMT DEF Invited, LogOK
    <2>2. PanelOK'
      BY <1>17, <2>1, Renders DEF Invited, PanelOK
    <2> QED
      BY <1>17, <1>l, <2>2, Alone DEF Invited, Load, line
  <1>18. ASSUME Reload PROVE P
    <2>1. SocketOK' /\ LoadsOK'
      <3>1. <<>> \in Seq(1 .. MaxMessages) /\ 0 \in 0 .. MaxLoads /\ 0 \in 0 .. 2 /\ IsFiniteSet({})
        BY EmptySeq, FS_EmptySet, BoundsAssumption
      <3>2. SocketOK'
        BY <1>18, <3>1 DEF Reload, SocketOK
      <3>3. LoadsOK'
        BY <1>18, <3>1 DEF Reload, LoadsOK
      <3> QED
        BY <3>2, <3>3
    <2>2. PanelOK'
      BY <1>18, BoundsAssumption DEF Reload, PanelOK, Blank, Fault
    <2>3. PostOK'
      BY <1>18 DEF Reload, PostOK, PostSet
    <2> QED
      BY <1>18, <2>1, <2>2, <2>3, Alone DEF Reload
  <1>19. ASSUME OpenPanel PROVE P
    BY <1>19, <1>l, Alone DEF OpenPanel, Load
  <1>20. ASSUME AnswerLoad PROVE P
    <2>1. Len(log) \in 0 .. MaxMessages
      BY Numbered
    <2> DEFINE a == [upto |-> Len(log), inRoom |-> socket = "in"]
    <2>2. a \in Answer
      BY <2>1 DEF Answer
    <2>3. answers' = answers \cup {a} /\ IsFiniteSet(answers) /\ answers \subseteq Answer
      BY <1>20 DEF AnswerLoad, LoadsOK
    <2> HIDE DEF a
    <2>4. answers' \subseteq Answer /\ IsFiniteSet(answers')
      BY <2>2, <2>3, FS_AddElement
    <2>5. asked' \in 0 .. MaxLoads
      BY <1>20, BoundsAssumption DEF AnswerLoad, LoadsOK
    <2>6. LoadsOK'
      BY <1>20, <2>4, <2>5 DEF AnswerLoad, LoadsOK
    <2> QED
      BY <1>20, <2>6, Alone DEF AnswerLoad
  <1>21. ASSUME LoseLoad PROVE P
    <2>1. asked' \in 0 .. MaxLoads
      BY <1>21, BoundsAssumption DEF LoseLoad, LoadsOK
    <2> QED
      BY <1>21, <2>1, Alone DEF LoseLoad
  <1>22. ASSUME Refetch PROVE P
    <2>1. timers' \in 0 .. 2 /\ asked' \in 0 .. MaxLoads
      BY <1>22, <1>l DEF Refetch, Load, LoadsOK
    <2>2. LoadsOK'
      BY <1>22, <2>1 DEF Refetch, LoadsOK
    <2> QED
      BY <1>22, <2>2, Alone DEF Refetch
  <1>23. ASSUME NEW a \in answers, ReceiveLoad(a) PROVE P
    <2>1. PanelOK'
      BY <1>23, <1>h, Renders DEF ReceiveLoad, PanelOK
    <2>2. caught' \in BOOLEAN
      BY <1>23 DEF ReceiveLoad, SocketOK
    <2>3. SocketOK'
      BY <1>23, <2>2 DEF ReceiveLoad, SocketOK
    <2>4. LoadsOK'
      BY <1>23, FS_RemoveElement DEF ReceiveLoad, LoadsOK
    <2> QED
      BY <1>23, <2>1, <2>3, <2>4, Alone DEF ReceiveLoad
  <1> HIDE DEF P
  <1>24. P
    BY NextCases, <1>1, <1>2, <1>3, <1>4, <1>5, <1>6, <1>7, <1>8, <1>9, <1>10, <1>11, <1>12,
       <1>13, <1>14, <1>15, <1>16, <1>17, <1>18, <1>19, <1>20, <1>21, <1>22, <1>23
  <1> QED
    BY <1>24 DEF P

LEMMA StutterTyped == ASSUME Typed, UNCHANGED vars PROVE Typed'
  BY DEF Typed, LogOK, SocketOK, PanelOK, PostOK, LoadsOK, vars

\* Every variable keeps its type (TypeOK), however many histories, losses and reloads.
THEOREM Typing == Spec => []TypeOK
  <1>1. Typed /\ [Next]_vars => Typed'
    BY NextTyped, StutterTyped
  <1> QED
    BY InitTyped, <1>1, TypedImplies, PTL DEF Spec

-----------------------------------------------------------------------------
(***************************************************************************)
(* What the page shows.                                                    *)
(***************************************************************************)
LEMMA InitDelivered == Init => Delivered
  <1> SUFFICES ASSUME Init PROVE Delivered
    OBVIOUS
  <1>1. DOMAIN panel = 1 .. MaxMessages /\ \A i \in DOMAIN panel : panel[i] = 0
    BY DEF Init, Blank
  <1>2. Rendered = {} /\ RenderedOnce
    BY <1>1 DEF Rendered, RenderedOnce
  <1>3. Range(queue) = {} /\ post.id = 0 /\ caught = FALSE /\ answers = {}
    BY NothingInRange DEF Init, NoPost
  <1> QED
    BY <1>2, <1>3 DEF Delivered, Clean, Promised

\* A step that stores nothing and brings nothing.
LEMMA Quiet ==
    ASSUME Delivered, UNCHANGED <<log, queue, panel, caught, answers>>,
           post'.id \in {0, post.id},
           socket' = socket \/ socket # "in"
    PROVE  Delivered'
  <1>1. Rendered' = Rendered /\ Public' = Public /\ (RenderedOnce => RenderedOnce')
    BY DEF Rendered, RenderedOnce, Public, Ids
  <1>2. \A i : Comes(i) => Comes(i)'
    BY <1>1 DEF Comes
  <1>3. Clean'
    BY <1>1 DEF Delivered, Clean
  <1>4. Promised'
    BY <1>1, <1>2 DEF Delivered, Promised
  <1> QED
    BY <1>1, <1>3, <1>4 DEF Delivered

\* A message more: its event is due.
LEMMA StoredDelivered ==
    ASSUME Typed, Delivered, NEW by \in Authors, Insert(by), UNCHANGED <<line, panel, answers>>,
           post' = post \/ (by # "note" /\ post'.id = Len(log) + 1)
    PROVE  Delivered'
  <1> DEFINE n == Len(log) + 1
  <1>1. /\ Ids' = Ids \cup {n} /\ log'[n] = [by |-> by, event |-> "due"]
        /\ \A i \in Ids : i <= Len(log) /\ log'[i] = log[i]
        /\ Len(log') = n
    BY Inserted
  <1>2. Rendered' = Rendered /\ queue' = queue /\ socket' = socket /\ caught' = caught
        /\ (RenderedOnce => RenderedOnce')
    BY DEF Rendered, RenderedOnce, line
  <1>3. Public \subseteq Public' /\ Public' \subseteq Public \cup {n} /\ (by # "note" => n \in Public')
    BY <1>1 DEF Public
  <1>4. \A i \in Public' : i \in Public \/ Comes(i)'
    BY <1>1, <1>3 DEF Comes
  <1>5. \A i \in Public : Comes(i) => Comes(i)'
    BY <1>1, <1>2 DEF Comes, Public
  <1>6. Clean'
    BY <1>2, <1>3 DEF Delivered, Clean
  <1>7. \A a \in answers : a.upto <= Len(log) => a.upto <= Len(log')
    <2>1. \A a \in answers : a.upto \in Nat
      BY BoundsAssumption DEF Typed, LoadsOK, Answer
    <2> QED
      BY <1>1, <2>1, Numbered
  <1>8. Promised'
    BY <1>2, <1>3, <1>4, <1>5, <1>7 DEF Delivered, Promised
  <1> QED
    BY <1>2, <1>6, <1>8 DEF Delivered

\* An event is sent, on the line when the page is in the room, or lost.
LEMMA AnnouncedDelivered ==
    ASSUME Typed, Delivered, NEW i \in Ids, NEW e \in {"sent", "lost"},
           log' = [log EXCEPT ![i].event = e],
           queue' = queue \/ (i \in Public /\ queue' = Append(queue, i)),
           socket = "in" /\ i \in Public /\ e = "sent" => queue' = Append(queue, i),
           UNCHANGED <<socket, caught, panel, post, answers>>
    PROVE  Delivered'
  <1>1. /\ Ids' = Ids /\ Len(log') = Len(log) /\ log'[i].event = e
        /\ \A j \in Ids : log'[j].by = log[j].by /\ (j # i => log'[j] = log[j])
    BY Relogged
  <1>2. Range(Append(queue, i)) = Range(queue) \cup {i}
    <2> DEFINE S == 1 .. MaxMessages
    <2>1. queue \in Seq(S) /\ i \in S
      BY Numbered DEF Typed, SocketOK
    <2> HIDE DEF S
    <2> QED
      BY <2>1, Appended
  <1>3. Rendered' = Rendered /\ (RenderedOnce => RenderedOnce')
    BY DEF Rendered, RenderedOnce
  <1>4. Public' = Public
    BY <1>1 DEF Public
  <1>5. Clean'
    BY <1>2, <1>3, <1>4 DEF Delivered, Clean
  <1>6. socket = "in" => \A j \in Public : Comes(j) => Comes(j)'
    <2> SUFFICES ASSUME socket = "in", NEW j \in Public, Comes(j) PROVE Comes(j)'
      OBVIOUS
    <2>1. CASE j = i
      BY <1>1, <1>2, <2>1 DEF Comes
    <2>2. CASE j # i
      BY <1>1, <1>2, <1>3, <2>2 DEF Comes, Public
    <2> QED
      BY <2>1, <2>2
  <1>7. Promised'
    BY <1>1, <1>4, <1>6 DEF Delivered, Promised
  <1> QED
    BY <1>3, <1>5, <1>7 DEF Delivered

\* Public messages are rendered: none is lost on the way, and what the page can
\* count on from now on is all there.
LEMMA BroughtDelivered ==
    ASSUME Typed, Delivered, NEW items, items \subseteq Public, Render(items),
           UNCHANGED <<log, socket>>,
           Range(queue') \subseteq Range(queue), Range(queue) \subseteq Range(queue') \cup items,
           answers' \subseteq answers, post'.id \in {0, post.id},
           caught' => caught \/ (socket = "in" /\ \A i \in Public : i \in items \/ Comes(i))
    PROVE  Delivered'
  <1>1. Rendered' = Rendered \cup items /\ (RenderedOnce => RenderedOnce')
    BY Numbered, Renders DEF Public
  <1>2. Public' = Public /\ Len(log') = Len(log)
    BY DEF Public, Ids
  <1>3. \A i : i \in items \/ Comes(i) => Comes(i)'
    BY <1>1 DEF Comes
  <1>4. Clean'
    BY <1>1, <1>2 DEF Delivered, Clean
  <1>5. caught' => socket' = "in" /\ \A i \in Public : Comes(i)'
    BY <1>3 DEF Delivered, Promised
  <1>6. \A a \in answers' : /\ a.upto <= Len(log)
                            /\ a.inRoom => socket' = "in" /\ \A i \in Public : i <= a.upto \/ Comes(i)'
    BY <1>3 DEF Delivered, Promised
  <1> QED
    BY <1>1, <1>2, <1>4, <1>5, <1>6 DEF Delivered, Promised

\* The socket is gone: nothing on the line, and nothing promised.
LEMMA GoneDelivered ==
    ASSUME Delivered, UNCHANGED log, Range(queue') = {}, caught' = FALSE,
           Rendered' \subseteq Rendered, RenderedOnce => RenderedOnce',
           post'.id = post.id,
           \A a \in answers' : ~a.inRoom /\ \E b \in answers : b.upto = a.upto
    PROVE  Delivered'
  <1>1. Public' = Public /\ Len(log') = Len(log)
    BY DEF Public, Ids
  <1>2. Clean'
    BY <1>1 DEF Delivered, Clean
  <1>3. Promised'
    BY <1>1 DEF Delivered, Promised
  <1> QED
    BY <1>2, <1>3 DEF Delivered

LEMMA NextDelivered ==
    ASSUME Typed, Delivered, Next
    PROVE  Delivered'
  <1> DEFINE P == Delivered'
  <1>p. NoPost.id = 0 /\ [NoPost EXCEPT !.pc = "sent"].id = 0
        /\ [NoPost EXCEPT !.pc = "sent", !.first = TRUE].id = 0
    BY DEF NoPost
  <1>q. post.pc \in {"handled", "answered"} => post.id \in Public /\ post.id # 0
    BY DEF Typed, PostOK, Delivered, Clean
  <1>1. ASSUME NEW by \in Authors, Store(by) PROVE P
    BY <1>1, StoredDelivered DEF Store, loads
  <1>2. ASSUME NEW i \in Ids, Emit(i) PROVE P
    <2>1. ToRoom(i) <=> socket = "in" /\ i \in Public
      BY DEF ToRoom, Public
    <2> QED
      BY <1>2, <2>1, AnnouncedDelivered DEF Emit, loads
  <1>3. ASSUME NEW i \in Ids, LoseEvent(i) PROVE P
    BY <1>3, AnnouncedDelivered DEF LoseEvent, loads, line
  <1>4. ASSUME StartChat PROVE P
    <2>1. Insert("agent") /\ "agent" \in Authors
      BY <1>4 DEF StartChat, Authors
    <2> QED
      BY <1>4, <2>1, StoredDelivered DEF StartChat, loads
  <1>5. ASSUME StorePost PROVE P
    <2>1. Insert("visitor") /\ "visitor" \in Authors
      BY <1>5 DEF StorePost, Authors
    <2>2. post'.id = Len(log) + 1
      BY <1>5 DEF StorePost, Typed, PostOK, PostSet
    <2> QED
      BY <1>5, <2>1, <2>2, StoredDelivered DEF StorePost, loads
  <1>6. ASSUME AnswerPost PROVE P
    <2>1. post'.id = post.id
      BY <1>6 DEF AnswerPost, Typed, PostOK, PostSet
    <2> QED
      BY <1>6, <2>1, Quiet DEF AnswerPost, loads, line
  <1>7. ASSUME Connect PROVE P
    BY <1>7, Quiet DEF Connect, loads
  <1>8. ASSUME Disconnect PROVE P
    <2>1. \A a \in answers' : ~a.inRoom /\ \E b \in answers : b.upto = a.upto
      BY <1>8 DEF Disconnect, Typed, LoadsOK, Answer
    <2>2. Rendered' = Rendered /\ (RenderedOnce => RenderedOnce')
      BY <1>8 DEF Disconnect, Rendered, RenderedOnce
    <2> QED
      BY <1>8, <2>1, <2>2, NothingInRange, GoneDelivered DEF Disconnect
  <1>9. ASSUME Join PROVE P
    BY <1>9, Quiet DEF Join, loads
  <1>10. ASSUME ReceiveEvent PROVE P
    <2>1. Range(queue) = {Head(queue)} \cup Range(queue')
      BY <1>10, FirstAndRest DEF ReceiveEvent, Typed, SocketOK
    <2>2. {Head(queue)} \subseteq Public
      BY <2>1 DEF Delivered, Clean
    <2> QED
      BY <1>10, <2>1, <2>2, BroughtDelivered DEF ReceiveEvent, loads
  <1>11. ASSUME SendFirst PROVE P
    BY <1>11, <1>p, Quiet DEF SendFirst, loads, line
  <1>12. ASSUME Send PROVE P
    BY <1>12, <1>p, Quiet DEF Send, line
  <1>13. ASSUME ReceiveFirst PROVE P
    <2>1. {post.id} \subseteq Public /\ Render({post.id})
      BY <1>13, <1>q DEF ReceiveFirst, Render
    <2> QED
      BY <1>13, <1>p, <2>1, BroughtDelivered DEF ReceiveFirst, line
  <1>14. ASSUME ReceivePost PROVE P
    <2>1. {post.id} \subseteq Public /\ Render({post.id})
      BY <1>14, <1>q DEF ReceivePost
    <2> QED
      BY <1>14, <1>p, <2>1, BroughtDelivered DEF ReceivePost, line, loads
  <1>15. ASSUME LosePost PROVE P
    BY <1>15, <1>p, Quiet DEF LosePost, loads, line
  <1>16. ASSUME Adopt PROVE P
    BY <1>16, Quiet DEF Adopt
  <1>17. ASSUME Invited PROVE P
    <2>1. {1} \subseteq Public
      BY <1>17, Numbered, EmptySeq DEF Invited, Public, Typed, LogOK
    <2> QED
      BY <1>17, <2>1, BroughtDelivered DEF Invited
  <1>18. ASSUME Reload PROVE P
    <2>1. Rendered' = {} /\ RenderedOnce'
      BY <1>18 DEF Reload, Blank, Rendered, RenderedOnce
    <2>2. post'.id = post.id
      BY <1>18 DEF Reload, Typed, PostOK, PostSet
    <2> QED
      BY <1>18, <2>1, <2>2, NothingInRange, GoneDelivered DEF Reload
  <1>19. ASSUME OpenPanel PROVE P
    BY <1>19, Quiet DEF OpenPanel, line
  <1>20. ASSUME AnswerLoad PROVE P
    <2> DEFINE a == [upto |-> Len(log), inRoom |-> socket = "in"]
    <2>1. Len(log) <= Len(log) /\ \A i \in Public : i <= Len(log)
      BY Numbered DEF Public
    <2>2. a.upto = Len(log) /\ (a.inRoom => socket = "in")
      OBVIOUS
    <2>3. a.upto = Len(log) /\ (a.inRoom => socket = "in") /\ Len(log) <= Len(log)
          /\ \A i \in Public : i <= Len(log)
      BY <2>1, <2>2
    <2>4. answers' = answers \cup {a} /\ UNCHANGED <<log, line, panel, post>>
      BY <1>20 DEF AnswerLoad
    <2> HIDE DEF a
    <2>5. Rendered' = Rendered /\ Public' = Public /\ (RenderedOnce => RenderedOnce')
      BY <2>4 DEF Rendered, RenderedOnce, Public, Ids
    <2>6. \A i : Comes(i) => Comes(i)'
      BY <2>4, <2>5 DEF Comes, line
    <2>7. Clean'
      BY <2>4, <2>5 DEF Delivered, Clean, line
    <2>8. Promised'
      BY <2>3, <2>4, <2>5, <2>6 DEF Delivered, Promised, line
    <2> QED
      BY <2>5, <2>7, <2>8 DEF Delivered
  <1>21. ASSUME LoseLoad PROVE P
    BY <1>21, Quiet DEF LoseLoad, line
  <1>22. ASSUME Refetch PROVE P
    BY <1>22, Quiet DEF Refetch, line
  <1>23. ASSUME NEW a \in answers, ReceiveLoad(a) PROVE P
    <2>1. History(a.upto) \subseteq Public
      BY HistoryIsPublic
    <2>2. a.inRoom /\ Whole(a.upto) =>
             socket = "in" /\ \A i \in Public : i \in History(a.upto) \/ Comes(i)
      BY DEF Delivered, Promised, Whole, PublicUpTo
    <2> QED
      BY <1>23, <2>1, <2>2, BroughtDelivered DEF ReceiveLoad
  <1> HIDE DEF P
  <1>24. P
    BY NextCases, <1>1, <1>2, <1>3, <1>4, <1>5, <1>6, <1>7, <1>8, <1>9, <1>10, <1>11, <1>12,
       <1>13, <1>14, <1>15, <1>16, <1>17, <1>18, <1>19, <1>20, <1>21, <1>22, <1>23
  <1> QED
    BY <1>24 DEF P

LEMMA StutterDelivered == ASSUME Delivered, UNCHANGED vars PROVE Delivered'
  BY Quiet DEF vars

LEMMA Invariant == Spec => [](Typed /\ Delivered)
  <1>1. Typed /\ Delivered /\ [Next]_vars => Typed' /\ Delivered'
    BY NextTyped, StutterTyped, NextDelivered, StutterDelivered
  <1> QED
    BY InitTyped, InitDelivered, <1>1, PTL DEF Spec

\* An agent's internal note never reaches the visitor's panel (NotesStayInside).
THEOREM Inside == Spec => []NotesStayInside
  <1>1. Delivered => NotesStayInside
    BY DEF Delivered, Clean, NotesStayInside
  <1> QED
    BY Invariant, <1>1, PTL

\* The page shows a message once, whatever brings it (RenderedOnce).
THEOREM OnceOnly == Spec => []RenderedOnce
  <1>1. Delivered => RenderedOnce
    BY DEF Delivered
  <1> QED
    BY Invariant, <1>1, PTL

\* Once the page has rendered a whole history that was read while its socket was in
\* the chat's room, no public message is missing (UpToDate).
THEOREM NoGap == Spec => []UpToDate
  <1>1. Delivered => UpToDate
    BY DEF Delivered, Promised, Comes, UpToDate
  <1> QED
    BY Invariant, <1>1, PTL
=============================================================================

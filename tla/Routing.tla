------------------------------ MODULE Routing ------------------------------
(***************************************************************************)
(* Which agent gets a new chat.  A visitor's first message is a request    *)
(* that reads the agents who are online and on shift, counts the open      *)
(* chats of each of them (Promise.all: in any order), and then creates the *)
(* chat for the least busy one below his limit, or queued when there is    *)
(* none.  Nothing is locked in between: other chats start, end and change  *)
(* hands, and agents come and go.                                          *)
(*                                                                         *)
(*   reading     the agents are read next                                  *)
(*   counting    one count of open chats is outstanding for each of left   *)
(*                                                                         *)
(* The choice is computed from what the request has read, and is part of   *)
(* the step that creates the chat.  Of chats only their numbers matter.    *)
(* RoutingInit, RoutingNext and their like are named so that the proofs    *)
(* can extend this module beside WidgetDelivery.                           *)
(***************************************************************************)
EXTENDS Naturals, FiniteSets

CONSTANTS
    Agents,         \* memberships of the organization
    MaxOpenChats,   \* the limit of each of them
    Requests,       \* first messages being handled at the same time
    None,
    MaxChats        \* bound: chats that are ever created

ASSUME MaxOpenChatsAssumption == MaxOpenChats \in [Agents -> Nat]
ASSUME NoneAssumption == None \notin Agents \cup Nat
ASSUME RequestsAssumption == IsFiniteSet(Requests)
ASSUME MaxChatsAssumption == MaxChats \in Nat

VARIABLES
    online,         \* agents who are ONLINE and on shift
    routed,         \* unfinished chats an agent got by routing and kept ever since
    other,          \* the agent's other unfinished chats; under None the queue
    finished,       \* the agent's finished chats
    created,        \* all chats so far
    req,            \* per request: where it is and what it has read
    free            \* history: agents with room ever since the request read them

chats == <<routed, other, finished, created>>
routingVars == <<online, chats, req, free>>

Owners == Agents \cup {None}

Idle == [pc |-> "idle", left |-> {}, open |-> [a \in Agents |-> None]]

RoutingTypeOK ==
    /\ online \in SUBSET Agents
    /\ routed \in [Agents -> Nat]
    /\ other \in [Owners -> Nat]
    /\ finished \in [Owners -> Nat]
    /\ created \in 0 .. MaxChats
    /\ req \in [Requests -> [pc : {"idle", "reading", "counting"}, left : SUBSET Agents,
                             open : [Agents -> Nat \cup {None}]]]
    /\ free \in [Requests -> SUBSET Agents]

RoutingInit ==
    /\ online \in SUBSET Agents
    /\ routed = [a \in Agents |-> 0]
    /\ other = [a \in Owners |-> 0]
    /\ finished = [a \in Owners |-> 0]
    /\ created = 0
    /\ req = [r \in Requests |-> Idle]
    /\ free = [r \in Requests |-> {}]

\* OPEN, PENDING or QUEUED chats of an agent.
Open(a) == routed[a] + other[a]

HasRoom(a) == Open(a) < MaxOpenChats[a]

-----------------------------------------------------------------------------
(***************************************************************************)
(* A visitor's first message.                                              *)
(***************************************************************************)
Receive(r) ==
    /\ req[r].pc = "idle"
    /\ req' = [req EXCEPT ![r].pc = "reading"]
    /\ UNCHANGED <<online, chats>>

ReadAgents(r) ==
    /\ req[r].pc = "reading"
    /\ req' = [req EXCEPT ![r].pc = "counting", ![r].left = online]
    /\ UNCHANGED <<online, chats>>

\* MUTANT of Count: chats the agent got by routing are not counted.
CountRouted(r, a) ==
    /\ a \in req[r].left
    /\ req' = [req EXCEPT ![r].left = @ \ {a}, ![r].open[a] = other[a]]
    /\ UNCHANGED <<online, chats>>

Count(r, a) ==
    /\ a \in req[r].left
    /\ req' = [req EXCEPT ![r].left = @ \ {a}, ![r].open[a] = Open(a)]
    /\ UNCHANGED <<online, chats>>

Counted(r) == {a \in Agents : req[r].open[a] # None}

WithRoom(r) == {a \in Counted(r) : req[r].open[a] < MaxOpenChats[a]}

\* MUTANT of Candidates: the limit is looked at after the least busy is chosen.
CandidatesThenRoom(r) ==
    LET least == {a \in Counted(r) : \A b \in Counted(r) : req[r].open[a] <= req[r].open[b]}
    IN  IF least = {} THEN {None}
        ELSE {IF a \in WithRoom(r) THEN a ELSE None : a \in least}

\* The least busy agents that have room; the order of equals is the database's.
Candidates(r) ==
    IF WithRoom(r) = {} THEN {None}
    ELSE {a \in WithRoom(r) : \A b \in WithRoom(r) : req[r].open[a] <= req[r].open[b]}

\* The bound on chats.
CountChat ==
    /\ created < MaxChats
    /\ created' = created + 1

Create(r, a) ==
    /\ req[r].pc = "counting"
    /\ req[r].left = {}
    /\ a \in Candidates(r)
    /\ CountChat
    /\ IF a = None
       THEN other' = [other EXCEPT ![None] = @ + 1] /\ UNCHANGED routed
       ELSE routed' = [routed EXCEPT ![a] = @ + 1] /\ UNCHANGED other
    /\ req' = [req EXCEPT ![r] = Idle]
    /\ UNCHANGED <<online, finished>>

\* The process dies before the chat is created.
Lose(r) ==
    /\ req[r].pc # "idle"
    /\ req' = [req EXCEPT ![r] = Idle]
    /\ UNCHANGED <<online, chats>>

-----------------------------------------------------------------------------
(***************************************************************************)
(* What goes on at the same time.                                          *)
(***************************************************************************)

\* Agents change their status, and shifts begin and end.
ComeOrGo(a) ==
    /\ online' = IF a \in online THEN online \ {a} ELSE online \cup {a}
    /\ UNCHANGED <<chats, req>>

\* An agent opens a chat himself.  Limits are not looked at.
Start(a) ==
    /\ CountChat
    /\ other' = [other EXCEPT ![a] = @ + 1]
    /\ UNCHANGED <<online, routed, finished, req>>

\* Take a chat of owner a out of those it is counted in.
TakeRouted(a) ==
    /\ routed[a] > 0
    /\ routed' = [routed EXCEPT ![a] = @ - 1]

\* MUTANT of TakeOther: a chat that is finished is finished once more.
TakeOtherAgain(a) == other' = [other EXCEPT ![a] = @ - 1]

TakeOther(a) ==
    /\ other[a] > 0
    /\ other' = [other EXCEPT ![a] = @ - 1]

\* A chat of a or of the queue is assigned to b.
Assign(a, b) ==
    /\ \/ /\ other[a] > 0
          /\ other' = [[other EXCEPT ![a] = @ - 1] EXCEPT ![b] = @ + 1]
          /\ UNCHANGED <<routed, finished>>
       \/ /\ a # None /\ TakeRouted(a)
          /\ other' = [other EXCEPT ![b] = @ + 1]
          /\ UNCHANGED finished
       \/ /\ finished[a] > 0                    \* it is open again
          /\ finished' = [finished EXCEPT ![a] = @ - 1]
          /\ other' = [other EXCEPT ![b] = @ + 1]
          /\ UNCHANGED routed
    /\ UNCHANGED <<online, created, req>>

Finish(a) ==
    /\ \/ TakeOther(a) /\ UNCHANGED routed
       \/ a # None /\ TakeRouted(a) /\ UNCHANGED other
    /\ finished' = [finished EXCEPT ![a] = @ + 1]
    /\ UNCHANGED <<online, created, req>>

\* The visitor writes in a finished chat.
Reopen(a) ==
    /\ finished[a] > 0
    /\ finished' = [finished EXCEPT ![a] = @ - 1]
    /\ other' = [other EXCEPT ![a] = @ + 1]
    /\ UNCHANGED <<online, created, routed, req>>

-----------------------------------------------------------------------------
Free == {a \in online : HasRoom(a)}

\* Starts with the agents free when the request reads them, loses those that are
\* not any more.
RecordFree ==
    free' = [r \in Requests |->
                IF req'[r].pc # "counting" THEN {}
                ELSE IF req[r].pc = "reading" THEN Free
                ELSE free[r] \cap Free']

Step ==
    \/ \E r \in Requests :
         \/ Receive(r) \/ ReadAgents(r) \/ Lose(r)
         \/ \E a \in Agents : Count(r, a)
         \/ \E a \in Agents \cup {None} : Create(r, a)
    \/ \E a \in Agents : ComeOrGo(a) \/ Start(a)
    \/ \E a \in Owners : Finish(a) \/ Reopen(a) \/ \E b \in Agents : Assign(a, b)

RoutingNext == Step /\ RecordFree

RoutingSpec == RoutingInit /\ [][RoutingNext]_routingVars

-----------------------------------------------------------------------------
(***************************************************************************)
(* Properties.                                                             *)
(***************************************************************************)
\* Counting and creating are not atomic, so routing may give an agent more chats
\* than his limit; but never more than one for each other request that counted at
\* the same time, however long chats keep coming.
OverrunIsBounded ==
    \A a \in Agents : routed[a] > 0 => routed[a] < MaxOpenChats[a] + Cardinality(Requests)

\* A visitor waits in the queue only if there was no agent who was online and had
\* room all the time routing looked: no order of the counts overlooks one.
NobodyFreeIsOverlooked ==
    [][\A r \in Requests :
          (req[r].pc = "counting" /\ req'[r].pc = "idle" /\ other'[None] > other[None])
              => free[r] = {}]_routingVars
=============================================================================

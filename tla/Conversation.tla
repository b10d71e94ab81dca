---------------------------- MODULE Conversation ----------------------------
(***************************************************************************)
(* One chat and the API requests that work on it at the same time.         *)
(*                                                                         *)
(* The chat is a row of conversations with its messages, participants and  *)
(* conversation_assignments.  A request is an HTTP call inside an API      *)
(* process; it is split where the handler awaits the database, because     *)
(* other requests run there:                                               *)
(*                                                                         *)
(*   looking     the conversation row has been read; the findFirst on the  *)
(*               idempotency key comes next                                *)
(*   inserting   message.create comes next                                 *)
(*   committing  the row is written inside $transaction, not yet visible;  *)
(*               conversation.update and COMMIT come next (the update      *)
(*               takes the row lock, so update and commit are one step)    *)
(*   touching    the row was written without a transaction; the            *)
(*               conversation row comes next                               *)
(*   resolving   a ticket's caller also asked to resolve the chat          *)
(*   answering   the HTTP response, which the client may never see         *)
(*                                                                         *)
(* Postgres runs at READ COMMITTED, prisma's default.  A second insert of  *)
(* the same (conversation, key) waits for the first transaction and fails  *)
(* when that one commits.                                                  *)
(***************************************************************************)
EXTENDS Naturals, FiniteSets

CONSTANTS
    Requests,       \* HTTP requests in flight at the same time
    Agents,         \* memberships of the organization
    Keys,           \* idempotency keys the clients choose
    NoKey,          \* the field was left out
    None,           \* SQL NULL
    Settable,       \* statuses agents set by hand
    MaxMessages     \* bound: message rows, committed or rolled back

ASSUME NoKeyAssumption == NoKey \notin Keys
ASSUME NoneAssumption == None \notin Nat /\ None \notin Agents
ASSUME SettableAssumption ==
    Settable \subseteq {"QUEUED", "OPEN", "PENDING", "RESOLVED", "CLOSED", "SPAM"}
ASSUME MaxMessagesAssumption == MaxMessages \in Nat \ {0}

VARIABLES
    conv,           \* the conversations row
    messages,       \* committed rows of messages
    assignments,    \* rows of conversation_assignments; none is ever closed
    participants,   \* agents with a participant row
    req,            \* per request: where it is and what it keeps
    clock,          \* created_at of the newest message row, used as its id
    replies         \* <<key, id>> the clients were told

vars == <<conv, messages, assignments, participants, req, clock, replies>>

Statuses == {"QUEUED", "OPEN", "PENDING", "RESOLVED", "CLOSED", "SPAM"}
Finished == {"RESOLVED", "CLOSED"}
Ids == 1 .. MaxMessages

Message == [id : Ids, sender : {"AGENT", "VISITOR", "SYSTEM"},
            type : {"TEXT", "FILE", "EVENT"},
            visibility : {"PUBLIC", "INTERNAL"}, key : Keys \cup {NoKey}]

\* A row of conversation_assignments; its event has the same time.
Assignment == [agent : Agents, at : Ids]

\* The calls that add a message.  The system posts the answers of bots and of
\* tickets.
ByAgent == {"agentText"}
ByVisitor == {"visitorText", "visitorFile"}
Loose == {"systemText"}                 \* written outside any transaction
Kinds == ByAgent \cup ByVisitor \cup Loose
Keyed == {"agentText", "visitorText"}   \* the calls that take a key

SenderOf(kind) == IF kind \in ByAgent THEN "AGENT"
                  ELSE IF kind \in ByVisitor THEN "VISITOR" ELSE "SYSTEM"

\* An agent's client chooses the type of what it sends, EVENT as well.  The other
\* types it may choose, and a file it uploads, are told apart by nothing: TEXT.
TypesOf(kind) == CASE kind = "agentText"   -> {"TEXT", "EVENT"}
                   [] kind = "visitorFile" -> {"FILE"}
                   [] OTHER                -> {"TEXT"}

VisibilitiesOf(kind) ==
    IF kind = "agentText" THEN {"PUBLIC", "INTERNAL"} ELSE {"PUBLIC"}

\* What handlers keep between awaits: the key, the two columns of the conversation
\* they use again, and the message row they are writing.
Request ==
    [pc : {"idle", "looking", "inserting", "committing", "touching",
           "resolving", "answering"},
     kind : Kinds, key : Keys \cup {NoKey}, sawStatus : Statuses, sawNoResponse : BOOLEAN,
     row : Message \cup {None}]

Idle == [pc |-> "idle", kind |-> "systemText", key |-> NoKey,
         sawStatus |-> "OPEN", sawNoResponse |-> FALSE, row |-> None]

TypeOK ==
    /\ conv \in [status : Statuses, assignedAgentId : Agents \cup {None},
                 firstResponseAt : Ids \cup {None},
                 lastMessageAt : Ids \cup {None}]
    /\ messages \in SUBSET Message
    /\ assignments \in SUBSET Assignment
    /\ participants \in SUBSET Agents
    /\ req \in [Requests -> Request]
    /\ clock \in 0 .. MaxMessages
    /\ replies \in SUBSET (Keys \X Ids)

-----------------------------------------------------------------------------
(***************************************************************************)
(* The chats a conversation starts as: opened from the widget (routed to   *)
(* an agent or queued), by an agent by hand (with or without a first       *)
(* message, which a test chat attributes to a visitor), or by an agent for *)
(* a visitor who is only browsing.                                         *)
(***************************************************************************)
FirstMessage(sender) ==
    [id |-> 1, sender |-> sender, type |-> "TEXT", visibility |-> "PUBLIC",
     key |-> NoKey]

OpenedByVisitor(a) ==
    /\ conv = [status |-> IF a = None THEN "QUEUED" ELSE "OPEN",
               assignedAgentId |-> a, firstResponseAt |-> None,
               lastMessageAt |-> 1]
    /\ messages = {FirstMessage("VISITOR")}
    /\ participants = {}
    /\ clock = 1

\* The opening message of an agent counts as the first response, that of a
\* simulated visitor does not.
OpenedByAgent(a) ==
    /\ participants = {a}
    /\ \/ /\ conv = [status |-> "OPEN", assignedAgentId |-> a,
                     firstResponseAt |-> None, lastMessageAt |-> None]
          /\ messages = {}
          /\ clock = 0
       \/ \E sender \in {"AGENT", "VISITOR"} :
             /\ conv = [status |-> "OPEN", assignedAgentId |-> a,
                        firstResponseAt |-> IF sender = "AGENT" THEN 1 ELSE None,
                        lastMessageAt |-> 1]
             /\ messages = {FirstMessage(sender)}
             /\ clock = 1

\* "Not a first response: nobody asked anything here".
OpenedProactively(a) ==
    /\ conv = [status |-> "OPEN", assignedAgentId |-> a,
               firstResponseAt |-> None, lastMessageAt |-> 1]
    /\ messages = {FirstMessage("AGENT")}
    /\ participants = {a}
    /\ clock = 1

Init ==
    /\ \/ \E a \in Agents \cup {None} : OpenedByVisitor(a)
       \/ \E a \in Agents : OpenedByAgent(a) \/ OpenedProactively(a)
    /\ assignments = {}
    /\ req = [r \in Requests |-> Idle]
    /\ replies = {}

-----------------------------------------------------------------------------
(***************************************************************************)
(* Adding a message.                                                       *)
(***************************************************************************)

\* The bound on message rows.
HasRoom == clock < MaxMessages

\* The request arrives and the handler reads the conversation row, keeping the
\* columns it will use again.  Without a key there is no lookup.
Receive(r, kind, key) ==
    /\ req[r].pc = "idle"
    /\ key # NoKey => kind \in Keyed
    /\ req' = [req EXCEPT ![r] =
          [pc |-> IF key = NoKey THEN "inserting" ELSE "looking",
           kind |-> kind, key |-> key,
           sawStatus |-> IF kind = "visitorText" THEN conv.status ELSE "OPEN",
           sawNoResponse |-> kind \in ByAgent /\ conv.firstResponseAt = None,
           row |-> None]]
    /\ UNCHANGED <<conv, messages, assignments, participants, clock, replies>>

SameKey(m, r) == req[r].key # NoKey /\ m.key = req[r].key

\* The request is over but for telling the client about row m; an answer to a
\* call without a key promises nothing that a later step could break.
Done(r, m) ==
    IF req[r].key = NoKey THEN Idle
    ELSE [Idle EXCEPT !.pc = "answering", !.key = req[r].key, !.row = m]

\* The key is already stored: the handler returns that message.
FindExisting(r) ==
    /\ req[r].pc = "looking"
    /\ \E m \in messages :
          /\ SameKey(m, r)
          /\ req' = [req EXCEPT ![r] = Done(r, m)]
    /\ UNCHANGED <<conv, messages, assignments, participants, clock, replies>>

FindNothing(r) ==
    /\ req[r].pc = "looking"
    /\ \A m \in messages : ~SameKey(m, r)
    /\ req' = [req EXCEPT ![r].pc = "inserting"]
    /\ UNCHANGED <<conv, messages, assignments, participants, clock, replies>>

\* Rows written by transactions that have not committed yet.
Pending == {req[s].row : s \in {t \in Requests : req[t].pc = "committing"}}

\* MUTANT of KeyIsFree: the key is checked by the lookup only.
KeyWithoutIndex(r) == TRUE

\* @@unique([conversationId, idempotencyKey])
KeyIsFree(r) == \A m \in messages \cup Pending : ~SameKey(m, r)

\* The row a request may have asked for.
NewRows(r) ==
    [id : {clock + 1}, sender : {SenderOf(req[r].kind)}, type : TypesOf(req[r].kind),
     visibility : VisibilitiesOf(req[r].kind), key : {req[r].key}]

\* MUTANT of Insert: the conversation row is updated outside the transaction.
InsertTouchingFirst(r) ==
    /\ req[r].pc = "inserting"
    /\ req[r].kind \notin Loose
    /\ HasRoom
    /\ KeyIsFree(r)
    /\ clock' = clock + 1
    /\ conv' = [conv EXCEPT !.lastMessageAt = clock + 1]
    /\ \E row \in NewRows(r) :
          req' = [req EXCEPT ![r].pc = "committing", ![r].row = row]
    /\ UNCHANGED <<messages, assignments, participants, replies>>

\* message.create inside the transaction.
Insert(r) ==
    /\ req[r].pc = "inserting"
    /\ req[r].kind \notin Loose
    /\ HasRoom
    /\ KeyIsFree(r)
    /\ clock' = clock + 1
    /\ \E row \in NewRows(r) :
          req' = [req EXCEPT ![r].pc = "committing", ![r].row = row]
    /\ UNCHANGED <<conv, messages, assignments, participants, replies>>

\* MUTANT of InsertRefused: the violation is swallowed and the attempt answers
\* with the message it could not store.
InsertRefusedButAnswered(r) ==
    /\ req[r].pc = "inserting"
    /\ \E m \in messages : SameKey(m, r)
    /\ \E row \in NewRows(r) : req' = [req EXCEPT ![r] = Done(r, row)]
    /\ UNCHANGED <<conv, messages, assignments, participants, clock, replies>>

\* Another request stored the key after the lookup: the insert raises a unique
\* violation, the transaction rolls back and the client gets an error.
InsertRefused(r) ==
    /\ req[r].pc = "inserting"
    /\ \E m \in messages : SameKey(m, r)
    /\ req' = [req EXCEPT ![r] = Idle]
    /\ UNCHANGED <<conv, messages, assignments, participants, clock, replies>>

\* MUTANTS of Reply: internal notes count; every reply moves the first response.
ReplyCountingNotes(c, m, sawNoResponse) ==
    [c EXCEPT !.lastMessageAt = m.id,
              !.firstResponseAt = IF sawNoResponse THEN m.id ELSE @]

ReplyAlwaysFirst(c, m, sawNoResponse) ==
    [c EXCEPT !.lastMessageAt = m.id,
              !.firstResponseAt = IF m.visibility = "PUBLIC" THEN m.id ELSE @]

\* The columns conversation.update writes for each kind of message.
Reply(c, m, sawNoResponse) ==
    [c EXCEPT !.lastMessageAt = m.id,
              !.firstResponseAt =
                  IF m.visibility = "PUBLIC" /\ sawNoResponse THEN m.id ELSE @]

\* MUTANT of VisitorText: only a closed chat is reopened, a resolved one is not.
VisitorTextReopensClosed(c, m, sawStatus) ==
    [c EXCEPT !.lastMessageAt = m.id,
              !.status = IF sawStatus = "CLOSED" THEN "OPEN" ELSE sawStatus]

VisitorText(c, m, sawStatus) ==
    [c EXCEPT !.lastMessageAt = m.id,
              !.status = IF sawStatus \in Finished THEN "OPEN" ELSE sawStatus]

Touch(c, m) == [c EXCEPT !.lastMessageAt = m.id]

Updated(r) ==
    LET m == req[r].row IN
    IF req[r].kind \in ByAgent THEN Reply(conv, m, req[r].sawNoResponse)
    ELSE IF req[r].kind = "visitorText" THEN VisitorText(conv, m, req[r].sawStatus)
    ELSE Touch(conv, m)

Commit(r) ==
    /\ req[r].pc = "committing"
    /\ messages' = messages \cup {req[r].row}
    /\ conv' = Updated(r)
    /\ req' = [req EXCEPT ![r] = Done(r, req[r].row)]
    /\ UNCHANGED <<assignments, participants, clock, replies>>

\* Outside a transaction the row is visible at once, and the conversation row
\* follows in a statement of its own.
PostLoose(r) ==
    /\ req[r].pc = "inserting"
    /\ req[r].kind \in Loose
    /\ HasRoom
    /\ clock' = clock + 1
    /\ \E row \in NewRows(r) :
          /\ messages' = messages \cup {row}
          /\ req' = [req EXCEPT ![r].pc = "touching", ![r].row = row]
    /\ UNCHANGED <<conv, assignments, participants, replies>>

TouchConversation(r) ==
    /\ req[r].pc = "touching"
    /\ conv' = Touch(conv, req[r].row)
    /\ \/ req' = [req EXCEPT ![r] = Idle]
       \/ req' = [req EXCEPT ![r] = [Idle EXCEPT !.pc = "resolving"]]   \* a ticket's
    /\ UNCHANGED <<messages, assignments, participants, clock, replies>>

\* MUTANT of ResolveForTicket: a status only tickets have is written to the chat.
ResolveWithTicketStatus(r) ==
    /\ req[r].pc = "resolving"
    /\ conv' = [conv EXCEPT !.status = "NEW"]
    /\ req' = [req EXCEPT ![r] = Idle]
    /\ UNCHANGED <<messages, assignments, participants, clock, replies>>

ResolveForTicket(r) ==
    /\ req[r].pc = "resolving"
    /\ conv' = [conv EXCEPT !.status = "RESOLVED"]
    /\ req' = [req EXCEPT ![r] = Idle]
    /\ UNCHANGED <<messages, assignments, participants, clock, replies>>

\* The client receives the message it asked to send.
Respond(r) ==
    /\ req[r].pc = "answering"
    /\ replies' = replies \cup {<<req[r].key, req[r].row.id>>}
    /\ req' = [req EXCEPT ![r] = Idle]
    /\ UNCHANGED <<conv, messages, assignments, participants, clock>>

\* The API process dies, or the answer is lost: an open transaction rolls back,
\* what was committed stays, and the client knows nothing.  It may try again.
Lose(r) ==
    /\ req[r].pc # "idle"
    /\ req' = [req EXCEPT ![r] = Idle]
    /\ UNCHANGED <<conv, messages, assignments, participants, clock, replies>>

-----------------------------------------------------------------------------
(***************************************************************************)
(* Working the chat.  The transaction of assignConversation starts by      *)
(* updating the conversation row, whose lock it holds to its end: it is    *)
(* one step.                                                               *)
(***************************************************************************)
\* The agents who have been assigned.
Assigned == {row.agent : row \in assignments}

EventMessage ==
    [id |-> clock + 1, sender |-> "SYSTEM", type |-> "EVENT",
     visibility |-> "INTERNAL", key |-> NoKey]

\* MUTANT of Assign: without a transaction, a refused row leaves the chat changed.
AssignPiecemeal(a) ==
    /\ HasRoom
    /\ conv' = [conv EXCEPT !.assignedAgentId = a, !.status = "OPEN"]
    /\ IF a \in Assigned
       THEN UNCHANGED <<messages, assignments, participants, clock>>
       ELSE /\ assignments' = assignments \cup {[agent |-> a, at |-> clock + 1]}
            /\ participants' = participants \cup {a}
            /\ clock' = clock + 1
            /\ messages' = messages \cup {EventMessage}
    /\ UNCHANGED <<req, replies>>

\* conversation_assignments_one_open_idx (conversation_id, agent_id) WHERE
\* unassigned_at IS NULL: an agent who has been assigned before still has a row,
\* and then the insert fails, the transaction rolls back and nothing happens.
Assign(a) ==
    /\ HasRoom
    /\ a \notin Assigned
    /\ assignments' = assignments \cup {[agent |-> a, at |-> clock + 1]}
    /\ participants' = participants \cup {a}
    /\ clock' = clock + 1
    /\ messages' = messages \cup {EventMessage}
    /\ conv' = [conv EXCEPT !.assignedAgentId = a, !.status = "OPEN",
                            !.lastMessageAt = clock + 1]
    /\ UNCHANGED <<req, replies>>

UpdateStatus(s) ==
    /\ conv' = [conv EXCEPT !.status = s]
    /\ UNCHANGED <<messages, assignments, participants, req, clock, replies>>

-----------------------------------------------------------------------------
Serve(r) ==
    \/ FindExisting(r) \/ FindNothing(r)
    \/ Insert(r) \/ InsertRefused(r) \/ Commit(r)
    \/ PostLoose(r) \/ TouchConversation(r) \/ ResolveForTicket(r)
    \/ Respond(r)

Next ==
    \/ \E r \in Requests :
         \/ \E kind \in Kinds, k \in Keys \cup {NoKey} : Receive(r, kind, k)
         \/ Serve(r)
         \/ Lose(r)
    \/ \E a \in Agents : Assign(a)
    \/ \E s \in Settable : UpdateStatus(s)

Spec == Init /\ [][Next]_vars

-----------------------------------------------------------------------------
(***************************************************************************)
(* Properties.                                                             *)
(***************************************************************************)

\* However many attempts race with one idempotency key, the chat holds at most
\* one message for it: the lookup alone (conversations.service.ts:506, widgets.
\* service.ts:828) does not give this, it reads before the other attempt commits.
OneMessagePerKey ==
    \A m, n \in messages : m.key = n.key /\ m.key # NoKey => m = n

\* Sending implements SendOnce: also the answers, given before and after losses,
\* always name the message the key is stored under.
Stored == {<<m.key, m.id>> : m \in {n \in messages : n.key # NoKey}}

Once == INSTANCE SendOnce WITH stored <- Stored, answered <- replies

SendsOnce == Once!Spec

\* The first response time is that of a message the visitor can see and an agent
\* wrote: never of an internal note, a bot or the visitor's own opening message.
FirstResponseIsAgentReply ==
    conv.firstResponseAt # None =>
        \E m \in messages : /\ m.id = conv.firstResponseAt
                            /\ m.sender = "AGENT"
                            /\ m.visibility = "PUBLIC"

\* Only replies whose request read the row before there was a first response can
\* still move it (conversations.service.ts:534): once those are done it stays.
RacingReply(r) == req[r].pc # "idle" /\ req[r].sawNoResponse

FirstResponseSettles ==
    [][(conv.firstResponseAt # None /\ \A r \in Requests : ~RacingReply(r))
          => conv'.firstResponseAt = conv.firstResponseAt]_vars

\* A visitor who writes is never left talking to a finished chat: whatever agents
\* did between the read and the write, the text leaves the chat unfinished
\* (widgets.service.ts:860).
VisitorTextLeavesChatActive ==
    [][\A m \in messages' \ messages :
          m.sender = "VISITOR" /\ m.type = "TEXT" => conv'.status \notin Finished]_vars

\* An assignment is all or nothing: each row has its event in the transcript and
\* each event of the system its row, whatever events agents send; who was assigned
\* takes part in the chat; and the agent in charge is the one assigned last, also
\* after an assignment was refused.
Events == {m \in messages : m.sender = "SYSTEM" /\ m.type = "EVENT"}

AssignmentsAreWhole ==
    /\ {m.id : m \in Events} = {row.at : row \in assignments}
    /\ Assigned \subseteq participants
    /\ \A row \in assignments :
          (\A other \in assignments : other.at <= row.at)
             => conv.assignedAgentId = row.agent

\* The chat list is ordered by lastMessageAt: it is always the time of a message
\* that can be read, also while transactions that will move it are open.
LastMessageIsStored ==
    conv.lastMessageAt # None => \E m \in messages : m.id = conv.lastMessageAt

\* docs/api/conversations.md:12, "Assign or transfer a conversation to another
\* agent": an agent who does not have the chat can be given it, no assignment row
\* of his is in the way of the one assignConversation writes.
AnyOtherAgentCanBeAssigned ==
    \A a \in Agents : a # conv.assignedAgentId => a \notin Assigned
=============================================================================

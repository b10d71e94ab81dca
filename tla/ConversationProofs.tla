------------------------- MODULE ConversationProofs -------------------------
(***************************************************************************)
(* Theorems about Conversation, for every number of requests, agents, keys *)
(* and messages.                                                           *)
(*                                                                         *)
(* The invariants are not inductive by themselves: what protects a key     *)
(* while the message that carries it is in an open transaction is kept in  *)
(* the requests.  IInv adds that: what a request remembers of the row it   *)
(* writes is true, and the keys of open transactions differ from each      *)
(* other and from those of the stored messages.                            *)
(***************************************************************************)
EXTENDS Conversation, TLAPS

\* What a request keeps of the row it wrote is what it was asked to write, and
\* outside a transaction the row is in the table.
RowIsKept(r) ==
    /\ req[r].pc \in {"committing", "touching", "answering"} => req[r].row \in Message
    /\ req[r].pc = "committing" =>
          /\ req[r].row.key = req[r].key
          /\ req[r].row.sender = SenderOf(req[r].kind)
          /\ req[r].row.type \in TypesOf(req[r].kind)
          /\ req[r].row.visibility \in VisibilitiesOf(req[r].kind)
    /\ req[r].pc \in {"touching", "answering"} => req[r].row \in messages
    /\ req[r].pc = "answering" => req[r].key \in Keys /\ req[r].row.key = req[r].key

RowsAreKept == \A r \in Requests : RowIsKept(r)

\* No two rows, committed or about to be, share a key.
KeysOfOpenTransactions ==
    \A r \in Requests : req[r].pc = "committing" /\ req[r].key # NoKey =>
        /\ \A m \in messages : m.key # req[r].key
        /\ \A s \in Requests : req[s].pc = "committing" /\ req[s].key = req[r].key
                                  => s = r

\* Messages written outside a transaction carry no key.
LooseHasNoKey ==
    \A r \in Requests :
        req[r].pc \in {"looking", "inserting"} /\ req[r].kind \in Loose
            => req[r].key = NoKey

RepliesAreStored ==
    \A p \in replies : \E m \in messages : m.key \in Keys /\ p = <<m.key, m.id>>

Typed == TypeOK /\ RowsAreKept

IInv ==
    /\ Typed
    /\ LooseHasNoKey
    /\ KeysOfOpenTransactions
    /\ OneMessagePerKey
    /\ RepliesAreStored
    /\ FirstResponseIsAgentReply
    /\ LastMessageIsStored

-----------------------------------------------------------------------------
(***************************************************************************)
(* Types.                                                                  *)
(***************************************************************************)
LEMMA NewRowType ==
    ASSUME TypeOK, NEW r \in Requests, HasRoom, NEW row \in NewRows(r)
    PROVE  /\ row \in Message
           /\ clock + 1 \in Ids
           /\ row.id = clock + 1
           /\ row.key = req[r].key
           /\ row.sender = SenderOf(req[r].kind)
           /\ row.type \in TypesOf(req[r].kind)
           /\ row.visibility \in VisibilitiesOf(req[r].kind)
<1>1. clock + 1 \in Ids
  BY MaxMessagesAssumption DEF TypeOK, HasRoom, Ids
<1>2. req[r].kind \in Kinds /\ req[r].key \in Keys \cup {NoKey}
  BY DEF TypeOK, Request
<1>3. SenderOf(req[r].kind) \in {"AGENT", "VISITOR", "SYSTEM"}
  BY DEF SenderOf
<1>4. TypesOf(req[r].kind) \subseteq {"TEXT", "FILE", "EVENT"}
  BY DEF TypesOf
<1>5. VisibilitiesOf(req[r].kind) \subseteq {"PUBLIC", "INTERNAL"}
  BY DEF VisibilitiesOf
<1>6. /\ row.id = clock + 1
      /\ row.key = req[r].key
      /\ row.sender = SenderOf(req[r].kind)
      /\ row.type \in TypesOf(req[r].kind)
      /\ row.visibility \in VisibilitiesOf(req[r].kind)
  BY DEF NewRows
<1>7. row \in Message
  <2> DEFINE T == TypesOf(req[r].kind)
             V == VisibilitiesOf(req[r].kind)
             S == SenderOf(req[r].kind)
  <2>1. row \in [id : {clock + 1}, sender : {S}, type : T, visibility : V,
                  key : {req[r].key}]
    BY DEF NewRows
  <2> HIDE DEF T, V, S
  <2> QED
    BY <1>1, <1>2, <1>3, <1>4, <1>5, <2>1 DEF Message, T, V, S
<1> QED
  BY <1>1, <1>6, <1>7

LEMMA IdleType == Idle \in Request
BY DEF Idle, Request, Kinds, ByAgent, ByVisitor, Loose, Statuses

LEMMA DoneType ==
    ASSUME TypeOK, NEW r \in Requests, NEW m \in Message
    PROVE  Done(r, m) \in Request
<1>1. req[r].key \in Keys \cup {NoKey}
  BY DEF TypeOK, Request
<1> QED
  BY <1>1, IdleType DEF Done, Idle, Request, Kinds, ByAgent, ByVisitor, Loose, Statuses

\* What conversation.update writes is a conversation row again.
ConvType == [status : Statuses, assignedAgentId : Agents \cup {None},
             firstResponseAt : Ids \cup {None}, lastMessageAt : Ids \cup {None}]

LEMMA UpdatedType ==
    ASSUME TypeOK, NEW r \in Requests, req[r].row \in Message
    PROVE  Updated(r) \in ConvType
<1>1. conv \in ConvType /\ req[r].sawStatus \in Statuses /\ req[r].row.id \in Ids
  BY DEF TypeOK, ConvType, Request, Message
<1>2. Reply(conv, req[r].row, req[r].sawNoResponse) \in ConvType
  BY <1>1 DEF Reply, ConvType
<1>3. VisitorText(conv, req[r].row, req[r].sawStatus) \in ConvType
  BY <1>1 DEF VisitorText, ConvType, Statuses
<1>4. Touch(conv, req[r].row) \in ConvType
  BY <1>1 DEF Touch, ConvType
<1> QED
  BY <1>2, <1>3, <1>4 DEF Updated

LEMMA InitTyped == Init => Typed
<1> SUFFICES ASSUME Init PROVE Typed
  OBVIOUS
<1>1. 1 \in Ids /\ {0, 1} \subseteq 0 .. MaxMessages
  BY MaxMessagesAssumption DEF Ids
<1>2. \A sender \in {"AGENT", "VISITOR"} : FirstMessage(sender) \in Message
  BY <1>1 DEF FirstMessage, Message
<1>3. /\ conv \in ConvType
      /\ messages \in SUBSET Message
      /\ participants \in SUBSET Agents
      /\ clock \in 0 .. MaxMessages
  <2>1. CASE \E a \in Agents \cup {None} : OpenedByVisitor(a)
    BY <1>1, <1>2, <2>1 DEF OpenedByVisitor, ConvType, Statuses
  <2>2. CASE \E a \in Agents : OpenedByAgent(a)
    BY <1>1, <1>2, <2>2 DEF OpenedByAgent, ConvType, Statuses
  <2>3. CASE \E a \in Agents : OpenedProactively(a)
    BY <1>1, <1>2, <2>3 DEF OpenedProactively, ConvType, Statuses
  <2> QED
    BY <2>1, <2>2, <2>3 DEF Init
<1>4. req \in [Requests -> Request]
  BY IdleType DEF Init
<1>5. TypeOK
  BY <1>3, <1>4 DEF Init, TypeOK, ConvType
<1>6. RowsAreKept
  BY DEF Init, RowsAreKept, RowIsKept, Idle
<1> QED
  BY <1>5, <1>6 DEF Typed

\* A request that changes alone keeps the types when what it becomes is a request
\* with a true memory of its row, and no row disappears.
LEMMA OneRequestTyped ==
    ASSUME Typed, NEW r \in Requests, NEW q \in Request,
           req' = [req EXCEPT ![r] = q], messages \subseteq messages',
           q.pc \in {"committing", "touching", "answering"} => q.row \in Message,
           q.pc = "committing" => /\ q.row.key = q.key
                                  /\ q.row.sender = SenderOf(q.kind)
                                  /\ q.row.type \in TypesOf(q.kind)
                                  /\ q.row.visibility \in VisibilitiesOf(q.kind),
           q.pc \in {"touching", "answering"} => q.row \in messages',
           q.pc = "answering" => q.key \in Keys /\ q.row.key = q.key
    PROVE  req' \in [Requests -> Request] /\ RowsAreKept'
<1>1. req \in [Requests -> Request]
  BY DEF Typed, TypeOK
<1>2. req' \in [Requests -> Request]
  BY <1>1
<1>3. req'[r] = q /\ \A s \in Requests \ {r} : req'[s] = req[s]
  BY <1>1
<1>4. ASSUME NEW s \in Requests PROVE RowIsKept(s)'
  <2>1. CASE s = r
    BY <1>3, <2>1 DEF RowIsKept
  <2>2. CASE s # r
    <3>1. RowIsKept(s) /\ req'[s] = req[s]
      BY <1>3, <2>2 DEF Typed, RowsAreKept
    <3> QED
      BY <3>1 DEF RowIsKept
  <2> QED
    BY <2>1, <2>2
<1> QED
  BY <1>2, <1>4 DEF RowsAreKept

\* The same when no request changes.
LEMMA NoRequestTyped ==
    ASSUME Typed, req' = req, messages \subseteq messages'
    PROVE  req' \in [Requests -> Request] /\ RowsAreKept'
<1>1. ASSUME NEW s \in Requests PROVE RowIsKept(s)'
  <2>1. RowIsKept(s) /\ req'[s] = req[s]
    BY DEF Typed, RowsAreKept
  <2> QED
    BY <2>1 DEF RowIsKept
<1> QED
  BY <1>1 DEF RowsAreKept, Typed, TypeOK

\* What a finished attempt leaves behind.
LEMMA DoneIsKept ==
    ASSUME TypeOK, NEW r \in Requests, NEW m \in Message, m.key = req[r].key
    PROVE  /\ Done(r, m) \in Request
           /\ Done(r, m).pc \in {"idle", "answering"}
           /\ Done(r, m).pc = "answering" =>
                 /\ Done(r, m).row = m
                 /\ Done(r, m).key = m.key
                 /\ Done(r, m).key \in Keys
<1>1. req[r].key \in Keys \cup {NoKey}
  BY DEF TypeOK, Request
<1>2. CASE req[r].key = NoKey
  BY <1>2, DoneType DEF Done, Idle
<1>3. CASE req[r].key # NoKey
  BY <1>1, <1>3, DoneType DEF Done, Idle
<1> QED
  BY <1>2, <1>3

LEMMA ReceiveTyped ==
    ASSUME Typed, NEW r \in Requests, NEW kind \in Kinds,
           NEW k \in Keys \cup {NoKey},
           Receive(r, kind, k)
    PROVE  Typed'
<1> DEFINE q == [pc |-> IF k = NoKey THEN "inserting" ELSE "looking",
                 kind |-> kind, key |-> k,
                 sawStatus |-> IF kind = "visitorText" THEN conv.status ELSE "OPEN",
                 sawNoResponse |-> kind \in ByAgent /\ conv.firstResponseAt = None,
                 row |-> None]
<1>1. req' = [req EXCEPT ![r] = q]
  BY DEF Receive
<1>2. q \in Request
  <2>1. (IF kind = "visitorText" THEN conv.status ELSE "OPEN") \in Statuses
    BY DEF Typed, TypeOK, Statuses
  <2>2. (kind \in ByAgent /\ conv.firstResponseAt = None) \in BOOLEAN
    OBVIOUS
  <2> QED
    BY <2>1, <2>2 DEF Request
<1>3. q.pc \notin {"committing", "touching", "answering"}
  OBVIOUS
<1>4. req' \in [Requests -> Request] /\ RowsAreKept'
  <2> HIDE DEF q
  <2> QED
    BY <1>1, <1>2, <1>3, OneRequestTyped, ZenonT(40) DEF Receive
<1> QED
  BY <1>4 DEF Receive, Typed, TypeOK

LEMMA FindTyped ==
    ASSUME Typed, NEW r \in Requests, FindExisting(r) \/ FindNothing(r)
    PROVE  Typed'
<1>1. CASE FindExisting(r)
  <2>1. PICK m \in messages : SameKey(m, r) /\ req' = [req EXCEPT ![r] = Done(r, m)]
    BY <1>1 DEF FindExisting
  <2>2. m \in Message /\ m.key = req[r].key
    BY <2>1 DEF SameKey, Typed, TypeOK
  <2> DEFINE q == Done(r, m)
  <2>3. /\ q \in Request
        /\ q.pc \in {"idle", "answering"}
        /\ q.pc = "answering" => q.row = m /\ q.key = m.key /\ q.key \in Keys
    BY <2>2, DoneIsKept DEF Typed
  <2>4. messages' = messages
    BY <1>1 DEF FindExisting
  <2>5. req' \in [Requests -> Request] /\ RowsAreKept'
    <3>1. req' = [req EXCEPT ![r] = q]
      BY <2>1
    <3> HIDE DEF q
    <3> QED
      BY <2>2, <2>3, <2>4, <3>1, OneRequestTyped
  <2> QED
    BY <1>1, <2>5 DEF FindExisting, Typed, TypeOK
<1>2. CASE FindNothing(r)
  <2> DEFINE q == [req[r] EXCEPT !.pc = "inserting"]
  <2>1. q \in Request /\ q.pc = "inserting" /\ req' = [req EXCEPT ![r] = q]
    BY <1>2 DEF FindNothing, Typed, TypeOK, Request
  <2>2. req' \in [Requests -> Request] /\ RowsAreKept'
    <3> HIDE DEF q
    <3> QED
      BY <1>2, <2>1, OneRequestTyped DEF FindNothing
  <2> QED
    BY <1>2, <2>2 DEF FindNothing, Typed, TypeOK
<1> QED
  BY <1>1, <1>2

\* Insert and PostLoose leave the request with the row they wrote.
LEMMA WroteRow ==
    ASSUME TypeOK, NEW r \in Requests, HasRoom, NEW pc \in {"committing", "touching"},
           NEW row \in NewRows(r), req' = [req EXCEPT ![r].pc = pc, ![r].row = row]
    PROVE  \E q \in Request :
              /\ req' = [req EXCEPT ![r] = q]
              /\ q.pc = pc
              /\ q.row = row
              /\ q.kind = req[r].kind
              /\ q.key = req[r].key
<1> DEFINE q == [req[r] EXCEPT !.pc = pc, !.row = row]
<1>0. row \in Message
  BY NewRowType
<1>1. q \in Request
  BY <1>0 DEF TypeOK, Request
<1>2. req' = [req EXCEPT ![r] = q]
  BY DEF TypeOK
<1>3. q.pc = pc /\ q.row = row /\ q.kind = req[r].kind /\ q.key = req[r].key
  BY DEF TypeOK, Request
<1> QED
  BY <1>1, <1>2, <1>3

LEMMA WriteTyped ==
    ASSUME Typed, NEW r \in Requests, Insert(r) \/ PostLoose(r)
    PROVE  Typed'
<1>1. HasRoom
  BY DEF Insert, PostLoose
<1>2. clock' \in 0 .. MaxMessages
  BY <1>1, MaxMessagesAssumption DEF Insert, PostLoose, HasRoom, Typed, TypeOK
<1>3. CASE Insert(r)
  <2>0. PICK row \in NewRows(r) :
               req' = [req EXCEPT ![r].pc = "committing", ![r].row = row]
    BY <1>3 DEF Insert
  <2>1. PICK q \in Request : /\ req' = [req EXCEPT ![r] = q]
                             /\ q.pc = "committing"
                             /\ q.row = row
                             /\ q.kind = req[r].kind
                             /\ q.key = req[r].key
    BY <1>1, <2>0, WroteRow DEF Typed
  <2>2. /\ q.row \in Message
        /\ q.row.key = q.key
        /\ q.row.sender = SenderOf(q.kind)
        /\ q.row.type \in TypesOf(q.kind)
        /\ q.row.visibility \in VisibilitiesOf(q.kind)
    BY <1>1, <2>1, NewRowType DEF Typed
  <2>3. req' \in [Requests -> Request] /\ RowsAreKept'
    BY <1>3, <2>1, <2>2, OneRequestTyped DEF Insert
  <2> QED
    BY <1>2, <1>3, <2>3 DEF Insert, Typed, TypeOK
<1>4. CASE PostLoose(r)
  <2>0. PICK row \in NewRows(r) :
               /\ messages' = messages \cup {row}
               /\ req' = [req EXCEPT ![r].pc = "touching", ![r].row = row]
    BY <1>4 DEF PostLoose
  <2>1. PICK q \in Request : /\ req' = [req EXCEPT ![r] = q]
                             /\ q.pc = "touching"
                             /\ q.row = row
                             /\ q.kind = req[r].kind
                             /\ q.key = req[r].key
    BY <1>1, <2>0, WroteRow DEF Typed
  <2>2. row \in Message
    BY <1>1, NewRowType DEF Typed
  <2>3. req' \in [Requests -> Request] /\ RowsAreKept'
    BY <2>0, <2>1, <2>2, OneRequestTyped
  <2>4. messages' \in SUBSET Message
    BY <2>0, <2>2 DEF Typed, TypeOK
  <2> QED
    BY <1>2, <1>4, <2>3, <2>4 DEF PostLoose, Typed, TypeOK
<1> QED
  BY <1>3, <1>4

LEMMA CommitTyped ==
    ASSUME Typed, NEW r \in Requests, Commit(r)
    PROVE  Typed'
<1>1. req[r].row \in Message /\ req[r].row.key = req[r].key
  BY DEF Commit, Typed, RowsAreKept, RowIsKept
<1>2. messages' \in SUBSET Message /\ conv' \in ConvType
  BY <1>1, UpdatedType DEF Commit, Typed, TypeOK
<1> DEFINE q == Done(r, req[r].row)
<1>3. /\ q \in Request
      /\ q.pc \in {"idle", "answering"}
      /\ q.pc = "answering" => q.row = req[r].row /\ q.key = q.row.key /\ q.key \in Keys
  BY <1>1, DoneIsKept DEF Typed
<1>4. /\ messages \subseteq messages'
      /\ req[r].row \in messages'
      /\ req' = [req EXCEPT ![r] = q]
  BY DEF Commit
<1>5. req' \in [Requests -> Request] /\ RowsAreKept'
  <2> HIDE DEF q
  <2> QED
    BY <1>1, <1>3, <1>4, OneRequestTyped
<1> QED
  BY <1>2, <1>5 DEF Commit, Typed, TypeOK, ConvType

LEMMA IdleIsKept ==
    ASSUME Typed, NEW r \in Requests, req' = [req EXCEPT ![r] = Idle],
           messages' = messages
    PROVE  req' \in [Requests -> Request] /\ RowsAreKept'
<1>1. Idle \in Request /\ Idle.pc = "idle"
  BY IdleType DEF Idle
<1> QED
  BY <1>1, OneRequestTyped

LEMMA TouchTyped ==
    ASSUME Typed, NEW r \in Requests, TouchConversation(r)
    PROVE  Typed'
<1>1. req[r].row \in Message
  BY DEF TouchConversation, Typed, RowsAreKept, RowIsKept
<1>2. conv' \in ConvType
  BY <1>1 DEF TouchConversation, Touch, ConvType, Typed, TypeOK, Message
<1>3. req' \in [Requests -> Request] /\ RowsAreKept'
  <2>1. CASE req' = [req EXCEPT ![r] = Idle]
    BY <2>1, IdleIsKept DEF TouchConversation
  <2>2. CASE req' = [req EXCEPT ![r] = [Idle EXCEPT !.pc = "resolving"]]
    <3> DEFINE q == [Idle EXCEPT !.pc = "resolving"]
    <3>1. q \in Request /\ q.pc = "resolving"
      BY IdleType DEF Idle, Request
    <3> HIDE DEF q
    <3>2. req' = [req EXCEPT ![r] = q]
      BY <2>2 DEF q
    <3> QED
      BY <3>1, <3>2, OneRequestTyped DEF TouchConversation
  <2> QED
    BY <2>1, <2>2 DEF TouchConversation
<1> QED
  BY <1>2, <1>3 DEF TouchConversation, Typed, TypeOK, ConvType

\* The steps that end a request.
LEMMA EndTyped ==
    ASSUME Typed, NEW r \in Requests,
           InsertRefused(r) \/ ResolveForTicket(r) \/ Respond(r) \/ Lose(r)
    PROVE  Typed'
<1>1. req' \in [Requests -> Request] /\ RowsAreKept'
  BY IdleIsKept DEF InsertRefused, ResolveForTicket, Respond, Lose
<1>2. conv' \in ConvType
  BY DEF InsertRefused, ResolveForTicket, Respond, Lose, Typed, TypeOK, ConvType,
         Statuses
<1>3. replies' \in SUBSET (Keys \X Ids)
  <2>1. CASE Respond(r)
    <3>1. req[r].key \in Keys /\ req[r].row \in Message
      BY <2>1 DEF Respond, Typed, RowsAreKept, RowIsKept
    <3>2. req[r].row.id \in Ids
      BY <3>1 DEF Message
    <3> QED
      BY <2>1, <3>1, <3>2 DEF Respond, Typed, TypeOK
  <2>2. CASE replies' = replies
    BY <2>2 DEF Typed, TypeOK
  <2> QED
    BY <2>1, <2>2 DEF InsertRefused, ResolveForTicket, Lose
<1> QED
  BY <1>1, <1>2, <1>3 DEF InsertRefused, ResolveForTicket, Respond, Lose, Typed,
                         TypeOK, ConvType

LEMMA EventType ==
    ASSUME TypeOK, HasRoom
    PROVE  /\ EventMessage \in Message
           /\ clock + 1 \in Ids
           /\ clock + 1 \in 0 .. MaxMessages
<1>1. clock + 1 \in Ids /\ clock + 1 \in 0 .. MaxMessages
  BY MaxMessagesAssumption DEF TypeOK, HasRoom, Ids
<1> QED
  BY <1>1 DEF EventMessage, Message

LEMMA AssignTyped ==
    ASSUME Typed, NEW a \in Agents, Assign(a)
    PROVE  Typed'
<1>1. /\ EventMessage \in Message
      /\ clock + 1 \in Ids
      /\ clock + 1 \in 0 .. MaxMessages
  BY EventType DEF Assign, Typed
<1>2. conv' \in ConvType
  BY <1>1 DEF Assign, ConvType, Typed, TypeOK, Statuses
<1>3. req' \in [Requests -> Request] /\ RowsAreKept'
  BY NoRequestTyped DEF Assign
<1>4. assignments' \in SUBSET Assignment
  BY <1>1 DEF Assign, Assignment, Typed, TypeOK
<1> QED
  BY <1>1, <1>2, <1>3, <1>4 DEF Assign, Typed, TypeOK, ConvType

LEMMA UpdateStatusTyped ==
    ASSUME Typed, NEW s \in Settable, UpdateStatus(s)
    PROVE  Typed'
<1>1. s \in Statuses
  BY SettableAssumption DEF Statuses
<1>2. conv' \in ConvType
  BY <1>1 DEF UpdateStatus, ConvType, Typed, TypeOK
<1>3. req' \in [Requests -> Request] /\ RowsAreKept'
  BY NoRequestTyped DEF UpdateStatus
<1> QED
  BY <1>2, <1>3 DEF UpdateStatus, Typed, TypeOK, ConvType

LEMMA NextTyped == Typed /\ [Next]_vars => Typed'
<1> SUFFICES ASSUME Typed, [Next]_vars PROVE Typed'
  OBVIOUS
<1>1. ASSUME NEW r \in Requests, NEW kind \in Kinds, NEW k \in Keys \cup {NoKey}, Receive(r, kind, k)
      PROVE  Typed'
  BY <1>1, ReceiveTyped
<1>2. ASSUME NEW r \in Requests, Serve(r) PROVE Typed'
  BY <1>2, FindTyped, WriteTyped, CommitTyped, TouchTyped, EndTyped DEF Serve
<1>3. ASSUME NEW r \in Requests, Lose(r) PROVE Typed'
  BY <1>3, EndTyped
<1>4. ASSUME NEW a \in Agents, Assign(a) PROVE Typed'
  BY <1>4, AssignTyped
<1>5. ASSUME NEW s \in Settable, UpdateStatus(s) PROVE Typed'
  BY <1>5, UpdateStatusTyped
<1>6. CASE UNCHANGED vars
  <2>1. req' \in [Requests -> Request] /\ RowsAreKept'
    BY <1>6, NoRequestTyped DEF vars
  <2> QED
    BY <1>6, <2>1 DEF vars, Typed, TypeOK
<1> QED
  BY <1>1, <1>2, <1>3, <1>4, <1>5, <1>6 DEF Next

\* Every reachable state is well typed: rows keep their shape and the ids given to
\* clients are ids of rows, whatever requests race and die.
THEOREM Typing == Spec => []TypeOK
<1>1. Typed => TypeOK
  BY DEF Typed
<1> QED
  BY InitTyped, NextTyped, <1>1, PTL DEF Spec

-----------------------------------------------------------------------------
(***************************************************************************)
(* The inductive invariant.                                                *)
(***************************************************************************)

\* A step opens a transaction (Insert), ends one, or leaves those there are.
\* Here r is the only request that changes and it is not committing afterwards.
LEMMA RequestLeavesKeysAlone ==
    ASSUME Typed, KeysOfOpenTransactions, NEW r \in Requests, NEW q \in Request,
           req' = [req EXCEPT ![r] = q], q.pc # "committing",
           \A m \in messages' \ messages :
              \A s \in Requests \ {r} :
                 req[s].pc = "committing" /\ req[s].key # NoKey => m.key # req[s].key
    PROVE  KeysOfOpenTransactions'
<1>1. req'[r] = q /\ \A s \in Requests \ {r} : req'[s] = req[s]
  BY DEF Typed, TypeOK
<1>2. ASSUME NEW s \in Requests, req'[s].pc = "committing", req'[s].key # NoKey
      PROVE  /\ \A m \in messages' : m.key # req'[s].key
             /\ \A t \in Requests : req'[t].pc = "committing" /\ req'[t].key = req'[s].key
                                       => t = s
  <2>1. s # r /\ req'[s] = req[s]
    BY <1>1, <1>2
  <2>2. \A m \in messages' : m.key # req'[s].key
    BY <1>2, <2>1 DEF KeysOfOpenTransactions
  <2>3. ASSUME NEW t \in Requests, req'[t].pc = "committing", req'[t].key = req'[s].key
        PROVE  t = s
    <3>1. t # r /\ req'[t] = req[t]
      BY <1>1, <2>3
    <3> QED
      BY <1>2, <2>1, <2>3, <3>1 DEF KeysOfOpenTransactions
  <2> QED
    BY <2>2, <2>3
<1> QED
  BY <1>2 DEF KeysOfOpenTransactions

\* The lookup does not protect a key; the index does: a transaction opens only for
\* a key that no message and no other open transaction has.
LEMMA InsertKeepsKeys ==
    ASSUME Typed, KeysOfOpenTransactions, NEW r \in Requests, Insert(r)
    PROVE  KeysOfOpenTransactions'
<1>0. PICK row \in NewRows(r) :
             req' = [req EXCEPT ![r].pc = "committing", ![r].row = row]
  BY DEF Insert
<1>1. PICK q \in Request : /\ req' = [req EXCEPT ![r] = q]
                           /\ q.pc = "committing"
                           /\ q.row = row
                           /\ q.kind = req[r].kind
                           /\ q.key = req[r].key
  <2>1. TypeOK /\ HasRoom
    BY DEF Insert, Typed
  <2> QED
    BY <1>0, <2>1, WroteRow
<1>2. req'[r] = q /\ \A s \in Requests \ {r} : req'[s] = req[s]
  BY <1>1 DEF Typed, TypeOK
<1>3. ASSUME NEW s \in Requests \ {r}, req[s].pc = "committing", req[r].key # NoKey
      PROVE  req[s].key # req[r].key
  <2>1. req[s].row \in Pending /\ req[s].row.key = req[s].key
    BY <1>3 DEF Pending, Typed, RowsAreKept, RowIsKept
  <2> QED
    BY <1>3, <2>1 DEF Insert, KeyIsFree, SameKey
<1>4. req[r].key # NoKey => \A m \in messages : m.key # req[r].key
  BY DEF Insert, KeyIsFree, SameKey
<1>5. ASSUME NEW s \in Requests, req'[s].pc = "committing", req'[s].key # NoKey
      PROVE  /\ \A m \in messages' : m.key # req'[s].key
             /\ \A t \in Requests : req'[t].pc = "committing" /\ req'[t].key = req'[s].key
                                       => t = s
  <2>1. messages' = messages
    BY DEF Insert
  <2>2. CASE s = r
    BY <1>1, <1>2, <1>3, <1>4, <1>5, <2>1, <2>2
  <2>3. CASE s # r
    <3>1. req'[s] = req[s]
      BY <1>2, <2>3
    <3>2. \A m \in messages' : m.key # req'[s].key
      BY <1>5, <2>1, <3>1 DEF KeysOfOpenTransactions
    <3>3. ASSUME NEW t \in Requests, req'[t].pc = "committing", req'[t].key = req'[s].key
          PROVE  t = s
      <4>1. CASE t = r
        BY <1>1, <1>2, <1>3, <1>5, <2>3, <3>1, <3>3, <4>1
      <4>2. CASE t # r
        BY <1>2, <1>5, <3>1, <3>3, <4>2 DEF KeysOfOpenTransactions
      <4> QED
        BY <4>1, <4>2
    <3> QED
      BY <3>2, <3>3
  <2> QED
    BY <2>2, <2>3
<1> QED
  BY <1>5 DEF KeysOfOpenTransactions

\* The row a transaction commits is the first with its key.
LEMMA CommitKeepsKeys ==
    ASSUME Typed, KeysOfOpenTransactions, OneMessagePerKey,
           NEW r \in Requests, Commit(r)
    PROVE  KeysOfOpenTransactions' /\ OneMessagePerKey'
<1> DEFINE row == req[r].row
<1>1. row \in Message /\ row.key = req[r].key
  BY DEF Commit, Typed, RowsAreKept, RowIsKept
<1>2. messages' = messages \cup {row}
  BY DEF Commit
<1>3. Done(r, row) \in Request /\ Done(r, row).pc # "committing"
  BY <1>1, DoneIsKept DEF Typed
<1>4. KeysOfOpenTransactions'
  <2>1. \A s \in Requests \ {r} :
            req[s].pc = "committing" /\ req[s].key # NoKey => row.key # req[s].key
    BY <1>1 DEF KeysOfOpenTransactions, Commit
  <2>2. req' = [req EXCEPT ![r] = Done(r, row)]
    BY DEF Commit
  <2>3. \A m \in messages' \ messages : m = row
    BY <1>2
  <2> DEFINE q == Done(r, row)
  <2> HIDE DEF q, row
  <2> QED
    BY <1>3, <2>1, <2>2, <2>3, RequestLeavesKeysAlone DEF q
<1>5. OneMessagePerKey'
  <2>1. row.key # NoKey => \A m \in messages : m.key # row.key
    BY <1>1 DEF KeysOfOpenTransactions, Commit
  <2> QED
    BY <1>2, <2>1 DEF OneMessagePerKey
<1> QED
  BY <1>4, <1>5

\* The alternatives of a step, one by one.
LEMMA NextCases ==
    ASSUME [Next]_vars
    PROVE  \/ \E r \in Requests : \E kind \in Kinds, k \in Keys \cup {NoKey} :
                 Receive(r, kind, k)
           \/ \E r \in Requests : Serve(r)
           \/ \E r \in Requests : Lose(r)
           \/ \E a \in Agents : Assign(a)
           \/ \E s \in Settable : UpdateStatus(s)
           \/ UNCHANGED vars
BY DEF Next

\* A request moves only by its own steps.
LEMMA WhoMovesARequest ==
    ASSUME Typed, [Next]_vars, NEW s \in Requests
    PROVE  \/ req'[s] = req[s]
           \/ \E kind \in Kinds, k \in Keys \cup {NoKey} :
                 Receive(s, kind, k)
           \/ Serve(s)
           \/ Lose(s)
<1>1. CASE \E a \in Agents : Assign(a)
  BY <1>1 DEF Assign
<1>2. CASE \E t \in Settable : UpdateStatus(t)
  BY <1>2 DEF UpdateStatus
<1>3. CASE UNCHANGED vars
  BY <1>3 DEF vars
<1>4. CASE \E r \in Requests \ {s} :
              \/ \E kind \in Kinds, k \in Keys \cup {NoKey} :
                    Receive(r, kind, k)
              \/ Serve(r)
              \/ Lose(r)
  <2>1. PICK r \in Requests \ {s} :
              \/ \E kind \in Kinds, k \in Keys \cup {NoKey} :
                    Receive(r, kind, k)
              \/ Serve(r)
              \/ Lose(r)
    BY <1>4
  <2>2. CASE \E kind \in Kinds, k \in Keys \cup {NoKey} :
                Receive(r, kind, k)
    BY <2>2 DEF Receive, Typed, TypeOK
  <2>3. CASE FindExisting(r) \/ FindNothing(r)
    BY <2>3 DEF FindExisting, FindNothing, Typed, TypeOK
  <2>4. CASE Insert(r) \/ PostLoose(r)
    BY <2>4 DEF Insert, PostLoose, Typed, TypeOK
  <2>5. CASE Commit(r) \/ TouchConversation(r)
    BY <2>5 DEF Commit, TouchConversation, Typed, TypeOK
  <2>6. CASE InsertRefused(r) \/ ResolveForTicket(r) \/ Respond(r) \/ Lose(r)
    BY <2>6 DEF InsertRefused, ResolveForTicket, Respond, Lose, Typed, TypeOK
  <2> QED
    BY <2>1, <2>2, <2>3, <2>4, <2>5, <2>6 DEF Serve
<1> QED
  BY <1>1, <1>2, <1>3, <1>4 DEF Next

LEMMA LooseStep == Typed /\ LooseHasNoKey /\ [Next]_vars => LooseHasNoKey'
<1> SUFFICES ASSUME Typed, LooseHasNoKey, [Next]_vars, NEW s \in Requests,
                    req'[s].pc \in {"looking", "inserting"}, req'[s].kind \in Loose
             PROVE  req'[s].key = NoKey
  BY DEF LooseHasNoKey
<1>1. CASE req'[s] = req[s]
  BY <1>1 DEF LooseHasNoKey
<1>2. CASE \E kind \in Kinds, k \in Keys \cup {NoKey} :
              Receive(s, kind, k)
  BY <1>2 DEF Receive, Typed, TypeOK, Keyed, Loose
<1>3. CASE FindNothing(s)
  <2>1. /\ req[s].pc = "looking"
        /\ req'[s].kind = req[s].kind
        /\ req'[s].key = req[s].key
    BY <1>3 DEF FindNothing, Typed, TypeOK, Request
  <2> QED
    BY <2>1 DEF LooseHasNoKey
<1>4. CASE FindExisting(s)
  <2>1. PICK m \in messages : req' = [req EXCEPT ![s] = Done(s, m)]
    BY <1>4 DEF FindExisting
  <2>2. req'[s].pc \in {"idle", "answering"}
    BY <2>1 DEF Done, Idle, Typed, TypeOK
  <2> QED
    BY <2>2
<1>5. CASE Insert(s) \/ PostLoose(s)
  BY <1>5 DEF Insert, PostLoose, Typed, TypeOK, Request
<1>6. CASE Commit(s)
  <2>1. req'[s].pc \in {"idle", "answering"}
    BY <1>6 DEF Commit, Done, Idle, Typed, TypeOK
  <2> QED
    BY <2>1
<1>7. CASE TouchConversation(s)
  BY <1>7 DEF TouchConversation, Idle, Typed, TypeOK
<1>8. CASE InsertRefused(s) \/ ResolveForTicket(s) \/ Respond(s) \/ Lose(s)
  BY <1>8 DEF InsertRefused, ResolveForTicket, Respond, Lose, Idle, Typed, TypeOK
<1> QED
  BY <1>1, <1>2, <1>3, <1>4, <1>5, <1>6, <1>7, <1>8, WhoMovesARequest DEF Serve

\* A step that neither adds a message with a key nor opens a transaction.
LEMMA QuietStepKeepsKeys ==
    ASSUME Typed, KeysOfOpenTransactions, OneMessagePerKey,
           NEW r \in Requests, NEW q \in Request,
           req' = [req EXCEPT ![r] = q], q.pc # "committing",
           \A m \in messages' \ messages : m.key = NoKey
    PROVE  KeysOfOpenTransactions' /\ OneMessagePerKey'
<1>1. OneMessagePerKey'
  BY DEF OneMessagePerKey
<1>2. \A m \in messages' \ messages :
         \A s \in Requests \ {r} :
            req[s].pc = "committing" /\ req[s].key # NoKey => m.key # req[s].key
  OBVIOUS
<1>3. KeysOfOpenTransactions'
  BY <1>2, RequestLeavesKeysAlone
<1> QED
  BY <1>1, <1>3

LEMMA KeysStep ==
    Typed /\ LooseHasNoKey /\ KeysOfOpenTransactions /\ OneMessagePerKey /\ [Next]_vars
        => KeysOfOpenTransactions' /\ OneMessagePerKey'
<1> SUFFICES ASSUME Typed, LooseHasNoKey, KeysOfOpenTransactions, OneMessagePerKey,
                    [Next]_vars
             PROVE  KeysOfOpenTransactions' /\ OneMessagePerKey'
  OBVIOUS
<1> DEFINE Kept == KeysOfOpenTransactions' /\ OneMessagePerKey'
<1>0. EventMessage.key = NoKey
  BY DEF EventMessage
<1>1. ASSUME NEW r \in Requests, NEW kind \in Kinds, NEW k \in Keys \cup {NoKey}, Receive(r, kind, k)
      PROVE  Kept
  <2> DEFINE q == req'[r]
  <2>1. q \in Request /\ req' = [req EXCEPT ![r] = q] /\ messages' = messages
    <3>1. req' \in [Requests -> Request]
      BY <1>1, ReceiveTyped DEF Typed, TypeOK
    <3> QED
      BY <1>1, <3>1 DEF Receive, Typed, TypeOK
  <2>2. q.pc # "committing"
    BY <1>1 DEF Receive, Typed, TypeOK
  <2> HIDE DEF q
  <2> QED
    BY <1>0, <2>1, <2>2, QuietStepKeepsKeys
<1>2. ASSUME NEW r \in Requests, FindExisting(r) PROVE Kept
  <2>1. PICK m \in messages : SameKey(m, r) /\ req' = [req EXCEPT ![r] = Done(r, m)]
    BY <1>2 DEF FindExisting
  <2>2. m \in Message /\ m.key = req[r].key
    BY <2>1 DEF SameKey, Typed, TypeOK
  <2>3. Done(r, m) \in Request /\ Done(r, m).pc # "committing"
    BY <2>2, DoneIsKept DEF Typed
  <2>4. messages' = messages
    BY <1>2 DEF FindExisting
  <2> QED
    BY <1>0, <2>1, <2>3, <2>4, QuietStepKeepsKeys
<1>3. ASSUME NEW r \in Requests, FindNothing(r) PROVE Kept
  <2> DEFINE q == [req[r] EXCEPT !.pc = "inserting"]
  <2>1. q \in Request /\ q.pc # "committing"
    BY DEF Typed, TypeOK, Request
  <2>2. req' = [req EXCEPT ![r] = q] /\ messages' = messages
    BY <1>3 DEF FindNothing, Typed, TypeOK
  <2> HIDE DEF q
  <2> QED
    BY <1>0, <2>1, <2>2, QuietStepKeepsKeys
<1>4. ASSUME NEW r \in Requests, Insert(r) PROVE Kept
  <2>1. OneMessagePerKey'
    BY <1>4 DEF Insert, OneMessagePerKey
  <2> QED
    BY <1>4, <2>1, InsertKeepsKeys
<1>5. ASSUME NEW r \in Requests, Commit(r) PROVE Kept
  BY <1>5, CommitKeepsKeys
<1>6. ASSUME NEW r \in Requests, PostLoose(r) PROVE Kept
  <2>1. PICK row \in NewRows(r) :
               /\ HasRoom
               /\ messages' = messages \cup {row}
               /\ req' = [req EXCEPT ![r].pc = "touching", ![r].row = row]
    BY <1>6 DEF PostLoose
  <2>2. row.key = NoKey
    BY <1>6, <2>1, NewRowType DEF PostLoose, LooseHasNoKey, Typed
  <2>3. PICK q \in Request : /\ req' = [req EXCEPT ![r] = q]
                             /\ q.pc = "touching"
                             /\ q.row = row
                             /\ q.kind = req[r].kind
                             /\ q.key = req[r].key
    BY <2>1, WroteRow DEF Typed
  <2> QED
    BY <2>1, <2>2, <2>3, QuietStepKeepsKeys
<1>7. ASSUME NEW r \in Requests, TouchConversation(r) PROVE Kept
  <2>1. Idle \in Request /\ Idle.pc # "committing"
    BY IdleType DEF Idle
  <2>2. /\ [Idle EXCEPT !.pc = "resolving"] \in Request
        /\ [Idle EXCEPT !.pc = "resolving"].pc # "committing"
    BY IdleType DEF Idle, Request
  <2>3. messages' = messages
    BY <1>7 DEF TouchConversation
  <2>4. \E q \in Request : req' = [req EXCEPT ![r] = q] /\ q.pc # "committing"
    BY <1>7, <2>1, <2>2 DEF TouchConversation
  <2> QED
    BY <1>0, <2>3, <2>4, QuietStepKeepsKeys
<1>8. ASSUME NEW r \in Requests,
             InsertRefused(r) \/ ResolveForTicket(r) \/ Respond(r) \/ Lose(r)
      PROVE  Kept
  <2>1. Idle \in Request /\ Idle.pc # "committing"
    BY IdleType DEF Idle
  <2>2. req' = [req EXCEPT ![r] = Idle] /\ messages' = messages
    BY <1>8 DEF InsertRefused, ResolveForTicket, Respond, Lose
  <2> QED
    BY <1>0, <2>1, <2>2, QuietStepKeepsKeys
<1>9. ASSUME NEW a \in Agents, Assign(a) PROVE Kept
  <2>1. messages' = messages \cup {EventMessage} /\ req' = req
    BY <1>9 DEF Assign
  <2> QED
    BY <1>0, <2>1 DEF KeysOfOpenTransactions, OneMessagePerKey
<1>10. ASSUME NEW s \in Settable, UpdateStatus(s) PROVE Kept
  BY <1>10 DEF UpdateStatus, KeysOfOpenTransactions, OneMessagePerKey
<1>11. CASE UNCHANGED vars
  BY <1>11 DEF vars, KeysOfOpenTransactions, OneMessagePerKey
<1> QED
  BY <1>1, <1>2, <1>3, <1>4, <1>5, <1>6, <1>7, <1>8, <1>9, <1>10, <1>11
     DEF Next, Serve

LEMMA NothingIsDeleted == ASSUME [Next]_vars PROVE messages \subseteq messages'
<1>1. CASE \E r \in Requests : \E kind \in Kinds, k \in Keys \cup {NoKey} :
                 Receive(r, kind, k)
  BY <1>1 DEF Receive
<1>2. CASE \E r \in Requests : Serve(r)
  BY <1>2 DEF Serve, FindExisting, FindNothing, Insert, InsertRefused, Commit,
              PostLoose, TouchConversation, ResolveForTicket, Respond
<1>3. CASE \E r \in Requests : Lose(r)
  BY <1>3 DEF Lose
<1>4. CASE \E a \in Agents : Assign(a)
  BY <1>4 DEF Assign
<1>5. CASE \E s \in Settable : UpdateStatus(s)
  BY <1>5 DEF UpdateStatus
<1>6. CASE UNCHANGED vars
  BY <1>6 DEF vars
<1> QED
  BY <1>1, <1>2, <1>3, <1>4, <1>5, <1>6, NextCases

\* Only Respond tells a client something, and it names a stored message.
LEMMA RepliesStep == Typed /\ RepliesAreStored /\ [Next]_vars => RepliesAreStored'
<1> SUFFICES ASSUME Typed, RepliesAreStored, [Next]_vars PROVE RepliesAreStored'
  OBVIOUS
<1>1. messages \subseteq messages'
  BY NothingIsDeleted
<1>2. CASE replies' = replies
  BY <1>1, <1>2 DEF RepliesAreStored
<1>3. ASSUME NEW r \in Requests, Respond(r) PROVE RepliesAreStored'
  <2>1. /\ req[r].row \in messages'
        /\ req[r].row.key = req[r].key
        /\ req[r].key \in Keys
    BY <1>1, <1>3 DEF Respond, Typed, RowsAreKept, RowIsKept
  <2>2. replies' = replies \cup {<<req[r].row.key, req[r].row.id>>}
    BY <1>3, <2>1 DEF Respond
  <2> QED
    BY <1>1, <2>1, <2>2 DEF RepliesAreStored
<1>4. CASE \E r \in Requests : Serve(r)
  <2>1. PICK r \in Requests : Serve(r)
    BY <1>4
  <2>2. CASE Respond(r)
    BY <1>3, <2>2
  <2>3. CASE FindExisting(r) \/ FindNothing(r) \/ Insert(r) \/ InsertRefused(r)
             \/ Commit(r) \/ PostLoose(r) \/ TouchConversation(r) \/ ResolveForTicket(r)
    BY <1>2, <2>3 DEF FindExisting, FindNothing, Insert, InsertRefused, Commit,
                      PostLoose, TouchConversation, ResolveForTicket
  <2> QED
    BY <2>1, <2>2, <2>3 DEF Serve
<1>5. CASE \E r \in Requests : \E kind \in Kinds, k \in Keys \cup {NoKey} :
                 Receive(r, kind, k)
  BY <1>2, <1>5 DEF Receive
<1>6. CASE \E r \in Requests : Lose(r)
  BY <1>2, <1>6 DEF Lose
<1>7. CASE \E a \in Agents : Assign(a)
  BY <1>2, <1>7 DEF Assign
<1>8. CASE \E s \in Settable : UpdateStatus(s)
  BY <1>2, <1>8 DEF UpdateStatus
<1>9. CASE UNCHANGED vars
  BY <1>2, <1>9 DEF vars
<1> QED
  BY <1>4, <1>5, <1>6, <1>7, <1>8, <1>9, NextCases

\* The columns the properties are about move with Commit, TouchConversation and
\* Assign alone.
LEMMA WhoMovesTheChat ==
    ASSUME Typed, [Next]_vars
    PROVE  \/ /\ conv'.firstResponseAt = conv.firstResponseAt
              /\ conv'.lastMessageAt = conv.lastMessageAt
           \/ \E r \in Requests : Commit(r) \/ TouchConversation(r)
           \/ \E a \in Agents : Assign(a)
<1>1. CASE \E s : conv' = [conv EXCEPT !.status = s]
  BY <1>1 DEF Typed, TypeOK
<1>2. CASE conv' = conv
  BY <1>2
<1>3. CASE \E r \in Requests : Serve(r)
  <2>1. PICK r \in Requests : Serve(r)
    BY <1>3
  <2>2. CASE FindExisting(r) \/ FindNothing(r) \/ Insert(r) \/ InsertRefused(r)
             \/ PostLoose(r) \/ Respond(r)
    BY <1>2, <2>2 DEF FindExisting, FindNothing, Insert, InsertRefused, PostLoose, Respond
  <2>3. CASE ResolveForTicket(r)
    BY <1>1, <2>3 DEF ResolveForTicket
  <2> QED
    BY <2>1, <2>2, <2>3 DEF Serve
<1>4. CASE \E r \in Requests : \E kind \in Kinds, k \in Keys \cup {NoKey} :
                 Receive(r, kind, k)
  BY <1>2, <1>4 DEF Receive
<1>5. CASE \E r \in Requests : Lose(r)
  BY <1>2, <1>5 DEF Lose
<1>6. CASE \E s \in Settable : UpdateStatus(s)
  BY <1>1, <1>6 DEF UpdateStatus
<1>7. CASE UNCHANGED vars
  BY <1>2, <1>7 DEF vars
<1> QED
  BY <1>3, <1>4, <1>5, <1>6, <1>7, NextCases

LEMMA UpdatedColumns ==
    ASSUME Typed, NEW r \in Requests, req[r].row \in Message
    PROVE  /\ Updated(r).lastMessageAt = req[r].row.id
           /\ \/ Updated(r).firstResponseAt = conv.firstResponseAt
              \/ /\ Updated(r).firstResponseAt = req[r].row.id
                 /\ req[r].kind \in ByAgent
                 /\ req[r].row.visibility = "PUBLIC"
                 /\ req[r].sawNoResponse
<1>1. conv \in ConvType
  BY DEF Typed, TypeOK, ConvType
<1>2. CASE req[r].kind \in ByAgent
  BY <1>1, <1>2 DEF Updated, Reply, ConvType
<1>3. CASE req[r].kind \notin ByAgent
  BY <1>1, <1>3 DEF Updated, VisitorText, Touch, ConvType
<1> QED
  BY <1>2, <1>3

LEMMA FirstResponseStep ==
    Typed /\ FirstResponseIsAgentReply /\ [Next]_vars => FirstResponseIsAgentReply'
<1> SUFFICES ASSUME Typed, FirstResponseIsAgentReply, [Next]_vars
             PROVE  FirstResponseIsAgentReply'
  OBVIOUS
<1>1. messages \subseteq messages'
  BY NothingIsDeleted
<1>2. CASE conv'.firstResponseAt = conv.firstResponseAt
  BY <1>1, <1>2 DEF FirstResponseIsAgentReply
<1>3. ASSUME NEW r \in Requests, Commit(r), conv'.firstResponseAt # conv.firstResponseAt
      PROVE  FirstResponseIsAgentReply'
  <2>1. /\ req[r].row \in Message
        /\ req[r].row.sender = SenderOf(req[r].kind)
    BY <1>3 DEF Commit, Typed, RowsAreKept, RowIsKept
  <2>2. conv' = Updated(r) /\ req[r].row \in messages'
    BY <1>3 DEF Commit
  <2>3. /\ conv'.firstResponseAt = req[r].row.id
        /\ req[r].kind \in ByAgent
        /\ req[r].row.visibility = "PUBLIC"
    BY <1>3, <2>1, <2>2, UpdatedColumns
  <2>4. req[r].row.sender = "AGENT"
    BY <2>1, <2>3 DEF SenderOf
  <2> QED
    BY <2>2, <2>3, <2>4 DEF FirstResponseIsAgentReply
<1>4. ASSUME NEW r \in Requests, TouchConversation(r)
      PROVE  conv'.firstResponseAt = conv.firstResponseAt
  BY <1>4 DEF TouchConversation, Touch, Typed, TypeOK
<1>5. ASSUME NEW a \in Agents, Assign(a)
      PROVE  conv'.firstResponseAt = conv.firstResponseAt
  BY <1>5 DEF Assign, Typed, TypeOK
<1> QED
  BY <1>2, <1>3, <1>4, <1>5, WhoMovesTheChat

LEMMA LastMessageStep ==
    Typed /\ LastMessageIsStored /\ [Next]_vars => LastMessageIsStored'
<1> SUFFICES ASSUME Typed, LastMessageIsStored, [Next]_vars PROVE LastMessageIsStored'
  OBVIOUS
<1>1. messages \subseteq messages'
  BY NothingIsDeleted
<1>2. CASE conv'.lastMessageAt = conv.lastMessageAt
  BY <1>1, <1>2 DEF LastMessageIsStored
<1>3. ASSUME NEW r \in Requests, Commit(r) PROVE LastMessageIsStored'
  <2>1. req[r].row \in Message
    BY <1>3 DEF Commit, Typed, RowsAreKept, RowIsKept
  <2>2. conv'.lastMessageAt = req[r].row.id /\ req[r].row \in messages'
    BY <1>3, <2>1, UpdatedColumns DEF Commit
  <2> QED
    BY <2>2 DEF LastMessageIsStored
<1>4. ASSUME NEW r \in Requests, TouchConversation(r) PROVE LastMessageIsStored'
  <2>1. req[r].row \in messages /\ messages' = messages
    BY <1>4 DEF TouchConversation, Typed, RowsAreKept, RowIsKept
  <2>2. conv'.lastMessageAt = req[r].row.id
    BY <1>4 DEF TouchConversation, Touch, Typed, TypeOK
  <2> QED
    BY <2>1, <2>2 DEF LastMessageIsStored
<1>5. ASSUME NEW a \in Agents, Assign(a) PROVE LastMessageIsStored'
  <2>1. EventMessage \in messages' /\ EventMessage.id = clock + 1
    BY <1>5 DEF Assign, EventMessage
  <2>2. conv'.lastMessageAt = clock + 1
    BY <1>5 DEF Assign, Typed, TypeOK
  <2> QED
    BY <2>1, <2>2 DEF LastMessageIsStored
<1> QED
  BY <1>2, <1>3, <1>4, <1>5, WhoMovesTheChat

LEMMA InitInv == Init => IInv
<1> SUFFICES ASSUME Init PROVE IInv
  OBVIOUS
<1>1. Typed
  BY InitTyped
<1>2. \A r \in Requests : req[r].pc = "idle"
  BY DEF Init, Idle
<1>3. LooseHasNoKey /\ KeysOfOpenTransactions
  BY <1>2 DEF LooseHasNoKey, KeysOfOpenTransactions
<1>4. \A sender : /\ FirstMessage(sender).key = NoKey
                  /\ FirstMessage(sender).id = 1
                  /\ FirstMessage(sender).sender = sender
                  /\ FirstMessage(sender).visibility = "PUBLIC"
  BY DEF FirstMessage
<1>5. OneMessagePerKey /\ FirstResponseIsAgentReply /\ LastMessageIsStored
  <2>1. CASE \E a \in Agents \cup {None} : OpenedByVisitor(a)
    BY <1>4, <2>1 DEF OpenedByVisitor, OneMessagePerKey, FirstResponseIsAgentReply,
                      LastMessageIsStored
  <2>2. CASE \E a \in Agents : OpenedByAgent(a)
    BY <1>4, <2>2 DEF OpenedByAgent, OneMessagePerKey, FirstResponseIsAgentReply,
                      LastMessageIsStored
  <2>3. CASE \E a \in Agents : OpenedProactively(a)
    BY <1>4, <2>3 DEF OpenedProactively, OneMessagePerKey, FirstResponseIsAgentReply,
                      LastMessageIsStored
  <2> QED
    BY <2>1, <2>2, <2>3 DEF Init
<1>6. RepliesAreStored
  BY DEF Init, RepliesAreStored
<1> QED
  BY <1>1, <1>3, <1>5, <1>6 DEF IInv

LEMMA NextInv == IInv /\ [Next]_vars => IInv'
BY NextTyped, LooseStep, KeysStep, RepliesStep, FirstResponseStep, LastMessageStep
   DEF IInv

THEOREM Invariance == Spec => []IInv
BY InitInv, NextInv, PTL DEF Spec

-----------------------------------------------------------------------------
\* However many attempts with one idempotency key race, get lost and are repeated,
\* the chat never holds two messages for it.
THEOREM OneMessage == Spec => []OneMessagePerKey
<1>1. IInv => OneMessagePerKey
  BY DEF IInv
<1> QED
  BY Invariance, <1>1, PTL

\* The first response time the reports average is always that of a public message
\* of an agent, also while replies and notes are sent at the same time.
THEOREM FirstResponse == Spec => []FirstResponseIsAgentReply
<1>1. IInv => FirstResponseIsAgentReply
  BY DEF IInv
<1> QED
  BY Invariance, <1>1, PTL

\* The time the chat list is ordered by is that of a message that can be read.
THEOREM LastMessage == Spec => []LastMessageIsStored
<1>1. IInv => LastMessageIsStored
  BY DEF IInv
<1> QED
  BY Invariance, <1>1, PTL

-----------------------------------------------------------------------------
(***************************************************************************)
(* Sending implements SendOnce.                                            *)
(***************************************************************************)
LEMMA SendInit == Init => Once!Init
<1> SUFFICES ASSUME Init PROVE Once!Init
  OBVIOUS
<1>1. \A m \in messages : m.key = NoKey
  BY DEF Init, OpenedByVisitor, OpenedByAgent, OpenedProactively, FirstMessage
<1>2. Stored = {}
  BY <1>1 DEF Stored
<1> QED
  BY <1>2 DEF Once!Init, Init

\* Adding messages without a key, and steps that add none, are stutters.
LEMMA SendStutter ==
    ASSUME replies' = replies,
           messages \subseteq messages',
           \A m \in messages' \ messages : m.key = NoKey
    PROVE  UNCHANGED Once!avars
<1>1. Stored' = Stored
  BY DEF Stored
<1> QED
  BY <1>1 DEF Once!avars

LEMMA SendCommit ==
    ASSUME IInv, NEW r \in Requests, Commit(r)
    PROVE  [Once!Next]_Once!avars
<1> DEFINE row == req[r].row
<1>1. row \in Message /\ row.key = req[r].key /\ replies' = replies
      /\ messages' = messages \cup {row}
  BY DEF Commit, IInv, Typed, RowsAreKept, RowIsKept
<1>2. CASE row.key = NoKey
  <2>1. messages \subseteq messages' /\ \A m \in messages' \ messages : m.key = NoKey
    BY <1>1, <1>2
  <2> QED
    BY <1>1, <2>1, SendStutter
<1>3. CASE row.key # NoKey
  <2>1. row.key \in Keys /\ row.id \in Ids
    BY <1>1, <1>3 DEF Message
  <2>2. \A m \in messages : m.key # row.key
    BY <1>1, <1>3 DEF IInv, KeysOfOpenTransactions, Commit
  <2>3. \A p \in Stored : p[1] # row.key
    BY <2>2 DEF Stored
  <2>4. Stored' = Stored \cup {<<row.key, row.id>>}
    BY <1>1, <1>3 DEF Stored
  <2>5. Once!Store(row.key, row.id)
    BY <1>1, <2>3, <2>4 DEF Once!Store
  <2> QED
    BY <2>1, <2>5 DEF Once!Next
<1> QED
  BY <1>2, <1>3

LEMMA SendRespond ==
    ASSUME IInv, NEW r \in Requests, Respond(r)
    PROVE  Once!Next
<1> DEFINE k == req[r].key
           i == req[r].row.id
<1>1. /\ req[r].row \in messages
      /\ req[r].row.key = k
      /\ k \in Keys
      /\ req[r].row \in Message
  BY DEF Respond, IInv, Typed, RowsAreKept, RowIsKept
<1>2. i \in Ids /\ k # NoKey
  BY <1>1, NoKeyAssumption DEF Message
<1>3. <<k, i>> \in Stored
  BY <1>1, <1>2 DEF Stored
<1>4. Stored' = Stored /\ replies' = replies \cup {<<k, i>>}
  BY DEF Respond, Stored
<1>5. Once!Answer(k, i)
  BY <1>3, <1>4 DEF Once!Answer
<1> QED
  BY <1>1, <1>2, <1>5 DEF Once!Next

LEMMA SendStep == IInv /\ [Next]_vars => [Once!Next]_Once!avars
<1> SUFFICES ASSUME IInv, [Next]_vars PROVE [Once!Next]_Once!avars
  OBVIOUS
<1>0. messages' = messages /\ replies' = replies => UNCHANGED Once!avars
  BY DEF Stored, Once!avars
<1>1. CASE \E r \in Requests : Serve(r)
  <2>1. PICK r \in Requests : Serve(r)
    BY <1>1
  <2>2. CASE Commit(r)
    BY <2>2, SendCommit
  <2>3. CASE Respond(r)
    BY <2>3, SendRespond
  <2>4. CASE PostLoose(r)
    <3>1. PICK row \in NewRows(r) : /\ HasRoom
                                    /\ messages' = messages \cup {row}
                                    /\ replies' = replies
      BY <2>4 DEF PostLoose
    <3>2. row.key = NoKey
      BY <2>4, <3>1, NewRowType DEF PostLoose, IInv, LooseHasNoKey, Typed
    <3>3. messages \subseteq messages' /\ \A m \in messages' \ messages : m.key = NoKey
      BY <3>1, <3>2
    <3> QED
      BY <3>1, <3>3, SendStutter
  <2>5. CASE FindExisting(r) \/ FindNothing(r) \/ Insert(r) \/ InsertRefused(r)
             \/ TouchConversation(r) \/ ResolveForTicket(r)
    BY <1>0, <2>5 DEF FindExisting, FindNothing, Insert, InsertRefused,
                      TouchConversation, ResolveForTicket
  <2> QED
    BY <2>1, <2>2, <2>3, <2>4, <2>5 DEF Serve
<1>2. CASE \E r \in Requests : \E kind \in Kinds, k \in Keys \cup {NoKey} :
                 Receive(r, kind, k)
  BY <1>0, <1>2 DEF Receive
<1>3. CASE \E r \in Requests : Lose(r)
  BY <1>0, <1>3 DEF Lose
<1>4. CASE \E a \in Agents : Assign(a)
  <2>1. messages' = messages \cup {EventMessage} /\ replies' = replies
    BY <1>4 DEF Assign
  <2>2. messages \subseteq messages' /\ \A m \in messages' \ messages : m.key = NoKey
    BY <2>1 DEF EventMessage
  <2> QED
    BY <2>1, <2>2, SendStutter
<1>5. CASE \E s \in Settable : UpdateStatus(s)
  BY <1>0, <1>5 DEF UpdateStatus
<1>6. CASE UNCHANGED vars
  BY <1>0, <1>6 DEF vars
<1> QED
  BY <1>1, <1>2, <1>3, <1>4, <1>5, <1>6, NextCases

\* Sending with lookup, transaction and unique index implements SendOnce: one stored
\* message per key, and every answer names it.
THEOREM Sending == Spec => SendsOnce
BY SendInit, SendStep, Invariance, PTL DEF Spec, SendsOnce, Once!Spec

-----------------------------------------------------------------------------
(***************************************************************************)
(* Action properties.                                                      *)
(***************************************************************************)
LEMMA SettlesStep ==
    ASSUME IInv, [Next]_vars, \A r \in Requests : ~RacingReply(r)
    PROVE  conv'.firstResponseAt = conv.firstResponseAt
<1>1. ASSUME NEW r \in Requests, Commit(r)
      PROVE  conv'.firstResponseAt = conv.firstResponseAt
  <2>1. req[r].row \in Message /\ req[r].pc = "committing" /\ conv' = Updated(r)
    BY <1>1 DEF Commit, IInv, Typed, RowsAreKept, RowIsKept
  <2>2. ~req[r].sawNoResponse
    BY <2>1 DEF RacingReply
  <2> QED
    BY <2>1, <2>2, UpdatedColumns DEF IInv
<1>2. ASSUME NEW r \in Requests, TouchConversation(r)
      PROVE  conv'.firstResponseAt = conv.firstResponseAt
  BY <1>2 DEF TouchConversation, Touch, IInv, Typed, TypeOK
<1>3. ASSUME NEW a \in Agents, Assign(a)
      PROVE  conv'.firstResponseAt = conv.firstResponseAt
  BY <1>3 DEF Assign, IInv, Typed, TypeOK
<1> QED
  BY <1>1, <1>2, <1>3, WhoMovesTheChat DEF IInv

\* Once the replies that saw no first response are done, no reply, assignment or
\* status change moves the first response time any more.
THEOREM FirstResponseIsSettled == Spec => FirstResponseSettles
<1>1. IInv /\ [Next]_vars =>
        [(conv.firstResponseAt # None /\ \A r \in Requests : ~RacingReply(r))
            => conv'.firstResponseAt = conv.firstResponseAt]_vars
  BY SettlesStep
<1> QED
  BY <1>1, Invariance, PTL DEF Spec, FirstResponseSettles

\* Who adds messages, and which.
LEMMA NewMessages ==
    ASSUME Typed, [Next]_vars, NEW m \in messages', m \notin messages
    PROVE  \/ \E r \in Requests : Commit(r) /\ m = req[r].row
           \/ m.sender = "SYSTEM" /\ m.type # "EVENT" /\ m.id = clock'
           \/ m.sender = "SYSTEM" /\ \E a \in Agents : Assign(a)
<1>1. CASE \E r \in Requests : Serve(r)
  <2>1. PICK r \in Requests : Serve(r)
    BY <1>1
  <2>2. CASE Commit(r)
    BY <2>2 DEF Commit
  <2>3. CASE PostLoose(r)
    <3>1. /\ HasRoom /\ m \in NewRows(r) /\ req[r].kind \in Loose
          /\ clock' = clock + 1
      BY <2>3 DEF PostLoose
    <3>2. SenderOf(req[r].kind) = "SYSTEM" /\ TypesOf(req[r].kind) = {"TEXT"}
      BY <3>1 DEF SenderOf, TypesOf, Loose, ByAgent, ByVisitor
    <3> QED
      BY <3>1, <3>2, NewRowType DEF Typed
  <2>4. CASE FindExisting(r) \/ FindNothing(r) \/ Insert(r) \/ InsertRefused(r)
             \/ TouchConversation(r) \/ ResolveForTicket(r) \/ Respond(r)
    BY <2>4 DEF FindExisting, FindNothing, Insert, InsertRefused, TouchConversation,
                ResolveForTicket, Respond
  <2> QED
    BY <2>1, <2>2, <2>3, <2>4 DEF Serve
<1>2. CASE \E r \in Requests : \E kind \in Kinds, k \in Keys \cup {NoKey} :
                 Receive(r, kind, k)
  BY <1>2 DEF Receive
<1>3. CASE \E r \in Requests : Lose(r)
  BY <1>3 DEF Lose
<1>4. CASE \E a \in Agents : Assign(a)
  <2>1. messages' = messages \cup {EventMessage}
    BY <1>4 DEF Assign
  <2>2. m.sender = "SYSTEM"
    BY <2>1 DEF EventMessage
  <2> QED
    BY <1>4, <2>2
<1>5. CASE \E s \in Settable : UpdateStatus(s)
  BY <1>5 DEF UpdateStatus
<1>6. CASE UNCHANGED vars
  BY <1>6 DEF vars
<1> QED
  BY <1>1, <1>2, <1>3, <1>4, <1>5, <1>6, NextCases

LEMMA VisitorTextStep ==
    ASSUME Typed, [Next]_vars, NEW m \in messages' \ messages,
           m.sender = "VISITOR", m.type = "TEXT"
    PROVE  conv'.status \notin Finished
<1>1. PICK r \in Requests : Commit(r) /\ m = req[r].row
  BY NewMessages
<1>2. /\ SenderOf(req[r].kind) = "VISITOR"
      /\ "TEXT" \in TypesOf(req[r].kind)
      /\ m \in Message
  BY <1>1 DEF Commit, Typed, RowsAreKept, RowIsKept
<1>3. req[r].kind = "visitorText"
  BY <1>2 DEF SenderOf, TypesOf, ByAgent, ByVisitor
<1>4. conv' = VisitorText(conv, m, req[r].sawStatus)
  BY <1>1, <1>3 DEF Commit, Updated, ByAgent
<1>5. conv'.status = IF req[r].sawStatus \in Finished THEN "OPEN" ELSE req[r].sawStatus
  BY <1>4 DEF VisitorText, Typed, TypeOK
<1> QED
  BY <1>5 DEF Finished

\* A visitor's text reopens a finished chat even when an agent closed it between the
\* handler's read and its write.
THEOREM VisitorTextReopens == Spec => VisitorTextLeavesChatActive
<1>1. Typed /\ [Next]_vars =>
        [\A m \in messages' \ messages :
            m.sender = "VISITOR" /\ m.type = "TEXT" => conv'.status \notin Finished]_vars
  BY VisitorTextStep
<1> QED
  BY <1>1, InitTyped, NextTyped, PTL DEF Spec, VisitorTextLeavesChatActive

-----------------------------------------------------------------------------
(***************************************************************************)
(* Assignments.  The one made last is known by its time, so the proof      *)
(* needs that the time of a new row is new.                                *)
(***************************************************************************)
IdsAreOld ==
    /\ \A m \in messages : m.id <= clock
    /\ \A r \in Requests : req[r].pc = "committing" => req[r].row.id <= clock

AssignInv ==
    /\ Typed
    /\ IdsAreOld
    /\ \A row \in assignments : row.at <= clock
    /\ AssignmentsAreWhole

LEMMA AssignInit == Init => AssignInv
<1> SUFFICES ASSUME Init PROVE AssignInv
  OBVIOUS
<1>1. /\ \A m \in messages : m.id = 1 /\ m.type = "TEXT" /\ clock = 1
      /\ assignments = {}
  BY DEF Init, OpenedByVisitor, OpenedByAgent, OpenedProactively, FirstMessage
<1>2. IdsAreOld
  <2>1. \A r \in Requests : req[r].pc = "idle"
    BY DEF Init, Idle
  <2> QED
    BY <1>1, <2>1 DEF IdsAreOld
<1>3. AssignmentsAreWhole
  BY <1>1 DEF AssignmentsAreWhole, Assigned, Events
<1> QED
  BY <1>1, <1>2, <1>3, InitTyped DEF AssignInv

LEMMA ClockGrows ==
    ASSUME Typed, [Next]_vars
    PROVE  clock \in Nat /\ clock' \in {clock, clock + 1}
<1>1. CASE \E r \in Requests : Serve(r)
  BY <1>1 DEF Serve, FindExisting, FindNothing, Insert, InsertRefused, Commit,
              PostLoose, TouchConversation, ResolveForTicket, Respond, Typed, TypeOK
<1>2. CASE \E r \in Requests : \E kind \in Kinds, k \in Keys \cup {NoKey} :
                 Receive(r, kind, k)
  BY <1>2 DEF Receive, Typed, TypeOK
<1>3. CASE \E r \in Requests : Lose(r)
  BY <1>3 DEF Lose, Typed, TypeOK
<1>4. CASE \E a \in Agents : Assign(a)
  BY <1>4 DEF Assign, Typed, TypeOK
<1>5. CASE \E s \in Settable : UpdateStatus(s)
  BY <1>5 DEF UpdateStatus, Typed, TypeOK
<1>6. CASE UNCHANGED vars
  BY <1>6 DEF vars, Typed, TypeOK
<1> QED
  BY <1>1, <1>2, <1>3, <1>4, <1>5, <1>6, NextCases

\* A request that is committing after a step was so before, or has just written the
\* row with the newest id.
LEMMA CommittingRows ==
    ASSUME Typed, [Next]_vars, NEW s \in Requests, req'[s].pc = "committing"
    PROVE  \/ req'[s] = req[s]
           \/ req'[s].row.id = clock'
<1>1. CASE \E kind \in Kinds, k \in Keys \cup {NoKey} :
              Receive(s, kind, k)
  BY <1>1 DEF Receive, Typed, TypeOK
<1>2. CASE FindExisting(s)
  BY <1>2 DEF FindExisting, Done, Idle, Typed, TypeOK
<1>3. CASE FindNothing(s)
  BY <1>3 DEF FindNothing, Typed, TypeOK, Request
<1>4. CASE Insert(s)
  <2>0. PICK row \in NewRows(s) :
               req' = [req EXCEPT ![s].pc = "committing", ![s].row = row]
    BY <1>4 DEF Insert
  <2>2. req'[s].row = row /\ clock' = clock + 1
    BY <1>4, <2>0 DEF Insert, Typed, TypeOK, Request
  <2>3. row.id = clock + 1
    BY <1>4, NewRowType DEF Insert, Typed
  <2> QED
    BY <2>2, <2>3
<1>5. CASE Commit(s)
  BY <1>5 DEF Commit, Done, Idle, Typed, TypeOK
<1>6. CASE PostLoose(s)
  BY <1>6 DEF PostLoose, Typed, TypeOK, Request
<1>7. CASE TouchConversation(s)
  BY <1>7 DEF TouchConversation, Idle, Typed, TypeOK
<1>8. CASE InsertRefused(s) \/ ResolveForTicket(s) \/ Respond(s) \/ Lose(s)
  BY <1>8 DEF InsertRefused, ResolveForTicket, Respond, Lose, Idle, Typed, TypeOK
<1> QED
  BY <1>1, <1>2, <1>3, <1>4, <1>5, <1>6, <1>7, <1>8, WhoMovesARequest DEF Serve

LEMMA OldIdsStep == Typed /\ IdsAreOld /\ [Next]_vars => IdsAreOld'
<1> SUFFICES ASSUME Typed, IdsAreOld, [Next]_vars PROVE IdsAreOld'
  OBVIOUS
<1>1. clock \in Nat /\ clock' \in {clock, clock + 1}
  BY ClockGrows
<1>2. \A n : n \in Nat /\ n <= clock => n <= clock'
  BY <1>1
<1>3. \A m \in messages : m.id \in Nat
  BY DEF Typed, TypeOK, Message, Ids
<1>4. ASSUME NEW r \in Requests, req[r].pc = "committing"
      PROVE  req[r].row.id \in Nat /\ req[r].row.id <= clock
  BY <1>4 DEF IdsAreOld, Typed, RowsAreKept, RowIsKept, Message, Ids
<1>5. ASSUME NEW m \in messages' PROVE m.id <= clock'
  <2>1. CASE m \in messages
    BY <1>2, <1>3, <2>1 DEF IdsAreOld
  <2>2. CASE m \notin messages
    <3>1. CASE \E r \in Requests : Commit(r) /\ m = req[r].row
      BY <1>2, <1>4, <3>1 DEF Commit
    <3>2. CASE m.id = clock'
      BY <1>1, <3>2
    <3>3. CASE \E a \in Agents : Assign(a)
      BY <1>1, <2>2, <3>3 DEF Assign, EventMessage
    <3> QED
      BY <2>2, <3>1, <3>2, <3>3, NewMessages
  <2> QED
    BY <2>1, <2>2
<1>6. ASSUME NEW s \in Requests, req'[s].pc = "committing" PROVE req'[s].row.id <= clock'
  <2>1. CASE req'[s] = req[s]
    BY <1>2, <1>4, <1>6, <2>1
  <2>2. CASE req'[s].row.id = clock'
    BY <1>1, <2>2
  <2> QED
    BY <1>6, <2>1, <2>2, CommittingRows
<1> QED
  BY <1>5, <1>6 DEF IdsAreOld

\* Only Assign touches assignments, participants and the agent in charge.
LEMMA WhoAssigns ==
    ASSUME Typed, [Next]_vars
    PROVE  \/ \E a \in Agents : Assign(a)
           \/ UNCHANGED <<assignments, participants, conv.assignedAgentId>>
<1>1. CASE \E r \in Requests : Serve(r)
  <2>1. PICK r \in Requests : Serve(r)
    BY <1>1
  <2>2. CASE FindExisting(r) \/ FindNothing(r) \/ Insert(r) \/ InsertRefused(r)
             \/ PostLoose(r) \/ Respond(r)
    BY <2>2 DEF FindExisting, FindNothing, Insert, InsertRefused, PostLoose, Respond
  <2>3. CASE Commit(r)
    <3>1. Updated(r).assignedAgentId = conv.assignedAgentId
      BY DEF Updated, Reply, VisitorText, Touch, Typed, TypeOK
    <3> QED
      BY <2>3, <3>1 DEF Commit
  <2>4. CASE TouchConversation(r) \/ ResolveForTicket(r)
    BY <2>4 DEF TouchConversation, Touch, ResolveForTicket, Typed, TypeOK
  <2> QED
    BY <2>1, <2>2, <2>3, <2>4 DEF Serve
<1>2. CASE \E r \in Requests : \E kind \in Kinds, k \in Keys \cup {NoKey} :
                 Receive(r, kind, k)
  BY <1>2 DEF Receive
<1>3. CASE \E r \in Requests : Lose(r)
  BY <1>3 DEF Lose
<1>5. CASE \E s \in Settable : UpdateStatus(s)
  BY <1>5 DEF UpdateStatus, Typed, TypeOK
<1>6. CASE UNCHANGED vars
  BY <1>6 DEF vars
<1> QED
  BY <1>1, <1>2, <1>3, <1>5, <1>6, NextCases

LEMMA EventsAreKept ==
    ASSUME Typed, [Next]_vars, ~ \E a \in Agents : Assign(a)
    PROVE  Events' = Events
<1>1. messages \subseteq messages'
  BY NothingIsDeleted
<1>2. ASSUME NEW m \in messages', m \notin messages
      PROVE  ~(m.sender = "SYSTEM" /\ m.type = "EVENT")
  <2>1. CASE \E r \in Requests : Commit(r) /\ m = req[r].row
    <3>1. PICK r \in Requests : Commit(r) /\ m = req[r].row
      BY <2>1
    <3>2. m.type \in TypesOf(req[r].kind) /\ m.sender = SenderOf(req[r].kind)
      BY <3>1 DEF Commit, Typed, RowsAreKept, RowIsKept
    <3> QED
      BY <3>2 DEF TypesOf, SenderOf, ByAgent, ByVisitor
  <2> QED
    BY <1>2, <2>1, NewMessages
<1> QED
  BY <1>1, <1>2 DEF Events

LEMMA AssignStep == AssignInv /\ [Next]_vars => AssignInv'
<1> SUFFICES ASSUME AssignInv, [Next]_vars PROVE AssignInv'
  OBVIOUS
<1>1. Typed' /\ IdsAreOld'
  BY NextTyped, OldIdsStep DEF AssignInv
<1>2. ASSUME NEW a \in Agents, Assign(a) PROVE AssignInv'
  <2> DEFINE new == [agent |-> a, at |-> clock + 1]
  <2>0. /\ EventMessage.id = clock + 1
        /\ EventMessage.sender = "SYSTEM"
        /\ EventMessage.type = "EVENT"
        /\ new.agent = a
        /\ new.at = clock + 1
    BY DEF EventMessage
  <2>1. Events' = Events \cup {EventMessage}
    BY <1>2, <2>0 DEF Events, Assign
  <2>2. assignments' = assignments \cup {new} /\ clock' = clock + 1
    BY <1>2 DEF Assign
  <2> HIDE DEF new
  <2>3. clock \in Nat /\ \A row \in assignments : row.at \in Nat /\ row.at <= clock
    BY DEF AssignInv, Typed, TypeOK, Assignment, Ids
  <2>4. \A row \in assignments' : row.at <= clock'
    BY <2>0, <2>2, <2>3
  <2>5. {m.id : m \in Events'} = {row.at : row \in assignments'}
    <3>1. {m.id : m \in Events'} = {m.id : m \in Events} \cup {clock + 1}
      BY <2>0, <2>1
    <3>2. {row.at : row \in assignments'} = {row.at : row \in assignments} \cup {clock + 1}
      BY <2>0, <2>2
    <3> QED
      BY <3>1, <3>2 DEF AssignInv, AssignmentsAreWhole
  <2>6. Assigned' \subseteq participants'
    <3>1. Assigned' = Assigned \cup {a}
      BY <2>0, <2>2 DEF Assigned
    <3> QED
      BY <1>2, <3>1 DEF Assign, AssignInv, AssignmentsAreWhole
  <2>7. ASSUME NEW row \in assignments', \A other \in assignments' : other.at <= row.at
        PROVE  conv'.assignedAgentId = row.agent
    <3>1. row = new
      BY <2>0, <2>2, <2>3, <2>7
    <3> QED
      BY <1>2, <2>0, <3>1 DEF Assign, AssignInv, Typed, TypeOK
  <2>8. AssignmentsAreWhole'
    BY <2>5, <2>6, <2>7 DEF AssignmentsAreWhole
  <2> QED
    BY <1>1, <2>4, <2>8 DEF AssignInv
<1>3. CASE ~ \E a \in Agents : Assign(a)
  <2>1. Events' = Events
    BY <1>3, EventsAreKept DEF AssignInv
  <2>2. UNCHANGED <<assignments, participants, conv.assignedAgentId>>
    BY <1>3, WhoAssigns DEF AssignInv
  <2>3. AssignmentsAreWhole'
    BY <2>1, <2>2 DEF AssignInv, AssignmentsAreWhole, Assigned
  <2>4. \A row \in assignments : row.at \in Nat
    BY DEF AssignInv, Typed, TypeOK, Assignment, Ids
  <2>5. clock \in Nat /\ clock' \in {clock, clock + 1}
    BY ClockGrows DEF AssignInv
  <2>6. \A row \in assignments' : row.at <= clock'
    BY <2>2, <2>4, <2>5 DEF AssignInv
  <2> QED
    BY <1>1, <2>3, <2>6 DEF AssignInv
<1> QED
  BY <1>2, <1>3

\* The rows of assignments and the system's events in the transcript belong together
\* one by one, whoever was assigned takes part, and the agent in charge is the one
\* assigned last.
THEOREM Assignments == Spec => []AssignmentsAreWhole
<1>1. AssignInv => AssignmentsAreWhole
  BY DEF AssignInv
<1> QED
  BY AssignInit, AssignStep, <1>1, PTL DEF Spec

=============================================================================

--------------------------- MODULE ChannelInbound ---------------------------
(***************************************************************************)
(* Messages that customers write on WhatsApp, Messenger, Instagram or by   *)
(* email.  The provider posts them to a webhook, several in one call, and  *)
(* posts the call again until it is answered with success; two posts of    *)
(* one webhook may be handled at the same time by different API processes. *)
(*                                                                         *)
(* Each message of a webhook is stored by statements of their own, without *)
(* a transaction around them.  A post is therefore split at each of them:  *)
(*                                                                         *)
(*   connecting  find the connection the message was sent to               *)
(*   checking    look for a row with the provider's message id             *)
(*   finding     look for the chat the message belongs to                  *)
(*   opening     create that chat                                          *)
(*   joining     create the visitor's participant row                      *)
(*   storing     create the message row                                    *)
(*   touching    the transaction on conversation and connection            *)
(*   answering   the HTTP answer                                           *)
(*                                                                         *)
(* The visitor row and the contact are upserts that do not depend on what  *)
(* is modelled here, and are left out.                                     *)
(***************************************************************************)
EXTENDS Naturals, Sequences, FiniteSets, SequencesExt, FiniteSetsExt

CONSTANTS
    Messages,       \* what customers write
    Threads,        \* a phone number, page-scoped id or email address
    ThreadOf,       \* who wrote a message
    MayReply,       \* messages that may answer one of the workspace's emails
    Unnamed,        \* emails that reach the webhook without a Message-ID
    Webhooks,       \* calls of the provider: sequences of messages
    Posts,          \* posts handled at the same time
    None,
    Settable,       \* statuses agents set
    MaxFaults       \* bound: posts lost to a dying process or a lost answer, and
                    \* times the channel is disconnected

ASSUME ThreadOfAssumption == ThreadOf \in [Messages -> Threads]
ASSUME SubsetsAssumption == MayReply \subseteq Messages /\ Unnamed \subseteq Messages
ASSUME WebhooksAssumption ==
    /\ Webhooks \subseteq Seq(Messages) \ {<<>>}
    /\ \A v, w \in Webhooks : ToSet(v) \cap ToSet(w) # {} => v = w
ASSUME NoneAssumption == None \notin Nat
ASSUME SettableAssumption == Settable \subseteq {"OPEN", "RESOLVED", "CLOSED"}
ASSUME MaxFaultsAssumption == MaxFaults \in Nat

VARIABLES
    chats,          \* conversations with a thread, in the order of creation
    rows,           \* messages rows, in the order of creation
    connection,     \* id of the channel_connections row, or None
    connections,    \* how many there have been
    post,           \* per post: where it is and what it keeps
    repliesTo,      \* the chat whose address or Message-ID a message carries
    sent,           \* webhooks the provider has
    due,            \* those it has no successful answer for
    ignored,        \* messages dropped because no connection was found
    failures

vars == <<chats, rows, connection, connections, post, repliesTo, sent, due,
          ignored, failures>>

Active == {"QUEUED", "OPEN"}
Finished == {"RESOLVED", "CLOSED"}
ChatIds == DOMAIN chats

Free == [pc |-> "free", webhook |-> <<>>, left |-> <<>>, connection |-> None,
         chat |-> None, row |-> None]

\* The message a post is working on.
Current(p) == Head(post[p].left)

Chat == [thread : Threads, status : Active \cup Finished, joined : BOOLEAN,
         lastMessageAt : Nat \cup {None}]

\* References are to rows that are there.
TypeOK ==
    /\ chats \in Seq(Chat)
    /\ \A c \in ChatIds : chats[c].lastMessageAt \in DOMAIN rows \cup {None}
    /\ rows \in Seq([message : Messages, chat : Nat])
    /\ \A i \in DOMAIN rows : rows[i].chat \in ChatIds
    /\ connections \in Nat \ {0}
    /\ connection \in 1 .. connections \cup {None}
    /\ post \in [Posts -> [pc : {"free", "connecting", "checking", "finding", "opening",
                                 "joining", "storing", "touching", "answering"},
                           webhook : Webhooks \cup {<<>>}, left : Seq(Messages),
                           connection : Nat \cup {None},
                           chat : Nat \cup {None}, row : Nat \cup {None}]]
    /\ \A p \in Posts : /\ post[p].connection \in 1 .. connections \cup {None}
                        /\ post[p].chat \in ChatIds \cup {None}
                        /\ post[p].row \in DOMAIN rows \cup {None}
    /\ repliesTo \in [Messages -> Nat \cup {None}]
    /\ \A m \in Messages : repliesTo[m] \in ChatIds \cup {None}
    /\ sent \in SUBSET Webhooks
    /\ due \in SUBSET sent
    /\ ignored \in SUBSET Messages
    /\ failures \in 0 .. MaxFaults

Init ==
    /\ chats = <<>>
    /\ rows = <<>>
    /\ connection = 1
    /\ connections = 1
    /\ post = [p \in Posts |-> Free]
    /\ repliesTo = [m \in Messages |-> None]
    /\ sent = {}
    /\ due = {}
    /\ ignored = {}
    /\ failures = 0

Faults == failures + (IF connection = None THEN connections ELSE connections - 1)

outside == <<repliesTo, sent, due, failures>>
database == <<chats, rows, connection, connections>>

-----------------------------------------------------------------------------
(***************************************************************************)
(* The provider, the people who work the chats, and the settings page.     *)
(***************************************************************************)

\* Customers write.  An email may answer one of the workspace's, whose reply
\* address and Message-ID name a chat, not necessarily one of that customer.
Write(w) ==
    /\ w \notin sent
    /\ sent' = sent \cup {w}
    /\ due' = due \cup {w}
    /\ \E t \in [ToSet(w) -> ChatIds \cup {None}] :
          /\ \A m \in ToSet(w) : t[m] # None => m \in MayReply
          /\ repliesTo' = [m \in Messages |-> IF m \in ToSet(w) THEN t[m] ELSE repliesTo[m]]
    /\ UNCHANGED <<database, post, ignored, failures>>

Deliver(p, w) ==
    /\ post[p].pc = "free"
    /\ w \in due
    /\ post' = [post EXCEPT ![p] = [Free EXCEPT !.pc = "connecting", !.webhook = w, !.left = w]]
    /\ UNCHANGED <<database, ignored, outside>>

\* Agents take a chat, finish it and open it again.
SetStatus(c, s) ==
    /\ chats[c].status # s
    /\ chats' = [chats EXCEPT ![c].status = s]
    /\ UNCHANGED <<rows, connection, connections, post, ignored, outside>>

Connect ==
    /\ connection = None
    /\ connections' = connections + 1
    /\ connection' = connections + 1
    /\ UNCHANGED <<chats, rows, post, ignored, outside>>

Disconnect ==
    /\ connection # None
    /\ Faults < MaxFaults
    /\ connection' = None
    /\ UNCHANGED <<chats, rows, connections, post, ignored, outside>>

-----------------------------------------------------------------------------
(***************************************************************************)
(* A post.                                                                 *)
(***************************************************************************)
Goto(p, pc) == post' = [post EXCEPT ![p].pc = pc]

\* Work on the next message of the webhook, or answer.
Advance(p) ==
    post' = [post EXCEPT ![p] =
        [Free EXCEPT !.pc = IF Len(post[p].left) = 1 THEN "answering" ELSE "connecting",
                     !.webhook = post[p].webhook,
                     !.left = Tail(post[p].left)]]

\* The exception ends the post; the provider will send the webhook again.
Refuse(p) == post' = [post EXCEPT ![p] = Free]

FindConnection(p) ==
    /\ post[p].pc = "connecting"
    /\ IF connection = None
       THEN Advance(p) /\ ignored' = ignored \cup {Current(p)}
       ELSE /\ post' = [post EXCEPT ![p].pc = "checking", ![p].connection = connection]
            /\ UNCHANGED ignored
    /\ UNCHANGED <<database, outside>>

\* A message without an id of its own is given a random one on every post.
HasRow(m) == m \notin Unnamed /\ \E i \in DOMAIN rows : rows[i].message = m

\* MUTANT of Check: a message that is already there is an error.
CheckOrFail(p) ==
    /\ post[p].pc = "checking"
    /\ IF HasRow(Current(p)) THEN Refuse(p) ELSE Goto(p, "finding")
    /\ UNCHANGED <<database, ignored, outside>>

Check(p) ==
    /\ post[p].pc = "checking"
    /\ IF HasRow(Current(p)) THEN Advance(p) ELSE Goto(p, "finding")
    /\ UNCHANGED <<database, ignored, outside>>

Unfinished(t) == {c \in ChatIds : chats[c].thread = t /\ chats[c].status \notin Finished}

\* The chat a message belongs to: the one it replies to, whatever its status,
\* or the newest unfinished one of its thread.
ChatFor(m) ==
    IF repliesTo[m] # None THEN repliesTo[m]
    ELSE IF Unfinished(ThreadOf[m]) # {} THEN Max(Unfinished(ThreadOf[m])) ELSE None

\* MUTANT of Find: no chat is opened when none is found.
FindOnly(p) ==
    /\ post[p].pc = "finding"
    /\ post' = [post EXCEPT ![p].pc = "storing", ![p].chat = ChatFor(Current(p))]
    /\ UNCHANGED <<database, ignored, outside>>

Find(p) ==
    /\ post[p].pc = "finding"
    /\ IF ChatFor(Current(p)) = None
       THEN Goto(p, "opening")
       ELSE post' = [post EXCEPT ![p].pc = "storing", ![p].chat = ChatFor(Current(p))]
    /\ UNCHANGED <<database, ignored, outside>>

\* MUTANT of ThreadIsFree: there is no index on the thread.
ThreadIsFreeAlways(t) == TRUE

\* conversations_channel_thread_key
ThreadIsFree(t) == \A c \in ChatIds : chats[c].thread # t

Open(p) ==
    /\ post[p].pc = "opening"
    /\ ThreadIsFree(ThreadOf[Current(p)])
    /\ chats' = Append(chats, [thread |-> ThreadOf[Current(p)], status |-> "QUEUED",
                               joined |-> FALSE, lastMessageAt |-> None])
    /\ post' = [post EXCEPT ![p].pc = "joining", ![p].chat = Len(chats) + 1]
    /\ UNCHANGED <<rows, connection, connections, ignored, outside>>

\* MUTANT of OpenRefused: the error is logged and the next message is handled.
OpenRefusedIgnored(p) ==
    /\ post[p].pc = "opening"
    /\ ~ThreadIsFree(ThreadOf[Current(p)])
    /\ Advance(p)
    /\ UNCHANGED <<database, ignored, outside>>

OpenRefused(p) ==
    /\ post[p].pc = "opening"
    /\ ~ThreadIsFree(ThreadOf[Current(p)])
    /\ Refuse(p)
    /\ UNCHANGED <<database, ignored, outside>>

Join(p) ==
    /\ post[p].pc = "joining"
    /\ chats' = [chats EXCEPT ![post[p].chat].joined = TRUE]
    /\ Goto(p, "storing")
    /\ UNCHANGED <<rows, connection, connections, ignored, outside>>

\* MUTANT of MessageIdIsFree: there is no index on the provider's message id.
MessageIdIsFreeAlways(m) == TRUE

\* messages_channel_message_id_key
MessageIdIsFree(m) == ~HasRow(m)

Store(p) ==
    /\ post[p].pc = "storing"
    /\ MessageIdIsFree(Current(p))
    /\ rows' = Append(rows, [message |-> Current(p), chat |-> post[p].chat])
    /\ post' = [post EXCEPT ![p].pc = "touching", ![p].row = Len(rows) + 1]
    /\ UNCHANGED <<chats, connection, connections, ignored, outside>>

StoreRefused(p) ==
    /\ post[p].pc = "storing"
    /\ ~MessageIdIsFree(Current(p))
    /\ Refuse(p)
    /\ UNCHANGED <<database, ignored, outside>>

\* MUTANT of Touch: the chat is not moved in the list.
TouchNothing(p) ==
    /\ post[p].pc = "touching"
    /\ connection = post[p].connection
    /\ Advance(p)
    /\ UNCHANGED <<database, ignored, outside>>

\* One transaction updates the conversation and the connection.
Touch(p) ==
    /\ post[p].pc = "touching"
    /\ connection = post[p].connection
    /\ chats' = [chats EXCEPT ![post[p].chat].lastMessageAt = post[p].row]
    /\ Advance(p)
    /\ UNCHANGED <<rows, connection, connections, ignored, outside>>

\* The connection was removed since: its update finds no row and both roll back.
TouchRefused(p) ==
    /\ post[p].pc = "touching"
    /\ connection # post[p].connection
    /\ Refuse(p)
    /\ UNCHANGED <<database, ignored, outside>>

Answer(p) ==
    /\ post[p].pc = "answering"
    /\ due' = due \ {post[p].webhook}
    /\ post' = [post EXCEPT ![p] = Free]
    /\ UNCHANGED <<database, ignored, repliesTo, sent, failures>>

\* The process dies or the answer is lost: what was committed stays.
Fail(p) ==
    /\ post[p].pc # "free"
    /\ Faults < MaxFaults
    /\ failures' = failures + 1
    /\ Refuse(p)
    /\ UNCHANGED <<database, ignored, repliesTo, sent, due>>

-----------------------------------------------------------------------------
Handle(p) ==
    \/ FindConnection(p) \/ Check(p) \/ Find(p)
    \/ Open(p) \/ OpenRefused(p) \/ Join(p)
    \/ Store(p) \/ StoreRefused(p) \/ Touch(p) \/ TouchRefused(p)
    \/ Answer(p)

Next ==
    \/ \E w \in Webhooks : Write(w)
    \/ \E p \in Posts : Handle(p) \/ Fail(p) \/ \E w \in Webhooks : Deliver(p, w)
    \/ \E c \in ChatIds, s \in Settable : SetStatus(c, s)
    \/ Connect \/ Disconnect

Spec == Init /\ [][Next]_vars

\* A post runs on until it ends, and the provider posts each webhook again until
\* it is accepted.  Nothing is assumed of customers, agents and settings.
Fairness ==
    /\ \A p \in Posts : WF_vars(Handle(p))
    /\ \A w \in Webhooks : SF_vars(\E p \in Posts : Deliver(p, w))

FairSpec == Spec /\ Fairness

-----------------------------------------------------------------------------
(***************************************************************************)
(* Properties.                                                             *)
(***************************************************************************)

\* "Meta retries webhooks; never store the same message twice"
\* (channels.service.ts:278): not even when two posts of the webhook pass the
\* check together, or a process died after storing the message.
StoredOnce ==
    \A i, j \in DOMAIN rows :
        rows[i].message = rows[j].message /\ rows[i].message \notin Unnamed => i = j

Kept(m) == m \in ignored \/ \E i \in DOMAIN rows : rows[i].message = m

\* The provider is answered with success only when no message of the webhook can
\* get lost: each is stored, or was for an account that was not connected.
AcceptedIsKept ==
    \A w \in sent \ due : \A m \in ToSet(w) : Kept(m)

\* What a customer writes on one thread is one chat, however many posts look for
\* it at the same time (channels.service.ts:314, read before it is created).
OneChatPerCustomer ==
    \A i, j \in DOMAIN rows :
        LET m == rows[i].message
            n == rows[j].message
        IN  ThreadOf[m] = ThreadOf[n] /\ repliesTo[m] = None /\ repliesTo[n] = None
                => rows[i].chat = rows[j].chat

\* When no post is under way, none failed and the channel stayed connected, every
\* chat has its visitor, and its place in the list is that of one of its messages.
ChatsAreComplete ==
    (/\ \A p \in Posts : post[p].pc = "free"
     /\ failures = 0
     /\ connection = 1) =>
        \A c \in ChatIds :
           /\ chats[c].joined
           /\ \E i \in DOMAIN rows : rows[i].chat = c /\ chats[c].lastMessageAt = i

\* A finished chat holds the thread (conversations_channel_thread_key has no
\* condition on status), so a new one cannot be opened.
Blocked(m) ==
    \E c \in ChatIds : chats[c].thread = ThreadOf[m] /\ chats[c].status \in Finished

\* Retries come to an end, however posts interleave and fail: again and again no
\* webhook is due but those with a message of a customer whose chat is finished.
WebhooksAreAccepted ==
    []<>(\A w \in due : \E m \in ToSet(w) : Blocked(m))

\* channels.service.ts:174, "Inbound messages from Meta: verify the signature,
\* then store them as normal chats".
InboundIsStored ==
    \A w \in Webhooks : w \in sent ~> \A m \in ToSet(w) : Kept(m)
=============================================================================

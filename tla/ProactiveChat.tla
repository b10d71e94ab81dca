--------------------------- MODULE ProactiveChat ---------------------------
(***************************************************************************)
(* An agent opens a chat with a visitor who is only browsing.  The visitor *)
(* learns of it through a push to the widget's socket, which reaches him   *)
(* only if the socket is connected, or through the answer to one of the    *)
(* heartbeats the widget keeps sending.  Meanwhile the visitor may open a  *)
(* chat himself, other agents may click as well, and chats end.            *)
(*                                                                         *)
(* One visitor and the page he is on.                                      *)
(***************************************************************************)
EXTENDS Naturals, Sequences, FiniteSets

CONSTANTS
    Starts,         \* startChat requests handled at the same time
    Firsts,         \* the visitor's first messages under way at the same time
    Beats,          \* heartbeats under way at the same time
    None,
    MaxChats        \* bound: chats that are ever created

ASSUME StartsAssumption == IsFiniteSet(Starts)
ASSUME NoneAssumption == None \notin Nat
ASSUME MaxChatsAssumption == MaxChats \in Nat

VARIABLES
    chats,          \* the visitor's conversations, in the order of creation
    start,          \* per startChat: where it is, and the chat it created
    first,          \* per first message: where it is, and the chat it created
    shown,          \* state.conversationId, which outlives a reload
    connected,      \* the socket is in the session's room
    pushes,         \* conversation.invited events on their way to the page
    beat            \* per heartbeat: the chat in an answer on its way, or None

vars == <<chats, start, first, shown, connected, pushes, beat>>

\* All that matters of a chat: "proactive" is unfinished since an agent opened it
\* for the visitor, "open" is any other that is QUEUED, OPEN or PENDING.
Unfinished == {"proactive", "open"}

ChatIds == DOMAIN chats

TypeOK ==
    /\ chats \in Seq(Unfinished \cup {"finished"})
    /\ Len(chats) <= MaxChats
    /\ start \in [Starts -> [pc : {"idle", "creating", "pushing"},
                             chat : 1 .. MaxChats \cup {None}]]
    /\ first \in [Firsts -> [pc : {"idle", "posting", "answering"},
                             chat : 1 .. MaxChats \cup {None}]]
    /\ shown \in 1 .. MaxChats \cup {None}
    /\ connected \in BOOLEAN
    /\ pushes \in Seq(1 .. MaxChats)
    /\ beat \in [Beats -> 1 .. MaxChats \cup {None}]

Idle == [pc |-> "idle", chat |-> None]

Init ==
    /\ chats = <<>>
    /\ start = [r \in Starts |-> Idle]
    /\ first = [f \in Firsts |-> Idle]
    /\ shown = None
    /\ connected = FALSE
    /\ pushes = <<>>
    /\ beat = [b \in Beats |-> None]

page == <<shown, connected, pushes, beat>>

-----------------------------------------------------------------------------
(***************************************************************************)
(* The visitor's chats.                                                    *)
(***************************************************************************)
Active == {c \in ChatIds : chats[c] \in Unfinished}

\* orderBy createdAt desc
Newest == CHOOSE c \in Active : \A d \in Active : d <= c

\* The chat, its participants and its first message: one transaction.
AddChat(status) ==
    /\ Len(chats) < MaxChats
    /\ chats' = Append(chats, status)

Finish(c) ==
    /\ c \in Active
    /\ chats' = [chats EXCEPT ![c] = "finished"]
    /\ UNCHANGED <<start, first, page>>

\* An agent opens it again, or the visitor writes in it.
Reopen(c) ==
    /\ c \in ChatIds \ Active
    /\ chats' = [chats EXCEPT ![c] = "open"]
    /\ UNCHANGED <<start, first, page>>

-----------------------------------------------------------------------------
(***************************************************************************)
(* Start chat.                                                             *)
(***************************************************************************)
\* MUTANT of Look: only chats that visitors opened are in the way.
LookForVisitors(r) ==
    /\ start[r].pc = "idle"
    /\ \A c \in Active : chats[c] = "proactive"
    /\ start' = [start EXCEPT ![r].pc = "creating"]
    /\ UNCHANGED <<chats, first, page>>

\* An agent has clicked and the handler looks for a chat that is in the way; if
\* there is one it refuses and nothing changes.
Look(r) ==
    /\ start[r].pc = "idle"
    /\ Active = {}
    /\ start' = [start EXCEPT ![r].pc = "creating"]
    /\ UNCHANGED <<chats, first, page>>

\* MUTANT of Create: the request keeps the chat that was the last one before.
CreateAfterLast(r) ==
    /\ start[r].pc = "creating"
    /\ AddChat("proactive")
    /\ start' = [start EXCEPT ![r] = [pc |-> "pushing", chat |-> Len(chats)]]
    /\ UNCHANGED <<first, page>>

Create(r) ==
    /\ start[r].pc = "creating"
    /\ AddChat("proactive")
    /\ start' = [start EXCEPT ![r] = [pc |-> "pushing", chat |-> Len(chats) + 1]]
    /\ UNCHANGED <<first, page>>

\* emitConversationInvited: whoever is in the room when it is emitted gets it.
Push(r) ==
    /\ start[r].pc = "pushing"
    /\ pushes' = IF connected THEN Append(pushes, start[r].chat) ELSE pushes
    /\ start' = [start EXCEPT ![r] = Idle]
    /\ UNCHANGED <<chats, first, shown, connected, beat>>

-----------------------------------------------------------------------------
(***************************************************************************)
(* The visitor writes a first message.                                     *)
(***************************************************************************)
Write(f) ==
    /\ first[f].pc = "idle"
    /\ shown = None
    /\ first' = [first EXCEPT ![f].pc = "posting"]
    /\ UNCHANGED <<chats, start, page>>

CreateFirst(f) ==
    /\ first[f].pc = "posting"
    /\ AddChat("open")
    /\ first' = [first EXCEPT ![f] = [pc |-> "answering", chat |-> Len(chats) + 1]]
    /\ UNCHANGED <<start, page>>

\* The widget turns to the new chat, whatever it shows by now.
ReceiveFirst(f) ==
    /\ first[f].pc = "answering"
    /\ shown' = first[f].chat
    /\ first' = [first EXCEPT ![f] = Idle]
    /\ UNCHANGED <<chats, start, connected, pushes, beat>>

-----------------------------------------------------------------------------
(***************************************************************************)
(* The widget's socket and heartbeats.                                     *)
(***************************************************************************)
Connect ==
    /\ ~connected
    /\ connected' = TRUE
    /\ UNCHANGED <<chats, start, first, shown, pushes, beat>>

\* conversation.invited
ReceivePush ==
    /\ pushes # <<>>
    /\ shown' = Head(pushes)
    /\ pushes' = Tail(pushes)
    /\ UNCHANGED <<chats, start, first, connected, beat>>

\* The widget sends a heartbeat and the API answers with the newest unfinished
\* chat.  Nothing comes of an answer without a chat.
AnswerBeat(b) ==
    /\ beat[b] = None
    /\ Active # {}
    /\ beat' = [beat EXCEPT ![b] = Newest]
    /\ UNCHANGED <<chats, start, first, shown, connected, pushes>>

\* MUTANT of Adopt: a widget that has a chat keeps it.
AdoptIfNone(c) == shown' = IF shown = None THEN c ELSE shown

\* adoptInvitedConversation
Adopt(c) == shown' = c

ReceiveBeat(b) ==
    /\ beat[b] # None
    /\ Adopt(beat[b])
    /\ beat' = [beat EXCEPT ![b] = None]
    /\ UNCHANGED <<chats, start, first, connected, pushes>>

-----------------------------------------------------------------------------
(***************************************************************************)
(* Losses.                                                                 *)
(***************************************************************************)
Disconnect ==
    /\ connected
    /\ connected' = FALSE
    /\ pushes' = <<>>
    /\ UNCHANGED <<chats, start, first, shown, beat>>

\* The page forgets what it was waiting for.  A first message that is handled all
\* the same is one whose answer is lost (LoseFirst).
Reload ==
    /\ connected' = FALSE
    /\ pushes' = <<>>
    /\ beat' = [b \in Beats |-> None]
    /\ first' = [f \in Firsts |-> Idle]
    /\ UNCHANGED <<chats, start, shown>>

\* The process dies, before the chat is created or before it is pushed.
LoseStart(r) ==
    /\ start[r].pc # "idle"
    /\ start' = [start EXCEPT ![r] = Idle]
    /\ UNCHANGED <<chats, first, page>>

\* The message cannot be sent, or was and the visitor is told it could not.
LoseFirst(f) ==
    /\ first[f].pc # "idle"
    /\ first' = [first EXCEPT ![f] = Idle]
    /\ UNCHANGED <<chats, start, page>>

LoseBeat(b) ==
    /\ beat[b] # None
    /\ beat' = [beat EXCEPT ![b] = None]
    /\ UNCHANGED <<chats, start, first, shown, connected, pushes>>

-----------------------------------------------------------------------------
Next ==
    \/ \E r \in Starts : Look(r) \/ Create(r) \/ Push(r) \/ LoseStart(r)
    \/ \E f \in Firsts : Write(f) \/ CreateFirst(f) \/ ReceiveFirst(f) \/ LoseFirst(f)
    \/ \E b \in Beats : AnswerBeat(b) \/ ReceiveBeat(b) \/ LoseBeat(b)
    \/ \E c \in ChatIds : Finish(c) \/ Reopen(c)
    \/ Connect \/ ReceivePush \/ Disconnect \/ Reload

Spec == Init /\ [][Next]_vars

\* The page stays in view, so the widget goes on sending heartbeats and the API
\* answers them, and not every answer gets lost.  Nobody else owes anything: the
\* socket may never come back.
Fairness ==
    /\ WF_vars(\E b \in Beats : AnswerBeat(b))
    /\ SF_vars(\E b \in Beats : ReceiveBeat(b))

FairSpec == Spec /\ Fairness

-----------------------------------------------------------------------------
(***************************************************************************)
(* Properties.                                                             *)
(***************************************************************************)

\* Agents open more than one chat with a visitor only by clicking at the same
\* time: however long they go on, those that were never finished are no more than
\* the requests that can race (visitors.service.ts:228).
ProactiveChats == {c \in ChatIds : chats[c] = "proactive"}

DuplicatesAreBounded == Cardinality(ProactiveChats) <= Cardinality(Starts)

\* visitors.service.ts:200, "a second click racing the first is still possible, so
\* that case is refused rather than silently creating a duplicate": of the chats
\* that agents opened with the visitor, one at most is unfinished.
SecondClickIsRefused == Cardinality(ProactiveChats) <= 1

\* "never leave a started chat stranded" (widgets.service.ts:920): once one chat
\* stays the newest, the widget comes to rest on it, also when the push was missed
\* and heartbeats answered long ago still arrive.
ComesToRest ==
    \A c \in 1 .. MaxChats : <>[](c \in Active /\ c = Newest) => <>[](shown = c)
=============================================================================

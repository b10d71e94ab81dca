--------------------------- MODULE WidgetDelivery ---------------------------
(***************************************************************************)
(* How the messages of a chat reach the visitor's page: pushed through the *)
(* chat's room to a socket that may drop, fetched as the chat's history,   *)
(* or in the answer to the visitor's own message.                          *)
(*                                                                         *)
(* One chat and one panel, which sends one message at a time.  Messages are *)
(* numbered as they are stored.                                            *)
(***************************************************************************)
EXTENDS Naturals, Sequences, SequencesExt, FiniteSets

CONSTANTS
    HistoryLimit,   \* messages a history has at most (100 in the code)
    MaxMessages,    \* bound: messages ever stored
    MaxLoads,       \* bound: histories asked for at the same time
    MaxFaults       \* bound: requests and events lost, connections dropped and reloads, together

ASSUME BoundsAssumption ==
    \A n \in {HistoryLimit, MaxMessages, MaxLoads, MaxFaults} : n \in Nat

VARIABLES
    log,            \* the stored messages: who wrote, and whether the event is due, sent or lost
    socket,         \* "off", "on", or "in" the chat's room
    queue,          \* message.created events on their way to the page
    shown,          \* the page knows the chat (localStorage)
    panel,          \* how often the page has rendered each message
    post,           \* the visitor's message under way
    asked,          \* histories asked for
    answers,        \* histories on their way to the page
    timers,         \* refetches still to come
    caught,         \* history: a whole history read while in the room has been rendered since
    faults          \* how many there were

vars == <<log, socket, queue, shown, panel, post, asked, answers, timers, caught, faults>>
line == <<socket, queue, caught>>
loads == <<asked, answers, timers>>

\* "agent" stands for bots as well.
Authors == {"visitor", "agent", "note"}
Ids == DOMAIN log
Public == {i \in Ids : log[i].by # "note"}

TypeOK ==
    /\ log \in Seq([by : Authors, event : {"due", "sent", "lost"}])
    /\ Len(log) <= MaxMessages
    /\ socket \in {"off", "on", "in"}
    /\ queue \in Seq(1 .. MaxMessages)
    /\ shown \in BOOLEAN /\ caught \in BOOLEAN
    /\ panel \in [1 .. MaxMessages -> 0 .. 2]
    /\ post \in [pc : {"idle", "sent", "handled", "answered"}, id : 0 .. MaxMessages,
                 first : BOOLEAN, heard : BOOLEAN]
    /\ post.pc \in {"idle", "sent"} <=> post.id = 0
    /\ asked \in 0 .. MaxLoads /\ timers \in 0 .. 2
    /\ answers \subseteq [upto : 0 .. MaxMessages, inRoom : BOOLEAN]
    /\ faults \in 0 .. MaxFaults

Blank == [i \in 1 .. MaxMessages |-> 0]
NoPost == [pc |-> "idle", id |-> 0, first |-> FALSE, heard |-> TRUE]

Init ==
    /\ log = <<>>
    /\ socket = "off" /\ queue = <<>> /\ caught = FALSE
    /\ shown = FALSE /\ panel = Blank
    /\ post = NoPost
    /\ asked = 0 /\ answers = {} /\ timers = 0
    /\ faults = 0

-----------------------------------------------------------------------------
(***************************************************************************)
(* The page.                                                               *)
(***************************************************************************)
Rendered == {i \in DOMAIN panel : panel[i] > 0}

Add(items) == panel' = [i \in DOMAIN panel |-> IF i \in items THEN panel[i] + 1 ELSE panel[i]]

\* MUTANT of Render: the page does not look what it has rendered.
RenderAgain(items) == Add(items)

\* renderMessage, for each of items (renderedMessageIds).
Render(items) == Add(items \ Rendered)

\* loadHistory, n times
Loads(n) == asked + Cardinality(answers) + n <= MaxLoads /\ asked' = asked + n
Load == Loads(1)

Fault == faults < MaxFaults /\ faults' = faults + 1

-----------------------------------------------------------------------------
(***************************************************************************)
(* Messages are stored, and announced by a later statement.                *)
(***************************************************************************)
Insert(by) ==
    /\ Len(log) < MaxMessages
    /\ log' = Append(log, [by |-> by, event |-> "due"])

\* An agent writes in the chat, a message or a note, or a bot answers.
Store(by) ==
    /\ log # <<>> /\ by # "visitor"
    /\ Insert(by)
    /\ UNCHANGED <<line, shown, panel, post, loads, faults>>

\* MUTANT of ToRoom: the visitor, who knows what he wrote, is left out.
ToRoomOfOthers(i) == socket = "in" /\ log[i].by = "agent"

\* Notes go to the organization's room only.
ToRoom(i) == socket = "in" /\ log[i].by # "note"

\* emitMessageCreated
Emit(i) ==
    /\ log[i].event = "due"
    /\ log' = [log EXCEPT ![i].event = "sent"]
    /\ queue' = IF ToRoom(i) THEN Append(queue, i) ELSE queue
    /\ UNCHANGED <<socket, caught, shown, panel, post, loads, faults>>

\* The process dies between the two.
LoseEvent(i) ==
    /\ log[i].event = "due" /\ Fault
    /\ log' = [log EXCEPT ![i].event = "lost"]
    /\ UNCHANGED <<line, shown, panel, post, loads>>

-----------------------------------------------------------------------------
(***************************************************************************)
(* The socket.                                                             *)
(***************************************************************************)
Connect ==
    /\ socket = "off"
    /\ socket' = "on"
    /\ UNCHANGED <<log, queue, caught, shown, panel, post, loads, faults>>

Disconnect ==
    /\ socket # "off" /\ Fault
    /\ socket' = "off" /\ queue' = <<>> /\ caught' = FALSE
    /\ answers' = {[a EXCEPT !.inRoom = FALSE] : a \in answers}
    /\ UNCHANGED <<log, shown, panel, post, asked, timers>>

\* The page asks for the chat's room as soon as it knows the chat and, after a
\* reconnection, on chat.ready; the server checks whose chat it is first.
Join ==
    /\ socket = "on" /\ shown
    /\ socket' = "in"
    /\ UNCHANGED <<log, queue, caught, shown, panel, post, loads, faults>>

\* message.created
ReceiveEvent ==
    /\ queue # <<>>
    /\ queue' = Tail(queue)
    /\ Render({Head(queue)})
    /\ UNCHANGED <<log, socket, caught, shown, post, loads, faults>>

-----------------------------------------------------------------------------
(***************************************************************************)
(* The chat's history.                                                     *)
(***************************************************************************)
\* MUTANT of History: the notes as well.
HistoryWithNotes(upto) == {i \in 1 .. upto : i <= HistoryLimit}

PublicUpTo(n) == {i \in Public : i <= n}

\* The first public messages of those stored.
History(upto) == {i \in PublicUpTo(upto) : Cardinality(PublicUpTo(i)) <= HistoryLimit}

AnswerLoad ==
    /\ asked > 0
    /\ asked' = asked - 1
    /\ answers' = answers \cup {[upto |-> Len(log), inRoom |-> socket = "in"]}
    /\ UNCHANGED <<log, line, shown, panel, post, timers, faults>>

\* The answer is lost, or the request was; nobody is told.
LoseLoad ==
    /\ asked > 0 /\ Fault
    /\ asked' = asked - 1
    /\ UNCHANGED <<log, line, shown, panel, post, answers, timers>>

Whole(upto) == History(upto) = PublicUpTo(upto)

ReceiveLoad(a) ==
    /\ a \in answers
    /\ answers' = answers \ {a}
    /\ Render(History(a.upto))
    /\ caught' = (caught \/ (a.inRoom /\ Whole(a.upto)))
    /\ UNCHANGED <<log, socket, queue, shown, post, asked, timers, faults>>

Refetch ==
    /\ timers > 0
    /\ timers' = timers - 1
    /\ Load
    /\ UNCHANGED <<log, line, shown, panel, post, answers, faults>>

-----------------------------------------------------------------------------
(***************************************************************************)
(* The visitor's own messages.                                             *)
(***************************************************************************)
SendFirst ==
    /\ ~shown /\ log = <<>> /\ post.pc = "idle"
    /\ post' = [NoPost EXCEPT !.pc = "sent", !.first = TRUE]
    /\ UNCHANGED <<log, line, shown, panel, loads, faults>>

\* ensureReady fetches the history before each message.
Send ==
    /\ shown /\ post.pc = "idle"
    /\ post' = [NoPost EXCEPT !.pc = "sent"]
    /\ Load
    /\ UNCHANGED <<log, line, shown, panel, answers, timers, faults>>

\* createConversation or sendMessage of the API; bots answer before it returns.
StorePost ==
    /\ post.pc = "sent"
    /\ Insert("visitor")
    /\ post' = [post EXCEPT !.pc = "handled", !.id = Len(log) + 1]
    /\ UNCHANGED <<line, shown, panel, loads, faults>>

AnswerPost ==
    /\ post.pc = "handled" /\ log[post.id].event = "sent"
    /\ post' = [post EXCEPT !.pc = "answered"]
    /\ UNCHANGED <<log, line, shown, panel, loads, faults>>

\* The page learns of the new chat, joins its room, and fetches the history now
\* and twice more.
ReceiveFirst ==
    /\ post.pc = "answered" /\ post.heard /\ post.first
    /\ post' = NoPost
    /\ shown' = TRUE
    /\ Add({post.id} \ Rendered)
    /\ Load /\ timers' = 2
    /\ UNCHANGED <<log, line, answers, faults>>

ReceivePost ==
    /\ post.pc = "answered" /\ post.heard /\ ~post.first
    /\ post' = NoPost
    /\ Render({post.id})
    /\ UNCHANGED <<log, line, shown, loads, faults>>

\* MUTANT of LosePost: what is known of the failed message stays.
LosePostOnly ==
    /\ post.pc # "idle"
    /\ post' = [post EXCEPT !.pc = "idle"]
    /\ IF post.heard THEN Fault ELSE UNCHANGED faults
    /\ UNCHANGED <<log, line, shown, panel, loads>>

\* The request or its answer is lost, or the page that sent it is gone.
LosePost ==
    /\ post.pc # "idle"
    /\ post' = NoPost
    /\ IF post.heard THEN Fault ELSE UNCHANGED faults
    /\ UNCHANGED <<log, line, shown, panel, loads>>

-----------------------------------------------------------------------------
(***************************************************************************)
(* Chats that agents open, reloads, and the panel.                         *)
(***************************************************************************)
StartChat ==
    /\ log = <<>> /\ post.pc = "idle"
    /\ Insert("agent")
    /\ UNCHANGED <<line, shown, panel, post, loads, faults>>

\* adoptInvitedConversation: the heartbeat names the visitor's open chat, also one
\* that his first message is just creating.
Adopt ==
    /\ ~shown /\ log # <<>>
    /\ shown' = TRUE
    /\ Loads(2)
    /\ UNCHANGED <<log, socket, queue, caught, panel, post, answers, timers, faults>>

\* conversation.invited, pushed with the agent's first message.
Invited ==
    /\ ~shown /\ log # <<>> /\ log[1] = [by |-> "agent", event |-> "sent"] /\ socket = "on"
    /\ shown' = TRUE
    /\ Render({1})
    /\ Load
    /\ UNCHANGED <<log, socket, queue, caught, post, answers, timers, faults>>

Reload ==
    /\ Fault
    /\ panel' = Blank
    /\ socket' = "off" /\ queue' = <<>> /\ caught' = FALSE
    /\ asked' = 0 /\ answers' = {} /\ timers' = 0
    /\ post' = IF post.pc = "idle" THEN post ELSE [post EXCEPT !.heard = FALSE]
    /\ UNCHANGED <<log, shown>>

\* The panel is opened.
OpenPanel ==
    /\ shown
    /\ Load
    /\ UNCHANGED <<log, line, shown, panel, post, answers, timers, faults>>

-----------------------------------------------------------------------------
Messages ==
    \/ \E by \in Authors : Store(by)
    \/ \E i \in Ids : Emit(i) \/ LoseEvent(i)
    \/ StartChat \/ StorePost \/ AnswerPost

Line == Connect \/ Disconnect \/ Join \/ ReceiveEvent

Page ==
    \/ SendFirst \/ Send \/ ReceiveFirst \/ ReceivePost \/ LosePost
    \/ Adopt \/ Invited \/ Reload \/ OpenPanel
    \/ AnswerLoad \/ LoseLoad \/ Refetch \/ \E a \in answers : ReceiveLoad(a)

Next == Messages \/ Line \/ Page

Spec == Init /\ [][Next]_vars

-----------------------------------------------------------------------------
(***************************************************************************)
(* Correctness.                                                            *)
(***************************************************************************)
\* An agent's internal note never reaches the visitor's panel, pushed or fetched.
NotesStayInside == Rendered \cup Range(queue) \subseteq Public

\* The page shows a message once, however many of push, histories and the answer to
\* its own message bring it.
RenderedOnce == \A i \in DOMAIN panel : panel[i] <= 1

\* Joining first and fetching afterwards leaves no gap: once the page has rendered a
\* whole history that was read while its socket was in the chat's room, every public
\* message is on the page or its event is on the way, unless a dead process lost it.
UpToDate ==
    caught =>
       \A i \in Public :
          i \in Rendered \cup Range(queue) \/ log[i].event \in {"due", "lost"}
=============================================================================

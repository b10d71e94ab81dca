------------------------------ MODULE BotTurns ------------------------------
(***************************************************************************)
(* What answers a visitor's message when no agent does: the drawn chatbot  *)
(* (BotFlowService), then keyword rules, then the AI (AutomationService).  *)
(* Each message is a turn; turns of one chat overlap when the visitor does *)
(* not wait.  Where a chatbot waits in the chat, and whether the bots have *)
(* stepped back for a human, is kept in the chat's metadata, a JSON column *)
(* that every writer reads and writes back as a whole.                     *)
(*                                                                         *)
(* One workspace and one chat, opened by the visitor.                      *)
(***************************************************************************)
EXTENDS Naturals

CONSTANTS
    Turns,          \* visitor messages handled at the same time
    Writers,        \* other requests that write the metadata at the same time
    Editors,        \* requests that switch a chatbot on at the same time
    Flows,          \* the workspace's chatbots
    Steps,          \* all their steps
    FlowOf,         \* the chatbot a step belongs to
    Kind,           \* "message", "condition", "question", "collect", "handoff", "end"
    Edges,          \* where a step may lead, None included where it is a dead end
    Start,          \* a chatbot's first step
    Drawings,       \* the sets of steps an editor saves
    None,
    MaxSteps,       \* MAX_STEPS_PER_TURN
    MaxAsking,      \* MAX_AI_VISITOR_MESSAGES
    MaxMessages     \* bound: messages the visitor ever writes

ASSUME GraphAssumption ==
    /\ FlowOf \in [Steps -> Flows]
    /\ Kind \in [Steps -> {"message", "condition", "question", "collect", "handoff", "end"}]
    /\ Edges \in [Steps -> SUBSET (Steps \cup {None})]
    /\ Start \in [Flows -> Steps]
    /\ \A f \in Flows : FlowOf[Start[f]] = f
    /\ Drawings \subseteq SUBSET Steps
    /\ None \notin Steps /\ None \notin Flows
ASSUME NumbersAssumption ==
    MaxSteps \in Nat /\ MaxAsking \in Nat /\ MaxMessages \in Nat
ASSUME ProcessesAssumption == Turns \cap Writers = {}

VARIABLES
    active,         \* the chatbots that are switched on
    drawn,          \* the steps that exist
    editor,         \* per request: the chatbot it is about to switch on, or None
    meta,           \* the metadata: at, where a chatbot waits, and paused (aiPaused)
    written,        \* how many messages the visitor has written
    turn,           \* the turns under way
    writer,         \* the other writers under way
    overlapped      \* history: who was acting on older metadata when paused was last set, and still is

vars == <<active, drawn, editor, meta, written, turn, writer, overlapped>>
bots == <<active, drawn, editor>>
chat == <<meta, written, turn, writer, overlapped>>

Voices == {"disclaimer", "flow", "rule", "ai"}
Metadata == [at : Steps \cup {None}, paused : BOOLEAN]
Idle == [pc |-> "idle", nth |-> 0, seen |-> [at |-> None, paused |-> FALSE],
         nodes |-> {}, at |-> None, count |-> 0, by |-> "flow", said |-> {}, failed |-> FALSE]

FlowPCs == {"read", "find", "walk", "save", "forget", "clear", "clearToPause"}
PausePCs == {"readToPause", "pause"}
PCs == FlowPCs \cup PausePCs
       \cup {"idle", "disclaim", "rules", "count", "countOnly", "check", "ask", "analyse", "handled"}

TypeOK ==
    /\ active \subseteq Flows
    /\ drawn \subseteq Steps
    /\ editor \in [Editors -> Flows \cup {None}]
    /\ meta \in Metadata
    /\ written \in 0 .. MaxMessages
    /\ turn \in [Turns -> [pc : PCs, nth : 0 .. MaxMessages, seen : Metadata,
                           nodes : SUBSET Steps, at : Steps \cup {None},
                           count : 0 .. MaxSteps, by : {"flow", "budget", "ai"},
                           said : SUBSET Voices, failed : BOOLEAN]]
    /\ writer \in [Writers -> [pc : {"idle", "reading", "writing"}, seen : Metadata]]
    /\ overlapped \subseteq Turns \cup Writers

Init ==
    /\ active = {}
    /\ drawn = Steps
    /\ editor = [e \in Editors |-> None]
    /\ meta = Idle.seen
    /\ written = 0
    /\ turn = [t \in Turns |-> Idle]
    /\ writer = [w \in Writers |-> [pc |-> "idle", seen |-> Idle.seen]]
    /\ overlapped = {}

-----------------------------------------------------------------------------
(***************************************************************************)
(* The workspace's chatbots.                                               *)
(***************************************************************************)
Exists(f) == Start[f] \in drawn

\* Switching a chatbot on switches the others off first, by a statement of its own.
SwitchOthersOff(e, f) ==
    /\ editor[e] = None /\ Exists(f)
    /\ active' = active \cap {f}
    /\ editor' = [editor EXCEPT ![e] = f]
    /\ UNCHANGED <<drawn, chat>>

SwitchOn(e) ==
    /\ editor[e] # None
    /\ active' = IF Exists(editor[e]) THEN active \cup {editor[e]} ELSE active
    /\ editor' = [editor EXCEPT ![e] = None]
    /\ UNCHANGED <<drawn, chat>>

SwitchOff(f) ==
    /\ active' = active \ {f}
    /\ UNCHANGED <<drawn, editor, chat>>

\* The steps are replaced, under the feet of visitors who are among them.
Redraw(f, steps) ==
    /\ Exists(f) /\ Start[f] \in steps
    /\ drawn' = {s \in drawn : FlowOf[s] # f} \cup {s \in steps : FlowOf[s] = f}
    /\ UNCHANGED <<active, editor, chat>>

Remove(f) ==
    /\ active' = active \ {f}
    /\ drawn' = {s \in drawn : FlowOf[s] # f}
    /\ UNCHANGED <<editor, chat>>

-----------------------------------------------------------------------------
(***************************************************************************)
(* The metadata.                                                           *)
(***************************************************************************)
\* Who has looked whether the bots are paused and is still to act upon it.
ActingOnOld ==
    {t \in Turns : turn[t].pc \in (FlowPCs \ {"read"}) \cup {"ask"}}
    \cup {w \in Writers : writer[w].pc = "writing"}

\* conversation.update of the whole column, by p.
Write(p, new) ==
    /\ meta' = new
    /\ overlapped' = (IF new.paused /\ ~meta.paused THEN ActingOnOld ELSE overlapped) \ {p}

\* What p learnt before the pause no longer matters.
Forget(p) == overlapped' = overlapped \ {p}

-----------------------------------------------------------------------------
(***************************************************************************)
(* A turn begins.                                                          *)
(***************************************************************************)
Go(t, pc) == turn' = [turn EXCEPT ![t].pc = pc]

\* Turn t answers with the voices vs, or is silent, and is then at pc.
Say(t, vs, pc) ==
    turn' = [turn EXCEPT ![t].pc = pc, ![t].said = @ \cup vs]

End(t) == turn' = [turn EXCEPT ![t] = Idle]

\* The turn goes on without what it knew of the chatbot.
Leave(t, pc, failed) ==
    turn' = [turn EXCEPT ![t] = [Idle EXCEPT !.pc = pc, !.nth = turn[t].nth,
                                             !.said = turn[t].said, !.failed = failed]]

\* The visitor's message is stored, and its turn begins; the turns of earlier messages,
\* the first one's among them, may still be under way.  The answer to the first message
\* waits for its turn, but the chat is committed before, and a heartbeat's answer gives
\* it to the widget meanwhile.
Arrive(t) ==
    /\ turn[t].pc = "idle"
    /\ written < MaxMessages
    /\ written' = written + 1
    /\ turn' = [turn EXCEPT ![t].pc = IF written = 0 THEN "disclaim" ELSE "read",
                           ![t].nth = written + 1]
    /\ UNCHANGED <<meta, writer, overlapped, bots>>

\* Law firms greet with a disclaimer.
Disclaim(t) ==
    /\ turn[t].pc = "disclaim"
    /\ \E vs \in SUBSET {"disclaimer"} : Say(t, vs, "read")
    /\ UNCHANGED <<meta, written, writer, overlapped, bots>>

-----------------------------------------------------------------------------
(***************************************************************************)
(* The chatbot's part of the turn.                                         *)
(***************************************************************************)
\* MUTANT of Read: the chatbot does not ask whether a human has taken over.
ReadUnasked(t) ==
    /\ turn[t].pc = "read"
    /\ turn' = [turn EXCEPT ![t].seen = meta, ![t].pc = "find"]
    /\ UNCHANGED <<meta, written, writer, overlapped, bots>>

Read(t) ==
    /\ turn[t].pc = "read"
    /\ IF meta.paused
       THEN Leave(t, "rules", FALSE)
       ELSE turn' = [turn EXCEPT ![t].seen = meta, ![t].pc = "find"]
    /\ UNCHANGED <<meta, written, writer, overlapped, bots>>

\* The walk starts at s, over the steps as they are drawn now.
StartWalk(t, s) ==
    turn' = [turn EXCEPT ![t].pc = "walk", ![t].at = s, ![t].nodes = drawn]

\* No chatbot, or one that has been switched off, or that this message cannot start.
NoFlow(t) ==
    /\ turn[t].pc = "find"
    /\ LET s == turn[t].seen.at
       IN  IF s = None THEN turn[t].nth # 1 \/ active = {} ELSE FlowOf[s] \notin active
    /\ Leave(t, "rules", FALSE)
    /\ Forget(t)
    /\ UNCHANGED <<meta, written, writer, bots>>

StartFlow(t) ==
    /\ turn[t].pc = "find"
    /\ turn[t].seen.at = None /\ turn[t].nth = 1
    /\ \E f \in active : StartWalk(t, Start[f])
    /\ UNCHANGED <<meta, written, writer, overlapped, bots>>

\* The visitor answers the step where the chatbot waits.
ResumeFlow(t) ==
    /\ turn[t].pc = "find"
    /\ LET s == turn[t].seen.at
       IN  /\ s # None /\ FlowOf[s] \in active
           /\ IF s \in drawn
              THEN \E next \in Edges[s] : StartWalk(t, next)
              ELSE Go(t, "forget")
    /\ UNCHANGED <<meta, written, writer, overlapped, bots>>

\* MUTANT of NotUnderstood: the message goes on to the rules and the AI.
NotUnderstoodGoesOn(t) ==
    /\ turn[t].pc = "find"
    /\ LET s == turn[t].seen.at
       IN  s \in drawn /\ FlowOf[s] \in active /\ Kind[s] = "question"
    /\ Say(t, {"flow"}, "rules")
    /\ UNCHANGED <<meta, written, writer, overlapped, bots>>

\* The answer is none of the choices: the chatbot asks again, where it is.
NotUnderstood(t) ==
    /\ turn[t].pc = "find"
    /\ LET s == turn[t].seen.at
       IN  s \in drawn /\ FlowOf[s] \in active /\ Kind[s] = "question"
    /\ Say(t, {"flow"}, "handled")
    /\ Forget(t)
    /\ UNCHANGED <<meta, written, writer, bots>>

\* The step the walk has come to, or None if it leads nowhere.
Here(t) == IF turn[t].at \in turn[t].nodes THEN turn[t].at ELSE None

\* MUTANT of Walking: any number of steps.
WalkingOn(t) == turn[t].pc = "walk"

Walking(t) == turn[t].pc = "walk" /\ turn[t].count < MaxSteps

\* A message or a condition leads on at once; a message is said.
Pass(t) ==
    /\ Walking(t) /\ Here(t) # None /\ Kind[Here(t)] \in {"message", "condition"}
    /\ \E next \in Edges[Here(t)] :
          turn' = [turn EXCEPT ![t].at = next, ![t].count = @ + 1,
                       ![t].said = IF Kind[Here(t)] = "message" THEN @ \cup {"flow"} ELSE @]
    /\ UNCHANGED <<meta, written, writer, overlapped, bots>>

\* What is said at a step where the chatbot waits, hands over or ends.
Halt(t) ==
    /\ Walking(t) /\ Here(t) # None /\ Kind[Here(t)] \notin {"message", "condition"}
    /\ Say(t, {"flow"}, CASE Kind[Here(t)] \in {"question", "collect"} -> "save"
                           [] Kind[Here(t)] = "handoff"              -> "clearToPause"
                           [] OTHER                                  -> "clear")
    /\ UNCHANGED <<meta, written, writer, overlapped, bots>>

\* A dead end, a step that is gone, or too many steps.
Stop(t) ==
    /\ turn[t].pc = "walk"
    /\ turn[t].count = MaxSteps \/ Here(t) = None
    /\ Go(t, "clear")
    /\ UNCHANGED <<meta, written, writer, overlapped, bots>>

\* saveState: the metadata as the turn found it, but for the new position.
Save(t) ==
    /\ turn[t].pc = "save"
    /\ Write(t, [turn[t].seen EXCEPT !.at = turn[t].at])
    /\ End(t)
    /\ UNCHANGED <<written, writer, bots>>

\* MUTANT of Clear: a hand-over pauses first and clears the position afterwards.
PauseThenClear(t) ==
    /\ turn[t].pc \in {"clear", "forget", "clearToPause"}
    /\ IF turn[t].pc = "clearToPause"
       THEN Write(t, [meta EXCEPT !.paused = TRUE]) /\ Go(t, "clear")
       ELSE Write(t, [turn[t].seen EXCEPT !.at = None]) /\ End(t)
    /\ UNCHANGED <<written, writer, bots>>

\* clearState: likewise without a position.  Where the step the chatbot waited at
\* is gone ("forget"), the message goes on to the rules.
Clear(t) ==
    /\ turn[t].pc \in {"clear", "forget", "clearToPause"}
    /\ Write(t, [turn[t].seen EXCEPT !.at = None])
    /\ CASE turn[t].pc = "clear"  -> End(t)
         [] turn[t].pc = "forget" -> Leave(t, "rules", FALSE)
         [] OTHER                 -> Leave(t, "readToPause", FALSE)
    /\ UNCHANGED <<written, writer, bots>>

Handled(t) ==
    /\ turn[t].pc = "handled"
    /\ End(t)
    /\ Forget(t)
    /\ UNCHANGED <<meta, written, writer, bots>>

-----------------------------------------------------------------------------
(***************************************************************************)
(* Rules and the AI.                                                       *)
(***************************************************************************)
\* Keyword rules answer whether or not the bots are paused.  Only the rules that
\* are no greeting answer the question.
Rules(t) ==
    /\ turn[t].pc = "rules"
    /\ \/ \E vs \in SUBSET {"rule"} : Say(t, vs, "count")
       \/ Say(t, {"rule"}, "countOnly")
    /\ UNCHANGED <<meta, written, writer, overlapped, bots>>

WithinBudget == written <= MaxAsking

\* The visitor's messages are counted.  In "auto" mode the AI answers, or pauses
\* when the budget is used up; in "suggest" mode it is silent; with the AI "off"
\* the knowledge base may answer, paused or not.
Count(t) ==
    /\ turn[t].pc = "count"
    /\ \/ /\ WithinBudget
          /\ \/ Go(t, "check")
             \/ \E vs \in SUBSET {"rule"} : Say(t, vs, "analyse")
       \/ /\ ~WithinBudget
          /\ \/ turn' = [turn EXCEPT ![t].pc = "readToPause", ![t].by = "budget"]
             \/ \E vs \in SUBSET {"rule"} : Say(t, vs, "handled")
    /\ UNCHANGED <<meta, written, writer, overlapped, bots>>

\* A rule has answered, and the count only decides about the analysis.
CountOnly(t) ==
    /\ turn[t].pc = "countOnly"
    /\ IF WithinBudget THEN Go(t, "analyse") ELSE End(t)
    /\ UNCHANGED <<meta, written, writer, overlapped, bots>>

\* The AI is silent once it has been paused; else the model is called.
Check(t) ==
    /\ turn[t].pc = "check"
    /\ Go(t, IF meta.paused THEN "analyse" ELSE "ask")
    /\ UNCHANGED <<meta, written, writer, overlapped, bots>>

\* It may be confident of its answer or not, and may ask for a human or not.
Answer(t) ==
    /\ turn[t].pc = "ask"
    /\ \E vs \in SUBSET {"ai"}, handoff \in BOOLEAN :
          turn' = [turn EXCEPT ![t].said = @ \cup vs, ![t].by = "ai",
                               ![t].pc = IF handoff THEN "readToPause" ELSE "analyse"]
    /\ Forget(t)
    /\ UNCHANGED <<meta, written, writer, bots>>

\* The legal intake analysis also calls the model; nobody waits for it.
Analyse(t) ==
    /\ turn[t].pc = "analyse"
    /\ End(t)
    /\ \/ UNCHANGED writer
       \/ \E w \in Writers :
             /\ writer[w].pc = "idle"
             /\ writer' = [writer EXCEPT ![w].pc = "reading"]
    /\ UNCHANGED <<meta, written, overlapped, bots>>

-----------------------------------------------------------------------------
(***************************************************************************)
(* Stepping back for a human: the metadata is read, and written with       *)
(* aiPaused.                                                               *)
(***************************************************************************)
ReadToPause(t) ==
    /\ turn[t].pc = "readToPause"
    /\ turn' = [turn EXCEPT ![t].seen = meta, ![t].pc = "pause"]
    /\ UNCHANGED <<meta, written, writer, overlapped, bots>>

Pause(t) ==
    /\ turn[t].pc = "pause"
    /\ Write(t, [turn[t].seen EXCEPT !.paused = TRUE])
    /\ IF turn[t].by = "ai" THEN Leave(t, "analyse", turn[t].failed) ELSE End(t)
    /\ UNCHANGED <<written, writer, bots>>

-----------------------------------------------------------------------------
(***************************************************************************)
(* Failures.                                                               *)
(***************************************************************************)
InFlow(t) == turn[t].pc \in FlowPCs \/ (turn[t].pc \in PausePCs /\ turn[t].by = "flow")
InAnswer(t) == turn[t].pc \in {"check", "ask"} \/ (turn[t].pc \in PausePCs /\ turn[t].by = "ai")

\* A chatbot that fails leaves the message to the rules.
FlowFails(t) ==
    /\ InFlow(t)
    /\ Leave(t, "rules", TRUE)
    /\ Forget(t)
    /\ UNCHANGED <<meta, written, writer, bots>>

AnswerFails(t) ==
    /\ InAnswer(t)
    /\ Leave(t, "analyse", turn[t].failed)
    /\ Forget(t)
    /\ UNCHANGED <<meta, written, writer, bots>>

\* Any other failure, which the caller swallows, and the end of the process.
TurnIsLost(t) ==
    /\ turn[t].pc # "idle"
    /\ End(t)
    /\ Forget(t)
    /\ UNCHANGED <<meta, written, writer, bots>>

-----------------------------------------------------------------------------
(***************************************************************************)
(* Others who write the metadata back: updateTags, and in the same way     *)
(* rateConversation, remember (the summary) and analyzeIntake.             *)
(***************************************************************************)
UpdateTags(w) ==
    /\ writer[w].pc = "idle"
    /\ writer' = [writer EXCEPT ![w] = [pc |-> "writing", seen |-> meta]]
    /\ UNCHANGED <<meta, written, turn, overlapped, bots>>

ReadAnalysed(w) ==
    /\ writer[w].pc = "reading"
    /\ writer' = [writer EXCEPT ![w] = [pc |-> "writing", seen |-> meta]]
    /\ UNCHANGED <<meta, written, turn, overlapped, bots>>

WriteBack(w) ==
    /\ writer[w].pc = "writing"
    /\ Write(w, writer[w].seen)
    /\ writer' = [writer EXCEPT ![w] = [pc |-> "idle", seen |-> Idle.seen]]
    /\ UNCHANGED <<written, turn, bots>>

WriterIsLost(w) ==
    /\ writer[w].pc # "idle"
    /\ writer' = [writer EXCEPT ![w] = [pc |-> "idle", seen |-> Idle.seen]]
    /\ Forget(w)
    /\ UNCHANGED <<meta, written, turn, bots>>

-----------------------------------------------------------------------------
FlowStep(t) ==
    \/ Disclaim(t) \/ Read(t) \/ NoFlow(t) \/ StartFlow(t) \/ ResumeFlow(t) \/ NotUnderstood(t)
    \/ Pass(t) \/ Halt(t) \/ Stop(t) \/ Save(t) \/ Clear(t) \/ Handled(t)

AnswerStep(t) ==
    \/ Rules(t) \/ Count(t) \/ CountOnly(t) \/ Check(t) \/ Answer(t) \/ Analyse(t)
    \/ ReadToPause(t) \/ Pause(t)

Fails(t) == FlowFails(t) \/ AnswerFails(t) \/ TurnIsLost(t)

WriterStep(w) == UpdateTags(w) \/ ReadAnalysed(w) \/ WriteBack(w) \/ WriterIsLost(w)

Edit ==
    \/ \E e \in Editors : SwitchOn(e) \/ \E f \in Flows : SwitchOthersOff(e, f)
    \/ \E f \in Flows : SwitchOff(f) \/ Remove(f) \/ \E d \in Drawings : Redraw(f, d)

Next ==
    \/ \E t \in Turns : Arrive(t) \/ FlowStep(t) \/ AnswerStep(t) \/ Fails(t)
    \/ \E w \in Writers : WriterStep(w)
    \/ Edit

Spec == Init /\ [][Next]_vars

-----------------------------------------------------------------------------
(***************************************************************************)
(* Correctness.                                                            *)
(***************************************************************************)
\* Once the bots are paused for a human they stay paused, unless a write that had
\* read the metadata before the pause was made only after it: the chatbot's own
\* clearState and saveState write what the turn began with, so handing over has
\* to come last.
PauseIsKept ==
    [][meta.paused /\ ~meta'.paused =>
          \E p \in overlapped :
             \/ p \in Turns /\ turn'[p] # turn[p]
             \/ p \in Writers /\ writer'[p] # writer[p]]_vars

\* While the bots are paused neither the chatbot nor the AI is about to say anything,
\* but in a turn that had passed its check before the pause (bot-flow.service.ts:
\* "Once a human has taken over, the bot stays quiet").
SilentAfterPause ==
    meta.paused =>
       \A t \in Turns : turn[t].pc \in {"find", "walk", "ask"} => t \in overlapped

\* A message the chatbot has answered is not answered by a rule or the AI as well
\* ("so keyword rules and the AI stay out of the way"), unless the chatbot failed
\* half-way.
OneVoice ==
    \A t \in Turns :
       "flow" \in turn[t].said /\ ~turn[t].failed => turn[t].said \cap {"rule", "ai"} = {}
=============================================================================

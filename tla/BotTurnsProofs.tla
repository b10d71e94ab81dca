--------------------------- MODULE BotTurnsProofs ---------------------------
(***************************************************************************)
(* BotTurns, for any number of overlapping turns, writers of the metadata, *)
(* chatbots and steps: one voice answers, bots that stepped back for a     *)
(* human are silent, and they stay back but for a write on older metadata. *)
(***************************************************************************)
EXTENDS BotTurns, TLAPS

TurnSet == [pc : PCs, nth : 0 .. MaxMessages, seen : Metadata, nodes : SUBSET Steps,
            at : Steps \cup {None}, count : 0 .. MaxSteps, by : {"flow", "budget", "ai"},
            said : SUBSET Voices, failed : BOOLEAN]
WriterSet == [pc : {"idle", "reading", "writing"}, seen : Metadata]

\* What a turn may have said where it is.
AnswerPCs == {"rules", "count", "countOnly", "check", "ask", "analyse"}
OneVoiceAt(q) ==
    /\ q.pc \in {"idle", "disclaim", "read", "find", "forget"} => q.said \subseteq {"disclaimer"}
    /\ q.pc \in FlowPCs \/ (q.pc \in PausePCs /\ q.by = "flow") => q.said \subseteq {"disclaimer", "flow"}
    /\ q.pc \in AnswerPCs \/ (q.pc \in PausePCs /\ q.by # "flow") => "flow" \notin q.said \/ q.failed
    /\ q.pc = "handled" /\ "flow" \in q.said /\ ~q.failed => q.said \cap {"rule", "ai"} = {}

Spoken == \A t \in Turns : OneVoiceAt(turn[t])

\* Once the bots are paused, who acts on older metadata is known.
ActingPCs == (FlowPCs \ {"read"}) \cup {"ask"}
Noticed ==
    meta.paused =>
       /\ \A t \in Turns : turn[t].pc \in ActingPCs => t \in overlapped
       /\ \A w \in Writers : writer[w].pc = "writing" /\ ~writer[w].seen.paused => w \in overlapped

IInv == TypeOK /\ Spoken /\ Noticed

\* A step that takes the pause back is made by somebody who acts on older metadata.
PauseTakenBack ==
    meta.paused /\ ~meta'.paused =>
       \E p \in overlapped :
          \/ p \in Turns /\ turn'[p] # turn[p]
          \/ p \in Writers /\ writer'[p] # writer[p]

-----------------------------------------------------------------------------
(***************************************************************************)
(* Lemmas.                                                                 *)
(***************************************************************************)
\* The steps of Next, one by one.
LEMMA NextCases ==
    ASSUME Next, NEW P,
           ASSUME NEW t \in Turns, Arrive(t) PROVE P,
           ASSUME NEW t \in Turns, Disclaim(t) PROVE P,
           ASSUME NEW t \in Turns, Read(t) PROVE P,
           ASSUME NEW t \in Turns, NoFlow(t) PROVE P,
           ASSUME NEW t \in Turns, StartFlow(t) PROVE P,
           ASSUME NEW t \in Turns, ResumeFlow(t) PROVE P,
           ASSUME NEW t \in Turns, NotUnderstood(t) PROVE P,
           ASSUME NEW t \in Turns, Pass(t) PROVE P,
           ASSUME NEW t \in Turns, Halt(t) PROVE P,
           ASSUME NEW t \in Turns, Stop(t) PROVE P,
           ASSUME NEW t \in Turns, Save(t) PROVE P,
           ASSUME NEW t \in Turns, Clear(t) PROVE P,
           ASSUME NEW t \in Turns, Handled(t) PROVE P,
           ASSUME NEW t \in Turns, Rules(t) PROVE P,
           ASSUME NEW t \in Turns, Count(t) PROVE P,
           ASSUME NEW t \in Turns, CountOnly(t) PROVE P,
           ASSUME NEW t \in Turns, Check(t) PROVE P,
           ASSUME NEW t \in Turns, Answer(t) PROVE P,
           ASSUME NEW t \in Turns, Analyse(t) PROVE P,
           ASSUME NEW t \in Turns, ReadToPause(t) PROVE P,
           ASSUME NEW t \in Turns, Pause(t) PROVE P,
           ASSUME NEW t \in Turns, Fails(t) PROVE P,
           ASSUME NEW w \in Writers, WriterStep(w) PROVE P,
           ASSUME Edit PROVE P
    PROVE  P
  <1>1. CASE \E t \in Turns : Arrive(t) \/ FlowStep(t) \/ AnswerStep(t) \/ Fails(t)
    <2>1. PICK t \in Turns : Arrive(t) \/ FlowStep(t) \/ AnswerStep(t) \/ Fails(t)
      BY <1>1
    <2>2. CASE FlowStep(t)
      BY <2>2 DEF FlowStep
    <2>3. CASE AnswerStep(t)
      BY <2>3 DEF AnswerStep
    <2> QED
      BY <2>1, <2>2, <2>3
  <1>2. CASE \E w \in Writers : WriterStep(w)
    BY <1>2
  <1>3. CASE Edit
    BY <1>3
  <1> QED
    BY <1>1, <1>2, <1>3 DEF Next

LEMMA Parts ==
    ASSUME TypeOK
    PROVE  /\ turn \in [Turns -> TurnSet] /\ writer \in [Writers -> WriterSet] /\ meta \in Metadata
           /\ written \in 0 .. MaxMessages /\ overlapped \subseteq Turns \cup Writers
           /\ drawn \subseteq Steps /\ active \subseteq Flows /\ editor \in [Editors -> Flows \cup {None}]
  BY DEF TypeOK, TurnSet, WriterSet

LEMMA Whole ==
    ASSUME turn' \in [Turns -> TurnSet], writer' \in [Writers -> WriterSet], meta' \in Metadata,
           written' \in 0 .. MaxMessages, overlapped' \subseteq Turns \cup Writers,
           drawn' \subseteq Steps, active' \subseteq Flows, editor' \in [Editors -> Flows \cup {None}]
    PROVE  TypeOK'
  BY DEF TypeOK, TurnSet, WriterSet

LEMMA IdleTyped ==
    /\ Idle \in TurnSet /\ Idle.pc = "idle" /\ Idle.said = {} /\ Idle.by = "flow" /\ Idle.failed = FALSE
    /\ OneVoiceAt(Idle) /\ Idle.seen \in Metadata /\ Idle.seen.paused = FALSE
  <1>1. 0 \in 0 .. MaxMessages /\ 0 \in 0 .. MaxSteps
    BY NumbersAssumption
  <1> QED
    BY <1>1 DEF Idle, TurnSet, PCs, Metadata, OneVoiceAt, FlowPCs, PausePCs, AnswerPCs

\* The step is t's alone, and leaves it as q.
Becomes(t, q) ==
    /\ turn' \in [Turns -> TurnSet] /\ turn'[t] = q
    /\ \A u \in Turns \ {t} : turn'[u] = turn[u]

LEMMA OneTurn ==
    ASSUME TypeOK, NEW t \in Turns, NEW q \in TurnSet, turn' = [turn EXCEPT ![t] = q]
    PROVE  Becomes(t, q)
  BY Parts DEF Becomes

\* The turn goes on at pc, having said said.
Goes(t, pc, said) ==
    /\ Becomes(t, turn'[t]) /\ turn'[t].pc = pc /\ turn'[t].said = said
    /\ turn'[t].failed = turn[t].failed /\ turn'[t].by = turn[t].by

LEMMA GoDoes ==
    ASSUME TypeOK, NEW t \in Turns, NEW pc \in PCs, Go(t, pc)
    PROVE  Goes(t, pc, turn[t].said)
  <1> DEFINE q == [turn[t] EXCEPT !.pc = pc]
  <1>1. turn[t] \in TurnSet /\ turn' = [turn EXCEPT ![t] = q]
    BY Parts DEF Go
  <1>2. /\ q \in TurnSet /\ q.pc = pc /\ q.said = turn[t].said /\ q.failed = turn[t].failed
        /\ q.by = turn[t].by
    BY <1>1 DEF TurnSet
  <1> HIDE DEF q
  <1> QED
    BY <1>1, <1>2, OneTurn DEF Goes, Becomes

LEMMA SayDoes ==
    ASSUME TypeOK, NEW t \in Turns, NEW vs \in SUBSET Voices, NEW pc \in PCs, Say(t, vs, pc)
    PROVE  Goes(t, pc, turn[t].said \cup vs)
  <1> DEFINE q == [turn[t] EXCEPT !.pc = pc, !.said = @ \cup vs]
  <1>1. turn[t] \in TurnSet /\ turn' = [turn EXCEPT ![t] = q]
    BY Parts DEF Say
  <1>2. /\ q \in TurnSet /\ q.pc = pc /\ q.said = turn[t].said \cup vs /\ q.failed = turn[t].failed
        /\ q.by = turn[t].by
    BY <1>1 DEF TurnSet
  <1> HIDE DEF q
  <1> QED
    BY <1>1, <1>2, OneTurn DEF Goes, Becomes

LEMMA EndDoes ==
    ASSUME TypeOK, NEW t \in Turns, End(t)
    PROVE  Becomes(t, Idle)
  BY IdleTyped, OneTurn DEF End

LEMMA LeaveDoes ==
    ASSUME TypeOK, NEW t \in Turns, NEW pc \in PCs, NEW failed \in BOOLEAN, Leave(t, pc, failed)
    PROVE  /\ Becomes(t, turn'[t]) /\ turn'[t].pc = pc /\ turn'[t].said = turn[t].said
           /\ turn'[t].by = "flow" /\ turn'[t].failed = failed
  <1> DEFINE q == [Idle EXCEPT !.pc = pc, !.nth = turn[t].nth, !.said = turn[t].said, !.failed = failed]
  <1>1. turn[t] \in TurnSet /\ turn' = [turn EXCEPT ![t] = q]
    BY Parts DEF Leave
  <1>2. q \in TurnSet /\ q.pc = pc /\ q.said = turn[t].said /\ q.by = "flow" /\ q.failed = failed
    BY <1>1, IdleTyped DEF TurnSet
  <1> HIDE DEF q
  <1> QED
    BY <1>1, <1>2, OneTurn DEF Becomes

\* A step of a turn that does not write the metadata.
LEMMA QuietTurn ==
    ASSUME IInv, NEW t \in Turns, Becomes(t, turn'[t]), OneVoiceAt(turn'[t]),
           UNCHANGED <<meta, bots>>, written' \in 0 .. MaxMessages,
           writer' \in [Writers -> WriterSet],
           \A w \in Writers : writer'[w].pc = "writing" => writer'[w] = writer[w],
           overlapped' \in {overlapped, overlapped \ {t}},
           turn'[t].pc \in ActingPCs =>
              overlapped' = overlapped /\ (turn[t].pc \in ActingPCs \/ ~meta.paused)
    PROVE  IInv' /\ PauseTakenBack
  <1>1. TypeOK'
    BY Parts, Whole DEF IInv, Becomes, bots
  <1>2. Spoken'
    BY DEF IInv, Spoken, Becomes
  <1>3. ASSUME meta.paused, NEW u \in Turns, turn'[u].pc \in ActingPCs PROVE u \in overlapped'
    <2>1. CASE u = t
      BY <1>3, <2>1 DEF IInv, Noticed
    <2>2. CASE u # t
      BY <1>3, <2>2 DEF IInv, Noticed, Becomes
    <2> QED
      BY <2>1, <2>2
  <1>4. ASSUME meta.paused, NEW w \in Writers, writer'[w].pc = "writing", ~writer'[w].seen.paused
        PROVE  w \in overlapped'
    <2>1. w \in overlapped
      BY <1>4 DEF IInv, Noticed
    <2>2. w # t
      BY ProcessesAssumption
    <2> QED
      BY <2>1, <2>2
  <1> QED
    BY <1>1, <1>2, <1>3, <1>4 DEF IInv, Noticed, PauseTakenBack

\* A step of a turn that writes the metadata: it pauses, or acts on what it had read.
LEMMA WritingTurn ==
    ASSUME IInv, NEW t \in Turns, Becomes(t, turn'[t]), OneVoiceAt(turn'[t]),
           NEW new \in Metadata, Write(t, new), UNCHANGED <<written, writer, bots>>,
           turn'[t].pc \notin ActingPCs, new.paused \/ turn[t].pc \in ActingPCs
    PROVE  IInv' /\ PauseTakenBack
  <1>1. meta' = new /\ t \notin Writers
    BY ProcessesAssumption DEF Write
  <1>2. /\ turn \in [Turns -> TurnSet] /\ writer \in [Writers -> WriterSet]
        /\ overlapped' \subseteq Turns \cup Writers
    BY Parts DEF IInv, Write, ActingOnOld
  <1>3. TypeOK'
    BY <1>1, <1>2, Parts, Whole DEF IInv, Becomes, bots
  <1>4. Spoken'
    BY DEF IInv, Spoken, Becomes
  <1>5. ASSUME new.paused, NEW u \in Turns, turn'[u].pc \in ActingPCs PROVE u \in overlapped'
    <2>1. u # t /\ turn'[u] = turn[u]
      BY <1>5 DEF Becomes
    <2>2. CASE meta.paused
      BY <1>5, <2>1, <2>2 DEF IInv, Noticed, Write
    <2>3. CASE ~meta.paused
      BY <1>5, <2>1, <2>3 DEF Write, ActingOnOld, ActingPCs
    <2> QED
      BY <2>2, <2>3
  <1>6. ASSUME new.paused, NEW w \in Writers, writer[w].pc = "writing", ~writer[w].seen.paused
        PROVE  w \in overlapped'
    <2>1. CASE meta.paused
      BY <1>1, <1>6, <2>1 DEF IInv, Noticed, Write
    <2>2. CASE ~meta.paused
      BY <1>1, <1>6, <2>2 DEF Write, ActingOnOld
    <2> QED
      BY <2>1, <2>2
  <1>7. Noticed'
    BY <1>1, <1>5, <1>6 DEF Noticed
  <1>8. PauseTakenBack
    <2> SUFFICES ASSUME meta.paused, ~new.paused PROVE t \in overlapped /\ turn'[t] # turn[t]
      BY <1>1 DEF PauseTakenBack
    <2> QED
      BY DEF IInv, Noticed
  <1> QED
    BY <1>3, <1>4, <1>7, <1>8 DEF IInv

\* A step of another writer.
LEMMA WriterDoes ==
    ASSUME IInv, NEW w \in Writers, WriterStep(w)
    PROVE  IInv' /\ PauseTakenBack
  <1>1. /\ turn \in [Turns -> TurnSet] /\ writer \in [Writers -> WriterSet] /\ meta \in Metadata
        /\ overlapped \subseteq Turns \cup Writers /\ meta.paused \in BOOLEAN
        /\ Idle.seen \in Metadata /\ Idle.seen.paused = FALSE
    BY Parts, IdleTyped DEF IInv, Metadata
  <1>2. UNCHANGED <<turn, written, bots>>
    BY DEF WriterStep, UpdateTags, ReadAnalysed, WriteBack, WriterIsLost
  <1>3. Spoken'
    BY <1>2 DEF IInv, Spoken
  <1>4. writer' \in [Writers -> WriterSet] /\ meta' \in Metadata /\ overlapped' \subseteq Turns \cup Writers => TypeOK'
    BY <1>2, Parts, Whole DEF IInv, bots
  <1>5. CASE UpdateTags(w) \/ ReadAnalysed(w)
    <2> DEFINE q == [pc |-> "writing", seen |-> meta]
    <2>1. writer' = [writer EXCEPT ![w] = q] /\ UNCHANGED <<meta, overlapped>>
      BY <1>5 DEF UpdateTags, ReadAnalysed
    <2>2. q \in WriterSet /\ q.seen = meta
      BY <1>1 DEF WriterSet
    <2> HIDE DEF q
    <2>3. writer' \in [Writers -> WriterSet] /\ writer'[w] = q /\ \A v \in Writers \ {w} : writer'[v] = writer[v]
      BY <1>1, <2>1, <2>2
    <2>4. Noticed'
      BY <1>2, <2>1, <2>2, <2>3 DEF IInv, Noticed
    <2> QED
      BY <1>1, <1>3, <1>4, <2>1, <2>3, <2>4 DEF IInv, PauseTakenBack
  <1> DEFINE z == [pc |-> "idle", seen |-> Idle.seen]
  <1>6. z \in WriterSet /\ z.pc = "idle"
    BY <1>1 DEF WriterSet
  <1>7. CASE WriterIsLost(w)
    <2>1. writer' = [writer EXCEPT ![w] = z] /\ UNCHANGED meta /\ overlapped' = overlapped \ {w}
      BY <1>7 DEF WriterIsLost, Forget
    <2> HIDE DEF z
    <2>2. writer' \in [Writers -> WriterSet] /\ writer'[w] = z /\ \A v \in Writers \ {w} : writer'[v] = writer[v]
      BY <1>1, <1>6, <2>1
    <2>3. w \notin Turns
      BY ProcessesAssumption
    <2>4. Noticed'
      BY <1>2, <1>6, <2>1, <2>2, <2>3 DEF IInv, Noticed
    <2> QED
      BY <1>1, <1>3, <1>4, <2>1, <2>2, <2>4 DEF IInv, PauseTakenBack
  <1>8. CASE WriteBack(w)
    <2>1. /\ writer' = [writer EXCEPT ![w] = z] /\ meta' = writer[w].seen /\ writer[w].pc = "writing"
          /\ overlapped' = (IF writer[w].seen.paused /\ ~meta.paused THEN ActingOnOld ELSE overlapped) \ {w}
      BY <1>8 DEF WriteBack, Write
    <2>2. writer[w].seen \in Metadata /\ ActingOnOld \subseteq Turns \cup Writers
      BY <1>1 DEF WriterSet, ActingOnOld
    <2> HIDE DEF z
    <2>3. writer' \in [Writers -> WriterSet] /\ writer'[w] = z /\ \A v \in Writers \ {w} : writer'[v] = writer[v]
      BY <1>1, <1>6, <2>1
    <2>4. w \notin Turns
      BY ProcessesAssumption
    <2>5. ASSUME meta'.paused, NEW u \in Turns, turn'[u].pc \in ActingPCs PROVE u \in overlapped'
      <3>1. CASE meta.paused
        BY <1>2, <2>1, <2>4, <2>5, <3>1 DEF IInv, Noticed
      <3>2. CASE ~meta.paused
        BY <1>2, <2>1, <2>4, <2>5, <3>2 DEF ActingOnOld, ActingPCs
      <3> QED
        BY <3>1, <3>2
    <2>6. ASSUME meta'.paused, NEW v \in Writers, writer'[v].pc = "writing", ~writer'[v].seen.paused
          PROVE  v \in overlapped'
      <3>1. v # w /\ writer'[v] = writer[v]
        BY <1>6, <2>3, <2>6
      <3>2. CASE meta.paused
        BY <2>1, <2>6, <3>1, <3>2 DEF IInv, Noticed
      <3>3. CASE ~meta.paused
        BY <2>1, <2>6, <3>1, <3>3 DEF ActingOnOld
      <3> QED
        BY <3>2, <3>3
    <2>7. Noticed'
      BY <2>5, <2>6 DEF Noticed
    <2>8. PauseTakenBack
      <3> SUFFICES ASSUME meta.paused, ~writer[w].seen.paused PROVE w \in overlapped /\ writer'[w] # writer[w]
        BY <2>1 DEF PauseTakenBack
      <3> QED
        BY <1>6, <2>1, <2>3 DEF IInv, Noticed
    <2> QED
      BY <1>1, <1>3, <1>4, <2>1, <2>2, <2>3, <2>7, <2>8 DEF IInv
  <1> QED
    BY <1>5, <1>7, <1>8 DEF WriterStep

LEMMA EditDoes ==
    ASSUME IInv, Edit
    PROVE  IInv' /\ PauseTakenBack
  <1>1. UNCHANGED chat
    BY DEF Edit, SwitchOn, SwitchOthersOff, SwitchOff, Remove, Redraw
  <1>2. /\ editor \in [Editors -> Flows \cup {None}] /\ active \subseteq Flows /\ drawn \subseteq Steps
        /\ \A d \in Drawings : d \subseteq Steps
    BY Parts, GraphAssumption DEF IInv
  <1>3. active' \subseteq Flows /\ drawn' \subseteq Steps /\ editor' \in [Editors -> Flows \cup {None}]
    <2>1. ASSUME NEW e \in Editors, SwitchOn(e)
          PROVE  active' \subseteq Flows /\ drawn' \subseteq Steps /\ editor' \in [Editors -> Flows \cup {None}]
      BY <1>2, <2>1 DEF SwitchOn
    <2>2. ASSUME NEW e \in Editors, NEW f \in Flows, SwitchOthersOff(e, f)
          PROVE  active' \subseteq Flows /\ drawn' \subseteq Steps /\ editor' \in [Editors -> Flows \cup {None}]
      BY <1>2, <2>2 DEF SwitchOthersOff
    <2>3. ASSUME NEW f \in Flows, SwitchOff(f) \/ Remove(f)
          PROVE  active' \subseteq Flows /\ drawn' \subseteq Steps /\ editor' \in [Editors -> Flows \cup {None}]
      BY <1>2, <2>3 DEF SwitchOff, Remove
    <2>4. ASSUME NEW f \in Flows, NEW d \in Drawings, Redraw(f, d)
          PROVE  active' \subseteq Flows /\ drawn' \subseteq Steps /\ editor' \in [Editors -> Flows \cup {None}]
      BY <1>2, <2>4 DEF Redraw
    <2> QED
      BY <2>1, <2>2, <2>3, <2>4 DEF Edit
  <1>4. TypeOK'
    BY <1>1, <1>3, Parts, Whole DEF IInv, chat
  <1>5. Spoken' /\ Noticed' /\ PauseTakenBack
    BY <1>1 DEF IInv, Spoken, Noticed, PauseTakenBack, chat
  <1> QED
    BY <1>4, <1>5 DEF IInv

LEMMA NextInv ==
    ASSUME IInv, Next
    PROVE  IInv' /\ PauseTakenBack
  <1> DEFINE P == IInv' /\ PauseTakenBack
  <1>t. /\ TypeOK /\ written \in 0 .. MaxMessages /\ writer \in [Writers -> WriterSet] /\ meta \in Metadata
        /\ drawn \subseteq Steps
        /\ \A t \in Turns : turn[t] \in TurnSet /\ OneVoiceAt(turn[t])
    BY Parts DEF IInv, Spoken
  <1>p. PCs = {"read", "find", "walk", "save", "forget", "clear", "clearToPause", "readToPause", "pause",
               "idle", "disclaim", "rules", "count", "countOnly", "check", "ask", "analyse", "handled"}
    BY DEF PCs, FlowPCs, PausePCs
  <1>m. meta \in Metadata /\ drawn \subseteq Steps
    BY <1>t
  <1>pcs. {"disclaim", "read", "find", "walk", "readToPause", "pause", "analyse"} \subseteq PCs
    BY <1>p
  <1>quiet. ASSUME NEW t \in Turns, Becomes(t, turn'[t]), OneVoiceAt(turn'[t]),
                   UNCHANGED <<meta, written, writer, bots>>,
                   overlapped' \in {overlapped, overlapped \ {t}},
                   turn'[t].pc \in ActingPCs =>
                      overlapped' = overlapped /\ (turn[t].pc \in ActingPCs \/ ~meta.paused)
            PROVE  P
    BY <1>quiet, <1>t, QuietTurn
  <1>1. ASSUME NEW t \in Turns, Arrive(t) PROVE P
    <2> DEFINE q == [turn[t] EXCEPT !.pc = IF written = 0 THEN "disclaim" ELSE "read", !.nth = written + 1]
    <2>1. /\ turn' = [turn EXCEPT ![t] = q] /\ turn[t].pc = "idle" /\ written < MaxMessages
          /\ written' = written + 1 /\ UNCHANGED <<meta, writer, overlapped, bots>>
      BY <1>1 DEF Arrive
    <2>2. written + 1 \in 0 .. MaxMessages
      BY <1>t, <2>1, NumbersAssumption
    <2>q. turn[t] \in TurnSet
      BY <1>t
    <2>3. q \in TurnSet /\ q.pc \in {"disclaim", "read"} /\ q.said = turn[t].said
      BY <1>m, <2>q, <1>pcs, <2>2 DEF TurnSet
    <2> HIDE DEF q
    <2>4. Becomes(t, turn'[t]) /\ turn'[t] = q
      BY <1>t, <2>1, <2>3, OneTurn DEF Becomes
    <2>5. OneVoiceAt(q)
      BY <1>t, <2>1, <2>3 DEF OneVoiceAt, FlowPCs, PausePCs, AnswerPCs
    <2>6. q.pc \notin ActingPCs
      BY <2>3 DEF ActingPCs, FlowPCs
    <2> QED
      BY <1>t, <2>1, <2>2, <2>4, <2>5, <2>6, QuietTurn
  <1>2. ASSUME NEW t \in Turns, Disclaim(t) PROVE P
    <2>1. PICK vs \in SUBSET {"disclaimer"} : Say(t, vs, "read")
      BY <1>2 DEF Disclaim
    <2>2. turn[t].pc = "disclaim" /\ UNCHANGED <<meta, written, writer, overlapped, bots>>
      BY <1>2 DEF Disclaim
    <2>3. Goes(t, "read", turn[t].said \cup vs)
      BY <1>t, <1>p, <2>1, SayDoes DEF Voices
    <2>4. OneVoiceAt(turn'[t]) /\ turn'[t].pc \notin ActingPCs
      BY <1>t, <2>1, <2>2, <2>3 DEF Goes, OneVoiceAt, FlowPCs, PausePCs, AnswerPCs, ActingPCs
    <2> QED
      BY <1>quiet, <2>2, <2>3, <2>4 DEF Goes
  <1>3. ASSUME NEW t \in Turns, Read(t) PROVE P
    <2>1. turn[t].pc = "read" /\ UNCHANGED <<meta, written, writer, overlapped, bots>>
      BY <1>3 DEF Read
    <2>2. CASE meta.paused
      <3>1. Leave(t, "rules", FALSE)
        BY <1>3, <2>2 DEF Read
      <3>2. Becomes(t, turn'[t]) /\ turn'[t].pc = "rules" /\ turn'[t].said = turn[t].said
        BY <1>t, <1>p, <3>1, LeaveDoes
      <3>3. OneVoiceAt(turn'[t]) /\ turn'[t].pc \notin ActingPCs
        BY <1>t, <2>1, <3>2 DEF OneVoiceAt, FlowPCs, PausePCs, AnswerPCs, ActingPCs
      <3> QED
        BY <1>quiet, <2>1, <3>2, <3>3
    <2>3. CASE ~meta.paused
      <3> DEFINE q == [turn[t] EXCEPT !.seen = meta, !.pc = "find"]
      <3>1. turn' = [turn EXCEPT ![t] = q]
        BY <1>3, <2>3 DEF Read
      <3>q. turn[t] \in TurnSet
        BY <1>t
      <3>2. q \in TurnSet /\ q.pc = "find" /\ q.said = turn[t].said
        BY <1>m, <3>q, <1>pcs DEF TurnSet
      <3> HIDE DEF q
      <3>3. Becomes(t, turn'[t]) /\ turn'[t] = q
        BY <1>t, <3>1, <3>2, OneTurn DEF Becomes
      <3>4. OneVoiceAt(q)
        BY <1>t, <2>1, <3>2 DEF OneVoiceAt, FlowPCs, PausePCs, AnswerPCs
      <3> QED
        BY <1>quiet, <2>1, <2>3, <3>3, <3>4
    <2> QED
      BY <2>2, <2>3
  <1>4. ASSUME NEW t \in Turns, NoFlow(t) PROVE P
    <2>1. /\ turn[t].pc = "find" /\ Leave(t, "rules", FALSE) /\ overlapped' = overlapped \ {t}
          /\ UNCHANGED <<meta, written, writer, bots>>
      BY <1>4 DEF NoFlow, Forget
    <2>2. Becomes(t, turn'[t]) /\ turn'[t].pc = "rules" /\ turn'[t].said = turn[t].said
      BY <1>t, <1>p, <2>1, LeaveDoes
    <2>3. OneVoiceAt(turn'[t]) /\ turn'[t].pc \notin ActingPCs
      BY <1>t, <2>1, <2>2 DEF OneVoiceAt, FlowPCs, PausePCs, AnswerPCs, ActingPCs
    <2> QED
      BY <1>quiet, <2>1, <2>2, <2>3
  <1>walk. ASSUME NEW t \in Turns, NEW s \in Steps \cup {None}, turn[t].pc = "find", StartWalk(t, s),
                  UNCHANGED <<meta, written, writer, overlapped, bots>>
           PROVE  P
    <2> DEFINE q == [turn[t] EXCEPT !.pc = "walk", !.at = s, !.nodes = drawn]
    <2>1. turn' = [turn EXCEPT ![t] = q]
      BY <1>walk DEF StartWalk
    <2>q. turn[t] \in TurnSet
      BY <1>t
    <2>2. q \in TurnSet /\ q.pc = "walk" /\ q.said = turn[t].said
      BY <1>m, <2>q, <1>pcs DEF TurnSet
    <2> HIDE DEF q
    <2>3. Becomes(t, turn'[t]) /\ turn'[t] = q
      BY <1>t, <2>1, <2>2, OneTurn DEF Becomes
    <2>4. OneVoiceAt(q)
      BY <1>t, <1>walk, <2>2 DEF OneVoiceAt, FlowPCs, PausePCs, AnswerPCs
    <2>5. turn[t].pc \in ActingPCs
      BY <1>walk DEF ActingPCs, FlowPCs
    <2> QED
      BY <1>quiet, <1>walk, <2>3, <2>4, <2>5
  <1>5. ASSUME NEW t \in Turns, StartFlow(t) PROVE P
    <2>1. PICK f \in active : StartWalk(t, Start[f])
      BY <1>5 DEF StartFlow
    <2>2. f \in Flows /\ Start[f] \in Steps
      BY <1>t, Parts, GraphAssumption
    <2> QED
      BY <1>5, <1>walk, <2>1, <2>2 DEF StartFlow
  <1>6. ASSUME NEW t \in Turns, ResumeFlow(t) PROVE P
    <2> DEFINE s == turn[t].seen.at
    <2>1. turn[t].pc = "find" /\ UNCHANGED <<meta, written, writer, overlapped, bots>>
      BY <1>6 DEF ResumeFlow
    <2>2. CASE s \in drawn
      <3>1. PICK next \in Edges[s] : StartWalk(t, next)
        BY <1>6, <2>2 DEF ResumeFlow
      <3>2. next \in Steps \cup {None}
        BY <1>t, <2>2, <3>1, GraphAssumption
      <3> QED
        BY <1>walk, <2>1, <3>1, <3>2
    <2>3. CASE s \notin drawn
      <3>1. Go(t, "forget")
        BY <1>6, <2>3 DEF ResumeFlow
      <3>2. Goes(t, "forget", turn[t].said)
        BY <1>t, <1>p, <3>1, GoDoes
      <3>3. OneVoiceAt(turn'[t]) /\ turn[t].pc \in ActingPCs
        BY <1>t, <2>1, <3>2 DEF Goes, OneVoiceAt, FlowPCs, PausePCs, AnswerPCs, ActingPCs
      <3> QED
        BY <1>quiet, <2>1, <3>2, <3>3 DEF Goes
    <2> QED
      BY <2>2, <2>3
  <1>7. ASSUME NEW t \in Turns, NotUnderstood(t) PROVE P
    <2>1. /\ turn[t].pc = "find" /\ Say(t, {"flow"}, "handled") /\ overlapped' = overlapped \ {t}
          /\ UNCHANGED <<meta, written, writer, bots>>
      BY <1>7 DEF NotUnderstood, Forget
    <2>2. Goes(t, "handled", turn[t].said \cup {"flow"})
      BY <1>t, <1>p, <2>1, SayDoes DEF Voices
    <2>3. OneVoiceAt(turn'[t]) /\ turn'[t].pc \notin ActingPCs
      BY <1>t, <2>1, <2>2 DEF Goes, OneVoiceAt, FlowPCs, PausePCs, AnswerPCs, ActingPCs
    <2> QED
      BY <1>quiet, <2>1, <2>2, <2>3 DEF Goes
  <1>8. ASSUME NEW t \in Turns, Pass(t) PROVE P
    <2>1. PICK next \in Edges[Here(t)] :
             turn' = [turn EXCEPT ![t].at = next, ![t].count = @ + 1,
                         ![t].said = IF Kind[Here(t)] = "message" THEN @ \cup {"flow"} ELSE @]
      BY <1>8 DEF Pass
    <2>2. /\ turn[t].pc = "walk" /\ turn[t].count < MaxSteps /\ Here(t) # None
          /\ UNCHANGED <<meta, written, writer, overlapped, bots>>
      BY <1>8 DEF Pass, Walking
    <2> DEFINE said == IF Kind[Here(t)] = "message" THEN turn[t].said \cup {"flow"} ELSE turn[t].said
               q == [turn[t] EXCEPT !.at = next, !.count = turn[t].count + 1, !.said = said]
    <2>3. turn' = [turn EXCEPT ![t] = q]
      BY <2>1
    <2>4. Here(t) \in Steps
      BY <1>t, <2>2 DEF Here, TurnSet
    <2>5. next \in Steps \cup {None}
      BY <2>1, <2>4, GraphAssumption
    <2>6. turn[t].count + 1 \in 0 .. MaxSteps
      BY <1>t, <2>2, NumbersAssumption DEF TurnSet
    <2>7. said \subseteq turn[t].said \cup {"flow"} /\ said \in SUBSET Voices
      BY <1>t DEF TurnSet, Voices
    <2> HIDE DEF said
    <2>8. q \in TurnSet /\ q.pc = "walk" /\ q.said = said
      BY <1>t, <2>2, <2>5, <2>6, <2>7 DEF TurnSet
    <2> HIDE DEF q
    <2>9. Becomes(t, turn'[t]) /\ turn'[t] = q
      BY <1>t, <2>3, <2>8, OneTurn DEF Becomes
    <2>10. OneVoiceAt(q) /\ turn[t].pc \in ActingPCs
      BY <1>t, <2>2, <2>7, <2>8 DEF OneVoiceAt, FlowPCs, PausePCs, AnswerPCs, ActingPCs
    <2> QED
      BY <1>quiet, <2>2, <2>9, <2>10
  <1>9. ASSUME NEW t \in Turns, Halt(t) PROVE P
    <2>1. PICK pc \in {"save", "clearToPause", "clear"} : Say(t, {"flow"}, pc)
      BY <1>9 DEF Halt
    <2>2. turn[t].pc = "walk" /\ UNCHANGED <<meta, written, writer, overlapped, bots>>
      BY <1>9 DEF Halt, Walking
    <2>3. Goes(t, pc, turn[t].said \cup {"flow"})
      BY <1>t, <1>p, <2>1, SayDoes DEF Voices
    <2>4. OneVoiceAt(turn'[t]) /\ turn[t].pc \in ActingPCs
      BY <1>t, <2>1, <2>2, <2>3 DEF Goes, OneVoiceAt, FlowPCs, PausePCs, AnswerPCs, ActingPCs
    <2> QED
      BY <1>quiet, <2>2, <2>3, <2>4 DEF Goes
  <1>10. ASSUME NEW t \in Turns, Stop(t) PROVE P
    <2>1. turn[t].pc = "walk" /\ Go(t, "clear") /\ UNCHANGED <<meta, written, writer, overlapped, bots>>
      BY <1>10 DEF Stop
    <2>2. Goes(t, "clear", turn[t].said)
      BY <1>t, <1>p, <2>1, GoDoes
    <2>3. OneVoiceAt(turn'[t]) /\ turn[t].pc \in ActingPCs
      BY <1>t, <2>1, <2>2 DEF Goes, OneVoiceAt, FlowPCs, PausePCs, AnswerPCs, ActingPCs
    <2> QED
      BY <1>quiet, <2>1, <2>2, <2>3 DEF Goes
  <1>11. ASSUME NEW t \in Turns, Save(t) PROVE P
    <2> DEFINE new == [turn[t].seen EXCEPT !.at = turn[t].at]
    <2>1. /\ turn[t].pc = "save" /\ Write(t, new) /\ End(t) /\ UNCHANGED <<written, writer, bots>>
      BY <1>11 DEF Save
    <2>2. new \in Metadata
      BY <1>t DEF TurnSet, Metadata
    <2> HIDE DEF new
    <2>3. Becomes(t, Idle) /\ turn'[t] = Idle
      BY <1>t, <2>1, EndDoes DEF Becomes
    <2>4. turn[t].pc \in ActingPCs /\ Idle.pc \notin ActingPCs
      BY <2>1, IdleTyped DEF ActingPCs, FlowPCs
    <2> QED
      BY <2>1, <2>2, <2>3, <2>4, IdleTyped, WritingTurn
  <1>12. ASSUME NEW t \in Turns, Clear(t) PROVE P
    <2> DEFINE new == [turn[t].seen EXCEPT !.at = None]
    <2>1. /\ turn[t].pc \in {"clear", "forget", "clearToPause"} /\ Write(t, new)
          /\ UNCHANGED <<written, writer, bots>>
      BY <1>12 DEF Clear
    <2>2. new \in Metadata
      BY <1>t DEF TurnSet, Metadata
    <2> HIDE DEF new
    <2>3. turn[t].pc \in ActingPCs
      BY <2>1 DEF ActingPCs, FlowPCs
    <2>4. CASE turn[t].pc = "clear"
      <3>1. End(t)
        BY <1>12, <2>4 DEF Clear
      <3>2. Becomes(t, Idle) /\ turn'[t] = Idle
        BY <1>t, <3>1, EndDoes DEF Becomes
      <3>3. Idle.pc \notin ActingPCs
        BY IdleTyped DEF ActingPCs, FlowPCs
      <3> QED
        BY <2>1, <2>2, <2>3, <3>2, <3>3, IdleTyped, WritingTurn
    <2>5. CASE turn[t].pc = "forget"
      <3>1. Leave(t, "rules", FALSE)
        BY <1>12, <2>5 DEF Clear
      <3>2. Becomes(t, turn'[t]) /\ turn'[t].pc = "rules" /\ turn'[t].said = turn[t].said
        BY <1>t, <1>p, <3>1, LeaveDoes
      <3>3. OneVoiceAt(turn'[t]) /\ turn'[t].pc \notin ActingPCs
        BY <1>t, <2>5, <3>2 DEF OneVoiceAt, FlowPCs, PausePCs, AnswerPCs, ActingPCs
      <3> QED
        BY <2>1, <2>2, <2>3, <3>2, <3>3, WritingTurn
    <2>6. CASE turn[t].pc = "clearToPause"
      <3>1. Leave(t, "readToPause", FALSE)
        BY <1>12, <2>6 DEF Clear
      <3>2. /\ Becomes(t, turn'[t]) /\ turn'[t].pc = "readToPause" /\ turn'[t].said = turn[t].said
            /\ turn'[t].by = "flow"
        BY <1>t, <1>p, <3>1, LeaveDoes
      <3>3. OneVoiceAt(turn'[t]) /\ turn'[t].pc \notin ActingPCs
        BY <1>t, <2>6, <3>2 DEF OneVoiceAt, FlowPCs, PausePCs, AnswerPCs, ActingPCs
      <3> QED
        BY <2>1, <2>2, <2>3, <3>2, <3>3, WritingTurn
    <2> QED
      BY <2>1, <2>4, <2>5, <2>6
  <1>idle. ASSUME NEW t \in Turns, End(t), overlapped' \in {overlapped, overlapped \ {t}},
                  UNCHANGED <<meta, written, bots>>, writer' \in [Writers -> WriterSet],
                  \A w \in Writers : writer'[w].pc = "writing" => writer'[w] = writer[w]
           PROVE  P
    <2>1. Becomes(t, Idle) /\ turn'[t] = Idle
      BY <1>t, <1>idle, EndDoes DEF Becomes
    <2>2. Idle.pc \notin ActingPCs
      BY IdleTyped DEF ActingPCs, FlowPCs
    <2> QED
      BY <1>idle, <1>t, <2>1, <2>2, IdleTyped, QuietTurn
  <1>13. ASSUME NEW t \in Turns, Handled(t) PROVE P
    BY <1>13, <1>t, <1>idle DEF Handled, Forget
  <1>say. ASSUME NEW t \in Turns, NEW pc \in {"count", "countOnly", "check", "ask", "analyse", "handled"},
                 NEW vs \in SUBSET {"rule", "ai"}, Goes(t, pc, turn[t].said \cup vs), turn[t].pc \in AnswerPCs,
                 UNCHANGED <<meta, written, writer, bots>>, overlapped' \in {overlapped, overlapped \ {t}},
                 pc = "ask" => overlapped' = overlapped /\ ~meta.paused
          PROVE  P
    <2>1. OneVoiceAt(turn'[t])
      BY <1>t, <1>say DEF Goes, OneVoiceAt, FlowPCs, PausePCs, AnswerPCs
    <2>2. turn'[t].pc = pc /\ (pc \in ActingPCs => pc = "ask")
      BY <1>say DEF Goes, ActingPCs, FlowPCs
    <2> QED
      BY <1>quiet, <1>say, <2>1, <2>2 DEF Goes
  <1>go. ASSUME NEW t \in Turns, NEW pc \in {"count", "countOnly", "check", "ask", "analyse", "handled"},
                Go(t, pc), turn[t].pc \in AnswerPCs,
                UNCHANGED <<meta, written, writer, bots>>, overlapped' \in {overlapped, overlapped \ {t}},
                pc = "ask" => overlapped' = overlapped /\ ~meta.paused
         PROVE  P
    <2>1. Goes(t, pc, turn[t].said) /\ turn[t].said \cup {} = turn[t].said
      BY <1>t, <1>p, <1>go, GoDoes
    <2>2. Goes(t, pc, turn[t].said \cup {}) /\ {} \in SUBSET {"rule", "ai"}
      BY <2>1
    <2> QED
      BY <1>go, <1>say, <2>2
  <1>14. ASSUME NEW t \in Turns, Rules(t) PROVE P
    <2>1. turn[t].pc \in AnswerPCs /\ UNCHANGED <<meta, written, writer, overlapped, bots>>
      BY <1>14 DEF Rules, AnswerPCs
    <2>2. PICK vs \in SUBSET {"rule"}, pc \in {"count", "countOnly"} : Say(t, vs, pc)
      BY <1>14 DEF Rules
    <2>3. Goes(t, pc, turn[t].said \cup vs)
      BY <1>t, <1>p, <2>2, SayDoes DEF Voices
    <2> QED
      BY <1>say, <2>1, <2>2, <2>3
  <1>15. ASSUME NEW t \in Turns, Count(t) PROVE P
    <2>1. turn[t].pc = "count" /\ turn[t].pc \in AnswerPCs /\ UNCHANGED <<meta, written, writer, overlapped, bots>>
      BY <1>15 DEF Count, AnswerPCs
    <2>2. ASSUME Go(t, "check") PROVE P
      BY <1>go, <2>1, <2>2
    <2>3. ASSUME NEW vs \in SUBSET {"rule"}, NEW pc \in {"analyse", "handled"}, Say(t, vs, pc) PROVE P
      <3>1. Goes(t, pc, turn[t].said \cup vs)
        BY <1>t, <1>p, <2>3, SayDoes DEF Voices
      <3> QED
        BY <1>say, <2>1, <2>3, <3>1
    <2>4. ASSUME turn' = [turn EXCEPT ![t].pc = "readToPause", ![t].by = "budget"] PROVE P
      <3> DEFINE q == [turn[t] EXCEPT !.pc = "readToPause", !.by = "budget"]
      <3>1. turn' = [turn EXCEPT ![t] = q]
        BY <2>4
      <3>q. turn[t] \in TurnSet
        BY <1>t
      <3>2. /\ q \in TurnSet /\ q.pc = "readToPause" /\ q.said = turn[t].said /\ q.by = "budget"
            /\ q.failed = turn[t].failed
        BY <1>m, <3>q, <1>pcs DEF TurnSet
      <3> HIDE DEF q
      <3>3. Becomes(t, turn'[t]) /\ turn'[t] = q
        BY <1>t, <3>1, <3>2, OneTurn DEF Becomes
      <3>4. OneVoiceAt(q) /\ q.pc \notin ActingPCs
        BY <1>t, <2>1, <3>2 DEF OneVoiceAt, FlowPCs, PausePCs, AnswerPCs, ActingPCs
      <3> QED
        BY <1>quiet, <2>1, <3>3, <3>4
    <2> HIDE DEF P
    <2> QED
      BY <1>15, <2>2, <2>3, <2>4 DEF Count
  <1>16. ASSUME NEW t \in Turns, CountOnly(t) PROVE P
    <2>1. turn[t].pc \in AnswerPCs /\ UNCHANGED <<meta, written, writer, overlapped, bots>>
      BY <1>16 DEF CountOnly, AnswerPCs
    <2>2. Go(t, "analyse") \/ End(t)
      BY <1>16 DEF CountOnly
    <2> QED
      BY <1>go, <1>idle, <1>t, <2>1, <2>2
  <1>17. ASSUME NEW t \in Turns, Check(t) PROVE P
    <2>1. turn[t].pc \in AnswerPCs /\ UNCHANGED <<meta, written, writer, overlapped, bots>>
      BY <1>17 DEF Check, AnswerPCs
    <2>2. Go(t, IF meta.paused THEN "analyse" ELSE "ask")
      BY <1>17 DEF Check
    <2>3. CASE meta.paused
      BY <1>go, <2>1, <2>2, <2>3
    <2>4. CASE ~meta.paused
      BY <1>go, <2>1, <2>2, <2>4
    <2> QED
      BY <2>3, <2>4
  <1>18. ASSUME NEW t \in Turns, Answer(t) PROVE P
    <2>1. turn[t].pc = "ask" /\ overlapped' = overlapped \ {t} /\ UNCHANGED <<meta, written, writer, bots>>
      BY <1>18 DEF Answer, Forget
    <2>2. PICK vs \in SUBSET {"ai"}, handoff \in BOOLEAN :
             turn' = [turn EXCEPT ![t].said = @ \cup vs, ![t].by = "ai",
                                  ![t].pc = IF handoff THEN "readToPause" ELSE "analyse"]
      BY <1>18 DEF Answer
    <2> DEFINE pc == IF handoff THEN "readToPause" ELSE "analyse"
               q == [turn[t] EXCEPT !.said = turn[t].said \cup vs, !.by = "ai", !.pc = pc]
    <2>3. turn' = [turn EXCEPT ![t] = q]
      BY <2>2
    <2>4. pc \in {"readToPause", "analyse"}
      OBVIOUS
    <2> HIDE DEF pc
    <2>q. turn[t] \in TurnSet
      BY <1>t
    <2>5. /\ q \in TurnSet /\ q.pc = pc /\ q.said = turn[t].said \cup vs /\ q.by = "ai"
          /\ q.failed = turn[t].failed
      BY <1>m, <2>q, <1>pcs, <2>4 DEF TurnSet, Voices
    <2> HIDE DEF q
    <2>6. Becomes(t, turn'[t]) /\ turn'[t] = q
      BY <1>t, <2>3, <2>5, OneTurn DEF Becomes
    <2>7. OneVoiceAt(q) /\ q.pc \notin ActingPCs
      BY <1>t, <2>1, <2>4, <2>5 DEF OneVoiceAt, FlowPCs, PausePCs, AnswerPCs, ActingPCs
    <2> QED
      BY <1>quiet, <2>1, <2>6, <2>7
  <1>19. ASSUME NEW t \in Turns, Analyse(t) PROVE P
    <2>1. End(t) /\ UNCHANGED <<meta, written, overlapped, bots>>
      BY <1>19 DEF Analyse
    <2>2. /\ writer' \in [Writers -> WriterSet]
          /\ \A w \in Writers : writer'[w].pc = "writing" => writer'[w] = writer[w]
      <3>1. CASE UNCHANGED writer
        BY <1>t, <3>1
      <3>2. ASSUME NEW w \in Writers, writer' = [writer EXCEPT ![w].pc = "reading"]
            PROVE  /\ writer' \in [Writers -> WriterSet]
                   /\ \A v \in Writers : writer'[v].pc = "writing" => writer'[v] = writer[v]
        BY <1>t, <3>2 DEF WriterSet
      <3> QED
        BY <1>19, <3>1, <3>2 DEF Analyse
    <2> QED
      BY <1>idle, <2>1, <2>2
  <1>20. ASSUME NEW t \in Turns, ReadToPause(t) PROVE P
    <2> DEFINE q == [turn[t] EXCEPT !.seen = meta, !.pc = "pause"]
    <2>1. /\ turn[t].pc = "readToPause" /\ turn' = [turn EXCEPT ![t] = q]
          /\ UNCHANGED <<meta, written, writer, overlapped, bots>>
      BY <1>20 DEF ReadToPause
    <2>q. turn[t] \in TurnSet
      BY <1>t
    <2>2. /\ q \in TurnSet /\ q.pc = "pause" /\ q.said = turn[t].said /\ q.by = turn[t].by
          /\ q.failed = turn[t].failed
      BY <1>m, <2>q, <1>pcs DEF TurnSet
    <2> HIDE DEF q
    <2>3. Becomes(t, turn'[t]) /\ turn'[t] = q
      BY <1>t, <2>1, <2>2, OneTurn DEF Becomes
    <2>4. OneVoiceAt(q) /\ q.pc \notin ActingPCs
      BY <1>t, <2>1, <2>2 DEF OneVoiceAt, FlowPCs, PausePCs, AnswerPCs, ActingPCs
    <2> QED
      BY <1>quiet, <2>1, <2>3, <2>4
  <1>21. ASSUME NEW t \in Turns, Pause(t) PROVE P
    <2> DEFINE new == [turn[t].seen EXCEPT !.paused = TRUE]
    <2>1. turn[t].pc = "pause" /\ Write(t, new) /\ UNCHANGED <<written, writer, bots>>
      BY <1>21 DEF Pause
    <2>2. new \in Metadata /\ new.paused
      BY <1>t DEF TurnSet, Metadata
    <2> HIDE DEF new
    <2>3. CASE turn[t].by = "ai"
      <3>1. Leave(t, "analyse", turn[t].failed) /\ turn[t].failed \in BOOLEAN
        BY <1>21, <1>t, <2>3 DEF Pause, TurnSet
      <3>2. /\ Becomes(t, turn'[t]) /\ turn'[t].pc = "analyse" /\ turn'[t].said = turn[t].said
            /\ turn'[t].failed = turn[t].failed
        BY <1>t, <1>p, <3>1, LeaveDoes
      <3>3. OneVoiceAt(turn'[t]) /\ turn'[t].pc \notin ActingPCs
        BY <1>t, <2>1, <2>3, <3>2 DEF OneVoiceAt, FlowPCs, PausePCs, AnswerPCs, ActingPCs
      <3> QED
        BY <2>1, <2>2, <3>2, <3>3, WritingTurn
    <2>4. CASE turn[t].by # "ai"
      <3>1. End(t)
        BY <1>21, <2>4 DEF Pause
      <3>2. Becomes(t, Idle) /\ turn'[t] = Idle
        BY <1>t, <3>1, EndDoes DEF Becomes
      <3>3. Idle.pc \notin ActingPCs
        BY IdleTyped DEF ActingPCs, FlowPCs
      <3> QED
        BY <2>1, <2>2, <3>2, <3>3, IdleTyped, WritingTurn
    <2> QED
      BY <2>3, <2>4
  <1>22. ASSUME NEW t \in Turns, Fails(t) PROVE P
    <2>1. CASE FlowFails(t)
      <3>1. Leave(t, "rules", TRUE) /\ overlapped' = overlapped \ {t} /\ UNCHANGED <<meta, written, writer, bots>>
        BY <2>1 DEF FlowFails, Forget
      <3>2. Becomes(t, turn'[t]) /\ turn'[t].pc = "rules" /\ turn'[t].failed = TRUE
        BY <1>t, <1>p, <3>1, LeaveDoes
      <3>3. OneVoiceAt(turn'[t]) /\ turn'[t].pc \notin ActingPCs
        BY <3>2 DEF OneVoiceAt, FlowPCs, PausePCs, AnswerPCs, ActingPCs
      <3> QED
        BY <1>quiet, <3>1, <3>2, <3>3
    <2>2. CASE AnswerFails(t)
      <3>1. /\ InAnswer(t) /\ Leave(t, "analyse", turn[t].failed) /\ turn[t].failed \in BOOLEAN
            /\ overlapped' = overlapped \ {t} /\ UNCHANGED <<meta, written, writer, bots>>
        BY <1>t, <2>2 DEF AnswerFails, Forget, TurnSet
      <3>2. /\ Becomes(t, turn'[t]) /\ turn'[t].pc = "analyse" /\ turn'[t].said = turn[t].said
            /\ turn'[t].failed = turn[t].failed
        BY <1>t, <1>p, <3>1, LeaveDoes
      <3>3. "flow" \notin turn[t].said \/ turn[t].failed
        BY <1>t, <3>1 DEF OneVoiceAt, InAnswer, PausePCs, AnswerPCs
      <3>4. OneVoiceAt(turn'[t]) /\ turn'[t].pc \notin ActingPCs
        BY <3>2, <3>3 DEF OneVoiceAt, FlowPCs, PausePCs, AnswerPCs, ActingPCs
      <3> QED
        BY <1>quiet, <3>1, <3>2, <3>4
    <2>3. CASE TurnIsLost(t)
      BY <1>idle, <1>t, <2>3 DEF TurnIsLost, Forget
    <2> QED
      BY <1>22, <2>1, <2>2, <2>3 DEF Fails
  <1>23. ASSUME NEW w \in Writers, WriterStep(w) PROVE P
    BY <1>23, WriterDoes
  <1>24. ASSUME Edit PROVE P
    BY <1>24, EditDoes
  <1> HIDE DEF P
  <1>25. P
    BY NextCases, <1>1, <1>2, <1>3, <1>4, <1>5, <1>6, <1>7, <1>8, <1>9, <1>10, <1>11, <1>12,
       <1>13, <1>14, <1>15, <1>16, <1>17, <1>18, <1>19, <1>20, <1>21, <1>22, <1>23, <1>24
  <1> QED
    BY <1>25 DEF P

-----------------------------------------------------------------------------
(***************************************************************************)
(* The theorems.                                                           *)
(***************************************************************************)
LEMMA InitInv == Init => IInv
  <1> SUFFICES ASSUME Init PROVE IInv
    OBVIOUS
  <1> DEFINE z == [pc |-> "idle", seen |-> Idle.seen]
  <1>1. z \in WriterSet /\ z.pc = "idle"
    BY IdleTyped DEF WriterSet
  <1>2. 0 \in 0 .. MaxMessages
    BY NumbersAssumption
  <1>3. TypeOK
    BY <1>1, <1>2, IdleTyped DEF Init, TypeOK, TurnSet, WriterSet
  <1>4. Spoken
    BY IdleTyped DEF Init, Spoken
  <1>5. Noticed
    BY IdleTyped DEF Init, Noticed
  <1> QED
    BY <1>3, <1>4, <1>5 DEF IInv

LEMMA StutterInv == ASSUME IInv, UNCHANGED vars PROVE IInv'
  BY DEF vars, bots, chat, IInv, TypeOK, Spoken, Noticed

\* The invariant holds throughout.
THEOREM Invariance == Spec => []IInv
  <1>1. IInv /\ [Next]_vars => IInv'
    BY NextInv, StutterInv
  <1> QED
    BY InitInv, <1>1, PTL DEF Spec

\* Every variable keeps its type (TypeOK), however turns overlap.
THEOREM Typing == Spec => []TypeOK
  <1>1. IInv => TypeOK
    BY DEF IInv
  <1> QED
    BY <1>1, Invariance, PTL

\* What the chatbot has answered no rule and no AI answers as well (OneVoice).
THEOREM OneAnswers == Spec => []OneVoice
  <1>1. IInv => OneVoice
    <2> SUFFICES ASSUME IInv, NEW t \in Turns, "flow" \in turn[t].said, ~turn[t].failed
                 PROVE  turn[t].said \cap {"rule", "ai"} = {}
      BY DEF OneVoice
    <2>1. OneVoiceAt(turn[t]) /\ turn[t].pc \in PCs
      BY Parts DEF IInv, Spoken, TurnSet
    <2> QED
      BY <2>1 DEF OneVoiceAt, PCs, FlowPCs, PausePCs, AnswerPCs
  <1> QED
    BY <1>1, Invariance, PTL

\* While the bots are paused only who had passed the check before says anything
\* (SilentAfterPause).
THEOREM Silence == Spec => []SilentAfterPause
  <1>1. IInv => SilentAfterPause
    BY DEF IInv, Noticed, SilentAfterPause, ActingPCs, FlowPCs
  <1> QED
    BY <1>1, Invariance, PTL

\* The pause is only taken back by a write on metadata older than it (PauseIsKept).
THEOREM StayBack == Spec => PauseIsKept
  <1>1. IInv /\ [Next]_vars => [PauseTakenBack]_vars
    BY NextInv
  <1>2. [PauseTakenBack]_vars =>
           [meta.paused /\ ~meta'.paused =>
               \E p \in overlapped :
                  \/ p \in Turns /\ turn'[p] # turn[p]
                  \/ p \in Writers /\ writer'[p] # writer[p]]_vars
    BY DEF PauseTakenBack
  <1> QED
    BY <1>1, <1>2, Invariance, PTL DEF Spec, PauseIsKept

=============================================================================

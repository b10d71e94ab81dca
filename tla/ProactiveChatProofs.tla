------------------------ MODULE ProactiveChatProofs ------------------------
(***************************************************************************)
(* Agents open no more chats with a visitor than can race, for any number  *)
(* of requests and chats.  A request that found no chat in the way may     *)
(* still create one; it is counted with the chats that were created and    *)
(* never finished.  When a request passes the check there are none of the  *)
(* latter, and afterwards each chat created uses up a request.             *)
(***************************************************************************)
EXTENDS ProactiveChat, FiniteSetTheorems, SequenceTheorems, TLAPS

\* Requests that passed the check and have not created their chat.
Creating == {r \in Starts : start[r].pc = "creating"}

Bounded == Cardinality(ProactiveChats) + Cardinality(Creating) <= Cardinality(Starts)

\* A request that is about to push has created its chat.
PushesAChat == \A r \in Starts : start[r].pc = "pushing" => start[r].chat # None

Typed == TypeOK /\ PushesAChat

\* The inductive invariant.
IInv == Typed /\ Bounded

Calls == [pc : {"idle", "creating", "pushing"}, chat : 1 .. MaxChats \cup {None}]
Messages == [pc : {"idle", "posting", "answering"}, chat : 1 .. MaxChats \cup {None}]

-----------------------------------------------------------------------------
(***************************************************************************)
(* Lemmas.                                                                 *)
(***************************************************************************)

\* The steps of Next, one by one.
LEMMA NextCases ==
    ASSUME Next, NEW P,
           ASSUME NEW r \in Starts, Look(r) PROVE P,
           ASSUME NEW r \in Starts, Create(r) PROVE P,
           ASSUME NEW r \in Starts, Push(r) PROVE P,
           ASSUME NEW r \in Starts, LoseStart(r) PROVE P,
           ASSUME NEW f \in Firsts, Write(f) PROVE P,
           ASSUME NEW f \in Firsts, CreateFirst(f) PROVE P,
           ASSUME NEW f \in Firsts, ReceiveFirst(f) PROVE P,
           ASSUME NEW f \in Firsts, LoseFirst(f) PROVE P,
           ASSUME NEW b \in Beats, AnswerBeat(b) PROVE P,
           ASSUME NEW b \in Beats, ReceiveBeat(b) PROVE P,
           ASSUME NEW b \in Beats, LoseBeat(b) PROVE P,
           ASSUME NEW c \in ChatIds, Finish(c) PROVE P,
           ASSUME NEW c \in ChatIds, Reopen(c) PROVE P,
           ASSUME Connect PROVE P,
           ASSUME ReceivePush PROVE P,
           ASSUME Disconnect PROVE P,
           ASSUME Reload PROVE P
    PROVE  P
  BY DEF Next

\* The chats and the requests that are counted are finite sets.
LEMMA Counts ==
    ASSUME TypeOK
    PROVE  /\ IsFiniteSet(ProactiveChats) /\ Cardinality(ProactiveChats) \in Nat
           /\ IsFiniteSet(Creating) /\ Cardinality(Creating) \in Nat
           /\ Cardinality(Creating) <= Cardinality(Starts)
           /\ Cardinality(Starts) \in Nat
  <1>1. Len(chats) \in Nat /\ ProactiveChats \subseteq 1 .. Len(chats)
    BY DEF TypeOK, ProactiveChats, ChatIds
  <1>2. IsFiniteSet(1 .. Len(chats))
    BY <1>1, FS_Interval
  <1>3. Creating \subseteq Starts
    BY DEF Creating
  <1> QED
    BY <1>1, <1>2, <1>3, StartsAssumption, FS_Subset, FS_CardinalityType

\* Changing the status of one chat changes nothing else.
LEMMA Marked ==
    ASSUME TypeOK, NEW c \in ChatIds, NEW s \in Unfinished \cup {"finished"},
           chats' = [chats EXCEPT ![c] = s]
    PROVE  /\ chats' \in Seq(Unfinished \cup {"finished"})
           /\ Len(chats') = Len(chats)
           /\ ChatIds' = ChatIds
           /\ chats'[c] = s
           /\ \A d \in ChatIds : d # c => chats'[d] = chats[d]
  <1>1. chats \in Seq(Unfinished \cup {"finished"}) /\ ChatIds = 1 .. Len(chats)
    BY DEF TypeOK, ChatIds
  <1> QED
    BY <1>1, ExceptSeq DEF ChatIds

\* A new chat comes after all the others.
LEMMA Added ==
    ASSUME TypeOK, NEW s \in Unfinished \cup {"finished"}, chats' = Append(chats, s)
    PROVE  /\ Len(chats) + 1 \notin ChatIds
           /\ ChatIds' = ChatIds \cup {Len(chats) + 1}
           /\ chats'[Len(chats) + 1] = s
           /\ \A d \in ChatIds : chats'[d] = chats[d]
  <1>1. chats \in Seq(Unfinished \cup {"finished"}) /\ ChatIds = 1 .. Len(chats)
    BY DEF TypeOK, ChatIds
  <1>2. /\ Len(chats') = Len(chats) + 1
        /\ chats' \in Seq(Unfinished \cup {"finished"})
    BY <1>1
  <1> QED
    BY <1>1, <1>2 DEF ChatIds

\* The newest chat is one of the visitor's: it is the one with the least distance
\* from the bound.
LEMMA NewestExists ==
    ASSUME TypeOK, Active # {}
    PROVE  Newest \in 1 .. MaxChats
  <1> DEFINE Distances == {MaxChats - c : c \in Active}
  <1>1. Len(chats) \in Nat /\ Len(chats) <= MaxChats /\ Active \subseteq 1 .. Len(chats)
    BY DEF TypeOK, Active, ChatIds
  <1>2. Active \subseteq 1 .. MaxChats /\ Distances \subseteq Nat /\ Distances # {}
    BY <1>1, MaxChatsAssumption
  <1>3. PICK d \in Distances : \A e \in Distances : ~(<<e, d>> \in OpToRel(<, Nat))
    <2> HIDE DEF Distances
    <2> QED
      BY <1>2, NatLessThanWellFounded, WFMin
  <1>4. PICK c \in Active : d = MaxChats - c
    OBVIOUS
  <1>5. ASSUME NEW e \in Active PROVE e <= c
    <2>1. ~(<<MaxChats - e, MaxChats - c>> \in OpToRel(<, Nat))
      BY <1>3, <1>4
    <2>2. MaxChats - e \in Nat /\ MaxChats - c \in Nat
      BY <1>2
    <2>3. ~(MaxChats - e < MaxChats - c)
      BY <2>1, <2>2 DEF OpToRel
    <2> QED
      BY <2>3, <1>2, MaxChatsAssumption
  <1>6. Newest \in Active
    BY <1>5 DEF Newest
  <1> QED
    BY <1>6, <1>2

-----------------------------------------------------------------------------
(***************************************************************************)
(* Type correctness.                                                       *)
(***************************************************************************)
LEMMA InitTyped == Init => Typed
  <1> SUFFICES ASSUME Init PROVE Typed
    OBVIOUS
  <1>1. chats \in Seq(Unfinished \cup {"finished"}) /\ Len(chats) = 0
    BY EmptySeq DEF Init
  <1>2. pushes \in Seq(1 .. MaxChats)
    BY EmptySeq DEF Init
  <1>3. /\ start \in [Starts -> Calls] /\ first \in [Firsts -> Messages]
        /\ \A r \in Starts : start[r].pc = "idle"
    BY DEF Init, Idle, Calls, Messages
  <1>4. /\ shown \in 1 .. MaxChats \cup {None} /\ connected \in BOOLEAN
        /\ beat \in [Beats -> 1 .. MaxChats \cup {None}]
    BY DEF Init
  <1> QED
    BY <1>1, <1>2, <1>3, <1>4, MaxChatsAssumption DEF Typed, TypeOK, PushesAChat, Calls, Messages

\* Every step keeps the state typed.
LEMMA NextTyped == Typed /\ [Next]_vars => Typed'
  <1> SUFFICES ASSUME Typed, Next PROVE Typed'
    <2>1. CASE UNCHANGED vars
      BY <2>1 DEF Typed, TypeOK, PushesAChat, vars
    <2> QED
      BY <2>1
  <1> USE NoneAssumption, MaxChatsAssumption DEF Typed
  <1>0. /\ Idle \in Calls /\ Idle \in Messages
        /\ \A r \in Starts : start[r] \in Calls
    BY DEF Idle, Calls, Messages, TypeOK
  <1>a. ASSUME Len(chats) < MaxChats PROVE Len(chats) + 1 \in 1 .. MaxChats
    BY <1>a DEF TypeOK
  <1>1. ASSUME NEW r \in Starts, Look(r) PROVE Typed'
    BY <1>1 DEF Look, page, TypeOK, PushesAChat
  <1>2. ASSUME NEW r \in Starts, Create(r) PROVE Typed'
    <2>1. chats' \in Seq(Unfinished \cup {"finished"}) /\ Len(chats') <= MaxChats
      BY <1>2 DEF Create, AddChat, TypeOK, Unfinished
    <2>2. /\ [pc |-> "pushing", chat |-> Len(chats) + 1] \in Calls
          /\ Len(chats) + 1 # None
      BY <1>2, <1>a DEF Create, AddChat, Calls
    <2> QED
      BY <1>2, <2>1, <2>2 DEF Create, page, TypeOK, PushesAChat, Calls
  <1>3. ASSUME NEW r \in Starts, Push(r) PROVE Typed'
    <2>0. start[r].chat \in 1 .. MaxChats
      BY <1>3, <1>0 DEF Push, PushesAChat, Calls
    <2>1. pushes' \in Seq(1 .. MaxChats)
      <3>1. pushes \in Seq(1 .. MaxChats)
        BY DEF TypeOK
      <3>2. Append(pushes, start[r].chat) \in Seq(1 .. MaxChats)
        BY <2>0, <3>1
      <3> QED
        BY <1>3, <3>1, <3>2 DEF Push
    <2> QED
      BY <1>3, <2>1, <1>0 DEF Push, TypeOK, PushesAChat, Calls, Idle
  <1>4. ASSUME NEW r \in Starts, LoseStart(r) PROVE Typed'
    BY <1>4, <1>0 DEF LoseStart, page, TypeOK, PushesAChat, Calls, Idle
  <1>5. ASSUME NEW f \in Firsts, Write(f) PROVE Typed'
    BY <1>5 DEF Write, page, TypeOK, PushesAChat
  <1>6. ASSUME NEW f \in Firsts, CreateFirst(f) PROVE Typed'
    <2>1. chats' \in Seq(Unfinished \cup {"finished"}) /\ Len(chats') <= MaxChats
      BY <1>6 DEF CreateFirst, AddChat, TypeOK, Unfinished
    <2>2. [pc |-> "answering", chat |-> Len(chats) + 1] \in Messages
      BY <1>6, <1>a DEF CreateFirst, AddChat, Messages
    <2> QED
      BY <1>6, <2>1, <2>2 DEF CreateFirst, page, TypeOK, PushesAChat, Messages
  <1>7. ASSUME NEW f \in Firsts, ReceiveFirst(f) PROVE Typed'
    BY <1>7, <1>0 DEF ReceiveFirst, TypeOK, PushesAChat, Messages
  <1>8. ASSUME NEW f \in Firsts, LoseFirst(f) PROVE Typed'
    BY <1>8, <1>0 DEF LoseFirst, page, TypeOK, PushesAChat, Messages
  <1>9. ASSUME NEW b \in Beats, AnswerBeat(b) PROVE Typed'
    BY <1>9, NewestExists DEF AnswerBeat, TypeOK, PushesAChat
  <1>10. ASSUME NEW b \in Beats, ReceiveBeat(b) PROVE Typed'
    BY <1>10 DEF ReceiveBeat, Adopt, TypeOK, PushesAChat
  <1>11. ASSUME NEW b \in Beats, LoseBeat(b) PROVE Typed'
    BY <1>11 DEF LoseBeat, TypeOK, PushesAChat
  <1>12. ASSUME NEW c \in ChatIds, Finish(c) PROVE Typed'
    <2>1. chats' \in Seq(Unfinished \cup {"finished"}) /\ Len(chats') = Len(chats)
      BY <1>12, Marked DEF Finish
    <2> QED
      BY <1>12, <2>1 DEF Finish, page, TypeOK, PushesAChat
  <1>13. ASSUME NEW c \in ChatIds, Reopen(c) PROVE Typed'
    <2>1. chats' \in Seq(Unfinished \cup {"finished"}) /\ Len(chats') = Len(chats)
      BY <1>13, Marked DEF Reopen, Unfinished
    <2> QED
      BY <1>13, <2>1 DEF Reopen, page, TypeOK, PushesAChat
  <1>14. ASSUME Connect PROVE Typed'
    BY <1>14 DEF Connect, TypeOK, PushesAChat
  <1>15. ASSUME ReceivePush PROVE Typed'
    BY <1>15 DEF ReceivePush, TypeOK, PushesAChat
  <1>16. ASSUME Disconnect PROVE Typed'
    <2>1. pushes' \in Seq(1 .. MaxChats)
      BY <1>16, EmptySeq DEF Disconnect
    <2> QED
      BY <1>16, <2>1 DEF Disconnect, TypeOK, PushesAChat
  <1>17. ASSUME Reload PROVE Typed'
    <2>1. pushes' \in Seq(1 .. MaxChats)
      BY <1>17, EmptySeq DEF Reload
    <2> QED
      BY <1>17, <2>1, <1>0 DEF Reload, TypeOK, PushesAChat, Messages
  <1> DEFINE P == Typed'
  <1>18. P
    <2> HIDE DEF P
    <2> QED
      BY <1>1, <1>2, <1>3, <1>4, <1>5, <1>6, <1>7, <1>8, <1>9, <1>10, <1>11, <1>12,
         <1>13, <1>14, <1>15, <1>16, <1>17, NextCases DEF P
  <1> QED
    BY <1>18

\* The state is well typed, whatever the number of requests, heartbeats and chats.
THEOREM Typing == Spec => []TypeOK
  <1>1. Typed => TypeOK
    BY DEF Typed
  <1> QED
    BY <1>1, InitTyped, NextTyped, PTL DEF Spec

-----------------------------------------------------------------------------
(***************************************************************************)
(* The bound on duplicates.                                                *)
(***************************************************************************)

\* A step that neither adds a counted chat nor lets a request pass keeps the bound.
LEMMA Shrinking ==
    ASSUME TypeOK, TypeOK', Bounded, ProactiveChats' \subseteq ProactiveChats,
           Creating' \subseteq Creating
    PROVE  Bounded'
  <1>1. /\ Cardinality(ProactiveChats') <= Cardinality(ProactiveChats)
        /\ Cardinality(Creating') <= Cardinality(Creating)
    BY Counts, FS_Subset
  <1>2. /\ Cardinality(ProactiveChats') \in Nat
        /\ Cardinality(Creating') \in Nat
    BY Counts, FS_Subset, FS_CardinalityType
  <1> QED
    BY <1>1, <1>2, Counts DEF Bounded

\* Every step keeps chats and requests together within the bound.
LEMMA Preserved == IInv /\ [Next]_vars => IInv'
  <1> SUFFICES ASSUME IInv, Next PROVE IInv'
    <2>1. CASE UNCHANGED vars
      BY <2>1 DEF IInv, Typed, TypeOK, PushesAChat, Bounded, ProactiveChats, ChatIds,
                  Creating, vars
    <2> QED
      BY <2>1
  <1>0. TypeOK /\ TypeOK' /\ Typed' /\ Bounded
    BY NextTyped DEF IInv, Typed
  <1> DEFINE P == Bounded'
  <1>a. ASSUME chats' = chats, start' = start PROVE P
    BY <1>a, <1>0, Shrinking DEF ProactiveChats, ChatIds, Creating
  <1>b. ASSUME NEW r \in Starts, chats' = chats, start' = [start EXCEPT ![r] = Idle] PROVE P
    <2>1. ProactiveChats' = ProactiveChats
      BY <1>b DEF ProactiveChats, ChatIds
    <2>2. Creating' \subseteq Creating
      BY <1>b, <1>0 DEF Creating, Idle, TypeOK
    <2> QED
      BY <2>1, <2>2, <1>0, Shrinking
  <1>c. ASSUME NEW c \in ChatIds, NEW s \in {"open", "finished"},
               chats' = [chats EXCEPT ![c] = s], start' = start
        PROVE  P
    <2>1. /\ ChatIds' = ChatIds /\ chats'[c] = s
          /\ \A d \in ChatIds : d # c => chats'[d] = chats[d]
      BY <1>c, <1>0, Marked DEF Unfinished
    <2>2. ProactiveChats' \subseteq ProactiveChats
      BY <2>1 DEF ProactiveChats
    <2>3. Creating' = Creating
      BY <1>c DEF Creating
    <2> QED
      BY <2>2, <2>3, <1>0, Shrinking
  \* A request passes the check only when there is no counted chat.
  <1>1. ASSUME NEW r \in Starts, Look(r) PROVE P
    <2>1. ProactiveChats' = {}
      BY <1>1 DEF Look, Active, ProactiveChats, ChatIds, Unfinished
    <2>2. Cardinality(ProactiveChats') = 0
      BY <2>1, FS_EmptySet
    <2>3. Creating' \subseteq Starts
      BY DEF Creating
    <2>4. /\ Cardinality(Creating') <= Cardinality(Starts)
          /\ Cardinality(Creating') \in Nat /\ Cardinality(Starts) \in Nat
      BY <2>3, StartsAssumption, FS_Subset, FS_CardinalityType
    <2> QED
      BY <2>2, <2>4 DEF Bounded
  \* A chat that is created uses up its request.
  <1>2. ASSUME NEW r \in Starts, Create(r) PROVE P
    <2> DEFINE new == Len(chats) + 1
    <2>1. chats' = Append(chats, "proactive") /\ "proactive" \in Unfinished \cup {"finished"}
      BY <1>2 DEF Create, AddChat, Unfinished
    <2>2. /\ new \notin ChatIds /\ ChatIds' = ChatIds \cup {new} /\ chats'[new] = "proactive"
          /\ \A d \in ChatIds : chats'[d] = chats[d]
      BY <2>1, <1>0, Added
    <2>3. ProactiveChats' = ProactiveChats \cup {new} /\ new \notin ProactiveChats
      BY <2>2 DEF ProactiveChats
    <2>4. r \in Creating /\ Creating' = Creating \ {r}
      BY <1>2, <1>0 DEF Create, Creating, TypeOK
    <2>5. /\ Cardinality(ProactiveChats') = Cardinality(ProactiveChats) + 1
          /\ Cardinality(Creating') = Cardinality(Creating) - 1
      BY <2>3, <2>4, <1>0, Counts, FS_AddElement, FS_RemoveElement
    <2> QED
      BY <2>5, <1>0, Counts DEF Bounded
  <1>3. ASSUME NEW r \in Starts, Push(r) PROVE P
    BY <1>3, <1>b DEF Push
  <1>4. ASSUME NEW r \in Starts, LoseStart(r) PROVE P
    BY <1>4, <1>b DEF LoseStart
  <1>5. ASSUME NEW f \in Firsts, Write(f) PROVE P
    BY <1>5, <1>a DEF Write
  <1>6. ASSUME NEW f \in Firsts, CreateFirst(f) PROVE P
    <2>1. chats' = Append(chats, "open") /\ "open" \in Unfinished \cup {"finished"}
      BY <1>6 DEF CreateFirst, AddChat, Unfinished
    <2>2. ProactiveChats' \subseteq ProactiveChats
      BY <2>1, <1>0, Added DEF ProactiveChats
    <2>3. Creating' = Creating
      BY <1>6 DEF CreateFirst, Creating
    <2> QED
      BY <2>2, <2>3, <1>0, Shrinking
  <1>7. ASSUME NEW f \in Firsts, ReceiveFirst(f) PROVE P
    BY <1>7, <1>a DEF ReceiveFirst
  <1>8. ASSUME NEW f \in Firsts, LoseFirst(f) PROVE P
    BY <1>8, <1>a DEF LoseFirst
  <1>9. ASSUME NEW b \in Beats, AnswerBeat(b) PROVE P
    BY <1>9, <1>a DEF AnswerBeat
  <1>10. ASSUME NEW b \in Beats, ReceiveBeat(b) PROVE P
    BY <1>10, <1>a DEF ReceiveBeat
  <1>11. ASSUME NEW b \in Beats, LoseBeat(b) PROVE P
    BY <1>11, <1>a DEF LoseBeat
  <1>12. ASSUME NEW c \in ChatIds, Finish(c) PROVE P
    BY <1>12, <1>c DEF Finish
  <1>13. ASSUME NEW c \in ChatIds, Reopen(c) PROVE P
    BY <1>13, <1>c DEF Reopen
  <1>14. ASSUME Connect PROVE P
    BY <1>14, <1>a DEF Connect
  <1>15. ASSUME ReceivePush PROVE P
    BY <1>15, <1>a DEF ReceivePush
  <1>16. ASSUME Disconnect PROVE P
    BY <1>16, <1>a DEF Disconnect
  <1>17. ASSUME Reload PROVE P
    BY <1>17, <1>a DEF Reload
  <1>18. P
    <2> HIDE DEF P
    <2> QED
      BY <1>1, <1>2, <1>3, <1>4, <1>5, <1>6, <1>7, <1>8, <1>9, <1>10, <1>11, <1>12,
         <1>13, <1>14, <1>15, <1>16, <1>17, NextCases
  <1> QED
    BY <1>18, <1>0 DEF IInv

\* At first there is nothing to count.
LEMMA InitBounded == Init => IInv
  <1> SUFFICES ASSUME Init PROVE IInv
    OBVIOUS
  <1>1. ProactiveChats = {} /\ Creating = {}
    BY DEF Init, ProactiveChats, ChatIds, Creating, Idle
  <1>2. Cardinality(Starts) \in Nat
    BY StartsAssumption, FS_CardinalityType
  <1> QED
    BY <1>1, <1>2, InitTyped, FS_EmptySet DEF IInv, Bounded

\* Chats and requests together stay within the bound.
THEOREM Invariance == Spec => []IInv
  <1> QED
    BY InitBounded, Preserved, PTL DEF Spec

\* startChat opens no more chats with a visitor, beside each other and before the
\* first of them is finished, than there are requests that can race.
THEOREM Duplicates == Spec => []DuplicatesAreBounded
  <1>1. IInv => DuplicatesAreBounded
    BY Counts DEF IInv, Typed, Bounded, DuplicatesAreBounded
  <1> QED
    BY <1>1, Invariance, PTL
=============================================================================

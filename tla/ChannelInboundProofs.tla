------------------------ MODULE ChannelInboundProofs ------------------------
(***************************************************************************)
(* Inbound messages are stored once, in one chat of their customer, none   *)
(* that was accepted is lost, and chats are left complete: for any number  *)
(* of customers, webhooks, messages, posts and crashes.                    *)
(*                                                                         *)
(* A post keeps between its statements what the database looked like when  *)
(* it read.  What carries over is that rows are only added: the chat a     *)
(* post holds stays the chat of its message (Placed), and each message of  *)
(* a webhook is still left in a post, stored, or ignored (Dealt).          *)
(***************************************************************************)
EXTENDS ChannelInbound, FiniteSetTheorems, SequenceTheorems, TLAPS

Pcs == {"free", "connecting", "checking", "finding", "opening",
        "joining", "storing", "touching", "answering"}
PostSet == [pc : Pcs, webhook : Webhooks \cup {<<>>}, left : Seq(Messages),
            connection : Nat \cup {None}, chat : Nat \cup {None}, row : Nat \cup {None}]
Row == [message : Messages, chat : Nat]

\* A post holds a chat, or is past the check for the connection.
Holding == {"joining", "storing", "touching"}
Connected == {"checking", "finding", "opening"} \cup Holding

\* What post q keeps fits the chats, rows, webhooks and connections there are.
Fits(q, ids, rs, sn, n) ==
    /\ q.connection \in 1 .. n \cup {None}
    /\ q.chat \in ids \cup {None}
    /\ q.row \in DOMAIN rs \cup {None}
    /\ q.pc \notin {"free", "answering"} => q.left # <<>>
    /\ q.pc # "free" => q.webhook \in sn /\ ToSet(q.left) \subseteq ToSet(q.webhook)
    /\ q.pc = "answering" => q.left = <<>>
    /\ q.pc \in Holding => q.chat \in ids
    /\ q.pc = "touching" =>
          q.row \in DOMAIN rs /\ rs[q.row].message = Head(q.left) /\ rs[q.row].chat = q.chat
    /\ q.pc \in Connected => q.connection # None

DataOK ==
    /\ chats \in Seq(Chat) /\ rows \in Seq(Row)
    /\ \A c \in ChatIds : chats[c].lastMessageAt \in DOMAIN rows \cup {None}
    /\ \A i \in DOMAIN rows : rows[i].chat \in ChatIds
SettingsOK == connections \in Nat \ {0} /\ connection \in 1 .. connections \cup {None}
PostsOK ==
    /\ post \in [Posts -> PostSet]
    /\ \A p \in Posts : Fits(post[p], ChatIds, rows, sent, connections)
OutsideOK ==
    /\ repliesTo \in [Messages -> Nat \cup {None}]
    /\ \A m \in Messages : repliesTo[m] \in ChatIds \cup {None}
    /\ sent \in SUBSET Webhooks /\ due \in SUBSET sent
    /\ ignored \in SUBSET Messages /\ failures \in 0 .. MaxFaults

Typed == DataOK /\ SettingsOK /\ PostsOK /\ OutsideOK

-----------------------------------------------------------------------------
(***************************************************************************)
(* Lemmas.                                                                 *)
(***************************************************************************)

\* The steps of Next, one by one.
LEMMA NextCases ==
    ASSUME Next, NEW P,
           ASSUME NEW w \in Webhooks, Write(w) PROVE P,
           ASSUME NEW p \in Posts, NEW w \in Webhooks, Deliver(p, w) PROVE P,
           ASSUME NEW p \in Posts, FindConnection(p) PROVE P,
           ASSUME NEW p \in Posts, Check(p) PROVE P,
           ASSUME NEW p \in Posts, Find(p) PROVE P,
           ASSUME NEW p \in Posts, Open(p) PROVE P,
           ASSUME NEW p \in Posts, OpenRefused(p) PROVE P,
           ASSUME NEW p \in Posts, Join(p) PROVE P,
           ASSUME NEW p \in Posts, Store(p) PROVE P,
           ASSUME NEW p \in Posts, StoreRefused(p) PROVE P,
           ASSUME NEW p \in Posts, Touch(p) PROVE P,
           ASSUME NEW p \in Posts, TouchRefused(p) PROVE P,
           ASSUME NEW p \in Posts, Answer(p) PROVE P,
           ASSUME NEW p \in Posts, Fail(p) PROVE P,
           ASSUME NEW c \in ChatIds, NEW s \in Settable, SetStatus(c, s) PROVE P,
           ASSUME Connect PROVE P,
           ASSUME Disconnect PROVE P
    PROVE  P
  BY DEF Next, Handle

LEMMA HeadTail ==
    ASSUME NEW S, NEW s \in Seq(S), s # <<>>
    PROVE  /\ Head(s) \in S /\ Tail(s) \in Seq(S)
           /\ Head(s) \in ToSet(s) /\ ToSet(Tail(s)) \subseteq ToSet(s)
           /\ ToSet(s) \subseteq {Head(s)} \cup ToSet(Tail(s))
           /\ Len(s) = 1 <=> Tail(s) = <<>>
  <1>1. Len(s) \in Nat \ {0} /\ DOMAIN s = 1 .. Len(s)
    BY EmptySeq
  <1>2. Head(s) = s[1] /\ Head(s) \in S
    BY <1>1
  <1>3. /\ Tail(s) \in Seq(S) /\ Len(Tail(s)) = Len(s) - 1
        /\ \A i \in 1 .. Len(s) - 1 : Tail(s)[i] = s[i + 1]
    BY <1>1
  <1>4. \A i \in 1 .. Len(s) : i = 1 \/ (i - 1 \in 1 .. Len(s) - 1 /\ s[i] = Tail(s)[i - 1])
    BY <1>1, <1>3
  <1>5. DOMAIN Tail(s) = 1 .. Len(s) - 1
    BY <1>1, <1>3
  <1>6. ASSUME NEW m \in ToSet(s) PROVE m = Head(s) \/ m \in ToSet(Tail(s))
    <2>1. PICK i \in 1 .. Len(s) : m = s[i]
      BY <1>1 DEF ToSet
    <2> QED
      BY <2>1, <1>2, <1>4, <1>5 DEF ToSet
  <1>7. ASSUME NEW m \in ToSet(Tail(s)) PROVE m \in ToSet(s)
    <2>1. PICK i \in 1 .. Len(s) - 1 : m = s[i + 1]
      BY <1>3, <1>5 DEF ToSet
    <2>2. i + 1 \in DOMAIN s
      BY <1>1
    <2> QED
      BY <2>1, <2>2 DEF ToSet
  <1>8. Head(s) \in ToSet(s)
    BY <1>1, <1>2 DEF ToSet
  <1>9. Len(s) = 1 <=> Tail(s) = <<>>
    <2>1. Tail(s) = <<>> <=> Len(Tail(s)) = 0
      BY <1>3, EmptySeq
    <2> QED
      BY <2>1, <1>1, <1>3
  <1> QED
    BY <1>2, <1>3, <1>6, <1>7, <1>8, <1>9

LEMMA ElementsOf == ASSUME NEW S, NEW s \in Seq(S) PROVE ToSet(s) \subseteq S
  BY DEF ToSet

\* A finite set of numbers that is not empty has its greatest element, Max.
LEMMA MaxIn ==
    ASSUME NEW S \in SUBSET Nat, NEW n \in Nat, \A x \in S : x <= n, S # {}
    PROVE  Max(S) \in S
  <1> DEFINE Distances == {n - c : c \in S}
  <1>1. \A c \in S : c \in Nat /\ n - c \in Nat
    OBVIOUS
  <1>2. Distances \subseteq Nat /\ Distances # {}
    BY <1>1
  <1>3. PICK d \in Distances : \A e \in Distances : ~(<<e, d>> \in OpToRel(<, Nat))
    <2> HIDE DEF Distances
    <2> QED
      BY <1>2, NatLessThanWellFounded, WFMin
  <1>4. PICK c \in S : d = n - c
    OBVIOUS
  <1>5. ASSUME NEW e \in S PROVE c >= e
    <2>1. ~(<<n - e, n - c>> \in OpToRel(<, Nat))
      BY <1>3, <1>4
    <2>2. n - e \in Nat /\ n - c \in Nat
      BY <1>1
    <2>3. ~(n - e < n - c)
      BY <2>1, <2>2 DEF OpToRel
    <2> QED
      BY <2>3
  <1> QED
    BY <1>5 DEF Max

\* What a post keeps stays there: chats, rows and webhooks are only added.
LEMMA FitsMore ==
    ASSUME NEW q, NEW ids, NEW ids2, NEW rs, NEW rs2, NEW sn, NEW sn2, NEW n \in Nat, NEW n2 \in Nat,
           Fits(q, ids, rs, sn, n), ids \subseteq ids2, sn \subseteq sn2, n <= n2,
           DOMAIN rs \subseteq DOMAIN rs2, \A i \in DOMAIN rs : rs2[i] = rs[i]
    PROVE  Fits(q, ids2, rs2, sn2, n2)
  BY DEF Fits

LEMMA TypedImplies == Typed => TypeOK
  BY DEF Typed, DataOK, SettingsOK, PostsOK, OutsideOK, TypeOK, Fits, PostSet, Pcs, Row

\* What a step of a post does to what it keeps.
LEMMA Gone ==
    ASSUME PostsOK, NEW p \in Posts, NEW pc \in Pcs, Goto(p, pc)
    PROVE  /\ post' \in [Posts -> PostSet]
           /\ post'[p].pc = pc /\ post'[p].webhook = post[p].webhook /\ post'[p].left = post[p].left
           /\ post'[p].connection = post[p].connection /\ post'[p].chat = post[p].chat
           /\ post'[p].row = post[p].row
           /\ \A x \in Posts : x # p => post'[x] = post[x]
  <1>1. post' = [post EXCEPT ![p] = [post[p] EXCEPT !.pc = pc]] /\ post[p] \in PostSet
    BY DEF Goto, PostsOK
  <1> QED
    BY <1>1 DEF PostsOK, PostSet

LEMMA FreeIn == Free \in PostSet /\ Free.pc = "free" /\ Free.left = <<>> /\ Free.connection = None
                /\ Free.chat = None /\ Free.row = None
  <1>1. <<>> \in Seq(Messages)
    BY EmptySeq
  <1> QED
    BY <1>1 DEF Free, PostSet, Pcs

LEMMA Refused ==
    ASSUME PostsOK, NEW p \in Posts, Refuse(p)
    PROVE  /\ post' \in [Posts -> PostSet] /\ post'[p] = Free
           /\ \A x \in Posts : x # p => post'[x] = post[x]
  BY FreeIn DEF PostsOK, Refuse

LEMMA Advanced ==
    ASSUME PostsOK, NEW p \in Posts, Advance(p), post[p].pc \notin {"free", "answering"}
    PROVE  /\ post' \in [Posts -> PostSet]
           /\ post'[p].pc = IF Tail(post[p].left) = <<>> THEN "answering" ELSE "connecting"
           /\ post'[p].webhook = post[p].webhook /\ post'[p].left = Tail(post[p].left)
           /\ post'[p].connection = None /\ post'[p].chat = None /\ post'[p].row = None
           /\ \A x \in Posts : x # p => post'[x] = post[x]
  <1> DEFINE q == [Free EXCEPT !.pc = IF Len(post[p].left) = 1 THEN "answering" ELSE "connecting",
                               !.webhook = post[p].webhook, !.left = Tail(post[p].left)]
  <1>1. post[p] \in PostSet /\ post[p].left # <<>>
    BY DEF PostsOK, Fits
  <1>2. post[p].left \in Seq(Messages) /\ post[p].webhook \in Webhooks \cup {<<>>}
    BY <1>1 DEF PostSet
  <1>3. Tail(post[p].left) \in Seq(Messages) /\ (Len(post[p].left) = 1 <=> Tail(post[p].left) = <<>>)
    BY <1>1, <1>2, HeadTail
  <1>4. /\ q \in PostSet /\ q.webhook = post[p].webhook /\ q.left = Tail(post[p].left)
        /\ q.pc = IF Tail(post[p].left) = <<>> THEN "answering" ELSE "connecting"
        /\ q.connection = None /\ q.chat = None /\ q.row = None
    BY <1>2, <1>3 DEF Free, PostSet, Pcs
  <1>5. post' = [post EXCEPT ![p] = q]
    BY DEF Advance
  <1> HIDE DEF q
  <1> QED
    BY <1>4, <1>5 DEF PostsOK

-----------------------------------------------------------------------------
(***************************************************************************)
(* Type correctness.                                                       *)
(***************************************************************************)

\* A chat is changed in place.
LEMMA Changed ==
    ASSUME DataOK, NEW c \in ChatIds, NEW d \in Chat, chats' = [chats EXCEPT ![c] = d]
    PROVE  /\ chats' \in Seq(Chat) /\ ChatIds' = ChatIds /\ chats'[c] = d
           /\ \A x \in ChatIds : x # c => chats'[x] = chats[x]
  <1>1. chats \in Seq(Chat) /\ ChatIds = 1 .. Len(chats)
    BY DEF DataOK, ChatIds
  <1> QED
    BY <1>1, ExceptSeq DEF ChatIds

\* A row is added at the end.
LEMMA Appended ==
    ASSUME NEW S, NEW s \in Seq(S), NEW e \in S, NEW t, t = Append(s, e)
    PROVE  /\ t \in Seq(S) /\ DOMAIN t = DOMAIN s \cup {Len(s) + 1} /\ Len(s) + 1 \notin DOMAIN s
           /\ t[Len(s) + 1] = e /\ \A i \in DOMAIN s : t[i] = s[i]
           /\ Len(s) + 1 \in Nat
  OBVIOUS

LEMMA InitTyped == Init => Typed
  <1> SUFFICES ASSUME Init PROVE Typed
    OBVIOUS
  <1>1. chats \in Seq(Chat) /\ rows \in Seq(Row) /\ ChatIds = {} /\ DOMAIN rows = {}
    BY EmptySeq DEF Init, ChatIds
  <1>2. DataOK
    BY <1>1 DEF DataOK
  <1>3. SettingsOK
    BY MaxFaultsAssumption DEF Init, SettingsOK
  <1>4. PostsOK
    BY FreeIn DEF Init, PostsOK, Fits, Holding, Connected
  <1>5. OutsideOK
    BY <1>1, MaxFaultsAssumption DEF Init, OutsideOK
  <1> QED
    BY <1>2, <1>3, <1>4, <1>5 DEF Typed

LEMMA NextTyped == Typed /\ [Next]_vars => Typed'
  <1> SUFFICES ASSUME Typed, [Next]_vars PROVE Typed'
    OBVIOUS
  <1> DEFINE P == Typed'
  <1>typed. DataOK /\ SettingsOK /\ PostsOK /\ OutsideOK
    BY DEF Typed
  <1>0. CASE UNCHANGED vars
    BY <1>0 DEF vars, Typed, DataOK, SettingsOK, PostsOK, OutsideOK, ChatIds
  <1>fits. ASSUME NEW p \in Posts PROVE Fits(post[p], ChatIds, rows, sent, connections) /\ post[p] \in PostSet
    BY <1>typed DEF PostsOK
  <1>n. connections \in Nat
    BY <1>typed, MaxFaultsAssumption DEF SettingsOK
  \* A step of post p that leaves the database alone.
  <1>step. ASSUME NEW p \in Posts, post' \in [Posts -> PostSet], \A x \in Posts : x # p => post'[x] = post[x],
                  Fits(post'[p], ChatIds, rows, sent, connections), UNCHANGED <<database, sent>>, OutsideOK'
           PROVE  P
    <2>1. ChatIds' = ChatIds /\ UNCHANGED <<chats, rows, sent, connection, connections>>
      BY <1>step DEF database, ChatIds
    <2>2. PostsOK'
      BY <1>step, <1>fits, <2>1 DEF PostsOK
    <2>3. DataOK' /\ SettingsOK'
      BY <2>1, <1>typed DEF DataOK, SettingsOK
    <2> QED
      BY <1>step, <2>2, <2>3 DEF Typed
  <1>out. ASSUME UNCHANGED <<repliesTo, sent, due, failures, ChatIds>>, ignored' \in SUBSET Messages
          PROVE OutsideOK'
    BY <1>out, <1>typed DEF OutsideOK
  <1>refuse. ASSUME NEW p \in Posts, Refuse(p), UNCHANGED <<database, sent>>, OutsideOK' PROVE P
    <2>1. Fits(Free, ChatIds, rows, sent, connections)
      BY FreeIn DEF Fits, Holding, Connected
    <2> QED
      BY <1>refuse, <1>typed, <1>step, <2>1, Refused
  <1>advance. ASSUME NEW p \in Posts, post[p].pc \notin {"free", "answering"}, Advance(p)
              PROVE  /\ post' \in [Posts -> PostSet]
                     /\ \A x \in Posts : x # p => post'[x] = post[x]
                     /\ Fits(post'[p], ChatIds, rows, sent, connections)
    <2>1. post[p].left # <<>> /\ post[p].left \in Seq(Messages)
      BY <1>advance, <1>fits DEF Fits, PostSet
    <2>2. ToSet(Tail(post[p].left)) \subseteq ToSet(post[p].left)
      BY <2>1, HeadTail
    <2> QED
      BY <1>advance, <1>fits, <1>typed, <2>2, Advanced DEF Fits, Holding, Connected
  <1>unch. ASSUME UNCHANGED <<database, ignored, outside>>
           PROVE  UNCHANGED <<database, sent>> /\ OutsideOK'
    <2>1. UNCHANGED <<repliesTo, sent, due, failures, ignored>> /\ UNCHANGED ChatIds
      BY <1>unch DEF outside, database, ChatIds
    <2> QED
      BY <1>unch, <2>1, <1>out, <1>typed DEF OutsideOK
  <1>1. ASSUME NEW w \in Webhooks, Write(w) PROVE P
    <2>1. UNCHANGED <<chats, rows, connection, connections, post, ChatIds>>
      BY <1>1 DEF Write, database, ChatIds
    <2>2. OutsideOK'
      <3>1. PICK t \in [ToSet(w) -> ChatIds \cup {None}] :
               repliesTo' = [m \in Messages |-> IF m \in ToSet(w) THEN t[m] ELSE repliesTo[m]]
        BY <1>1 DEF Write
      <3>2. ChatIds \subseteq Nat
        BY <1>typed DEF DataOK, ChatIds
      <3>3. /\ repliesTo' \in [Messages -> Nat \cup {None}]
            /\ \A m \in Messages : repliesTo'[m] \in ChatIds \cup {None}
        BY <3>1, <3>2, <1>typed DEF OutsideOK
      <3> QED
        BY <1>1, <2>1, <3>3, <1>typed DEF Write, OutsideOK
    <2>3. ASSUME NEW p \in Posts PROVE Fits(post[p], ChatIds, rows, sent', connections)
      BY <1>1, <1>n, <1>fits, FitsMore DEF Write
    <2>4. PostsOK'
      BY <2>1, <2>3, <1>typed DEF PostsOK
    <2>5. DataOK' /\ SettingsOK'
      BY <2>1, <1>typed DEF DataOK, SettingsOK
    <2> QED
      BY <2>2, <2>4, <2>5 DEF Typed
  <1>2. ASSUME NEW p \in Posts, NEW w \in Webhooks, Deliver(p, w) PROVE P
    <2> DEFINE q == [Free EXCEPT !.pc = "connecting", !.webhook = w, !.left = w]
    <2>1. w \in Seq(Messages) \ {<<>>} /\ w \in sent
      BY <1>2, <1>typed, WebhooksAssumption DEF Deliver, OutsideOK
    <2>2. q \in PostSet /\ Fits(q, ChatIds, rows, sent, connections)
      BY <2>1, FreeIn DEF Free, PostSet, Pcs, Fits, Holding, Connected
    <2>3. post' = [post EXCEPT ![p] = q]
      BY <1>2 DEF Deliver
    <2> HIDE DEF q
    <2>4. UNCHANGED <<database, ignored, outside>>
      BY <1>2 DEF Deliver
    <2> QED
      BY <2>2, <2>3, <2>4, <1>unch, <1>step, <1>typed DEF PostsOK
  <1>3. ASSUME NEW p \in Posts, FindConnection(p) PROVE P
    <2>1. post[p].left # <<>> /\ Current(p) \in Messages
      BY <1>3, <1>fits, HeadTail DEF FindConnection, Fits, PostSet, Current
    <2>2. UNCHANGED <<database, outside>> /\ UNCHANGED ChatIds /\ UNCHANGED <<repliesTo, sent, due, failures>>
      BY <1>3 DEF FindConnection, outside, database, ChatIds
    <2>3. OutsideOK'
      BY <1>3, <2>1, <2>2, <1>out, <1>typed DEF FindConnection, OutsideOK
    <2>4. CASE connection = None
      BY <1>3, <2>2, <2>3, <2>4, <1>advance, <1>step DEF FindConnection
    <2>5. CASE connection # None
      <3> DEFINE q == [post[p] EXCEPT !.pc = "checking", !.connection = connection]
      <3>1. connection \in 1 .. connections /\ connection \in Nat
        BY <2>5, <1>typed, <1>n DEF SettingsOK
      <3>2. q \in PostSet /\ Fits(q, ChatIds, rows, sent, connections)
        BY <1>3, <3>1, <2>1, <2>5, <1>fits DEF FindConnection, PostSet, Pcs, Fits, Holding, Connected
      <3>3. post' = [post EXCEPT ![p] = q]
        BY <1>3, <2>5 DEF FindConnection
      <3> HIDE DEF q
      <3> QED
        BY <2>2, <2>3, <3>2, <3>3, <1>step, <1>typed DEF PostsOK
    <2> QED
      BY <2>4, <2>5
  <1>goto. ASSUME NEW p \in Posts, NEW pc \in Pcs, Goto(p, pc), UNCHANGED <<database, sent>>, OutsideOK',
                  post[p].pc \in Connected, pc \in Connected \ Holding
           PROVE  P
    <2>1. Fits(post'[p], ChatIds, rows, sent, connections)
      BY <1>goto, <1>typed, <1>fits, Gone DEF Fits, Connected, Holding
    <2> QED
      BY <1>goto, <1>typed, <2>1, Gone, <1>step
  <1>4. ASSUME NEW p \in Posts, Check(p) PROVE P
    <2>1. UNCHANGED <<database, ignored, outside>> /\ post[p].pc = "checking"
      BY <1>4 DEF Check
    <2>2. CASE Advance(p)
      BY <2>1, <2>2, <1>unch, <1>advance, <1>step
    <2>3. CASE Goto(p, "finding")
      BY <2>1, <2>3, <1>unch, <1>goto DEF Pcs, Connected, Holding
    <2> QED
      BY <1>4, <2>2, <2>3 DEF Check
  <1>chat. ASSUME NEW m \in Messages, ChatFor(m) # None PROVE ChatFor(m) \in ChatIds
    <2>1. CASE repliesTo[m] # None
      BY <2>1, <1>typed DEF ChatFor, OutsideOK
    <2>2. CASE repliesTo[m] = None
      <3> DEFINE S == Unfinished(ThreadOf[m])
      <3>1. S # {} /\ ChatFor(m) = Max(S)
        BY <2>2, <1>chat DEF ChatFor
      <3>2. S \in SUBSET Nat /\ Len(chats) \in Nat /\ \A x \in S : x <= Len(chats)
        BY <1>typed DEF Unfinished, ChatIds, DataOK
      <3>3. S \subseteq ChatIds
        BY DEF Unfinished
      <3> HIDE DEF S
      <3> QED
        BY <3>1, <3>2, <3>3, MaxIn
    <2> QED
      BY <2>1, <2>2
  <1>5. ASSUME NEW p \in Posts, Find(p) PROVE P
    <2>1. UNCHANGED <<database, ignored, outside>> /\ post[p].pc = "finding"
      BY <1>5 DEF Find
    <2>2. CASE ChatFor(Current(p)) = None
      BY <1>5, <2>1, <2>2, <1>unch, <1>goto DEF Find, Pcs, Connected, Holding
    <2>3. CASE ChatFor(Current(p)) # None
      <3> DEFINE c == ChatFor(Current(p))
                 q == [post[p] EXCEPT !.pc = "storing", !.chat = c]
      <3>1. post[p].left # <<>> /\ Current(p) \in Messages
        BY <2>1, <1>fits, HeadTail DEF Fits, PostSet, Current
      <3>2. c \in ChatIds /\ c \in Nat
        BY <2>3, <3>1, <1>chat, <1>typed DEF ChatIds, DataOK
      <3> HIDE DEF c
      <3>3. q \in PostSet /\ Fits(q, ChatIds, rows, sent, connections)
        BY <2>1, <3>2, <1>fits DEF PostSet, Pcs, Fits, Holding, Connected
      <3>4. post' = [post EXCEPT ![p] = q]
        BY <1>5, <2>3 DEF Find, c
      <3> HIDE DEF q
      <3> QED
        BY <2>1, <3>3, <3>4, <1>unch, <1>step, <1>typed DEF PostsOK
    <2> QED
      BY <2>2, <2>3
  \* A step that adds a chat or a row, or changes a chat.
  <1>more. ASSUME NEW p \in Posts, post' \in [Posts -> PostSet], \A x \in Posts : x # p => post'[x] = post[x],
                  Fits(post'[p], ChatIds', rows', sent, connections),
                  ChatIds \subseteq ChatIds', DOMAIN rows \subseteq DOMAIN rows',
                  \A i \in DOMAIN rows : rows'[i] = rows[i],
                  DataOK', UNCHANGED <<connection, connections, ignored, outside>>
           PROVE  P
    <2>1. UNCHANGED <<connection, connections, ignored, repliesTo, sent, due, failures>>
      BY <1>more DEF outside
    <2>2. ASSUME NEW x \in Posts PROVE Fits(post'[x], ChatIds', rows', sent', connections')
      <3>1. CASE x = p
        BY <1>more, <2>1, <3>1
      <3>2. CASE x # p
        <4>1. Fits(post[x], ChatIds', rows', sent, connections)
          BY <1>more, <1>fits, <1>n, FitsMore
        <4> QED
          BY <1>more, <2>1, <3>2, <4>1
      <3> QED
        BY <3>1, <3>2
    <2>3. PostsOK'
      BY <1>more, <2>2 DEF PostsOK
    <2>4. SettingsOK'
      BY <2>1, <1>typed DEF SettingsOK
    <2>5. OutsideOK'
      BY <1>more, <2>1, <1>typed DEF OutsideOK
    <2> QED
      BY <1>more, <2>3, <2>4, <2>5 DEF Typed
  <1>6. ASSUME NEW p \in Posts, Open(p) PROVE P
    <2> DEFINE d == [thread |-> ThreadOf[Current(p)], status |-> "QUEUED", joined |-> FALSE, lastMessageAt |-> None]
               c == Len(chats) + 1
               q == [post[p] EXCEPT !.pc = "joining", !.chat = c]
    <2>1. post[p].pc = "opening" /\ chats' = Append(chats, d) /\ post' = [post EXCEPT ![p] = q]
      BY <1>6 DEF Open
    <2>2. UNCHANGED <<rows, connection, connections, ignored, outside>>
      BY <1>6 DEF Open
    <2>3. post[p].left # <<>> /\ Current(p) \in Messages
      BY <2>1, <1>fits, HeadTail DEF Fits, PostSet, Current
    <2>4. d \in Chat /\ d.lastMessageAt = None
      BY <2>3, ThreadOfAssumption DEF Chat, Active
    <2> HIDE DEF d
    <2>5. /\ chats' \in Seq(Chat) /\ ChatIds' = ChatIds \cup {c} /\ c \in Nat
          /\ chats'[c] = d /\ \A x \in ChatIds : chats'[x] = chats[x]
      BY <2>1, <2>4, <1>typed, Appended DEF DataOK, ChatIds
    <2> HIDE DEF c
    <2>6. q \in PostSet /\ Fits(q, ChatIds', rows', sent, connections)
      BY <2>1, <2>2, <2>5, <1>fits DEF PostSet, Pcs, Fits, Holding, Connected
    <2> HIDE DEF q
    <2>7. DataOK'
      BY <2>2, <2>4, <2>5, <1>typed DEF DataOK
    <2> QED
      BY <2>1, <2>2, <2>5, <2>6, <2>7, <1>more, <1>typed DEF PostsOK
  <1>7. ASSUME NEW p \in Posts, OpenRefused(p) PROVE P
    BY <1>7, <1>unch, <1>refuse DEF OpenRefused
  \* A step of p that changes the chat it holds.
  <1>change. ASSUME NEW p \in Posts, NEW c \in ChatIds, NEW d \in Chat, d.lastMessageAt \in DOMAIN rows \cup {None},
                    chats' = [chats EXCEPT ![c] = d], UNCHANGED <<rows, connection, connections, ignored, outside>>,
                    post' \in [Posts -> PostSet], \A x \in Posts : x # p => post'[x] = post[x],
                    Fits(post'[p], ChatIds, rows, sent, connections)
             PROVE  P
    <2>1. /\ chats' \in Seq(Chat) /\ ChatIds' = ChatIds /\ chats'[c] = d
          /\ \A x \in ChatIds : x # c => chats'[x] = chats[x]
      BY <1>change, <1>typed, Changed
    <2>2. UNCHANGED rows
      BY <1>change
    <2>3. DataOK'
      BY <1>change, <2>1, <2>2, <1>typed DEF DataOK
    <2> QED
      BY <1>change, <2>1, <2>2, <2>3, <1>more
  <1>8. ASSUME NEW p \in Posts, Join(p) PROVE P
    <2> DEFINE c == post[p].chat
               d == [chats[c] EXCEPT !.joined = TRUE]
    <2>1. post[p].pc = "joining" /\ chats' = [chats EXCEPT ![c] = d] /\ Goto(p, "storing")
      BY <1>8 DEF Join
    <2>2. c \in ChatIds
      BY <2>1, <1>fits DEF Fits, Holding
    <2>3. chats[c] \in Chat
      BY <2>2, <1>typed DEF DataOK, ChatIds
    <2>4. d \in Chat /\ d.lastMessageAt \in DOMAIN rows \cup {None}
      BY <2>2, <2>3, <1>typed DEF Chat, DataOK
    <2>5. /\ post' \in [Posts -> PostSet] /\ \A x \in Posts : x # p => post'[x] = post[x]
          /\ Fits(post'[p], ChatIds, rows, sent, connections)
      BY <2>1, <1>typed, <1>fits, Gone DEF Fits, Pcs, Connected, Holding
    <2> HIDE DEF c, d
    <2> QED
      BY <1>8, <2>1, <2>2, <2>4, <2>5, <1>change DEF Join
  <1>9. ASSUME NEW p \in Posts, Store(p) PROVE P
    <2> DEFINE d == [message |-> Current(p), chat |-> post[p].chat]
               i == Len(rows) + 1
               q == [post[p] EXCEPT !.pc = "touching", !.row = i]
    <2>1. post[p].pc = "storing" /\ rows' = Append(rows, d) /\ post' = [post EXCEPT ![p] = q]
      BY <1>9 DEF Store
    <2>2. UNCHANGED <<chats, connection, connections, ignored, outside>> /\ ChatIds' = ChatIds
      BY <1>9 DEF Store, ChatIds
    <2>3. post[p].left # <<>> /\ Current(p) \in Messages /\ post[p].chat \in ChatIds
      BY <2>1, <1>fits, HeadTail DEF Fits, PostSet, Current, Holding
    <2>4. d \in Row /\ d.message = Head(post[p].left) /\ d.chat = post[p].chat
      BY <2>3, <1>typed DEF Row, DataOK, ChatIds, Current
    <2> HIDE DEF d
    <2>5. /\ rows' \in Seq(Row) /\ DOMAIN rows' = DOMAIN rows \cup {i} /\ i \in Nat
          /\ rows'[i] = d /\ \A x \in DOMAIN rows : rows'[x] = rows[x]
      BY <2>1, <2>4, <1>typed, Appended DEF DataOK
    <2> HIDE DEF i
    <2>6. q \in PostSet
      BY <2>5, <1>fits DEF PostSet, Pcs
    <2>8. /\ q.pc = "touching" /\ q.row = i /\ q.chat = post[p].chat /\ q.left = post[p].left
          /\ q.webhook = post[p].webhook /\ q.connection = post[p].connection
      BY <1>fits DEF PostSet
    <2> HIDE DEF q
    <2>9. Fits(q, ChatIds', rows', sent, connections)
      BY <2>1, <2>2, <2>3, <2>4, <2>5, <2>8, <1>fits DEF Fits, Holding, Connected
    <2>7. DataOK'
      BY <2>2, <2>3, <2>4, <2>5, <1>typed DEF DataOK
    <2> QED
      BY <2>1, <2>2, <2>5, <2>6, <2>7, <2>9, <1>more, <1>typed DEF PostsOK
  <1>10. ASSUME NEW p \in Posts, StoreRefused(p) PROVE P
    BY <1>10, <1>unch, <1>refuse DEF StoreRefused
  <1>11. ASSUME NEW p \in Posts, Touch(p) PROVE P
    <2> DEFINE c == post[p].chat
               d == [chats[c] EXCEPT !.lastMessageAt = post[p].row]
    <2>1. post[p].pc = "touching" /\ chats' = [chats EXCEPT ![c] = d] /\ Advance(p)
      BY <1>11 DEF Touch
    <2>2. c \in ChatIds /\ post[p].row \in DOMAIN rows /\ post[p].row \in Nat
      BY <2>1, <1>fits, <1>typed DEF Fits, Holding, DataOK
    <2>3. chats[c] \in Chat
      BY <2>2, <1>typed DEF DataOK, ChatIds
    <2>4. d \in Chat /\ d.lastMessageAt \in DOMAIN rows \cup {None}
      BY <2>2, <2>3 DEF Chat
    <2> HIDE DEF c, d
    <2> QED
      BY <1>11, <2>1, <2>2, <2>4, <1>advance, <1>change, ZenonT(40) DEF Touch
  <1>12. ASSUME NEW p \in Posts, TouchRefused(p) PROVE P
    BY <1>12, <1>unch, <1>refuse DEF TouchRefused
  <1>13. ASSUME NEW p \in Posts, Answer(p) PROVE P
    <2>1. UNCHANGED <<database, sent>> /\ Refuse(p)
      BY <1>13 DEF Answer, Refuse
    <2>2. UNCHANGED ChatIds
      BY <2>1 DEF database, ChatIds
    <2>3. OutsideOK'
      BY <1>13, <2>2, <1>typed DEF Answer, OutsideOK
    <2> QED
      BY <2>1, <2>3, <1>refuse
  <1>14. ASSUME NEW p \in Posts, Fail(p) PROVE P
    <2>1. UNCHANGED <<database, sent>> /\ Refuse(p)
      BY <1>14 DEF Fail
    <2>2. UNCHANGED ChatIds
      BY <2>1 DEF database, ChatIds
    <2>3. failures' \in 0 .. MaxFaults
      BY <1>14, <1>typed, MaxFaultsAssumption DEF Fail, Faults, OutsideOK, SettingsOK
    <2>4. OutsideOK'
      BY <1>14, <2>2, <2>3, <1>typed DEF Fail, OutsideOK
    <2> QED
      BY <2>1, <2>4, <1>refuse
  <1>15. ASSUME NEW c \in ChatIds, NEW s \in Settable, SetStatus(c, s) PROVE P
    <2> DEFINE d == [chats[c] EXCEPT !.status = s]
    <2>1. chats' = [chats EXCEPT ![c] = d] /\ UNCHANGED <<rows, connection, connections, post, ignored, outside>>
      BY <1>15 DEF SetStatus
    <2>3. chats[c] \in Chat
      BY <1>typed DEF DataOK, ChatIds
    <2>4. d \in Chat /\ d.lastMessageAt \in DOMAIN rows \cup {None}
      BY <2>3, <1>typed, SettableAssumption DEF Chat, DataOK, Active, Finished
    <2> HIDE DEF d
    <2>5. /\ chats' \in Seq(Chat) /\ ChatIds' = ChatIds /\ chats'[c] = d
          /\ \A x \in ChatIds : x # c => chats'[x] = chats[x]
      BY <2>1, <2>4, <1>typed, Changed
    <2>6. UNCHANGED <<rows, connection, connections, post, repliesTo, sent, due, failures, ignored>>
      BY <2>1 DEF outside
    <2>7. DataOK' /\ SettingsOK' /\ PostsOK' /\ OutsideOK'
      BY <2>4, <2>5, <2>6, <1>typed DEF DataOK, SettingsOK, PostsOK, OutsideOK
    <2> QED
      BY <2>7 DEF Typed
  <1>16. ASSUME Connect PROVE P
    <2>1. UNCHANGED <<chats, rows, post, repliesTo, sent, due, failures, ignored, ChatIds>>
      BY <1>16 DEF Connect, outside, ChatIds
    <2>2. SettingsOK' /\ connections' = connections + 1
      BY <1>16, <1>n, <1>typed, MaxFaultsAssumption DEF Connect, SettingsOK
    <2>3. \A p \in Posts : Fits(post[p], ChatIds, rows, sent, connections')
      BY <2>2, <1>n, <1>fits, FitsMore
    <2>4. DataOK' /\ PostsOK' /\ OutsideOK'
      BY <2>1, <2>3, <1>typed DEF DataOK, PostsOK, OutsideOK
    <2> QED
      BY <2>2, <2>4 DEF Typed
  <1>17. ASSUME Disconnect PROVE P
    <2>1. UNCHANGED <<chats, rows, connections, post, repliesTo, sent, due, failures, ignored, ChatIds>>
      BY <1>17 DEF Disconnect, outside, ChatIds
    <2>2. SettingsOK'
      BY <1>17, <1>typed DEF Disconnect, SettingsOK
    <2>4. DataOK' /\ PostsOK' /\ OutsideOK'
      BY <2>1, <1>typed DEF DataOK, PostsOK, OutsideOK
    <2> QED
      BY <2>2, <2>4 DEF Typed
  <1> HIDE DEF P
  <1>18. Next => P
    BY <1>1, <1>2, <1>3, <1>4, <1>5, <1>6, <1>7, <1>8, <1>9, <1>10, <1>11, <1>12, <1>13, <1>14, <1>15,
       <1>16, <1>17, NextCases
  <1> QED
    BY <1>0, <1>18 DEF P

\* Chats, rows, posts and webhooks stay well typed, and every reference of
\* storeInbound is to a row that is there.
THEOREM Typing == Spec => []TypeOK
  BY InitTyped, NextTyped, TypedImplies, PTL DEF Spec

\* The chat a message is given is one of the chats: the one it answers, or one of its thread.
InChat(m, c) == IF repliesTo[m] # None THEN c = repliesTo[m] ELSE chats[c].thread = ThreadOf[m]

LEMMA ChatForIn ==
    ASSUME Typed, NEW m \in Messages, ChatFor(m) # None
    PROVE  ChatFor(m) \in ChatIds /\ InChat(m, ChatFor(m))
  <1>1. CASE repliesTo[m] # None
    BY <1>1 DEF ChatFor, Typed, OutsideOK, InChat
  <1>2. CASE repliesTo[m] = None
    <2> DEFINE S == Unfinished(ThreadOf[m])
    <2>1. S # {} /\ ChatFor(m) = Max(S)
      BY <1>2 DEF ChatFor
    <2>2. S \in SUBSET Nat /\ Len(chats) \in Nat /\ \A x \in S : x <= Len(chats)
      BY DEF Typed, Unfinished, ChatIds, DataOK
    <2>3. \A x \in S : x \in ChatIds /\ chats[x].thread = ThreadOf[m]
      BY DEF Unfinished
    <2> HIDE DEF S
    <2> QED
      BY <1>2, <2>1, <2>2, <2>3, MaxIn DEF InChat
  <1> QED
    BY <1>1, <1>2

\* What post p works on.
LEMMA Working ==
    ASSUME Typed, NEW p \in Posts, post[p].pc \notin {"free", "answering"}
    PROVE  /\ post[p].left # <<>> /\ post[p].left \in Seq(Messages)
           /\ Current(p) = Head(post[p].left) /\ Current(p) \in Messages
           /\ post[p].webhook \in sent /\ Current(p) \in ToSet(post[p].webhook)
           /\ ToSet(post[p].left) \subseteq {Current(p)} \cup ToSet(Tail(post[p].left))
  <1>1. post[p] \in PostSet /\ Fits(post[p], ChatIds, rows, sent, connections)
    BY DEF Typed, PostsOK
  <1>2. post[p].left # <<>> /\ post[p].left \in Seq(Messages) /\ post[p].webhook \in sent
        /\ ToSet(post[p].left) \subseteq ToSet(post[p].webhook)
    BY <1>1 DEF Fits, PostSet
  <1> QED
    BY <1>2, HeadTail DEF Current

-----------------------------------------------------------------------------
(***************************************************************************)
(* A message is in the chat it answers, or in the one of its thread.       *)
(***************************************************************************)
Placed ==
    /\ \A c, d \in ChatIds : chats[c].thread = chats[d].thread => c = d
    /\ \A i \in DOMAIN rows : InChat(rows[i].message, rows[i].chat)
    /\ \A i \in DOMAIN rows : \E w \in sent : rows[i].message \in ToSet(w)
    /\ \A p \in Posts : post[p].pc \in Holding => InChat(Head(post[p].left), post[p].chat)
    /\ \A p \in Posts : post[p].pc = "opening" => repliesTo[Head(post[p].left)] = None

LEMMA PlacedNext == Typed /\ Placed /\ [Next]_vars => Placed'
  <1> SUFFICES ASSUME Typed, Placed, [Next]_vars PROVE Placed'
    OBVIOUS
  <1> DEFINE P == Placed'
  <1>typed. DataOK /\ SettingsOK /\ PostsOK /\ OutsideOK
    BY DEF Typed
  <1>pc. \A p \in Posts : post[p].pc \in Pcs
    BY <1>typed DEF PostsOK, PostSet
  <1>0. CASE UNCHANGED vars
    BY <1>0 DEF vars, Placed, InChat, ChatIds
  <1>in. \A p \in Posts : post[p].pc \in Holding => post[p].chat \in ChatIds
    BY <1>typed DEF PostsOK, Fits
  <1>step. ASSUME NEW p \in Posts, \A x \in Posts : x # p => post'[x] = post[x],
                  ChatIds' = ChatIds, \A c \in ChatIds : chats'[c].thread = chats[c].thread,
                  UNCHANGED <<rows, repliesTo, sent>>,
                  post'[p].pc \in Holding =>
                     \/ post[p].pc \in Holding /\ post'[p].left = post[p].left /\ post'[p].chat = post[p].chat
                     \/ InChat(Head(post'[p].left), post'[p].chat) /\ post'[p].chat \in ChatIds,
                  post'[p].pc = "opening" => repliesTo[Head(post'[p].left)] = None
           PROVE  P
    <2>1. \A m, c : c \in ChatIds /\ InChat(m, c) =>
             IF repliesTo'[m] # None THEN c = repliesTo'[m] ELSE chats'[c].thread = ThreadOf[m]
      BY <1>step DEF InChat
    <2>2. ASSUME NEW i \in DOMAIN rows' PROVE InChat(rows[i].message, rows[i].chat)'
      BY <1>step, <1>typed, <2>1 DEF Placed, DataOK, InChat
    <2>3. ASSUME NEW x \in Posts, post'[x].pc \in Holding PROVE InChat(Head(post[x].left), post[x].chat)'
      <3>1. CASE x = p
        BY <1>step, <1>in, <2>1, <2>3, <3>1 DEF Placed, InChat
      <3>2. CASE x # p
        BY <1>step, <1>in, <2>1, <2>3, <3>2 DEF Placed, InChat
      <3> QED
        BY <3>1, <3>2
    <2>4. \A x \in Posts : post'[x].pc = "opening" => repliesTo'[Head(post'[x].left)] = None
      BY <1>step DEF Placed
    <2> QED
      BY <1>step, <2>2, <2>3, <2>4 DEF Placed
  <1>refuse. ASSUME NEW p \in Posts, Refuse(p), UNCHANGED <<database, repliesTo, sent>> PROVE P
    BY <1>refuse, <1>step, <1>typed, Refused, FreeIn DEF database, ChatIds, Holding
  <1>advance. ASSUME NEW p \in Posts, Advance(p), post[p].pc \notin {"free", "answering"},
                     ChatIds' = ChatIds, \A c \in ChatIds : chats'[c].thread = chats[c].thread,
                     UNCHANGED <<rows, repliesTo, sent>> PROVE P
    BY <1>advance, <1>step, <1>typed, Advanced DEF Holding
  <1>1. ASSUME NEW w \in Webhooks, Write(w) PROVE P
    <2>1. UNCHANGED <<chats, rows, post, ChatIds>> /\ sent \subseteq sent' /\ w \notin sent
      BY <1>1 DEF Write, database, ChatIds
    <2>2. ASSUME NEW m \in Messages, NEW v \in sent, m \in ToSet(v) PROVE repliesTo'[m] = repliesTo[m]
      <3>1. v \in Webhooks /\ v # w
        BY <2>1, <1>typed DEF OutsideOK
      <3>2. m \notin ToSet(w)
        BY <2>2, <3>1, WebhooksAssumption
      <3> QED
        BY <1>1, <3>2 DEF Write
    <2>3. ASSUME NEW i \in DOMAIN rows PROVE InChat(rows[i].message, rows[i].chat)'
      <3>1. PICK v \in sent : rows[i].message \in ToSet(v)
        BY DEF Placed
      <3>2. rows[i].message \in Messages
        <4>1. rows[i] \in Row
          BY <1>typed DEF DataOK
        <4> QED
          BY <4>1 DEF Row
      <3> QED
        BY <2>1, <2>2, <3>1, <3>2 DEF Placed, InChat
    <2>4. ASSUME NEW x \in Posts, post[x].pc \notin {"free", "answering"}
          PROVE  repliesTo'[Head(post[x].left)] = repliesTo[Head(post[x].left)]
      BY <2>2, <2>4, Working
    <2>5. ASSUME NEW x \in Posts, post[x].pc \in Holding PROVE InChat(Head(post[x].left), post[x].chat)'
      BY <2>1, <2>4, <2>5 DEF Placed, InChat, Holding
    <2> QED
      BY <2>1, <2>3, <2>4, <2>5 DEF Placed
  <1>2. ASSUME NEW p \in Posts, NEW w \in Webhooks, Deliver(p, w) PROVE P
    <2> DEFINE q == [Free EXCEPT !.pc = "connecting", !.webhook = w, !.left = w]
    <2>1. post' = [post EXCEPT ![p] = q] /\ q.pc = "connecting"
      BY <1>2 DEF Deliver, Free
    <2> HIDE DEF q
    <2>2. UNCHANGED <<database, repliesTo, sent>>
      BY <1>2 DEF Deliver, outside
    <2> QED
      BY <2>1, <2>2, <1>step, <1>typed DEF PostsOK, database, ChatIds, Holding
  <1>3. ASSUME NEW p \in Posts, FindConnection(p) PROVE P
    <2>1. UNCHANGED <<chats, rows, repliesTo, sent, ChatIds>> /\ post[p].pc = "connecting"
      BY <1>3 DEF FindConnection, database, outside, ChatIds
    <2>2. CASE Advance(p)
      BY <2>1, <2>2, <1>advance
    <2>3. CASE ~Advance(p)
      <3> DEFINE q == [post[p] EXCEPT !.pc = "checking", !.connection = connection]
      <3>1. post' = [post EXCEPT ![p] = q] /\ q.pc = "checking"
        BY <1>3, <2>3, <1>typed, ZenonT(40) DEF FindConnection, PostsOK, PostSet
      <3> HIDE DEF q
      <3> QED
        BY <2>1, <3>1, <1>step, <1>typed DEF PostsOK, Holding
    <2> QED
      BY <2>2, <2>3
  <1>4. ASSUME NEW p \in Posts, Check(p) PROVE P
    <2>1. UNCHANGED <<chats, rows, repliesTo, sent, ChatIds>> /\ post[p].pc = "checking"
      BY <1>4 DEF Check, database, outside, ChatIds
    <2>2. CASE Advance(p)
      BY <2>1, <2>2, <1>advance
    <2>3. CASE Goto(p, "finding")
      BY <2>1, <2>3, <1>step, <1>typed, Gone DEF Pcs, Holding
    <2> QED
      BY <1>4, <2>2, <2>3 DEF Check
  <1>5. ASSUME NEW p \in Posts, Find(p) PROVE P
    <2>1. UNCHANGED <<chats, rows, repliesTo, sent, ChatIds>> /\ post[p].pc = "finding"
      BY <1>5 DEF Find, database, outside, ChatIds
    <2>2. Current(p) \in Messages /\ Current(p) = Head(post[p].left)
      BY <2>1, Working
    <2>3. CASE ChatFor(Current(p)) = None
      <3>1. repliesTo[Current(p)] = None
        BY <2>3 DEF ChatFor
      <3>2. Goto(p, "opening")
        BY <1>5, <2>3 DEF Find
      <3> QED
        BY <2>1, <2>2, <3>1, <3>2, <1>step, <1>typed, Gone DEF Pcs, Holding
    <2>4. CASE ChatFor(Current(p)) # None
      <3> DEFINE c == ChatFor(Current(p))
                 q == [post[p] EXCEPT !.pc = "storing", !.chat = c]
      <3>1. c \in ChatIds /\ InChat(Current(p), c)
        BY <2>2, <2>4, ChatForIn
      <3> HIDE DEF c
      <3>2. post' = [post EXCEPT ![p] = q]
        BY <1>5, <2>4 DEF Find, c
      <3>3. post[p] \in PostSet
        BY <1>typed DEF PostsOK
      <3>4. q.pc = "storing" /\ q.chat = c /\ q.left = post[p].left
        BY <3>3 DEF PostSet
      <3> HIDE DEF q
      <3> QED
        BY <2>1, <2>2, <3>1, <3>2, <3>4, <1>step, <1>typed DEF PostsOK, Holding
    <2> QED
      BY <2>3, <2>4
  <1>6. ASSUME NEW p \in Posts, Open(p) PROVE P
    <2> DEFINE d == [thread |-> ThreadOf[Current(p)], status |-> "QUEUED", joined |-> FALSE, lastMessageAt |-> None]
               c == Len(chats) + 1
               q == [post[p] EXCEPT !.pc = "joining", !.chat = c]
    <2>1. /\ post[p].pc = "opening" /\ chats' = Append(chats, d) /\ post' = [post EXCEPT ![p] = q]
          /\ ThreadIsFree(ThreadOf[Current(p)]) /\ UNCHANGED <<rows, repliesTo, sent>>
      BY <1>6 DEF Open, outside
    <2>2. Current(p) = Head(post[p].left) /\ Current(p) \in Messages
      BY <2>1, Working
    <2>3. d \in Chat /\ d.thread = ThreadOf[Current(p)]
      BY <2>2, ThreadOfAssumption DEF Chat, Active
    <2> HIDE DEF d
    <2>4. /\ ChatIds' = ChatIds \cup {c} /\ c \notin ChatIds
          /\ chats'[c] = d /\ \A x \in ChatIds : chats'[x] = chats[x]
      BY <2>1, <2>3, <1>typed, Appended DEF DataOK, ChatIds
    <2> HIDE DEF c
    <2>5. q.pc = "joining" /\ q.chat = c /\ q.left = post[p].left
      BY <1>typed DEF PostsOK, PostSet
    <2> HIDE DEF q
    <2>6. post'[p] = q /\ \A x \in Posts : x # p => post'[x] = post[x]
      BY <2>1, <1>typed DEF PostsOK
    <2>7. \A x, y \in ChatIds' : chats'[x].thread = chats'[y].thread => x = y
      <3>1. \A x \in ChatIds : chats'[x].thread = chats[x].thread /\ chats[x].thread # chats'[c].thread
        BY <2>1, <2>3, <2>4 DEF ThreadIsFree
      <3>2. \A x, y \in ChatIds : chats[x].thread = chats[y].thread => x = y
        BY DEF Placed
      <3> QED
        BY <2>4, <3>1, <3>2
    <2>8. \A m, x : x \in ChatIds /\ InChat(m, x) =>
             IF repliesTo'[m] # None THEN x = repliesTo'[m] ELSE chats'[x].thread = ThreadOf[m]
      BY <2>1, <2>4 DEF InChat
    <2>9. ASSUME NEW i \in DOMAIN rows' PROVE InChat(rows[i].message, rows[i].chat)'
      BY <2>1, <2>8, <1>typed, ZenonT(40) DEF Placed, DataOK, InChat
    <2>10. ASSUME NEW x \in Posts, post'[x].pc \in Holding PROVE InChat(Head(post[x].left), post[x].chat)'
      <3>1. CASE x = p
        <4>1. repliesTo[Current(p)] = None
          BY <2>1, <2>2 DEF Placed
        <4>2. repliesTo'[Current(p)] = None /\ chats'[c].thread = ThreadOf[Current(p)]
          BY <2>1, <2>3, <2>4, <4>1
        <4>3. Head(post'[x].left) = Current(p) /\ post'[x].chat = c
          BY <2>2, <2>5, <2>6, <3>1
        <4> QED
          BY <4>2, <4>3 DEF InChat
      <3>2. CASE x # p
        <4>1. post'[x] = post[x] /\ post[x].chat \in ChatIds /\ InChat(Head(post[x].left), post[x].chat)
          BY <2>6, <2>10, <3>2, <1>in DEF Placed
        <4> QED
          BY <2>8, <4>1 DEF InChat
      <3> QED
        BY <3>1, <3>2
    <2>11. \A x \in Posts : post'[x].pc = "opening" => repliesTo'[Head(post'[x].left)] = None
      BY <2>1, <2>5, <2>6 DEF Placed
    <2> QED
      BY <2>1, <2>7, <2>9, <2>10, <2>11 DEF Placed
  <1>7. ASSUME NEW p \in Posts, OpenRefused(p) PROVE P
    BY <1>7, <1>refuse DEF OpenRefused, outside
  <1>8. ASSUME NEW p \in Posts, Join(p) PROVE P
    <2> DEFINE c == post[p].chat
               d == [chats[c] EXCEPT !.joined = TRUE]
    <2>1. post[p].pc = "joining" /\ chats' = [chats EXCEPT ![c] = d] /\ Goto(p, "storing")
      BY <1>8 DEF Join
    <2>2. c \in ChatIds /\ chats[c] \in Chat
      BY <2>1, <1>in, <1>typed DEF Holding, DataOK, ChatIds
    <2>3. d \in Chat /\ d.thread = chats[c].thread
      BY <2>2 DEF Chat
    <2> HIDE DEF d
    <2>4. ChatIds' = ChatIds /\ \A x \in ChatIds : chats'[x].thread = chats[x].thread
      BY <2>1, <2>2, <2>3, <1>typed, Changed
    <2>5. UNCHANGED <<rows, repliesTo, sent>>
      BY <1>8 DEF Join, outside
    <2> QED
      BY <2>1, <2>4, <2>5, <1>step, <1>typed, Gone DEF Pcs, Holding
  <1>9. ASSUME NEW p \in Posts, Store(p) PROVE P
    <2> DEFINE d == [message |-> Current(p), chat |-> post[p].chat]
               i == Len(rows) + 1
               q == [post[p] EXCEPT !.pc = "touching", !.row = i]
    <2>1. /\ post[p].pc = "storing" /\ rows' = Append(rows, d) /\ post' = [post EXCEPT ![p] = q]
          /\ UNCHANGED <<chats, repliesTo, sent, ChatIds>>
      BY <1>9 DEF Store, outside, ChatIds
    <2>2. /\ Current(p) = Head(post[p].left) /\ Current(p) \in Messages
          /\ post[p].webhook \in sent /\ Current(p) \in ToSet(post[p].webhook)
      BY <2>1, Working
    <2>3. d \in Row /\ d.message = Current(p) /\ d.chat = post[p].chat
      BY <2>1, <2>2, <1>in, <1>typed DEF Row, DataOK, ChatIds, Holding
    <2> HIDE DEF d
    <2>4. /\ DOMAIN rows' = DOMAIN rows \cup {i} /\ i \notin DOMAIN rows
          /\ rows'[i] = d /\ \A x \in DOMAIN rows : rows'[x] = rows[x]
      BY <2>1, <2>3, <1>typed, Appended DEF DataOK
    <2> HIDE DEF i
    <2>5. q.pc = "touching" /\ q.chat = post[p].chat /\ q.left = post[p].left
      BY <1>typed DEF PostsOK, PostSet
    <2> HIDE DEF q
    <2>6. post'[p] = q /\ \A x \in Posts : x # p => post'[x] = post[x]
      BY <2>1, <1>typed DEF PostsOK
    <2>7. InChat(Current(p), post[p].chat)
      BY <2>1, <2>2 DEF Placed, Holding
    <2>8. \A x \in Posts : post'[x].pc \in Holding =>
             post[x].pc \in Holding /\ post'[x].left = post[x].left /\ post'[x].chat = post[x].chat
      BY <2>1, <2>5, <2>6 DEF Holding
    <2>9. \A x \in DOMAIN rows' : InChat(rows'[x].message, rows'[x].chat)
      BY <2>3, <2>4, <2>7 DEF Placed
    <2>10. \A x \in DOMAIN rows' : \E w \in sent : rows'[x].message \in ToSet(w)
      BY <2>2, <2>3, <2>4 DEF Placed
    <2> QED
      BY <2>1, <2>5, <2>6, <2>8, <2>9, <2>10 DEF Placed, InChat
  <1>10. ASSUME NEW p \in Posts, StoreRefused(p) PROVE P
    BY <1>10, <1>refuse DEF StoreRefused, outside
  <1>11. ASSUME NEW p \in Posts, Touch(p) PROVE P
    <2> DEFINE c == post[p].chat
               d == [chats[c] EXCEPT !.lastMessageAt = post[p].row]
    <2>1. post[p].pc = "touching" /\ chats' = [chats EXCEPT ![c] = d] /\ Advance(p)
      BY <1>11 DEF Touch
    <2>2. c \in ChatIds /\ chats[c] \in Chat /\ post[p].row \in Nat \cup {None}
      BY <2>1, <1>in, <1>typed DEF Holding, DataOK, ChatIds, PostsOK, PostSet
    <2>3. d \in Chat /\ d.thread = chats[c].thread
      BY <2>2 DEF Chat
    <2> HIDE DEF d
    <2>4. ChatIds' = ChatIds /\ \A x \in ChatIds : chats'[x].thread = chats[x].thread
      BY <2>1, <2>2, <2>3, <1>typed, Changed
    <2>5. UNCHANGED <<rows, repliesTo, sent>>
      BY <1>11 DEF Touch, outside
    <2> QED
      BY <2>1, <2>4, <2>5, <1>advance
  <1>12. ASSUME NEW p \in Posts, TouchRefused(p) PROVE P
    BY <1>12, <1>refuse DEF TouchRefused, outside
  <1>13. ASSUME NEW p \in Posts, Answer(p) PROVE P
    BY <1>13, <1>refuse DEF Answer, Refuse
  <1>14. ASSUME NEW p \in Posts, Fail(p) PROVE P
    BY <1>14, <1>refuse DEF Fail
  <1>15. ASSUME NEW c \in ChatIds, NEW s \in Settable, SetStatus(c, s) PROVE P
    <2> DEFINE d == [chats[c] EXCEPT !.status = s]
    <2>1. chats' = [chats EXCEPT ![c] = d] /\ UNCHANGED <<rows, post, repliesTo, sent>>
      BY <1>15 DEF SetStatus, outside
    <2>2. chats[c] \in Chat
      BY <1>typed DEF DataOK, ChatIds
    <2>3. d \in Chat /\ d.thread = chats[c].thread
      BY <2>2, SettableAssumption DEF Chat, Active, Finished
    <2> HIDE DEF d
    <2>4. ChatIds' = ChatIds /\ \A x \in ChatIds : chats'[x].thread = chats[x].thread
      BY <2>1, <2>3, <1>typed, Changed
    <2>5. \A m, x : x \in ChatIds /\ InChat(m, x) =>
             IF repliesTo'[m] # None THEN x = repliesTo'[m] ELSE chats'[x].thread = ThreadOf[m]
      BY <2>1, <2>4 DEF InChat
    <2>6. ASSUME NEW i \in DOMAIN rows' PROVE InChat(rows[i].message, rows[i].chat)'
      BY <2>1, <2>5, <1>typed DEF Placed, DataOK, InChat
    <2>7. ASSUME NEW x \in Posts, post'[x].pc \in Holding PROVE InChat(Head(post[x].left), post[x].chat)'
      BY <2>1, <2>5, <2>7, <1>in, ZenonT(40) DEF Placed, InChat
    <2> QED
      BY <2>1, <2>4, <2>6, <2>7 DEF Placed
  <1>16. ASSUME Connect PROVE P
    BY <1>16 DEF Connect, outside, Placed, InChat, ChatIds
  <1>17. ASSUME Disconnect PROVE P
    BY <1>17 DEF Disconnect, outside, Placed, InChat, ChatIds
  <1> HIDE DEF P
  <1>18. Next => P
    BY <1>1, <1>2, <1>3, <1>4, <1>5, <1>6, <1>7, <1>8, <1>9, <1>10, <1>11, <1>12, <1>13, <1>14, <1>15,
       <1>16, <1>17, NextCases
  <1> QED
    BY <1>0, <1>18 DEF P

\* What a customer writes on one thread is in one chat: storeInbound looks for the
\* chat without a lock, the index on the thread lets one post create it.
THEOREM OneChat == Spec => []OneChatPerCustomer
  <1>1. Init => Placed
    <2> SUFFICES ASSUME Init PROVE Placed
      OBVIOUS
    <2>1. ChatIds = {} /\ DOMAIN rows = {}
      BY DEF Init, ChatIds
    <2> QED
      BY <2>1, FreeIn DEF Init, Placed, Holding
  <1>2. Typed /\ Placed => OneChatPerCustomer
    BY DEF Typed, DataOK, Placed, InChat, OneChatPerCustomer
  <1> QED
    BY InitTyped, NextTyped, PlacedNext, <1>1, <1>2, PTL DEF Spec

-----------------------------------------------------------------------------
(***************************************************************************)
(* A message is stored once, and what is accepted is kept.                 *)
(***************************************************************************)

\* Rows are added one at a time, for a message whose id is free.
LEMMA RowsGrow ==
    ASSUME Typed, [Next]_vars
    PROVE  \/ UNCHANGED rows
           \/ \E m \in Messages, c \in Nat :
                 MessageIdIsFree(m) /\ rows' = Append(rows, [message |-> m, chat |-> c])
  <1> DEFINE P == \/ UNCHANGED rows
                  \/ \E m \in Messages, c \in Nat :
                        MessageIdIsFree(m) /\ rows' = Append(rows, [message |-> m, chat |-> c])
  <1>1. ASSUME NEW p \in Posts, Store(p) PROVE P
    <2>1. Current(p) \in Messages
      BY <1>1, Working DEF Store
    <2>2. post[p].chat \in ChatIds /\ ChatIds \subseteq Nat
      BY <1>1 DEF Typed, PostsOK, Fits, Holding, Store, DataOK, ChatIds
    <2> QED
      BY <1>1, <2>1, <2>2 DEF Store
  <1>2. CASE UNCHANGED vars
    BY <1>2 DEF vars
  <1>3. Next => P
    <2>1. Next => UNCHANGED rows \/ \E p \in Posts : Store(p)
      BY DEF Next, Handle, Write, Deliver, FindConnection, Check, Find, Open, OpenRefused, Join, StoreRefused,
             Touch, TouchRefused, Answer, Fail, SetStatus, Connect, Disconnect, database
    <2> QED
      BY <2>1, <1>1
  <1> QED
    BY <1>2, <1>3

\* "Never store the same message twice" of storeInbound, however posts of a webhook
\* overlap and whatever process dies.
THEOREM Once == Spec => []StoredOnce
  <1>1. Init => StoredOnce
    BY DEF Init, StoredOnce
  <1>2. Typed /\ StoredOnce /\ [Next]_vars => StoredOnce'
    <2> SUFFICES ASSUME Typed, StoredOnce, [Next]_vars PROVE StoredOnce'
      OBVIOUS
    <2>1. CASE UNCHANGED rows
      BY <2>1 DEF StoredOnce
    <2>2. ASSUME NEW m \in Messages, NEW c \in Nat, MessageIdIsFree(m),
                 rows' = Append(rows, [message |-> m, chat |-> c])
          PROVE  StoredOnce'
      <3> DEFINE d == [message |-> m, chat |-> c]
                 n == Len(rows) + 1
      <3>1. d \in Row /\ d.message = m /\ rows \in Seq(Row)
        BY DEF Row, Typed, DataOK
      <3> HIDE DEF d
      <3>2. /\ DOMAIN rows' = DOMAIN rows \cup {n} /\ n \notin DOMAIN rows
            /\ rows'[n] = d /\ \A i \in DOMAIN rows : rows'[i] = rows[i]
        BY <2>2, <3>1, Appended DEF d
      <3> HIDE DEF n
      <3>3. \A i \in DOMAIN rows : rows[i].message = m => m \in Unnamed
        BY <2>2 DEF MessageIdIsFree, HasRow
      <3> QED
        BY <3>1, <3>2, <3>3 DEF StoredOnce
    <2> QED
      BY <2>1, <2>2, RowsGrow
  <1> QED
    BY InitTyped, NextTyped, <1>1, <1>2, PTL DEF Spec

\* What a post has dealt with is kept, and what is accepted was dealt with.
Dealt ==
    /\ \A p \in Posts : post[p].pc # "free" =>
          \A m \in ToSet(post[p].webhook) : Kept(m) \/ m \in ToSet(post[p].left)
    /\ \A w \in sent \ due : \A m \in ToSet(w) : Kept(m)

LEMMA KeptStays ==
    ASSUME Typed, [Next]_vars, ignored \subseteq ignored', NEW m, Kept(m)
    PROVE  Kept(m)'
  <1>1. CASE m \in ignored
    BY <1>1 DEF Kept
  <1>2. ASSUME NEW i \in DOMAIN rows, rows[i].message = m PROVE Kept(m)'
    <2>1. CASE UNCHANGED rows
      BY <1>2, <2>1 DEF Kept
    <2>2. ASSUME NEW d, d \in Row, rows' = Append(rows, d) PROVE Kept(m)'
      <3>1. DOMAIN rows \subseteq DOMAIN rows' /\ rows'[i] = rows[i]
        BY <2>2, Appended DEF Typed, DataOK
      <3> QED
        BY <1>2, <3>1 DEF Kept
    <2>3. ASSUME NEW y \in Messages, NEW c \in Nat, rows' = Append(rows, [message |-> y, chat |-> c])
          PROVE  Kept(m)'
      BY <2>2, <2>3 DEF Row
    <2> QED
      BY <2>1, <2>3, RowsGrow
  <1> QED
    BY <1>1, <1>2 DEF Kept

LEMMA DealtNext == Typed /\ Dealt /\ [Next]_vars => Dealt'
  <1> SUFFICES ASSUME Typed, Dealt, [Next]_vars PROVE Dealt'
    OBVIOUS
  <1> DEFINE P == Dealt'
  <1>typed. DataOK /\ SettingsOK /\ PostsOK /\ OutsideOK
    BY DEF Typed
  <1>kept. ignored \subseteq ignored' => \A m : Kept(m) => Kept(m)'
    BY KeptStays
  <1>0. CASE UNCHANGED vars
    BY <1>0 DEF vars, Dealt, Kept
  \* A step of post p: it ends, goes on with the same message, or with the next one
  \* after the one at hand is kept.
  <1>step. ASSUME NEW p \in Posts, \A x \in Posts : x # p => post'[x] = post[x], ignored \subseteq ignored',
                  UNCHANGED <<sent, due>>,
                  \/ post'[p].pc = "free"
                  \/ /\ post[p].pc # "free" /\ post'[p].webhook = post[p].webhook
                     /\ \A m \in ToSet(post[p].left) : Kept(m)' \/ m \in ToSet(post'[p].left)
           PROVE  P
    <2>1. ASSUME NEW x \in Posts, post'[x].pc # "free", NEW m \in ToSet(post'[x].webhook)
          PROVE  Kept(m)' \/ m \in ToSet(post'[x].left)
      <3>1. CASE x = p
        BY <1>step, <1>kept, <2>1, <3>1 DEF Dealt
      <3>2. CASE x # p
        BY <1>step, <1>kept, <2>1, <3>2 DEF Dealt
      <3> QED
        BY <3>1, <3>2
    <2>2. \A w \in sent' \ due' : \A m \in ToSet(w) : Kept(m)'
      BY <1>step, <1>kept DEF Dealt
    <2> QED
      BY <2>1, <2>2 DEF Dealt
  <1>refuse. ASSUME NEW p \in Posts, Refuse(p), UNCHANGED <<sent, due, ignored>> PROVE P
    BY <1>refuse, <1>step, <1>typed, Refused, FreeIn
  <1>goto. ASSUME NEW p \in Posts, NEW pc \in Pcs, Goto(p, pc), UNCHANGED <<sent, due, ignored>>, post[p].pc # "free"
           PROVE P
    BY <1>goto, <1>step, <1>typed, Gone
  <1>1. ASSUME NEW w \in Webhooks, Write(w) PROVE P
    <2>1. UNCHANGED <<post, rows, ignored>> /\ sent' = sent \cup {w} /\ due' = due \cup {w}
      BY <1>1 DEF Write, database
    <2> QED
      BY <2>1 DEF Dealt, Kept
  <1>2. ASSUME NEW p \in Posts, NEW w \in Webhooks, Deliver(p, w) PROVE P
    <2> DEFINE q == [Free EXCEPT !.pc = "connecting", !.webhook = w, !.left = w]
    <2>1. post' = [post EXCEPT ![p] = q] /\ q.webhook = w /\ q.left = w
      BY <1>2 DEF Deliver, Free
    <2> HIDE DEF q
    <2>2. UNCHANGED <<rows, sent, due, ignored>>
      BY <1>2 DEF Deliver, outside, database
    <2> QED
      BY <2>1, <2>2, <1>typed DEF PostsOK, Dealt, Kept
  <1>3. ASSUME NEW p \in Posts, FindConnection(p) PROVE P
    <2>1. UNCHANGED <<rows, sent, due>> /\ post[p].pc = "connecting"
      BY <1>3 DEF FindConnection, database, outside
    <2>2. CASE connection = None
      <3>1. Advance(p) /\ ignored' = ignored \cup {Current(p)}
        BY <1>3, <2>2 DEF FindConnection
      <3>2. \A m : m = Current(p) => m \in ignored'
        BY <3>1
      <3>3. post[p].pc \notin {"free", "answering"}
        BY <2>1
      <3>4. ToSet(post[p].left) \subseteq {Current(p)} \cup ToSet(Tail(post[p].left))
        BY <3>3, Working
      <3>5. \A m \in ToSet(post[p].left) : Kept(m)' \/ m \in ToSet(Tail(post[p].left))
        BY <3>2, <3>4 DEF Kept
      <3> QED
        BY <2>1, <3>1, <3>3, <3>5, <1>step, <1>typed, Advanced
    <2>3. CASE connection # None
      <3> DEFINE q == [post[p] EXCEPT !.pc = "checking", !.connection = connection]
      <3>1. /\ post' = [post EXCEPT ![p] = q] /\ UNCHANGED ignored
            /\ q.left = post[p].left /\ q.webhook = post[p].webhook
        BY <1>3, <2>3, <1>typed, ZenonT(40) DEF FindConnection, PostsOK, PostSet
      <3> HIDE DEF q
      <3> QED
        BY <2>1, <3>1, <1>step, <1>typed DEF PostsOK
    <2> QED
      BY <2>2, <2>3
  <1>4. ASSUME NEW p \in Posts, Check(p) PROVE P
    <2>1. UNCHANGED <<rows, sent, due, ignored>> /\ post[p].pc = "checking"
      BY <1>4 DEF Check, database, outside
    <2>2. CASE HasRow(Current(p))
      <3>1. Advance(p)
        BY <1>4, <2>2 DEF Check
      <3>2. PICK i \in DOMAIN rows : rows[i].message = Current(p)
        BY <2>2 DEF HasRow
      <3>3. \A m : m = Current(p) => Kept(m)'
        BY <2>1, <3>2 DEF Kept
      <3>4. ToSet(post[p].left) \subseteq {Current(p)} \cup ToSet(Tail(post[p].left))
        BY <2>1, Working
      <3>5. \A m \in ToSet(post[p].left) : Kept(m)' \/ m \in ToSet(Tail(post[p].left))
        BY <3>3, <3>4
      <3> QED
        BY <2>1, <3>1, <3>5, <1>step, <1>typed, Advanced
    <2>3. CASE ~HasRow(Current(p))
      BY <1>4, <2>1, <2>3, <1>goto DEF Check, Pcs
    <2> QED
      BY <2>2, <2>3
  <1>5. ASSUME NEW p \in Posts, Find(p) PROVE P
    <2>1. UNCHANGED <<rows, sent, due, ignored>> /\ post[p].pc = "finding"
      BY <1>5 DEF Find, database, outside
    <2>2. CASE ChatFor(Current(p)) = None
      BY <1>5, <2>1, <2>2, <1>goto DEF Find, Pcs
    <2>3. CASE ChatFor(Current(p)) # None
      <3> DEFINE q == [post[p] EXCEPT !.pc = "storing", !.chat = ChatFor(Current(p))]
      <3>1. post' = [post EXCEPT ![p] = q] /\ q.left = post[p].left /\ q.webhook = post[p].webhook
        BY <1>5, <2>3, <1>typed, ZenonT(40) DEF Find, PostsOK, PostSet
      <3> HIDE DEF q
      <3> QED
        BY <2>1, <3>1, <1>step, <1>typed DEF PostsOK
    <2> QED
      BY <2>2, <2>3
  <1>6. ASSUME NEW p \in Posts, Open(p) PROVE P
    <2> DEFINE q == [post[p] EXCEPT !.pc = "joining", !.chat = Len(chats) + 1]
    <2>1. post' = [post EXCEPT ![p] = q] /\ q.left = post[p].left /\ q.webhook = post[p].webhook
      BY <1>6, <1>typed DEF Open, PostsOK, PostSet
    <2>2. UNCHANGED <<rows, sent, due, ignored>> /\ post[p].pc = "opening"
      BY <1>6 DEF Open, outside
    <2> HIDE DEF q
    <2> QED
      BY <2>1, <2>2, <1>step, <1>typed DEF PostsOK
  <1>7. ASSUME NEW p \in Posts, OpenRefused(p) PROVE P
    BY <1>7, <1>refuse DEF OpenRefused, outside
  <1>8. ASSUME NEW p \in Posts, Join(p) PROVE P
    BY <1>8, <1>goto DEF Join, outside, Pcs
  <1>9. ASSUME NEW p \in Posts, Store(p) PROVE P
    <2> DEFINE q == [post[p] EXCEPT !.pc = "touching", !.row = Len(rows) + 1]
    <2>1. post' = [post EXCEPT ![p] = q] /\ q.left = post[p].left /\ q.webhook = post[p].webhook
      BY <1>9, <1>typed DEF Store, PostsOK, PostSet
    <2>2. UNCHANGED <<sent, due, ignored>> /\ post[p].pc = "storing"
      BY <1>9 DEF Store, outside
    <2> HIDE DEF q
    <2> QED
      BY <2>1, <2>2, <1>step, <1>typed DEF PostsOK
  <1>10. ASSUME NEW p \in Posts, StoreRefused(p) PROVE P
    BY <1>10, <1>refuse DEF StoreRefused, outside
  <1>11. ASSUME NEW p \in Posts, Touch(p) PROVE P
    <2>1. UNCHANGED <<rows, sent, due, ignored>> /\ post[p].pc = "touching" /\ Advance(p)
      BY <1>11 DEF Touch, outside
    <2>2. Current(p) = Head(post[p].left)
      BY DEF Current
    <2>3. post[p].row \in DOMAIN rows /\ rows[post[p].row].message = Current(p)
      BY <2>1, <2>2, <1>typed DEF PostsOK, Fits
    <2>4. \A m : m = Current(p) => Kept(m)'
      BY <2>1, <2>3 DEF Kept
    <2>5. ToSet(post[p].left) \subseteq {Current(p)} \cup ToSet(Tail(post[p].left))
      BY <2>1, Working
    <2>6. \A m \in ToSet(post[p].left) : Kept(m)' \/ m \in ToSet(Tail(post[p].left))
      BY <2>4, <2>5
    <2> QED
      BY <2>1, <2>6, <1>step, <1>typed, Advanced
  <1>12. ASSUME NEW p \in Posts, TouchRefused(p) PROVE P
    BY <1>12, <1>refuse DEF TouchRefused, outside
  <1>13. ASSUME NEW p \in Posts, Answer(p) PROVE P
    <2>1. /\ post[p].pc = "answering" /\ due' = due \ {post[p].webhook}
          /\ Refuse(p) /\ UNCHANGED <<rows, sent, ignored>>
      BY <1>13 DEF Answer, Refuse, database
    <2>2. post[p].left = <<>>
      BY <2>1, <1>typed DEF PostsOK, Fits
    <2>3. ToSet(<<>>) = {}
      BY DEF ToSet
    <2>4. \A m \in ToSet(post[p].webhook) : Kept(m)
      BY <2>1, <2>2, <2>3 DEF Dealt
    <2>5. \A w \in sent' \ due' : \A m \in ToSet(w) : Kept(m)
      BY <2>1, <2>4 DEF Dealt
    <2>6. \A x \in Posts : post'[x].pc # "free" => x # p /\ post'[x] = post[x]
      BY <2>1, <1>typed, Refused, FreeIn
    <2> QED
      BY <2>1, <2>5, <2>6 DEF Dealt, Kept
  <1>14. ASSUME NEW p \in Posts, Fail(p) PROVE P
    BY <1>14, <1>refuse DEF Fail
  <1>15. ASSUME NEW c \in ChatIds, NEW s \in Settable, SetStatus(c, s) PROVE P
    BY <1>15 DEF SetStatus, outside, Dealt, Kept
  <1>16. ASSUME Connect PROVE P
    BY <1>16 DEF Connect, outside, Dealt, Kept
  <1>17. ASSUME Disconnect PROVE P
    BY <1>17 DEF Disconnect, outside, Dealt, Kept
  <1> HIDE DEF P
  <1>18. Next => P
    BY <1>1, <1>2, <1>3, <1>4, <1>5, <1>6, <1>7, <1>8, <1>9, <1>10, <1>11, <1>12, <1>13, <1>14, <1>15,
       <1>16, <1>17, NextCases
  <1> QED
    BY <1>0, <1>18 DEF P

\* handleWebhook answers with success only when each message is stored or was for an
\* account that is not connected.
THEOREM Accepted == Spec => []AcceptedIsKept
  <1>1. Init => Dealt
    BY FreeIn DEF Init, Dealt
  <1>2. Dealt => AcceptedIsKept
    BY DEF Dealt, AcceptedIsKept
  <1> QED
    BY InitTyped, NextTyped, DealtNext, <1>1, <1>2, PTL DEF Spec

-----------------------------------------------------------------------------
(***************************************************************************)
(* Chats are complete.                                                     *)
(***************************************************************************)
Undisturbed == failures = 0 /\ connection = 1
\* Chats that have their place in the list, and those that posts hold.
Listed == {c \in ChatIds : \E i \in DOMAIN rows : rows[i].chat = c /\ chats[c].lastMessageAt = i}
Joining == {post[p].chat : p \in {x \in Posts : post[x].pc = "joining"}}
Held == {post[p].chat : p \in {x \in Posts : post[x].pc \in Holding}}
Touching == {post[p].chat : p \in {x \in Posts : post[x].pc = "touching"}}

\* What a chat still lacks, a post that holds it is about to do.  A post may leave
\* a chat to another one only when that one has stored the message, so a stored
\* message of its own is asked for apart.
Tended ==
    Undisturbed =>
       /\ \A p \in Posts : post[p].pc \in Connected => post[p].connection = 1
       /\ \A c \in ChatIds : chats[c].joined \/ c \in Joining
       /\ \A c \in ChatIds : c \in Listed \/ c \in Held
       /\ \A i \in DOMAIN rows : rows[i].chat \in Listed \/ rows[i].chat \in Touching

\* A connection that is removed does not come back under its id.
LEMMA WasUndisturbed ==
    ASSUME Typed, [Next]_vars, Undisturbed'
    PROVE  Undisturbed /\ \A p \in Posts : ~Fail(p)
  <1>1. /\ failures \in Nat /\ connections \in Nat \ {0} /\ None # 1
        /\ connection \in 1 .. connections \cup {None}
    BY MaxFaultsAssumption, NoneAssumption DEF Typed, OutsideOK, SettingsOK
  <1>2. failures' = failures \/ \E p \in Posts : Fail(p)
    <2>1. Next => UNCHANGED failures \/ \E p \in Posts : Fail(p)
      BY DEF Next, Handle, Write, Deliver, FindConnection, Check, Find, Open, OpenRefused, Join, Store,
             StoreRefused, Touch, TouchRefused, Answer, SetStatus, Connect, Disconnect, outside
    <2> QED
      BY <2>1 DEF vars
  <1>3. \A p \in Posts : ~Fail(p)
    BY <1>1 DEF Undisturbed, Fail
  <1>4. UNCHANGED connection \/ connection' = None \/ connection' = connections + 1
    <2>1. Next => UNCHANGED connection \/ Connect \/ Disconnect
      BY DEF Next, Handle, Write, Deliver, FindConnection, Check, Find, Open, OpenRefused, Join, Store,
             StoreRefused, Touch, TouchRefused, Answer, Fail, SetStatus, database
    <2> QED
      BY <2>1 DEF vars, Connect, Disconnect
  <1>5. connection = 1
    BY <1>1, <1>4 DEF Undisturbed
  <1> QED
    BY <1>2, <1>3, <1>5 DEF Undisturbed

\* A step of post p that stores nothing and leaves the chats' visitors and places
\* alone: it keeps its chat, has none, or leaves it to another post.
LEMMA TendedQuiet ==
    ASSUME Typed, Tended, Undisturbed, NEW p \in Posts, \A x \in Posts : x # p => post'[x] = post[x],
           UNCHANGED <<rows, chats>>,
           post'[p].pc \in Connected => post'[p].connection = 1,
           \/ post'[p].pc = post[p].pc /\ post'[p].chat = post[p].chat
           \/ post[p].pc \notin Holding
           \/ post[p].pc = "storing" /\ (post[p].chat \in Listed \/ post[p].chat \in Touching)
    PROVE  Tended'
  <1>1. ChatIds' = ChatIds /\ Listed' = Listed
    BY DEF ChatIds, Listed
  <1>2. Holding = {"joining", "storing", "touching"}
    BY DEF Holding
  <1>3. \A x \in Posts : \/ post'[x].pc = post[x].pc /\ post'[x].chat = post[x].chat
                         \/ post[x].pc \notin Holding
                         \/ post[x].pc = "storing" /\ post[x].chat \in Listed \cup Touching
    OBVIOUS
  <1>4. Joining \subseteq Joining' /\ Touching \subseteq Touching' /\ Touching' \subseteq Held'
    BY <1>2, <1>3 DEF Joining, Touching, Held
  <1>5. ASSUME NEW c \in Held PROVE c \in Listed \cup Held'
    <2>1. PICK x \in Posts : post[x].pc \in Holding /\ post[x].chat = c
      BY DEF Held
    <2>2. CASE post'[x].pc = post[x].pc /\ post'[x].chat = post[x].chat
      BY <2>1, <2>2 DEF Held
    <2> QED
      BY <2>1, <2>2, <1>3, <1>4
  <1>6. \A x \in Posts : post'[x].pc \in Connected => post'[x].connection = 1
    BY DEF Tended
  <1>7. \A c \in ChatIds : chats'[c].joined \/ c \in Joining'
    BY <1>4 DEF Tended
  <1>8. \A c \in ChatIds : c \in Listed' \/ c \in Held'
    BY <1>1, <1>5 DEF Tended
  <1>9. \A i \in DOMAIN rows : rows[i].chat \in Listed' \/ rows[i].chat \in Touching'
    BY <1>1, <1>4 DEF Tended
  <1> QED
    BY <1>1, <1>6, <1>7, <1>8, <1>9 DEF Tended

LEMMA TendedNext == Typed /\ Placed /\ Tended /\ [Next]_vars => Tended'
  <1> SUFFICES ASSUME Typed, Placed, Tended, [Next]_vars, Undisturbed' PROVE Tended'
    BY DEF Tended
  <1> DEFINE P == Tended'
  <1>was. Undisturbed /\ \A p \in Posts : ~Fail(p)
    BY WasUndisturbed
  <1>typed. DataOK /\ SettingsOK /\ PostsOK /\ OutsideOK
    BY DEF Typed
  <1>tended. /\ \A p \in Posts : post[p].pc \in Connected => post[p].connection = 1
             /\ \A c \in ChatIds : chats[c].joined \/ c \in Joining
             /\ \A c \in ChatIds : c \in Listed \/ c \in Held
             /\ \A i \in DOMAIN rows : rows[i].chat \in Listed \/ rows[i].chat \in Touching
    BY <1>was DEF Tended
  <1>free. Free.pc \notin Connected /\ Connected = {"checking", "finding", "opening", "joining", "storing", "touching"}
           /\ Holding = {"joining", "storing", "touching"}
    BY FreeIn DEF Connected, Holding
  <1>quiet. ASSUME NEW p \in Posts, \A x \in Posts : x # p => post'[x] = post[x],
                   UNCHANGED <<rows, chats>>, post'[p].pc \in Connected => post'[p].connection = 1,
                   post[p].pc \notin Holding
            PROVE  P
    BY <1>quiet, <1>was, TendedQuiet
  \* Posts and rows stay, and so do the visitors and places of chats.
  <1>same. ASSUME UNCHANGED <<post, rows, ChatIds>>,
                  \A c \in ChatIds : chats'[c].joined = chats[c].joined /\ chats'[c].lastMessageAt = chats[c].lastMessageAt
           PROVE  P
    <2>1. Joining' = Joining /\ Held' = Held /\ Touching' = Touching
      BY <1>same DEF Joining, Held, Touching
    <2>2. \A c \in ChatIds : c \in Listed => c \in Listed'
      BY <1>same DEF Listed
    <2>3. \A i \in DOMAIN rows : rows[i].chat \in ChatIds
      BY <1>typed DEF DataOK
    <2>4. \A c \in ChatIds : chats'[c].joined \/ c \in Joining'
      BY <1>same, <1>tended, <2>1
    <2>5. \A c \in ChatIds : c \in Listed' \/ c \in Held'
      BY <1>tended, <2>1, <2>2
    <2>6. \A i \in DOMAIN rows : rows[i].chat \in Listed' \/ rows[i].chat \in Touching'
      BY <1>tended, <2>1, <2>2, <2>3
    <2> QED
      BY <1>same, <1>tended, <2>4, <2>5, <2>6 DEF Tended
  <1>advance. ASSUME NEW p \in Posts, Advance(p), post[p].pc \notin {"free", "answering"} \cup Holding,
                     UNCHANGED <<rows, chats>>
              PROVE  P
    BY <1>advance, <1>typed, <1>quiet, <1>free, Advanced
  <1>refuse. ASSUME NEW p \in Posts, Refuse(p), UNCHANGED <<rows, chats>>, post[p].pc \notin Holding
             PROVE  P
    BY <1>refuse, <1>typed, <1>quiet, <1>free, Refused
  <1>0. CASE UNCHANGED vars
    BY <1>0, <1>same DEF vars, ChatIds
  <1>1. ASSUME NEW w \in Webhooks, Write(w) PROVE P
    BY <1>1, <1>same DEF Write, database, ChatIds
  <1>2. ASSUME NEW p \in Posts, NEW w \in Webhooks, Deliver(p, w) PROVE P
    <2> DEFINE q == [Free EXCEPT !.pc = "connecting", !.webhook = w, !.left = w]
    <2>1. post' = [post EXCEPT ![p] = q] /\ q.pc = "connecting"
      BY <1>2 DEF Deliver, Free
    <2> HIDE DEF q
    <2>2. UNCHANGED <<rows, chats>> /\ post[p].pc = "free"
      BY <1>2 DEF Deliver, database
    <2> QED
      BY <2>1, <2>2, <1>quiet, <1>typed, <1>free DEF PostsOK
  <1>3. ASSUME NEW p \in Posts, FindConnection(p) PROVE P
    <2>1. UNCHANGED <<rows, chats>> /\ post[p].pc = "connecting" /\ connection = 1 /\ None # 1
      BY <1>3, <1>was, NoneAssumption DEF FindConnection, database, Undisturbed
    <2> DEFINE q == [post[p] EXCEPT !.pc = "checking", !.connection = connection]
    <2>2. post' = [post EXCEPT ![p] = q]
      BY <1>3, <2>1 DEF FindConnection
    <2>3. q.connection = 1
      BY <2>1, <1>typed DEF PostsOK, PostSet
    <2> HIDE DEF q
    <2> QED
      BY <2>1, <2>2, <2>3, <1>quiet, <1>typed, <1>free DEF PostsOK
  <1>4. ASSUME NEW p \in Posts, Check(p) PROVE P
    <2>1. UNCHANGED <<rows, chats>> /\ post[p].pc = "checking"
      BY <1>4 DEF Check, database
    <2>2. CASE Advance(p)
      BY <2>1, <2>2, <1>advance, <1>free
    <2>3. CASE Goto(p, "finding")
      BY <2>1, <2>3, <1>quiet, <1>typed, <1>tended, <1>free, Gone DEF Pcs
    <2> QED
      BY <1>4, <2>2, <2>3 DEF Check
  <1>5. ASSUME NEW p \in Posts, Find(p) PROVE P
    <2>1. UNCHANGED <<rows, chats>> /\ post[p].pc = "finding" /\ post[p].connection = 1
      BY <1>5, <1>tended, <1>free DEF Find, database
    <2>2. CASE Goto(p, "opening")
      BY <2>1, <2>2, <1>quiet, <1>typed, <1>free, Gone DEF Pcs
    <2>3. CASE ~Goto(p, "opening")
      <3> DEFINE q == [post[p] EXCEPT !.pc = "storing", !.chat = ChatFor(Current(p))]
      <3>1. post' = [post EXCEPT ![p] = q]
        BY <1>5, <2>3 DEF Find
      <3>2. q.connection = 1
        BY <2>1, <1>typed DEF PostsOK, PostSet
      <3> HIDE DEF q
      <3> QED
        BY <2>1, <3>1, <3>2, <1>quiet, <1>typed, <1>free DEF PostsOK
    <2> QED
      BY <2>2, <2>3
  <1>6. ASSUME NEW p \in Posts, Open(p) PROVE P
    <2> DEFINE n == Len(chats) + 1
               d == [thread |-> ThreadOf[Current(p)], status |-> "QUEUED", joined |-> FALSE, lastMessageAt |-> None]
               q == [post[p] EXCEPT !.pc = "joining", !.chat = n]
    <2>1. /\ chats' = Append(chats, d) /\ post' = [post EXCEPT ![p] = q]
          /\ UNCHANGED rows /\ post[p].pc = "opening" /\ post[p].connection = 1
      BY <1>6, <1>tended, <1>free DEF Open
    <2>2. d \in Chat
      BY <2>1, Working, ThreadOfAssumption DEF Chat, Active
    <2>3. q.pc = "joining" /\ q.chat = n /\ q.connection = 1
      BY <2>1, <1>typed DEF PostsOK, PostSet
    <2> HIDE DEF d, q
    <2>4. ChatIds' = ChatIds \cup {n} /\ \A c \in ChatIds : chats'[c] = chats[c]
      BY <2>1, <2>2, <1>typed, Appended DEF DataOK, ChatIds
    <2> HIDE DEF n
    <2>5. post'[p] = q /\ \A x \in Posts : x # p => post'[x] = post[x]
      BY <2>1, <1>typed DEF PostsOK
    <2>6. \A x \in Posts : post[x].pc \in Holding => post'[x] = post[x]
      BY <2>1, <2>5, <1>free
    <2>7. Joining \subseteq Joining' /\ Held \subseteq Held' /\ Touching \subseteq Touching'
      BY <2>6, <1>free DEF Joining, Held, Touching
    <2>8. n \in Joining' /\ n \in Held'
      BY <2>3, <2>5, <1>free DEF Joining, Held
    <2>9. \A c \in ChatIds : c \in Listed => c \in Listed'
      BY <2>1, <2>4 DEF Listed
    <2>10. \A x \in Posts : post'[x].pc \in Connected => post'[x].connection = 1
      BY <2>3, <2>5, <1>tended
    <2>11. \A c \in ChatIds' : chats'[c].joined \/ c \in Joining'
      BY <2>4, <2>7, <2>8, <1>tended
    <2>12. \A c \in ChatIds' : c \in Listed' \/ c \in Held'
      BY <2>4, <2>7, <2>8, <2>9, <1>tended
    <2>13. \A i \in DOMAIN rows : rows[i].chat \in ChatIds
      BY <1>typed DEF DataOK
    <2>14. \A i \in DOMAIN rows : rows[i].chat \in Listed' \/ rows[i].chat \in Touching'
      BY <2>7, <2>9, <2>13, <1>tended
    <2> QED
      BY <2>1, <2>10, <2>11, <2>12, <2>14 DEF Tended
  <1>7. ASSUME NEW p \in Posts, OpenRefused(p) PROVE P
    BY <1>7, <1>refuse, <1>free DEF OpenRefused, database
  <1>8. ASSUME NEW p \in Posts, Join(p) PROVE P
    <2> DEFINE c0 == post[p].chat
               d == [chats[c0] EXCEPT !.joined = TRUE]
    <2>1. /\ chats' = [chats EXCEPT ![c0] = d] /\ Goto(p, "storing")
          /\ UNCHANGED rows /\ post[p].pc = "joining" /\ post[p].connection = 1
      BY <1>8, <1>tended, <1>free DEF Join
    <2>2. c0 \in ChatIds
      BY <2>1, <1>typed, <1>free DEF PostsOK, Fits
    <2>3. chats[c0] \in Chat
      BY <2>2, <1>typed DEF DataOK, ChatIds
    <2>4. d \in Chat /\ d.joined = TRUE /\ d.lastMessageAt = chats[c0].lastMessageAt
      BY <2>3 DEF Chat
    <2> HIDE DEF d
    <2>5. ChatIds' = ChatIds /\ chats'[c0] = d /\ \A c \in ChatIds : c # c0 => chats'[c] = chats[c]
      BY <2>1, <2>2, <2>4, <1>typed, Changed
    <2>6. /\ post'[p].pc = "storing" /\ post'[p].chat = c0 /\ post'[p].connection = 1
          /\ \A x \in Posts : x # p => post'[x] = post[x]
      BY <2>1, <1>typed, Gone DEF Pcs
    <2> HIDE DEF c0
    <2>7. \A c \in ChatIds : c \in Listed => c \in Listed'
      BY <2>1, <2>4, <2>5 DEF Listed
    <2>8. Held \subseteq Held' /\ Touching \subseteq Touching'
      BY <2>1, <2>6, <1>free DEF Held, Touching, c0
    <2>9. Joining \ {c0} \subseteq Joining'
      BY <2>6 DEF Joining, c0
    <2>10. \A c \in ChatIds : chats'[c].joined \/ c \in Joining'
      BY <2>4, <2>5, <2>9, <1>tended
    <2>11. \A x \in Posts : post'[x].pc \in Connected => post'[x].connection = 1
      BY <2>6, <1>tended
    <2>12. \A c \in ChatIds' : c \in Listed' \/ c \in Held'
      BY <2>5, <2>7, <2>8, <1>tended
    <2>13. \A i \in DOMAIN rows : rows[i].chat \in ChatIds
      BY <1>typed DEF DataOK
    <2>14. \A i \in DOMAIN rows : rows[i].chat \in Listed' \/ rows[i].chat \in Touching'
      BY <2>7, <2>8, <2>13, <1>tended
    <2> QED
      BY <2>1, <2>5, <2>10, <2>11, <2>12, <2>14 DEF Tended
  <1>9. ASSUME NEW p \in Posts, Store(p) PROVE P
    <2> DEFINE c0 == post[p].chat
               n == Len(rows) + 1
               d == [message |-> Current(p), chat |-> c0]
               q == [post[p] EXCEPT !.pc = "touching", !.row = n]
    <2>1. /\ rows' = Append(rows, d) /\ post' = [post EXCEPT ![p] = q]
          /\ UNCHANGED <<chats, ChatIds>> /\ post[p].pc = "storing" /\ post[p].connection = 1
      BY <1>9, <1>tended, <1>free DEF Store, ChatIds
    <2>2. c0 \in ChatIds /\ c0 \in Nat
      BY <2>1, <1>typed, <1>free DEF PostsOK, Fits, DataOK, ChatIds
    <2>3. d \in Row /\ d.chat = c0
      BY <2>1, <2>2, Working DEF Row
    <2>4. q.pc = "touching" /\ q.chat = c0 /\ q.connection = 1
      BY <2>1, <1>typed DEF PostsOK, PostSet
    <2> HIDE DEF d, q
    <2>5. DOMAIN rows' = DOMAIN rows \cup {n} /\ rows'[n] = d /\ \A i \in DOMAIN rows : rows'[i] = rows[i]
      BY <2>1, <2>3, <1>typed, Appended DEF DataOK
    <2> HIDE DEF n
    <2>6. post'[p] = q /\ \A x \in Posts : x # p => post'[x] = post[x]
      BY <2>1, <1>typed DEF PostsOK
    <2>7. \A c : c \in Listed => c \in Listed'
      BY <2>1, <2>5 DEF Listed
    <2>8. Joining \subseteq Joining' /\ Held \subseteq Held' /\ Touching \subseteq Touching'
      BY <2>1, <2>4, <2>6, <1>free DEF Joining, Held, Touching
    <2>9. c0 \in Touching'
      BY <2>4, <2>6 DEF Touching
    <2> HIDE DEF c0
    <2>11. \A x \in Posts : post'[x].pc \in Connected => post'[x].connection = 1
      BY <2>4, <2>6, <1>tended
    <2>12. \A c \in ChatIds : chats[c].joined \/ c \in Joining'
      BY <2>8, <1>tended
    <2>13. \A c \in ChatIds : c \in Listed' \/ c \in Held'
      BY <2>7, <2>8, <1>tended
    <2>14. \A i \in DOMAIN rows : rows[i].chat \in Listed' \/ rows[i].chat \in Touching'
      BY <2>7, <2>8, <1>tended
    <2>15. \A i \in DOMAIN rows' : rows'[i].chat \in Listed' \/ rows'[i].chat \in Touching'
      BY <2>3, <2>5, <2>9, <2>14
    <2> QED
      BY <2>1, <2>11, <2>12, <2>13, <2>15 DEF Tended
  <1>10. ASSUME NEW p \in Posts, StoreRefused(p) PROVE P
    <2>1. /\ post[p].pc = "storing" /\ HasRow(Current(p)) /\ Refuse(p) /\ UNCHANGED <<rows, chats>>
      BY <1>10 DEF StoreRefused, MessageIdIsFree, database
    <2>2. PICK i \in DOMAIN rows : rows[i].message = Current(p)
      BY <2>1 DEF HasRow
    <2>3. post[p].chat \in ChatIds /\ rows[i].chat \in ChatIds
      BY <2>1, <1>typed, <1>free DEF PostsOK, Fits, DataOK
    <2>4. InChat(Current(p), post[p].chat) /\ InChat(Current(p), rows[i].chat)
      BY <2>1, <2>2, <1>free DEF Placed, Current
    <2>5. rows[i].chat = post[p].chat
      BY <2>3, <2>4 DEF Placed, InChat
    <2>6. post[p].chat \in Listed \/ post[p].chat \in Touching
      BY <2>5, <1>tended
    <2>7. post'[p] = Free /\ \A x \in Posts : x # p => post'[x] = post[x]
      BY <2>1, <1>typed, Refused
    <2> QED
      BY <2>1, <2>6, <2>7, <1>free, <1>was, TendedQuiet
  <1>11. ASSUME NEW p \in Posts, Touch(p) PROVE P
    <2> DEFINE c0 == post[p].chat
               d == [chats[c0] EXCEPT !.lastMessageAt = post[p].row]
    <2>1. /\ chats' = [chats EXCEPT ![c0] = d] /\ Advance(p)
          /\ UNCHANGED rows /\ post[p].pc = "touching"
      BY <1>11 DEF Touch
    <2>2. c0 \in ChatIds /\ post[p].row \in DOMAIN rows /\ rows[post[p].row].chat = c0
      BY <2>1, <1>typed, <1>free DEF PostsOK, Fits
    <2>3. chats[c0] \in Chat /\ post[p].row \in Nat
      BY <2>2, <1>typed DEF DataOK, ChatIds
    <2>4. d \in Chat /\ d.joined = chats[c0].joined /\ d.lastMessageAt = post[p].row
      BY <2>3 DEF Chat
    <2> HIDE DEF d
    <2>5. ChatIds' = ChatIds /\ chats'[c0] = d /\ \A c \in ChatIds : c # c0 => chats'[c] = chats[c]
      BY <2>1, <2>2, <2>4, <1>typed, Changed
    <2>6. post'[p].pc \notin Connected /\ \A x \in Posts : x # p => post'[x] = post[x]
      BY <2>1, <1>typed, <1>free, Advanced
    <2>7. c0 \in Listed' /\ \A c \in ChatIds : c \in Listed => c \in Listed'
      BY <2>1, <2>2, <2>4, <2>5 DEF Listed
    <2>8. /\ Joining \subseteq Joining'
          /\ Held \ {c0} \subseteq Held' /\ Touching \ {c0} \subseteq Touching'
      BY <2>1, <2>6 DEF Joining, Held, Touching
    <2> HIDE DEF c0
    <2>9. \A x \in Posts : post'[x].pc \in Connected => post'[x].connection = 1
      BY <2>6, <1>tended
    <2>10. \A c \in ChatIds' : chats'[c].joined \/ c \in Joining'
      BY <2>4, <2>5, <2>8, <1>tended
    <2>11. \A c \in ChatIds' : c \in Listed' \/ c \in Held'
      BY <2>5, <2>7, <2>8, <1>tended
    <2>12. \A i \in DOMAIN rows : rows[i].chat \in ChatIds
      BY <1>typed DEF DataOK
    <2>13. \A i \in DOMAIN rows : rows[i].chat \in Listed' \/ rows[i].chat \in Touching'
      BY <2>7, <2>8, <2>12, <1>tended
    <2> QED
      BY <2>1, <2>9, <2>10, <2>11, <2>13 DEF Tended
  <1>12. ASSUME NEW p \in Posts, TouchRefused(p) PROVE P
    BY <1>12, <1>was, <1>tended, <1>free DEF TouchRefused, Undisturbed
  <1>13. ASSUME NEW p \in Posts, Answer(p) PROVE P
    BY <1>13, <1>refuse, <1>free DEF Answer, Refuse, database
  <1>14. ASSUME NEW p \in Posts, Fail(p) PROVE P
    BY <1>14, <1>was
  <1>15. ASSUME NEW c \in ChatIds, NEW s \in Settable, SetStatus(c, s) PROVE P
    <2> DEFINE d == [chats[c] EXCEPT !.status = s]
    <2>1. chats' = [chats EXCEPT ![c] = d] /\ UNCHANGED <<rows, post>>
      BY <1>15 DEF SetStatus
    <2>2. chats[c] \in Chat
      BY <1>typed DEF DataOK, ChatIds
    <2>3. d \in Chat /\ d.joined = chats[c].joined /\ d.lastMessageAt = chats[c].lastMessageAt
      BY <2>2, SettableAssumption DEF Chat, Active, Finished
    <2> HIDE DEF d
    <2>4. /\ ChatIds' = ChatIds
          /\ \A x \in ChatIds : chats'[x].joined = chats[x].joined /\ chats'[x].lastMessageAt = chats[x].lastMessageAt
      BY <2>1, <2>3, <1>typed, Changed
    <2> QED
      BY <2>1, <2>4, <1>same
  <1>16. ASSUME Connect PROVE P
    BY <1>16, <1>same DEF Connect, ChatIds
  <1>17. ASSUME Disconnect PROVE P
    BY <1>17, <1>same DEF Disconnect, ChatIds
  <1> HIDE DEF P
  <1>18. Next => P
    BY <1>1, <1>2, <1>3, <1>4, <1>5, <1>6, <1>7, <1>8, <1>9, <1>10, <1>11, <1>12, <1>13, <1>14, <1>15,
       <1>16, <1>17, NextCases
  <1> QED
    BY <1>0, <1>18 DEF P

\* When nothing was disturbed, storeInbound's statements leave every chat with its
\* visitor and in its place, although no transaction is around them.
THEOREM Complete == Spec => []ChatsAreComplete
  <1>1. Init => Placed /\ Tended
    <2> SUFFICES ASSUME Init PROVE Placed /\ Tended
      OBVIOUS
    <2>1. ChatIds = {} /\ DOMAIN rows = {}
      BY DEF Init, ChatIds
    <2>2. \A p \in Posts : post[p].pc = "free"
      BY FreeIn DEF Init
    <2> QED
      BY <2>1, <2>2 DEF Placed, Tended, Holding, Connected
  <1>2. Tended => ChatsAreComplete
    <2> SUFFICES ASSUME Tended, Undisturbed, \A p \in Posts : post[p].pc = "free",
                        NEW c \in ChatIds
                 PROVE  chats[c].joined /\ c \in Listed
      BY DEF ChatsAreComplete, Undisturbed, Listed
    <2>1. c \notin Joining /\ c \notin Held
      BY DEF Joining, Held, Holding
    <2> QED
      BY <2>1 DEF Tended
  <1> QED
    BY InitTyped, NextTyped, PlacedNext, TendedNext, <1>1, <1>2, PTL DEF Spec

=============================================================================

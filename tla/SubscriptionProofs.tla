------------------------- MODULE SubscriptionProofs -------------------------
(***************************************************************************)
(* What a workspace pays, for any number of requests and webhook posts at  *)
(* the same time and any bounds: the state stays typed, each subscription  *)
(* that lives at the gateway is named by a row or in hand (PaysOnce), who  *)
(* pays is served (PaidAreServed), and the charge is the one for the team  *)
(* and the add-on (ChargesAsUsed).                                         *)
(*                                                                         *)
(* The inductive invariant has three layers.  Typed and Told always hold:  *)
(* a request holds what its place in its operation allows, and what the    *)
(* gateway has told of a subscription is true of it and stays so.          *)
(* Accounted holds while no fault and no overtaken request lost hold of a  *)
(* subscription.  Exact holds while, in addition, requests came one after  *)
(* the other: it says what the request under way has read, what it has had *)
(* the gateway charge, and what it has still to write.                     *)
(***************************************************************************)
EXTENDS Subscription, FiniteSetTheorems, SequenceTheorems, TLAPS

(***************************************************************************)
(* Types, with what TypeOK leaves open.                                    *)
(***************************************************************************)
Subscriptions == [state : {"active", "suspended", "ended"}, amount : Amounts]
RequestSet == [op : DOMAIN Steps, pc : 1 .. 7, plan : Plans, seats : 0 .. MaxSeats,
               addon : BOOLEAN, row : 0 .. Len(rows), seen : RowSet \cup {NoRow},
               sub : 0 .. Len(gateway)]
HookSet == [row : 1 .. Len(rows), sub : 1 .. Len(gateway), event : EventSet]

\* What a request holds at each place: a row once it found one, a subscription once
\* it created one.
Placed(q) ==
    /\ q.pc <= Len(Steps[q.op])
    /\ q.op = "none" => q = Idle
    /\ q.row = 0 <=> q.seen = NoRow
    /\ q.sub # 0 <=> q.op = "subscribe" /\ q.pc >= 5
    /\ q.op = "subscribe" /\ q.pc <= 3 => q.row = 0
    /\ q.op \in {"cancel", "syncSeats"} => (q.pc >= 2 <=> q.row # 0)
    /\ q.op = "setAddon" => (q.pc <= 2 => q.row = 0) /\ (q.pc \in 3 .. 5 => q.row # 0)

StoreOK ==
    /\ gateway \in Seq(Subscriptions) /\ Len(gateway) <= MaxSubscriptions
    /\ rows \in Seq(RowSet)
    /\ org \in {"TRIALING", "ACTIVE", "PAST_DUE", "CANCELED"} /\ addon \in BOOLEAN
    /\ seats \in 1 .. MaxSeats
HistoryOK ==
    /\ faults \in 0 .. MaxFaults /\ begun \in 0 .. MaxRequests
    /\ overtaken \in BOOLEAN /\ disturbed \in BOOLEAN
RequestsOK == req \in [Requests -> RequestSet] /\ \A r \in Requests : Placed(req[r])
HooksOK == hook \in [Hooks -> HookSet \cup {NoHook}] /\ events \subseteq EventSet

Typed == StoreOK /\ HistoryOK /\ RequestsOK /\ HooksOK

\* Subscriptions that the gateway has ended, those it is not paid for, and what
\* it may say of them.
Ended == {s \in 1 .. Len(gateway) : gateway[s].state = "ended"}
Unpaid == {s \in 1 .. Len(gateway) : gateway[s].state # "active"}
Facts == {e \in EventSet : e.sub \in IF e.status = "CANCELED" THEN Ended ELSE Unpaid}

\* What was told is true, and stays so: neither state is left again.
Told ==
    /\ events \subseteq Facts
    /\ \A h \in Hooks : hook[h] # NoHook => hook[h].event \in Facts /\ hook[h].event.sub = hook[h].sub

\* A request that has had the subscription of its row ended.
PastCancel(q) ==
    /\ q.row # 0
    /\ \/ q.op = "subscribe" /\ q.pc >= 6
       \/ q.op = "cancel" /\ q.pc >= 3
\* A request with a new subscription that no row names yet.
InHand(q) == q.op = "subscribe" /\ q.pc \in {5, 6}

Named == {rows[i].sub : i \in 1 .. Len(rows)}
Held == {req[r].sub : r \in {p \in Requests : InHand(req[p])}}

(***************************************************************************)
(* While nothing has been lost hold of.                                    *)
(***************************************************************************)
\* There is one row at most, a subscription that lives is its or in hand, what a row
\* or a request calls ended has ended, and a row that is paid for is ACTIVE.
OneRow == Len(rows) <= 1
NoneLost == (1 .. Len(gateway)) \ Ended \subseteq Named \cup Held
CanceledAreEnded == \A i \in 1 .. Len(rows) : rows[i].status = "CANCELED" => rows[i].sub \in Ended
OldAreEnded == \A r \in Requests : PastCancel(req[r]) => req[r].seen.sub \in Ended
Activating == {r \in Requests : req[r].op = "subscribe" /\ req[r].pc = 7}
Served ==
    \A i \in 1 .. Len(rows) :
       rows[i].sub \notin Unpaid => rows[i].status = "ACTIVE" /\ (org = "ACTIVE" \/ Activating # {})
Accounted == OneRow /\ NoneLost /\ CanceledAreEnded /\ OldAreEnded /\ Served

(***************************************************************************)
(* While, in addition, requests came one after the other.                  *)
(***************************************************************************)
Working == {r \in Requests : req[r].op # "none"}
Charge(q) == Amount(q.plan, q.seats, q.addon)
\* setAddon and syncSeats with the gateway told and the row not written.
Pushed(q) == q.op \in {"setAddon", "syncSeats"} /\ q.pc = 5
\* syncSeats before it has told the gateway, and setAddon since it has.
Recomputing(q) == q.op = "syncSeats" /\ q.pc <= 4
Switching(q) == q.op = "setAddon" /\ q.pc >= 5

\* What is meant to hold of gateway g, rows rs, n seats and add-on a while nothing
\* but q is under way.  A row shows what the gateway charges, but between syncSeats'
\* or setAddon's call of the gateway and the write of its row.
Mirrors(q, g, rs) ==
    \/ Pushed(q)
    \/ \A i \in 1 .. Len(rs) :
          g[rs[i].sub].state # "ended" => rs[i].amount = g[rs[i].sub].amount

\* The charge of a subscription that is paid is the one for the team and the add-on:
\* the add-on alone until syncSeats has recomputed, the new one once setAddon has
\* told the gateway.
Pays(q, g, rs, n, a) ==
    \A i \in 1 .. Len(rs) :
       rs[i].status = "ACTIVE" /\ g[rs[i].sub].state = "active" =>
          LET paid == g[rs[i].sub].amount
              plan == rs[i].plan
          IN  /\ Recomputing(q) => paid.addon = a /\ (plan = "flat" => paid.seats = 0)
              /\ Switching(q) => q.row # 0 /\ paid = Amount(plan, n, q.addon)
              /\ ~Recomputing(q) /\ ~Switching(q) => paid = Amount(plan, n, a)

\* What q read of its row is still so, and there still is no row where it found none.
RowHeld(q, rs) ==
    /\ q.op # "none" /\ q.row # 0 /\ ~(q.op = "subscribe" /\ q.pc = 7) =>
          /\ rs[q.row].sub = q.seen.sub
          /\ q.op # "subscribe" => rs[q.row].plan = q.plan
          /\ q.op \in {"setAddon", "syncSeats"} /\ q.pc <= 4 => rs[q.row].amount = q.seen.amount
    /\ q.op = "subscribe" /\ q.pc \in 4 .. 6 /\ q.row = 0 => Len(rs) = 0

\* The places at which a request has counted the seats, and read the add-ons.
SeatsKnown(q) ==
    \/ q.op = "subscribe" /\ q.pc >= 2
    \/ q.op = "setAddon" /\ q.pc >= 4 /\ q.row # 0
    \/ q.op = "syncSeats" /\ q.pc >= 3
AddonKnown(q) ==
    \/ q.op = "subscribe" /\ q.pc >= 3
    \/ q.op = "syncSeats" /\ q.pc >= 4

\* What q read, and what it had the gateway charge, is up to date.
Knows(q, g, rs, n, a) ==
    /\ RowHeld(q, rs)
    /\ SeatsKnown(q) => q.seats = n
    /\ AddonKnown(q) => q.addon = a
    /\ InHand(q) => g[q.sub].amount = Charge(q)
    /\ Pushed(q) /\ g[q.seen.sub].state # "ended" => g[q.seen.sub].amount = Charge(q)

Sound(q, g, rs, n, a) == Mirrors(q, g, rs) /\ Pays(q, g, rs, n, a) /\ Knows(q, g, rs, n, a)

\* One request at most is under way, and it and the store fit.
Exact ==
    /\ \A r, q \in Working : r = q
    /\ \A r \in Working : Sound(req[r], gateway, rows, seats, addon)
    /\ Working = {} => Sound(Idle, gateway, rows, seats, addon)

\* The inductive invariant.
IInv == Typed /\ Told /\ (~overtaken => Accounted /\ (~disturbed => Exact))
-----------------------------------------------------------------------------
\* Where a request is, by the step it is at.
LEMMA Places ==
    ASSUME Typed, NEW r \in Requests, NEW op, NEW pc, op = req[r].op, pc = req[r].pc
    PROVE  /\ At(r, "count") <=> (op = "subscribe" /\ pc = 1) \/ (op = "setAddon" /\ pc = 3) \/ (op = "syncSeats" /\ pc = 2)
           /\ At(r, "addon") <=> (op = "subscribe" /\ pc = 2) \/ (op = "setAddon" /\ pc = 1) \/ (op = "syncSeats" /\ pc = 3)
           /\ At(r, "find") <=> (op = "subscribe" /\ pc = 3) \/ (op = "cancel" /\ pc = 1) \/ (op = "setAddon" /\ pc = 2) \/ (op = "syncSeats" /\ pc = 1)
           /\ At(r, "create") <=> op = "subscribe" /\ pc = 4
           /\ At(r, "cancel") <=> (op = "subscribe" /\ pc = 5) \/ (op = "cancel" /\ pc = 2)
           /\ At(r, "push") <=> (op = "setAddon" /\ pc = 4) \/ (op = "syncSeats" /\ pc = 4)
           /\ At(r, "save") <=> (op = "subscribe" /\ pc = 6) \/ (op = "cancel" /\ pc = 3) \/ (op = "setAddon" /\ pc = 5) \/ (op = "syncSeats" /\ pc = 5)
           /\ At(r, "activate") <=> op = "subscribe" /\ pc = 7
           /\ At(r, "flip") <=> op = "setAddon" /\ pc = 6
  <1>0. op \in DOMAIN Steps /\ pc \in 1 .. 7 /\ pc <= Len(Steps[op])
    BY DEF Typed, RequestsOK, RequestSet, Placed
  <1>1. op \in {"none", "subscribe", "cancel", "setAddon", "syncSeats"}
    BY <1>0 DEF Steps
  <1>2. CASE op = "none"
    BY <1>0, <1>2 DEF At
  <1>3. CASE op = "subscribe"
    <2>1. Steps[op] = <<"count", "addon", "find", "create", "cancel", "save", "activate">>
      BY <1>3 DEF Steps
    <2>2. pc \in 1 .. 7
      BY <1>0
    <2> QED
      BY <2>1, <2>2, <1>3 DEF At
  <1>4. CASE op = "cancel"
    <2>1. Steps[op] = <<"find", "cancel", "save">>
      BY <1>4 DEF Steps
    <2>2. pc \in 1 .. 3
      BY <1>0, <2>1
    <2> QED
      BY <2>1, <2>2, <1>4 DEF At
  <1>5. CASE op = "setAddon"
    <2>1. Steps[op] = <<"addon", "find", "count", "push", "save", "flip">>
      BY <1>5 DEF Steps
    <2>2. pc \in 1 .. 6
      BY <1>0, <2>1
    <2> QED
      BY <2>1, <2>2, <1>5 DEF At
  <1>6. CASE op = "syncSeats"
    <2>1. Steps[op] = <<"find", "count", "addon", "push", "save">>
      BY <1>6 DEF Steps
    <2>2. pc \in 1 .. 5
      BY <1>0, <2>1
    <2> QED
      BY <2>1, <2>2, <1>6 DEF At
  <1> QED
    BY <1>1, <1>2, <1>3, <1>4, <1>5, <1>6

\* The number of steps of each operation.
LEMMA Lengths ==
    /\ DOMAIN Steps = {"none", "subscribe", "cancel", "setAddon", "syncSeats"}
    /\ Len(Steps["none"]) = 1 /\ Len(Steps["subscribe"]) = 7 /\ Len(Steps["cancel"]) = 3
    /\ Len(Steps["setAddon"]) = 6 /\ Len(Steps["syncSeats"]) = 5
    /\ \A op \in DOMAIN Steps : Len(Steps[op]) \in 1 .. 7
  <1>1. /\ DOMAIN Steps = {"none", "subscribe", "cancel", "setAddon", "syncSeats"}
        /\ Len(Steps["none"]) = 1 /\ Len(Steps["subscribe"]) = 7 /\ Len(Steps["cancel"]) = 3
        /\ Len(Steps["setAddon"]) = 6 /\ Len(Steps["syncSeats"]) = 5
    BY DEF Steps
  <1> HIDE DEF Steps
  <1>2. ASSUME NEW op \in {"none", "subscribe", "cancel", "setAddon", "syncSeats"}
        PROVE  Len(Steps[op]) \in 1 .. 7
    BY <1>1
  <1> QED
    BY <1>1, <1>2

-----------------------------------------------------------------------------
(***************************************************************************)
(* What each step makes of its request.                                    *)
(***************************************************************************)
Memory == [op : DOMAIN Steps, pc : 1 .. 7, plan : Plans, seats : 0 .. MaxSeats,
           addon : BOOLEAN, row : Nat, seen : RowSet \cup {NoRow}, sub : Nat]

\* Only request r has moved.
Moved(r) == req' = [req EXCEPT ![r] = req'[r]]

\* n is q one step later, but for the row, the plan, the seats, the add-on and the
\* subscription.
Later(q, n) == n \in Memory /\ n.op = q.op /\ n.pc = q.pc + 1
\* What of it is the same.
SameRow(q, n) == n.row = q.row /\ n.seen = q.seen /\ n.plan = q.plan
SameRest(q, n) == n.seats = q.seats /\ n.addon = q.addon /\ n.sub = q.sub

\* A request goes on with what it remembers, or is done after the last step.
LEMMA GoesOn ==
    ASSUME NEW r \in Requests, NEW c \in Memory, GoOn(r, c), req \in [Requests -> RequestSet],
           c.pc = req[r].pc
    PROVE  /\ \A q \in Requests : q # r => req'[q] = req[q]
           /\ req[r].pc = Len(Steps[req[r].op]) => req' = [req EXCEPT ![r] = Idle] /\ req'[r] = Idle
           /\ req[r].pc # Len(Steps[req[r].op]) =>
                LET n == [op |-> c.op, pc |-> c.pc + 1, plan |-> c.plan, seats |-> c.seats,
                          addon |-> c.addon, row |-> c.row, seen |-> c.seen, sub |-> c.sub]
                IN  req' = [req EXCEPT ![r] = n] /\ req'[r] = n
  <1> DEFINE n == [op |-> c.op, pc |-> c.pc + 1, plan |-> c.plan, seats |-> c.seats,
                   addon |-> c.addon, row |-> c.row, seen |-> c.seen, sub |-> c.sub]
  <1>1. [c EXCEPT !.pc = @ + 1] = n
    BY DEF Memory
  <1>2. CASE req[r].pc = Len(Steps[req[r].op])
    BY <1>2 DEF GoOn, Op
  <1>3. CASE req[r].pc # Len(Steps[req[r].op])
    <2>1. req' = [req EXCEPT ![r] = n]
      BY <1>1, <1>3 DEF GoOn, Op
    <2> HIDE DEF n
    <2>2. req'[r] = n /\ \A q \in Requests : q # r => req'[q] = req[q]
      BY <2>1
    <2> QED
      BY <2>1, <2>2, <1>3 DEF n
  <1> QED
    BY <1>2, <1>3

\* The last step of each operation.
LEMMA Last ==
    ASSUME NEW op \in DOMAIN Steps, NEW pc
    PROVE  pc = Len(Steps[op]) <=>
             \/ op = "none" /\ pc = 1
             \/ op = "subscribe" /\ pc = 7
             \/ op = "cancel" /\ pc = 3
             \/ op = "setAddon" /\ pc = 6
             \/ op = "syncSeats" /\ pc = 5
  <1>1. CASE op = "none"
    BY <1>1, Lengths
  <1>2. CASE op = "subscribe"
    BY <1>2, Lengths
  <1>3. CASE op = "cancel"
    BY <1>3, Lengths
  <1>4. CASE op = "setAddon"
    BY <1>4, Lengths
  <1>5. CASE op = "syncSeats"
    BY <1>5, Lengths
  <1> QED
    BY <1>1, <1>2, <1>3, <1>4, <1>5, Lengths

\* What a request remembers, and that a request that is idle remembers nothing.
LEMMA MemoryOf ==
    ASSUME Typed, NEW r \in Requests
    PROVE  /\ req[r] \in Memory /\ req[r] \in RequestSet /\ Placed(req[r])
           /\ Idle \in Memory /\ Idle \in RequestSet /\ Placed(Idle)
           /\ Idle.op = "none" /\ Idle.row = 0 /\ Idle.sub = 0 /\ Idle.pc = 1
  <1>1. req[r] \in RequestSet /\ Placed(req[r])
    BY DEF Typed, RequestsOK
  <1>2. Len(rows) \in Nat /\ Len(gateway) \in Nat
    BY DEF Typed, StoreOK
  <1>3. req[r] \in Memory
    BY <1>1, <1>2 DEF RequestSet, Memory
  <1>4. Idle \in Memory /\ Idle \in RequestSet
    BY <1>2, Lengths, BoundsAssumption DEF Idle, Memory, RequestSet, Plans
  <1>5. Placed(Idle)
    <2>1. Idle.op = "none" /\ Idle.pc = 1 /\ Idle.row = 0 /\ Idle.seen = NoRow /\ Idle.sub = 0
      BY DEF Idle
    <2> QED
      BY <2>1, Lengths DEF Placed
  <1> QED
    BY <1>1, <1>3, <1>4, <1>5 DEF Idle

\* GoesOn in terms of the new memory.
LEMMA Goes ==
    ASSUME Typed, NEW r \in Requests, NEW c \in Memory, GoOn(r, c),
           c.op = req[r].op, c.pc = req[r].pc
    PROVE  /\ Moved(r)
           /\ req[r].pc = Len(Steps[req[r].op]) => req'[r] = Idle
           /\ req[r].pc # Len(Steps[req[r].op]) =>
                /\ Later(req[r], req'[r]) /\ SameRow(c, req'[r]) /\ SameRest(c, req'[r])
  <1> DEFINE n == [op |-> c.op, pc |-> c.pc + 1, plan |-> c.plan, seats |-> c.seats,
                   addon |-> c.addon, row |-> c.row, seen |-> c.seen, sub |-> c.sub]
  <1>1. req \in [Requests -> RequestSet]
    BY DEF Typed, RequestsOK
  <1>2. /\ req[r].pc = Len(Steps[req[r].op]) => req' = [req EXCEPT ![r] = Idle] /\ req'[r] = Idle
        /\ req[r].pc # Len(Steps[req[r].op]) => req' = [req EXCEPT ![r] = n] /\ req'[r] = n
    BY <1>1, GoesOn
  <1>3. CASE req[r].pc = Len(Steps[req[r].op])
    BY <1>2, <1>3 DEF Moved
  <1>4. CASE req[r].pc # Len(Steps[req[r].op])
    <2>1. req[r].op \in DOMAIN Steps /\ req[r].pc \in 1 .. 7 /\ req[r].pc <= Len(Steps[req[r].op])
      BY MemoryOf DEF Memory, Placed
    <2> DEFINE last == Len(Steps[req[r].op])
    <2>4. last \in 1 .. 7
      BY <2>1, Lengths
    <2>2. c.pc + 1 \in 1 .. 7
      <3> HIDE DEF last
      <3>1. req[r].pc \in 1 .. 7 /\ req[r].pc <= last /\ req[r].pc # last
        BY <2>1, <1>4 DEF last
      <3> QED
        BY <3>1, <2>4
    <2>3. n \in Memory
      BY <2>2 DEF Memory
    <2> QED
      BY <1>2, <1>4, <2>3 DEF Moved, Later, SameRow, SameRest
  <1> QED
    BY <1>3, <1>4

\* A request that is done is idle.
LEMMA Ends ==
    ASSUME Typed, NEW r \in Requests, End(r)
    PROVE  Moved(r) /\ req'[r] = Idle
  BY DEF End, Moved, Typed, RequestsOK

\* seatCount.
LEMMA CountDoes ==
    ASSUME Typed, NEW r \in Requests, Count(r), NEW q, NEW n, q = req[r], n = req'[r]
    PROVE  /\ Moved(r)
           /\ (q.op = "subscribe" /\ q.pc = 1) \/ (q.op = "setAddon" /\ q.pc = 3) \/ (q.op = "syncSeats" /\ q.pc = 2)
           /\ \/ q.op = "subscribe" /\ n = Idle
              \/ /\ Later(q, n) /\ SameRow(q, n)
                 /\ n.seats = seats /\ n.addon = q.addon /\ n.sub = q.sub
  <1>1. (q.op = "subscribe" /\ q.pc = 1) \/ (q.op = "setAddon" /\ q.pc = 3) \/ (q.op = "syncSeats" /\ q.pc = 2)
    BY Places DEF Count
  <1>2. CASE End(r) /\ Op(r) = "subscribe"
    BY <1>1, <1>2, Ends DEF Op
  <1>3. CASE GoOn(r, [req[r] EXCEPT !.seats = seats])
    <2> DEFINE c == [req[r] EXCEPT !.seats = seats]
    <2>0. seats \in 0 .. MaxSeats /\ q \in Memory
      BY MemoryOf, BoundsAssumption DEF Typed, StoreOK
    <2>1. c \in Memory /\ c.op = q.op /\ c.pc = q.pc /\ c.seats = seats /\ SameRow(q, c) /\ c.addon = q.addon /\ c.sub = q.sub
      BY <2>0 DEF Memory, SameRow
    <2> HIDE DEF c
    <2>2. q.op \in DOMAIN Steps
      BY MemoryOf DEF Memory
    <2>4. q.pc # Len(Steps[q.op])
      BY <1>1, <2>2, Last
    <2>3. Moved(r) /\ Later(req[r], req'[r]) /\ SameRow(c, req'[r]) /\ SameRest(c, req'[r])
      BY <2>1, <2>4, <1>3, Goes DEF c
    <2> QED
      BY <2>1, <2>3, <1>1 DEF SameRow, SameRest
  <1> QED
    BY <1>2, <1>3 DEF Count

\* A request that goes on with what it had.
LEMMA GoesSame ==
    ASSUME Typed, NEW r \in Requests, GoOn(r, req[r])
    PROVE  /\ Moved(r)
           /\ \/ req[r].pc = Len(Steps[req[r].op]) /\ req'[r] = Idle
              \/ /\ req[r].pc # Len(Steps[req[r].op])
                 /\ Later(req[r], req'[r]) /\ SameRow(req[r], req'[r]) /\ SameRest(req[r], req'[r])
  BY MemoryOf, Goes

\* getAddons; setAddon is done when the add-on is as wanted.
LEMMA ReadAddonDoes ==
    ASSUME Typed, NEW r \in Requests, ReadAddon(r), NEW q, NEW n, q = req[r], n = req'[r]
    PROVE  /\ Moved(r)
           /\ \/ q.op = "subscribe" /\ q.pc = 2
              \/ q.op = "setAddon" /\ q.pc = 1
              \/ q.op = "syncSeats" /\ q.pc = 3
           /\ \/ q.op = "setAddon" /\ n = Idle
              \/ /\ Later(q, n) /\ SameRow(q, n) /\ n.seats = q.seats /\ n.sub = q.sub
                 /\ n.addon = IF q.op = "setAddon" THEN q.addon ELSE addon
  <1>1. \/ q.op = "subscribe" /\ q.pc = 2
        \/ q.op = "setAddon" /\ q.pc = 1
        \/ q.op = "syncSeats" /\ q.pc = 3
    BY Places DEF ReadAddon
  <1>0. q.op \in DOMAIN Steps /\ q \in Memory /\ addon \in BOOLEAN
    BY MemoryOf DEF Memory, Typed, StoreOK
  <1>4. q.pc # Len(Steps[q.op])
    BY <1>0, <1>1, Last
  <1>2. CASE End(r) /\ Op(r) = "setAddon"
    BY <1>1, <1>2, Ends DEF Op
  <1>5. CASE GoOn(r, req[r]) /\ Op(r) = "setAddon"
    <2>1. Moved(r) /\ Later(q, n) /\ SameRow(q, n) /\ SameRest(q, n)
      BY <1>4, <1>5, GoesSame
    <2> QED
      BY <2>1, <1>1, <1>5 DEF SameRest, Op
  <1>3. CASE GoOn(r, [req[r] EXCEPT !.addon = addon]) /\ Op(r) # "setAddon"
    <2> DEFINE c == [req[r] EXCEPT !.addon = addon]
    <2>1. c \in Memory /\ c.op = q.op /\ c.pc = q.pc /\ c.seats = q.seats /\ SameRow(q, c) /\ c.addon = addon /\ c.sub = q.sub
      BY <1>0 DEF Memory, SameRow
    <2> HIDE DEF c
    <2>3. Moved(r) /\ Later(req[r], req'[r]) /\ SameRow(c, req'[r]) /\ SameRest(c, req'[r])
      BY <2>1, <1>4, <1>3, Goes DEF c
    <2> QED
      BY <2>1, <2>3, <1>1, <1>3 DEF SameRow, SameRest, Op
  <1> QED
    BY <1>2, <1>3, <1>5 DEF ReadAddon, Op

\* Where a request looks for its row.
LEMMA FindsAt ==
    ASSUME Typed, NEW r \in Requests, At(r, "find"), NEW q, q = req[r]
    PROVE  /\ \/ q.op = "subscribe" /\ q.pc = 3
              \/ q.op = "cancel" /\ q.pc = 1
              \/ q.op = "setAddon" /\ q.pc = 2
              \/ q.op = "syncSeats" /\ q.pc = 1
           /\ q.op \in DOMAIN Steps /\ q \in Memory /\ q.pc # Len(Steps[q.op])
  <1>1. \/ q.op = "subscribe" /\ q.pc = 3
        \/ q.op = "cancel" /\ q.pc = 1
        \/ q.op = "setAddon" /\ q.pc = 2
        \/ q.op = "syncSeats" /\ q.pc = 1
    BY Places
  <1>2. q.op \in DOMAIN Steps /\ q \in Memory
    BY MemoryOf DEF Memory
  <1>3. q.pc # Len(Steps[q.op])
    BY <1>1, <1>2, Last
  <1> QED
    BY <1>1, <1>2, <1>3

\* The newest row that fits is found.
LEMMA FindRowDoes ==
    ASSUME Typed, NEW r \in Requests, FindRow(r), NEW q, NEW n, q = req[r], n = req'[r]
    PROVE  /\ Moved(r)
           /\ \E i \in 1 .. Len(rows) :
                /\ RowFor(r, i)
                /\ \/ q.op = "syncSeats" /\ rows[i].plan = "flat" /\ n = Idle
                   \/ /\ Later(q, n) /\ SameRest(q, n) /\ n.row = i /\ n.seen = rows[i]
                      /\ n.plan = IF q.op = "subscribe" THEN q.plan ELSE rows[i].plan
  <1>1. q.op \in DOMAIN Steps /\ q \in Memory /\ q.pc # Len(Steps[q.op])
    BY FindsAt DEF FindRow
  <1>2. PICK i \in DOMAIN rows :
          /\ RowFor(r, i)
          /\ IF Op(r) = "syncSeats" /\ rows[i].plan = "flat"
             THEN End(r)
             ELSE GoOn(r, [req[r] EXCEPT !.row = i, !.seen = rows[i],
                                        !.plan = IF Op(r) = "subscribe" THEN @ ELSE rows[i].plan])
    BY DEF FindRow
  <1>3. rows \in Seq(RowSet) /\ i \in 1 .. Len(rows) /\ Len(rows) \in Nat
    BY <1>2 DEF Typed, StoreOK
  <1>4. rows[i] \in RowSet
    BY <1>3
  <1>5. CASE Op(r) = "syncSeats" /\ rows[i].plan = "flat"
    BY <1>2, <1>3, <1>5, Ends DEF Op
  <1>6. CASE ~(Op(r) = "syncSeats" /\ rows[i].plan = "flat")
    <2> DEFINE p == IF q.op = "subscribe" THEN q.plan ELSE rows[i].plan
    <2> DEFINE c == [req[r] EXCEPT !.row = i, !.seen = rows[i], !.plan = p]
    <2>1. p \in Plans
      BY <1>1, <1>4 DEF Memory, RowSet
    <2>2. GoOn(r, c)
      BY <1>2, <1>6, <1>1 DEF Op, Memory
    <2> HIDE DEF p
    <2>3. /\ c \in Memory /\ c.op = q.op /\ c.pc = q.pc /\ c.row = i /\ c.seen = rows[i] /\ c.plan = p
          /\ SameRest(q, c)
      <3> DEFINE c1 == [q EXCEPT !.row = i]
      <3> DEFINE c2 == [c1 EXCEPT !.seen = rows[i]]
      <3> DEFINE c3 == [c2 EXCEPT !.plan = p]
      <3>1. c = c3
        OBVIOUS
      <3>2. /\ c1 \in Memory /\ c1.op = q.op /\ c1.pc = q.pc /\ c1.row = i
            /\ SameRest(q, c1)
        BY <1>1, <1>3 DEF Memory, SameRest
      <3> HIDE DEF c1
      <3>3. /\ c2 \in Memory /\ c2.op = q.op /\ c2.pc = q.pc /\ c2.row = i /\ c2.seen = rows[i]
            /\ SameRest(q, c2)
        BY <3>2, <1>4 DEF Memory, SameRest
      <3> HIDE DEF c2
      <3>4. /\ c3 \in Memory /\ c3.op = q.op /\ c3.pc = q.pc /\ c3.row = i /\ c3.seen = rows[i]
            /\ c3.plan = p /\ SameRest(q, c3)
        BY <3>3, <2>1 DEF Memory, SameRest
      <3> QED
        BY <3>1, <3>4
    <2> HIDE DEF c
    <2>4. Moved(r) /\ Later(req[r], req'[r]) /\ SameRow(c, req'[r]) /\ SameRest(c, req'[r])
      BY <2>2, <2>3, <1>1, Goes
    <2>5. Later(q, n) /\ SameRest(q, n) /\ n.row = i /\ n.seen = rows[i] /\ n.plan = p
      BY <2>3, <2>4 DEF SameRow, SameRest
    <2> QED
      BY <2>4, <2>5, <1>2, <1>3 DEF p
  <1> QED
    BY <1>5, <1>6

\* There is none: a first subscription, an add-on that is switched off, or nothing.
LEMMA FindNoneDoes ==
    ASSUME Typed, NEW r \in Requests, FindNone(r), NEW q, NEW n, q = req[r], n = req'[r]
    PROVE  /\ Moved(r)
           /\ \/ q.op = "subscribe" /\ Later(q, n) /\ SameRow(q, n) /\ SameRest(q, n)
              \/ /\ q.op = "setAddon" /\ n \in Memory /\ n.op = q.op /\ n.pc = 6
                 /\ SameRow(q, n) /\ SameRest(q, n)
              \/ n = Idle
  <1>1. q.op \in DOMAIN Steps /\ q \in Memory /\ q.pc # Len(Steps[q.op])
    BY FindsAt DEF FindNone
  <1>2. CASE GoOn(r, req[r]) /\ q.op = "subscribe"
    BY <1>1, <1>2, GoesSame
  <1>3. CASE Op(r) = "setAddon" /\ req' = [req EXCEPT ![r].pc = Len(Steps.setAddon)]
    <2> DEFINE m == [q EXCEPT !.pc = 6]
    <2>1. Len(Steps.setAddon) = 6
      BY DEF Steps
    <2>2. req' = [req EXCEPT ![r] = m]
      BY <1>3, <2>1
    <2>3. m \in Memory /\ m.op = q.op /\ m.pc = 6 /\ SameRow(q, m) /\ SameRest(q, m)
      BY <1>1 DEF Memory, SameRow, SameRest
    <2> HIDE DEF m
    <2>4. req'[r] = m
      BY <2>2 DEF Typed, RequestsOK
    <2> QED
      BY <2>2, <2>3, <2>4, <1>3 DEF Moved, Op
  <1>4. CASE End(r)
    BY <1>4, Ends
  <1> QED
    BY <1>2, <1>3, <1>4 DEF FindNone, Op

\* createSubscription.
LEMMA CreateDoes ==
    ASSUME Typed, NEW r \in Requests, Create(r), NEW q, NEW n, q = req[r], n = req'[r]
    PROVE  /\ Moved(r)
           /\ q.op = "subscribe" /\ q.pc = 4
           /\ Later(q, n) /\ SameRow(q, n) /\ n.seats = q.seats /\ n.addon = q.addon
           /\ n.sub = Len(gateway) + 1
  <1>1. q.op = "subscribe" /\ q.pc = 4
    BY Places DEF Create
  <1>0. q.op \in DOMAIN Steps /\ q \in Memory /\ Len(gateway) + 1 \in Nat
    BY MemoryOf DEF Memory, Typed, StoreOK
  <1>4. q.pc # Len(Steps[q.op])
    BY <1>1, Lengths
  <1> DEFINE c == [req[r] EXCEPT !.sub = Len(gateway) + 1]
  <1>2. /\ c \in Memory /\ c.op = q.op /\ c.pc = q.pc /\ c.seats = q.seats /\ SameRow(q, c)
        /\ c.addon = q.addon /\ c.sub = Len(gateway) + 1
    BY <1>0 DEF Memory, SameRow
  <1>3. GoOn(r, c)
    BY DEF Create
  <1> HIDE DEF c
  <1>5. Moved(r) /\ Later(req[r], req'[r]) /\ SameRow(c, req'[r]) /\ SameRest(c, req'[r])
    BY <1>2, <1>3, <1>4, Goes
  <1> QED
    BY <1>1, <1>2, <1>5 DEF SameRow, SameRest

\* The card is declined.
LEMMA DeclineDoes ==
    ASSUME Typed, NEW r \in Requests, Decline(r)
    PROVE  Moved(r) /\ req'[r] = Idle /\ req[r].op = "subscribe" /\ req[r].pc = 4
  BY Ends, Places DEF Decline

\* cancelSubscription.
LEMMA CancelOldDoes ==
    ASSUME Typed, NEW r \in Requests, CancelOld(r), NEW q, NEW n, q = req[r], n = req'[r]
    PROVE  /\ Moved(r)
           /\ (q.op = "subscribe" /\ q.pc = 5) \/ (q.op = "cancel" /\ q.pc = 2)
           /\ Later(q, n) /\ SameRow(q, n) /\ SameRest(q, n)
  <1>1. (q.op = "subscribe" /\ q.pc = 5) \/ (q.op = "cancel" /\ q.pc = 2)
    BY Places DEF CancelOld
  <1>2. q.op \in DOMAIN Steps
    BY MemoryOf DEF Memory
  <1>3. q.pc # Len(Steps[q.op])
    BY <1>1, <1>2, Last
  <1> QED
    BY <1>1, <1>3, GoesSame DEF CancelOld

\* updateSubscriptionAmount.
LEMMA PushDoes ==
    ASSUME Typed, NEW r \in Requests, Push(r), NEW q, NEW n, q = req[r], n = req'[r]
    PROVE  /\ Moved(r)
           /\ q.op \in {"setAddon", "syncSeats"} /\ q.pc = 4
           /\ \/ /\ n = Idle /\ gateway' = gateway
                 /\ \/ q.op = "syncSeats" /\ q.seen.amount = AmountOf(r)
                    \/ q.op = "setAddon" /\ ~Live(q.seen.sub)
              \/ /\ Later(q, n) /\ SameRow(q, n) /\ SameRest(q, n)
                 /\ gateway' = IF Live(q.seen.sub) THEN [gateway EXCEPT ![q.seen.sub].amount = AmountOf(r)]
                               ELSE gateway
  <1>1. q.op \in {"setAddon", "syncSeats"} /\ q.pc = 4
    BY Places DEF Push
  <1>3. q.pc # Len(Steps[q.op])
    <2>1. CASE q.op = "setAddon"
      BY <1>1, <2>1, Lengths
    <2>2. CASE q.op = "syncSeats"
      BY <1>1, <2>2, Lengths
    <2> QED
      BY <1>1, <2>1, <2>2
  <1>4. CASE Op(r) = "syncSeats" /\ q.seen.seats = q.seats /\ q.seen.amount = AmountOf(r)
    BY <1>1, <1>4, Ends DEF Push, Op
  <1>5. CASE /\ ~(Op(r) = "syncSeats" /\ q.seen.seats = q.seats /\ q.seen.amount = AmountOf(r))
             /\ Op(r) = "setAddon" /\ ~Live(q.seen.sub)
    BY <1>1, <1>5, Ends DEF Push, Op
  <1>6. CASE /\ ~(Op(r) = "syncSeats" /\ q.seen.seats = q.seats /\ q.seen.amount = AmountOf(r))
             /\ ~(Op(r) = "setAddon" /\ ~Live(q.seen.sub))
    <2>1. GoOn(r, req[r]) /\ gateway' = IF Live(q.seen.sub) THEN [gateway EXCEPT ![q.seen.sub].amount = AmountOf(r)]
                               ELSE gateway
      BY <1>6 DEF Push
    <2> QED
      BY <2>1, <1>1, <1>3, GoesSame
  <1> QED
    BY <1>4, <1>5, <1>6

\* A request that is about to save, on a row or on none.
LEMMA SavesAt ==
    ASSUME Typed, NEW r \in Requests, At(r, "save"), NEW q, q = req[r]
    PROVE  /\ \/ q.op = "subscribe" /\ q.pc = 6
              \/ q.op = "cancel" /\ q.pc = 3
              \/ q.op = "setAddon" /\ q.pc = 5
              \/ q.op = "syncSeats" /\ q.pc = 5
           /\ q.op \in DOMAIN Steps /\ q \in Memory /\ q \in RequestSet /\ Placed(q)
           /\ q.row = 0 => q.op = "subscribe"
  <1>1. \/ q.op = "subscribe" /\ q.pc = 6
        \/ q.op = "cancel" /\ q.pc = 3
        \/ q.op = "setAddon" /\ q.pc = 5
        \/ q.op = "syncSeats" /\ q.pc = 5
    BY Places
  <1>2. q.op \in DOMAIN Steps /\ q \in Memory /\ q \in RequestSet /\ Placed(q)
    BY MemoryOf DEF Memory
  <1> QED
    BY <1>1, <1>2 DEF Placed

\* The row is written, and cancel and syncSeats are done.
LEMMA SaveDoes ==
    ASSUME Typed, NEW r \in Requests, Save(r) \/ SaveFirst(r), NEW q, NEW n, q = req[r], n = req'[r]
    PROVE  /\ Moved(r)
           /\ \/ q.op \in {"cancel", "syncSeats"} /\ n = Idle
              \/ /\ q.op \in {"subscribe", "setAddon"}
                 /\ Later(q, n) /\ SameRow(q, n) /\ SameRest(q, n)
  <1>1. GoOn(r, req[r]) /\ At(r, "save")
    BY DEF Save, SaveFirst
  <1>2. CASE q.op \in {"cancel", "syncSeats"}
    <2>1. q.pc = Len(Steps[q.op])
      BY <1>1, <1>2, SavesAt, Last
    <2> QED
      BY <1>1, <1>2, <2>1, GoesSame
  <1>3. CASE q.op \in {"subscribe", "setAddon"}
    <2>1. q.pc # Len(Steps[q.op])
      BY <1>1, <1>3, SavesAt, Last
    <2> QED
      BY <1>1, <1>3, <2>1, GoesSame
  <1> QED
    BY <1>1, <1>2, <1>3, SavesAt

\* The last steps, and those that fail.
LEMMA StopDoes ==
    ASSUME Typed, NEW r \in Requests, SaveRefused(r) \/ Activate(r) \/ Flip(r) \/ Die(r) \/ LoseAnswer(r)
    PROVE  Moved(r) /\ req'[r] = Idle
  BY Ends DEF SaveRefused, Activate, Flip, Die, LoseAnswer

\* The gateway is not reached.
LEMMA GatewayFailsDoes ==
    ASSUME Typed, NEW r \in Requests, GatewayFails(r), NEW q, NEW n, q = req[r], n = req'[r]
    PROVE  /\ Moved(r)
           /\ \/ q.op = "subscribe" /\ q.pc = 5
              \/ q.op = "cancel" /\ q.pc = 2
              \/ q.op \in {"setAddon", "syncSeats"} /\ q.pc = 4
           /\ \/ n = Idle /\ q.op = "setAddon"
              \/ Later(q, n) /\ SameRow(q, n) /\ SameRest(q, n)
  <1>1. \/ q.op = "subscribe" /\ q.pc = 5
        \/ q.op = "cancel" /\ q.pc = 2
        \/ q.op \in {"setAddon", "syncSeats"} /\ q.pc = 4
    BY Places DEF GatewayFails
  <1>2. q.op \in DOMAIN Steps
    BY MemoryOf DEF Memory
  <1>3. q.pc # Len(Steps[q.op])
    BY <1>1, <1>2, Last
  <1>4. CASE GoOn(r, req[r])
    BY <1>1, <1>3, <1>4, GoesSame
  <1>5. CASE Op(r) = "setAddon" /\ End(r)
    BY <1>1, <1>5, Ends DEF Op
  <1> QED
    BY <1>4, <1>5 DEF GatewayFails

\* A request begins.
LEMMA StartDoes ==
    ASSUME Typed, NEW r \in Requests, NEW op \in DOMAIN Steps \ {"none"}, NEW plan \in Plans,
           NEW wanted \in BOOLEAN, Start(r, op, plan, wanted), NEW n, n = req'[r]
    PROVE  /\ Moved(r) /\ req[r] = Idle
           /\ n \in Memory /\ n.op = op /\ n.pc = 1 /\ n.plan = plan /\ n.addon = wanted
           /\ n.row = 0 /\ n.seen = NoRow /\ n.sub = 0
  <1> DEFINE m == [Idle EXCEPT !.op = op, !.plan = plan, !.addon = wanted]
  <1> DEFINE m1 == [Idle EXCEPT !.op = op]
  <1> DEFINE m2 == [m1 EXCEPT !.plan = plan]
  <1> DEFINE m3 == [m2 EXCEPT !.addon = wanted]
  <1>1. m = m3
    OBVIOUS
  <1>2. m \in Memory /\ m.op = op /\ m.pc = 1 /\ m.plan = plan /\ m.addon = wanted /\ m.row = 0 /\ m.seen = NoRow /\ m.sub = 0
    <2>1. Idle \in Memory /\ Idle.pc = 1 /\ Idle.row = 0 /\ Idle.seen = NoRow /\ Idle.sub = 0
      BY MemoryOf DEF Idle
    <2>2. m1 \in Memory /\ m1.op = op /\ m1.pc = 1 /\ m1.row = 0 /\ m1.seen = NoRow /\ m1.sub = 0
      BY <2>1 DEF Memory
    <2> HIDE DEF m1
    <2>3. m2 \in Memory /\ m2.op = op /\ m2.pc = 1 /\ m2.plan = plan /\ m2.row = 0 /\ m2.seen = NoRow /\ m2.sub = 0
      BY <2>2 DEF Memory
    <2> HIDE DEF m2
    <2>4. m3 \in Memory /\ m3.op = op /\ m3.pc = 1 /\ m3.plan = plan /\ m3.addon = wanted /\ m3.row = 0 /\ m3.seen = NoRow /\ m3.sub = 0
      BY <2>3 DEF Memory
    <2> QED
      BY <1>1, <2>4
  <1>3. req' = [req EXCEPT ![r] = m]
    BY DEF Start
  <1>4. req[r] = Idle
    BY MemoryOf DEF Start, Busy, Placed
  <1> HIDE DEF m
  <1>6. req'[r] = m
    BY <1>3 DEF Typed, RequestsOK
  <1> QED
    BY <1>2, <1>3, <1>4, <1>6 DEF Moved

-----------------------------------------------------------------------------
(***************************************************************************)
(* Steps, and what they make of the gateway and of the rows.               *)
(***************************************************************************)
\* The steps of Next, one by one.
LEMMA NextCases ==
    ASSUME Next, NEW P,
           ASSUME NEW r \in Requests, NEW op \in DOMAIN Steps \ {"none"}, NEW plan \in Plans,
                  NEW wanted \in BOOLEAN, Start(r, op, plan, wanted),
                  seats' = seats \/ (op = "syncSeats" /\ seats' \in 1 .. MaxSeats) PROVE P,
           ASSUME NEW r \in Requests, Count(r) PROVE P,
           ASSUME NEW r \in Requests, ReadAddon(r) PROVE P,
           ASSUME NEW r \in Requests, FindRow(r) PROVE P,
           ASSUME NEW r \in Requests, FindNone(r) PROVE P,
           ASSUME NEW r \in Requests, Create(r) PROVE P,
           ASSUME NEW r \in Requests, Decline(r) PROVE P,
           ASSUME NEW r \in Requests, CancelOld(r) PROVE P,
           ASSUME NEW r \in Requests, Push(r) PROVE P,
           ASSUME NEW r \in Requests, Save(r) PROVE P,
           ASSUME NEW r \in Requests, SaveFirst(r) PROVE P,
           ASSUME NEW r \in Requests, SaveRefused(r) PROVE P,
           ASSUME NEW r \in Requests, Activate(r) PROVE P,
           ASSUME NEW r \in Requests, Flip(r) PROVE P,
           ASSUME NEW r \in Requests, Die(r) PROVE P,
           ASSUME NEW r \in Requests, LoseAnswer(r) PROVE P,
           ASSUME NEW r \in Requests, GatewayFails(r) PROVE P,
           ASSUME NEW s \in DOMAIN gateway, Suspend(s) PROVE P,
           ASSUME NEW s \in DOMAIN gateway, Expire(s) PROVE P,
           ASSUME NEW h \in Hooks, ApplyHook(h) PROVE P,
           ASSUME NEW h \in Hooks, NEW e \in events, ReadHook(h, e) PROVE P,
           ASSUME SetMemberStatus PROVE P
    PROVE  P
  <1>1. ASSUME NEW r \in Requests, Begin(r) PROVE P
    <2>1. DOMAIN Steps \ {"none"} = {"subscribe", "cancel", "setAddon", "syncSeats"}
      BY Lengths
    <2>0. "flat" \in Plans
      BY DEF Plans
    <2>2. ASSUME NEW plan \in Plans, Subscribe(r, plan) PROVE P
      BY <2>1, <2>2 DEF Subscribe
    <2>3. ASSUME Cancel(r) PROVE P
      BY <2>0, <2>1, <2>3 DEF Cancel
    <2>4. ASSUME ChangeTeam(r) PROVE P
      BY <2>0, <2>1, <2>4 DEF ChangeTeam
    <2>5. ASSUME NEW wanted \in BOOLEAN, SetAddon(r, wanted) PROVE P
      BY <2>0, <2>1, <2>5 DEF SetAddon
    <2> QED
      BY <1>1, <2>2, <2>3, <2>4, <2>5 DEF Begin
  <1>2. ASSUME NEW r \in Requests, Proceed(r) PROVE P
    BY <1>2 DEF Proceed
  <1> QED
    BY <1>1, <1>2 DEF Next

\* One subscription is opened, charged otherwise, or marked.
Opens(a) == gateway' = Append(gateway, [state |-> "active", amount |-> a])
Charges(s, a) == gateway' = [gateway EXCEPT ![s].amount = a]
Marks(s, state) == gateway' = [gateway EXCEPT ![s].state = state]

\* The amount that a request computes.
LEMMA AmountTyped ==
    ASSUME Typed, NEW r \in Requests
    PROVE  AmountOf(r) \in Amounts
  <1>1. req[r].plan \in Plans /\ req[r].seats \in 0 .. MaxSeats /\ req[r].addon \in BOOLEAN
    BY MemoryOf DEF Memory
  <1> QED
    BY <1>1, BoundsAssumption DEF AmountOf, Amount, Amounts

\* A request with a row works on a subscription of the gateway.
LEMMA SeenTyped ==
    ASSUME Typed, NEW r \in Requests, req[r].row # 0 \/ req[r].seen # NoRow
    PROVE  /\ req[r].row \in 1 .. Len(rows) /\ req[r].seen # NoRow /\ req[r].seen \in RowSet
           /\ req[r].seen.sub \in 1 .. Len(gateway)
           /\ rows[req[r].row] \in RowSet
  <1>1. req[r] \in RequestSet /\ Placed(req[r])
    BY MemoryOf
  <1>2. /\ Len(rows) \in Nat /\ req[r].row \in 0 .. Len(rows) /\ req[r].seen \in RowSet \cup {NoRow}
        /\ rows \in Seq(RowSet)
    BY <1>1 DEF RequestSet, Typed, StoreOK
  <1>3. req[r].row # 0 /\ req[r].seen # NoRow
    BY <1>1 DEF Placed
  <1>4. req[r].seen \in RowSet /\ req[r].row \in 1 .. Len(rows)
    BY <1>2, <1>3
  <1>5. req[r].seen.sub \in 1 .. Len(gateway)
    BY <1>4 DEF RowSet
  <1>6. rows[req[r].row] \in RowSet
    BY <1>2, <1>4
  <1> QED
    BY <1>3, <1>4, <1>5, <1>6

\* What a step makes of the gateway.
LEMMA GatewayCases ==
    ASSUME Typed, Next
    PROVE  \/ gateway' = gateway
           \/ \E a \in Amounts : Opens(a) /\ Len(gateway) < MaxSubscriptions
           \/ \E s \in 1 .. Len(gateway), a \in Amounts : Charges(s, a)
           \/ \E s \in 1 .. Len(gateway), state \in {"suspended", "ended"} :
                 Marks(s, state) /\ (state = "suspended" => gateway[s].state = "active")
  <1> DEFINE P == \/ gateway' = gateway
                  \/ \E a \in Amounts : Opens(a) /\ Len(gateway) < MaxSubscriptions
                  \/ \E s \in 1 .. Len(gateway), a \in Amounts : Charges(s, a)
                  \/ \E s \in 1 .. Len(gateway), state \in {"suspended", "ended"} :
                        Marks(s, state) /\ (state = "suspended" => gateway[s].state = "active")
  <1>0. DOMAIN gateway = 1 .. Len(gateway)
    BY DEF Typed, StoreOK
  <1>1. ASSUME gateway' = gateway PROVE P
    BY <1>1
  <1>2. ASSUME NEW r \in Requests, Create(r) PROVE P
    <2>1. Opens(AmountOf(r)) /\ Len(gateway) < MaxSubscriptions
      BY <1>2 DEF Create, Opens
    <2> QED
      BY <2>1, AmountTyped
  <1>3. ASSUME NEW r \in Requests, CancelOld(r) PROVE P
    <2>1. CASE req[r].seen # NoRow /\ Live(req[r].seen.sub)
      <3>1. Marks(req[r].seen.sub, "ended")
        BY <1>3, <2>1 DEF CancelOld, Finish, Marks
      <3>2. req[r].seen.sub \in 1 .. Len(gateway)
        BY <2>1, SeenTyped
      <3> QED
        BY <3>1, <3>2
    <2>2. CASE ~(req[r].seen # NoRow /\ Live(req[r].seen.sub))
      BY <1>3, <2>2, <1>1 DEF CancelOld
    <2> QED
      BY <2>1, <2>2
  <1>4. ASSUME NEW r \in Requests, At(r, "push"), Charges(req[r].seen.sub, AmountOf(r)) PROVE P
    <2>1. req[r].row # 0
      BY <1>4, MemoryOf, Places DEF Placed
    <2>2. req[r].seen.sub \in 1 .. Len(gateway)
      BY <2>1, SeenTyped
    <2> QED
      BY <1>4, <2>2, AmountTyped
  <1>5. ASSUME NEW r \in Requests, Push(r) PROVE P
    BY <1>5, <1>4, <1>1, PushDoes DEF Push, Charges
  <1>6. ASSUME NEW r \in Requests, LoseAnswer(r) PROVE P
    <2>1. CASE Opens(AmountOf(r)) /\ Len(gateway) < MaxSubscriptions
      BY <2>1, AmountTyped
    <2>2. CASE At(r, "push") /\ Charges(req[r].seen.sub, AmountOf(r))
      BY <2>2, <1>4
    <2> QED
      BY <1>6, <2>1, <2>2 DEF LoseAnswer, Opens, Charges
  <1>7. ASSUME NEW s \in DOMAIN gateway, Suspend(s) PROVE P
    <2>1. Marks(s, "suspended") /\ gateway[s].state = "active"
      BY <1>7 DEF Suspend, Marks
    <2> QED
      BY <2>1, <1>0
  <1>8. ASSUME NEW s \in DOMAIN gateway, Expire(s) PROVE P
    <2>1. Marks(s, "ended")
      BY <1>8 DEF Expire, Finish, Marks
    <2> QED
      BY <2>1, <1>0
  <1> HIDE DEF P
  <1>9. P
    BY <1>1, <1>2, <1>3, <1>5, <1>6, <1>7, <1>8, NextCases
       DEF Start, Count, ReadAddon, FindRow, FindNone, Decline, Save, SaveFirst, SaveRefused,
           Activate, Flip, Die, GatewayFails, ApplyHook, ReadHook, SetMemberStatus
  <1> QED
    BY <1>9 DEF P

\* Changing one subscription changes no other.
LEMMA Charged ==
    ASSUME Typed, NEW s \in 1 .. Len(gateway), NEW a \in Amounts, Charges(s, a)
    PROVE  /\ gateway' \in Seq(Subscriptions) /\ Len(gateway') = Len(gateway)
           /\ gateway'[s].amount = a
           /\ \A t \in 1 .. Len(gateway) : /\ gateway'[t].state = gateway[t].state
                                           /\ t # s => gateway'[t] = gateway[t]
  <1> DEFINE n == [gateway[s] EXCEPT !.amount = a]
  <1>1. gateway \in Seq(Subscriptions) /\ gateway[s] \in Subscriptions
    BY DEF Typed, StoreOK
  <1>2. n \in Subscriptions /\ n.state = gateway[s].state /\ n.amount = a
    BY <1>1 DEF Subscriptions
  <1>3. gateway' = [gateway EXCEPT ![s] = n]
    BY DEF Charges
  <1> HIDE DEF n
  <1>4. /\ gateway' \in Seq(Subscriptions) /\ Len(gateway') = Len(gateway) /\ gateway'[s] = n
        /\ \A t \in 1 .. Len(gateway) : t # s => gateway'[t] = gateway[t]
    BY <1>1, <1>2, <1>3, ExceptSeq
  <1> QED
    BY <1>2, <1>4

\* Marking one subscription changes no other.
LEMMA Marked ==
    ASSUME Typed, NEW s \in 1 .. Len(gateway), NEW state \in {"suspended", "ended"}, Marks(s, state)
    PROVE  /\ gateway' \in Seq(Subscriptions) /\ Len(gateway') = Len(gateway)
           /\ gateway'[s].state = state
           /\ \A t \in 1 .. Len(gateway) : /\ gateway'[t].amount = gateway[t].amount
                                           /\ t # s => gateway'[t] = gateway[t]
  <1> DEFINE n == [gateway[s] EXCEPT !.state = state]
  <1>1. gateway \in Seq(Subscriptions) /\ gateway[s] \in Subscriptions
    BY DEF Typed, StoreOK
  <1>2. n \in Subscriptions /\ n.state = state /\ n.amount = gateway[s].amount
    BY <1>1 DEF Subscriptions
  <1>3. gateway' = [gateway EXCEPT ![s] = n]
    BY DEF Marks
  <1> HIDE DEF n
  <1>4. /\ gateway' \in Seq(Subscriptions) /\ Len(gateway') = Len(gateway) /\ gateway'[s] = n
        /\ \A t \in 1 .. Len(gateway) : t # s => gateway'[t] = gateway[t]
    BY <1>1, <1>2, <1>3, ExceptSeq
  <1> QED
    BY <1>2, <1>4

\* Opening one changes none.
LEMMA Opened ==
    ASSUME Typed, NEW a \in Amounts, Opens(a)
    PROVE  /\ gateway' \in Seq(Subscriptions) /\ Len(gateway') = Len(gateway) + 1
           /\ gateway'[Len(gateway) + 1].amount = a /\ gateway'[Len(gateway) + 1].state = "active"
           /\ \A t \in 1 .. Len(gateway) : gateway'[t] = gateway[t]
  <1> DEFINE n == [state |-> "active", amount |-> a]
  <1>1. gateway \in Seq(Subscriptions) /\ n \in Subscriptions /\ n.amount = a /\ n.state = "active"
    BY DEF Typed, StoreOK, Subscriptions
  <1>2. gateway' = Append(gateway, n)
    BY DEF Opens
  <1> HIDE DEF n
  <1> QED
    BY <1>1, <1>2

\* Subscriptions stay, and neither come back to life nor are paid again.
Ages ==
    /\ Len(gateway) \in Nat /\ Len(gateway') \in Nat /\ Len(gateway) <= Len(gateway')
    /\ \A s \in 1 .. Len(gateway) :
          /\ gateway[s].state = "ended" => gateway'[s].state = "ended"
          /\ gateway[s].state # "active" => gateway'[s].state # "active"

\* A step leaves the gateway with subscriptions, and each with its past.
LEMMA GatewayTyped ==
    ASSUME Typed, Next
    PROVE  gateway' \in Seq(Subscriptions) /\ Len(gateway') <= MaxSubscriptions /\ Ages
  <1>1. gateway \in Seq(Subscriptions) /\ Len(gateway) <= MaxSubscriptions /\ MaxSubscriptions \in Nat
    BY BoundsAssumption DEF Typed, StoreOK
  <1>2. CASE gateway' = gateway
    BY <1>1, <1>2 DEF Ages
  <1>3. ASSUME NEW a \in Amounts, Opens(a), Len(gateway) < MaxSubscriptions
        PROVE  gateway' \in Seq(Subscriptions) /\ Len(gateway') <= MaxSubscriptions /\ Ages
    BY <1>1, <1>3, Opened DEF Ages
  <1>4. ASSUME NEW s \in 1 .. Len(gateway), NEW a \in Amounts, Charges(s, a)
        PROVE  gateway' \in Seq(Subscriptions) /\ Len(gateway') <= MaxSubscriptions /\ Ages
    BY <1>1, <1>4, Charged DEF Ages
  <1>5. ASSUME NEW s \in 1 .. Len(gateway), NEW state \in {"suspended", "ended"}, Marks(s, state),
               state = "suspended" => gateway[s].state = "active"
        PROVE  gateway' \in Seq(Subscriptions) /\ Len(gateway') <= MaxSubscriptions /\ Ages
    BY <1>1, <1>5, Marked DEF Ages
  <1> QED
    BY <1>2, <1>3, <1>4, <1>5, GatewayCases

\* What a step makes of the rows: one is written, or the first is added.
Writes(i, row) == rows' = [rows EXCEPT ![i] = row]

\* The row that r saves is a row.
LEMMA SavedTyped ==
    ASSUME Typed, NEW r \in Requests, At(r, "save")
    PROVE  /\ req[r].op = "subscribe" => NewRow(r) \in RowSet
           /\ req[r].row # 0 => /\ req[r].row \in 1 .. Len(rows) /\ Saved(r) \in RowSet
                                /\ req[r].op = "subscribe" => Saved(r) = NewRow(r)
                                /\ req[r].op # "subscribe" =>
                                     /\ Saved(r).sub = rows[req[r].row].sub
                                     /\ Saved(r).plan = rows[req[r].row].plan
                                /\ req[r].op = "cancel" =>
                                     /\ Saved(r).status = "CANCELED"
                                     /\ Saved(r).amount = rows[req[r].row].amount
                                /\ req[r].op \in {"setAddon", "syncSeats"} =>
                                     /\ Saved(r).status = rows[req[r].row].status
                                     /\ Saved(r).amount = AmountOf(r)
  <1>0. Len(gateway) \in Nat
    BY DEF Typed, StoreOK
  <1>1. /\ (req[r].op = "subscribe" /\ req[r].pc = 6) \/ req[r].op \in {"cancel", "setAddon", "syncSeats"}
        /\ req[r] \in Memory /\ req[r] \in RequestSet /\ Placed(req[r])
    BY SavesAt
  <1>2. ASSUME req[r].op = "subscribe" PROVE NewRow(r) \in RowSet
    <2>1. req[r].sub \in 1 .. Len(gateway)
      BY <1>0, <1>1, <1>2 DEF RequestSet, Placed
    <2> QED
      BY <2>1, <1>1, AmountTyped DEF NewRow, RowSet, Memory
  <1>3. ASSUME req[r].row # 0
        PROVE  /\ req[r].row \in 1 .. Len(rows) /\ Saved(r) \in RowSet
               /\ req[r].op = "subscribe" => Saved(r) = NewRow(r)
               /\ req[r].op # "subscribe" =>
                    /\ Saved(r).sub = rows[req[r].row].sub
                    /\ Saved(r).plan = rows[req[r].row].plan
               /\ req[r].op = "cancel" =>
                    /\ Saved(r).status = "CANCELED"
                    /\ Saved(r).amount = rows[req[r].row].amount
               /\ req[r].op \in {"setAddon", "syncSeats"} =>
                    /\ Saved(r).status = rows[req[r].row].status
                    /\ Saved(r).amount = AmountOf(r)
    <2> DEFINE row == rows[req[r].row]
    <2>1. /\ req[r].row \in 1 .. Len(rows) /\ row \in RowSet /\ req[r].seen \in RowSet
      BY <1>3, SeenTyped
    <2>2. /\ req[r].seen.seats \in 0 .. MaxSeats /\ AmountOf(r) \in Amounts
          /\ req[r].seats \in 0 .. MaxSeats
      BY <2>1, <1>1, AmountTyped DEF RowSet, Memory
    <2> HIDE DEF row
    <2>3. CASE req[r].op = "subscribe"
      BY <2>1, <2>3, <1>2 DEF Saved, Op
    <2>4. CASE req[r].op = "cancel"
      <3>1. Saved(r) = [row EXCEPT !.status = "CANCELED"]
        BY <2>4 DEF Saved, Op, row
      <3>2. Saved(r) \in RowSet /\ Saved(r).sub = row.sub /\ Saved(r).plan = row.plan
            /\ Saved(r).status = "CANCELED" /\ Saved(r).amount = row.amount
        BY <3>1, <2>1 DEF RowSet
      <3> QED
        BY <3>2, <2>1, <2>4 DEF row
    <2>5. CASE req[r].op \in {"setAddon", "syncSeats"}
      <3> DEFINE n == IF req[r].op = "setAddon" THEN req[r].seen.seats ELSE req[r].seats
      <3> DEFINE once == [row EXCEPT !.seats = n]
      <3>0. n \in 0 .. MaxSeats
        BY <2>2
      <3>1. Saved(r) = [once EXCEPT !.amount = AmountOf(r)]
        BY <2>5 DEF Saved, Op, row
      <3> HIDE DEF n
      <3>2. once \in RowSet /\ once.sub = row.sub /\ once.plan = row.plan /\ once.status = row.status
        BY <2>1, <3>0 DEF RowSet
      <3> HIDE DEF once
      <3>3. /\ Saved(r) \in RowSet /\ Saved(r).sub = row.sub /\ Saved(r).plan = row.plan
            /\ Saved(r).status = row.status /\ Saved(r).amount = AmountOf(r)
        BY <3>1, <3>2, <2>2 DEF RowSet
      <3> QED
        BY <3>3, <2>1, <2>5 DEF row
    <2> QED
      BY <2>3, <2>4, <2>5, <1>1
  <1> QED
    BY <1>2, <1>3

\* A webhook that is under way has a row and an event.
LEMMA HookTyped ==
    ASSUME Typed, NEW h \in Hooks, hook[h].row # 0 \/ hook[h] # NoHook
    PROVE  /\ hook[h] # NoHook /\ hook[h] \in HookSet
           /\ hook[h].row \in 1 .. Len(rows) /\ rows[hook[h].row] \in RowSet
           /\ hook[h].event \in EventSet
           /\ hook[h].event.status \in {"PAST_DUE", "CANCELED"}
  <1>1. hook[h] \in HookSet \cup {NoHook} /\ rows \in Seq(RowSet)
    BY DEF Typed, HooksOK, StoreOK
  <1>2. hook[h] # NoHook
    BY DEF NoHook
  <1>3. hook[h] \in HookSet
    BY <1>1, <1>2
  <1>4. hook[h].row \in 1 .. Len(rows) /\ hook[h].event \in EventSet
    BY <1>3 DEF HookSet
  <1>5. rows[hook[h].row] \in RowSet
    BY <1>1, <1>4
  <1>6. hook[h].event.status \in {"PAST_DUE", "CANCELED"}
    BY <1>4 DEF EventSet
  <1> QED
    BY <1>2, <1>3, <1>4, <1>5, <1>6

\* The webhook's transaction writes the status of its row.
LEMMA ApplyWrites ==
    ASSUME Typed, NEW h \in Hooks, ApplyHook(h), NEW i, NEW e, i = hook[h].row, e = hook[h].event
    PROVE  \/ rows' = rows /\ org' = org
           \/ \E row \in RowSet :
                 /\ Writes(i, row) /\ org' = e.status
                 /\ row.status = e.status /\ row.sub = rows[i].sub
                 /\ row.plan = rows[i].plan /\ row.amount = rows[i].amount
  <1>1. hook[h].row # 0
    BY DEF ApplyHook
  <1>2. /\ rows[i] \in RowSet /\ e.status \in {"PAST_DUE", "CANCELED"}
    BY <1>1, HookTyped
  <1>3. CASE MayBe(i, e.status)
    <2> DEFINE row == [rows[i] EXCEPT !.status = e.status]
    <2>1. /\ row \in RowSet /\ row.status = e.status /\ row.sub = rows[i].sub
          /\ row.plan = rows[i].plan /\ row.amount = rows[i].amount
      BY <1>2 DEF RowSet
    <2>2. Writes(i, row) /\ org' = e.status
      BY <1>3 DEF ApplyHook, Writes
    <2> HIDE DEF row
    <2> QED
      BY <2>1, <2>2
  <1>4. CASE ~MayBe(i, e.status)
    BY <1>4 DEF ApplyHook
  <1> QED
    BY <1>3, <1>4

\* What a step makes of the rows.
LEMMA RowsCases ==
    ASSUME Typed, Next
    PROVE  \/ rows' = rows
           \/ \E i \in 1 .. Len(rows), row \in RowSet : Writes(i, row) /\ gateway' = gateway
           \/ \E row \in RowSet : rows' = Append(rows, row) /\ gateway' = gateway
  <1> DEFINE P == \/ rows' = rows
                  \/ \E i \in 1 .. Len(rows), row \in RowSet : Writes(i, row) /\ gateway' = gateway
                  \/ \E row \in RowSet : rows' = Append(rows, row) /\ gateway' = gateway
  <1>1. ASSUME rows' = rows PROVE P
    BY <1>1
  <1>2. ASSUME NEW r \in Requests, Save(r) PROVE P
    <2>1. req[r].row \in 1 .. Len(rows) /\ Saved(r) \in RowSet
      BY <1>2, SavedTyped DEF Save
    <2>2. Writes(req[r].row, Saved(r)) /\ gateway' = gateway
      BY <1>2 DEF Save, Writes
    <2> QED
      BY <2>1, <2>2
  <1>3. ASSUME NEW r \in Requests, SaveFirst(r) PROVE P
    <2>1. NewRow(r) \in RowSet
      BY <1>3, SavedTyped, SavesAt DEF SaveFirst
    <2>2. rows' = Append(rows, NewRow(r)) /\ gateway' = gateway
      BY <1>3 DEF SaveFirst
    <2> QED
      BY <2>1, <2>2
  <1>4. ASSUME NEW h \in Hooks, ApplyHook(h) PROVE P
    <2>1. hook[h].row \in 1 .. Len(rows) /\ gateway' = gateway
      BY <1>4, HookTyped DEF ApplyHook
    <2> QED
      BY <2>1, <1>4, ApplyWrites
  <1> HIDE DEF P
  <1>9. P
    BY <1>1, <1>2, <1>3, <1>4, NextCases
       DEF Start, Count, ReadAddon, FindRow, FindNone, Create, Decline, CancelOld, Push, SaveRefused,
           Activate, Flip, Die, LoseAnswer, GatewayFails, Fault, Suspend, Expire, ReadHook, SetMemberStatus
  <1> QED
    BY <1>9 DEF P

\* Writing one row changes no other.
LEMMA Written ==
    ASSUME Typed, NEW i \in 1 .. Len(rows), NEW row \in RowSet, Writes(i, row)
    PROVE  /\ rows' \in Seq(RowSet) /\ Len(rows') = Len(rows) /\ rows'[i] = row
           /\ \A j \in 1 .. Len(rows) : j # i => rows'[j] = rows[j]
  <1>1. rows \in Seq(RowSet)
    BY DEF Typed, StoreOK
  <1> QED
    BY <1>1, ExceptSeq DEF Writes

\* Rows and events of before are rows and events after a step.
LEMMA Wider ==
    ASSUME Ages
    PROVE  RowSet \subseteq RowSet' /\ EventSet \subseteq EventSet'
  BY DEF Ages, RowSet, EventSet

\* A step leaves rows.
LEMMA RowsTyped ==
    ASSUME Typed, Next
    PROVE  /\ rows' \in Seq(RowSet') /\ Len(rows) \in Nat /\ Len(rows') \in Nat
           /\ Len(rows) <= Len(rows')
  <1>1. rows \in Seq(RowSet) /\ Len(rows) \in Nat
    BY DEF Typed, StoreOK
  <1>2. RowSet \subseteq RowSet'
    BY GatewayTyped, Wider
  <1>3. rows' \in Seq(RowSet) /\ Len(rows') \in Nat /\ Len(rows) <= Len(rows')
    BY <1>1, Written, RowsCases
  <1>4. ASSUME NEW S, NEW T, S \subseteq T, NEW s \in Seq(S) PROVE s \in Seq(T)
    BY <1>4
  <1> HIDE DEF RowSet
  <1> QED
    BY <1>1, <1>2, <1>3, <1>4

-----------------------------------------------------------------------------
(***************************************************************************)
(* Type correctness.                                                       *)
(***************************************************************************)
\* The memory of a request that has moved is well typed.
LEMMA RequestsStay ==
    ASSUME Typed, Next, NEW r \in Requests, Moved(r), req'[r] \in Memory, Placed(req'[r]),
           req'[r].row <= Len(rows'), req'[r].sub <= Len(gateway')
    PROVE  RequestsOK'
  <1>1. /\ Len(gateway) \in Nat /\ Len(gateway') \in Nat /\ Len(gateway) <= Len(gateway')
        /\ Len(rows) \in Nat /\ Len(rows') \in Nat /\ Len(rows) <= Len(rows')
        /\ RowSet \subseteq RowSet'
    BY GatewayTyped, RowsTyped, Wider DEF Ages
  <1> HIDE DEF RowSet
  <1>2. RequestSet \subseteq RequestSet'
    BY <1>1 DEF RequestSet
  <1>3. req'[r] \in RequestSet'
    BY <1>1 DEF RequestSet, Memory
  <1>4. req' \in [Requests -> RequestSet'] /\ \A q \in Requests : q # r => req'[q] = req[q]
    BY <1>2, <1>3 DEF Moved, Typed, RequestsOK
  <1>5. ASSUME NEW q \in Requests PROVE Placed(req'[q])
    BY <1>4 DEF Typed, RequestsOK
  <1> QED
    BY <1>4, <1>5 DEF RequestsOK

\* The steps that move no request leave them typed.
LEMMA RequestsRest ==
    ASSUME Typed, Next, req' = req
    PROVE  RequestsOK'
  <1>1. /\ Len(gateway) \in Nat /\ Len(gateway') \in Nat /\ Len(gateway) <= Len(gateway')
        /\ Len(rows) \in Nat /\ Len(rows') \in Nat /\ Len(rows) <= Len(rows')
        /\ RowSet \subseteq RowSet'
    BY GatewayTyped, RowsTyped, Wider DEF Ages
  <1> HIDE DEF RowSet
  <1>2. RequestSet \subseteq RequestSet'
    BY <1>1 DEF RequestSet
  <1>3. req \in [Requests -> RequestSet] /\ \A r \in Requests : Placed(req[r])
    BY DEF Typed, RequestsOK
  <1> HIDE DEF RequestSet
  <1> QED
    BY <1>2, <1>3 DEF RequestsOK

\* A request that goes on with its row and its subscription stays in its place,
\* unless it is at a step that finds the one or creates the other.
LEMMA StaysPlaced ==
    ASSUME Typed, NEW r \in Requests, NEW q, NEW n, q = req[r], n = req'[r],
           Later(q, n), SameRow(q, n), n.sub = q.sub,
           ~(q.op = "subscribe" /\ q.pc \in {4, 7}),
           ~(q.op \in {"cancel", "syncSeats"} /\ q.pc = 1),
           ~(q.op = "setAddon" /\ q.pc = 2),
           q.op # "none", q.pc # Len(Steps[q.op])
    PROVE  Placed(n)
  <1>1. Placed(q) /\ q \in Memory /\ q.op \in DOMAIN Steps
    BY MemoryOf DEF Memory
  <1>2. q.pc \in 1 .. 7 /\ n.pc = q.pc + 1 /\ n.op = q.op
    BY <1>1 DEF Memory, Later
  <1>3. n.pc <= Len(Steps[n.op])
    <2> DEFINE last == Len(Steps[q.op])
    <2>1. last \in Nat /\ q.pc <= last /\ q.pc # last
      BY <1>1, Lengths DEF Placed
    <2> HIDE DEF last
    <2>2. q.pc + 1 <= last
      BY <1>2, <2>1
    <2> QED
      BY <1>2, <2>2 DEF last
  <1>4. n.row = q.row /\ n.seen = q.seen /\ n.sub = q.sub
    BY DEF SameRow
  <1>5. n.row = 0 <=> n.seen = NoRow
    BY <1>1, <1>4 DEF Placed
  <1>6. n.sub # 0 <=> n.op = "subscribe" /\ n.pc >= 5
    BY <1>1, <1>2, <1>4 DEF Placed
  <1>7. n.op = "subscribe" /\ n.pc <= 3 => n.row = 0
    BY <1>1, <1>2, <1>4 DEF Placed
  <1>8. n.op \in {"cancel", "syncSeats"} => (n.pc >= 2 <=> n.row # 0)
    BY <1>1, <1>2, <1>4 DEF Placed
  <1>9. n.op = "setAddon" => (n.pc <= 2 => n.row = 0) /\ (n.pc \in 3 .. 5 => n.row # 0)
    BY <1>1, <1>2, <1>4 DEF Placed
  <1> QED
    BY <1>2, <1>3, <1>5, <1>6, <1>7, <1>8, <1>9 DEF Placed

\* A step leaves each request in its place.
LEMMA NextRequests == Typed /\ Next => RequestsOK'
  <1> SUFFICES ASSUME Typed, Next PROVE RequestsOK'
    OBVIOUS
  <1>0. /\ Len(gateway) \in Nat /\ Len(gateway') \in Nat /\ Len(gateway) <= Len(gateway')
        /\ Len(rows) \in Nat /\ Len(rows') \in Nat /\ Len(rows) <= Len(rows')
    BY GatewayTyped, RowsTyped DEF Ages
  <1> DEFINE P == RequestsOK'
  <1>a. ASSUME req' = req PROVE P
    BY <1>a, RequestsRest
  <1>b. ASSUME NEW r \in Requests, Moved(r), req'[r] = Idle PROVE P
    <2>1. req'[r].row <= Len(rows') /\ req'[r].sub <= Len(gateway') /\ req'[r] \in Memory /\ Placed(req'[r])
      BY <1>b, <1>0, MemoryOf
    <2> QED
      BY <1>b, <2>1, RequestsStay
  <1>e. ASSUME NEW r \in Requests
        PROVE  req[r].row <= Len(rows') /\ req[r].sub <= Len(gateway') /\ req[r].op \in DOMAIN Steps
    <2>1. req[r].row \in 0 .. Len(rows) /\ req[r].sub \in 0 .. Len(gateway) /\ req[r].op \in DOMAIN Steps
      BY MemoryOf DEF RequestSet
    <2> QED
      BY <2>1, <1>0
  <1>c. ASSUME NEW r \in Requests, Moved(r), NEW q, NEW n, q = req[r], n = req'[r],
               Later(q, n), SameRow(q, n), n.sub = q.sub,
               \/ q.op = "subscribe" /\ q.pc \in {1, 2, 3, 5, 6}
               \/ q.op = "cancel" /\ q.pc = 2
               \/ q.op = "setAddon" /\ q.pc \in {1, 3, 4, 5}
               \/ q.op = "syncSeats" /\ q.pc \in {2, 3, 4}
        PROVE  P
    <2>1. q.pc # Len(Steps[q.op])
      BY <1>c, <1>e, Last
    <2>2. Placed(n)
      BY <1>c, <2>1, StaysPlaced
    <2>3. n \in Memory /\ n.row <= Len(rows') /\ n.sub <= Len(gateway')
      BY <1>c, <1>e DEF Later, SameRow
    <2> QED
      BY <1>c, <2>2, <2>3, RequestsStay
  <1>1. ASSUME NEW r \in Requests, NEW op \in DOMAIN Steps \ {"none"}, NEW plan \in Plans,
               NEW wanted \in BOOLEAN, Start(r, op, plan, wanted)
        PROVE  P
    <2> DEFINE n == req'[r]
    <2>1. /\ Moved(r) /\ n \in Memory /\ n.op = op /\ n.pc = 1 /\ n.row = 0 /\ n.seen = NoRow /\ n.sub = 0
      BY <1>1, StartDoes
    <2> HIDE DEF n
    <2>2. Placed(n)
      <3> DEFINE last == Len(Steps[op])
      <3>2. last \in 1 .. 7
        BY Lengths
      <3> HIDE DEF last
      <3>3. 1 <= last
        BY <3>2
      <3>1. 1 <= Len(Steps[op])
        BY <3>3 DEF last
      <3> QED
        BY <2>1, <3>1 DEF Placed
    <2>3. n.row <= Len(rows') /\ n.sub <= Len(gateway')
      BY <2>1, <1>0
    <2> QED
      BY <2>1, <2>2, <2>3, RequestsStay DEF n
  <1>2. ASSUME NEW r \in Requests, Count(r) PROVE P
    <2> DEFINE q == req[r]
    <2> DEFINE n == req'[r]
    <2>1. /\ Moved(r)
          /\ (q.op = "subscribe" /\ q.pc = 1) \/ (q.op = "setAddon" /\ q.pc = 3) \/ (q.op = "syncSeats" /\ q.pc = 2)
          /\ (q.op = "subscribe" /\ n = Idle) \/ (Later(q, n) /\ SameRow(q, n) /\ n.sub = q.sub)
      BY <1>2, CountDoes
    <2> HIDE DEF q, n
    <2> QED
      BY <2>1, <1>b, <1>c DEF q, n
  <1>3. ASSUME NEW r \in Requests, ReadAddon(r) PROVE P
    <2> DEFINE q == req[r]
    <2> DEFINE n == req'[r]
    <2>1. /\ Moved(r)
          /\ (q.op = "subscribe" /\ q.pc = 2) \/ (q.op = "setAddon" /\ q.pc = 1) \/ (q.op = "syncSeats" /\ q.pc = 3)
          /\ n = Idle \/ (Later(q, n) /\ SameRow(q, n) /\ n.sub = q.sub)
      BY <1>3, ReadAddonDoes
    <2> HIDE DEF q, n
    <2> QED
      BY <2>1, <1>b, <1>c DEF q, n
  <1>4. ASSUME NEW r \in Requests, FindRow(r) PROVE P
    <2> DEFINE q == req[r]
    <2> DEFINE n == req'[r]
    <2>1. /\ Moved(r)
          /\ \/ q.op = "subscribe" /\ q.pc = 3
             \/ q.op = "cancel" /\ q.pc = 1
             \/ q.op = "setAddon" /\ q.pc = 2
             \/ q.op = "syncSeats" /\ q.pc = 1
          /\ q.pc # Len(Steps[q.op])
      BY <1>4, FindRowDoes, FindsAt DEF FindRow
    <2>4. \E i \in 1 .. Len(rows) :
             \/ n = Idle
             \/ Later(q, n) /\ SameRest(q, n) /\ n.row = i /\ n.seen = rows[i]
      BY <1>4, FindRowDoes
    <2>2. Placed(q)
      BY MemoryOf
    <2> HIDE DEF q, n
    <2>3. ASSUME NEW i \in 1 .. Len(rows), Later(q, n), SameRest(q, n), n.row = i, n.seen = rows[i]
          PROVE  P
      <3>1. n \in Memory /\ n.op = q.op /\ n.pc = q.pc + 1 /\ n.sub = q.sub
        BY <2>3 DEF Later, SameRest
      <3>2. n.row \in 1 .. Len(rows) /\ n.seen # NoRow
        <4>1. rows \in Seq(RowSet)
          BY DEF Typed, StoreOK
        <4>2. rows[i] \in RowSet
          BY <4>1
        <4>3. NoRow \notin RowSet
          BY DEF NoRow, RowSet
        <4> QED
          BY <2>3, <4>2, <4>3
      <3>3. n.pc <= Len(Steps[n.op])
        <4> DEFINE last == Len(Steps[q.op])
        <4>1. last \in 1 .. 7 /\ q.pc <= last /\ q.pc # last
          BY <2>1, <2>2, <3>1, Lengths, MemoryOf DEF Placed, Memory, q
        <4> HIDE DEF last
        <4>2. q.pc + 1 <= last
          BY <2>1, <4>1
        <4> QED
          BY <3>1, <4>2 DEF last
      <3>4. q.sub = 0
        BY <2>1, <2>2 DEF Placed
      <3>5. Placed(n)
        BY <2>1, <3>1, <3>2, <3>3, <3>4, <1>0 DEF Placed
      <3>6. n.row <= Len(rows') /\ n.sub <= Len(gateway')
        BY <3>1, <3>2, <3>4, <1>0
      <3> QED
        BY <2>1, <3>1, <3>5, <3>6, RequestsStay DEF n
    <2> QED
      BY <2>1, <2>3, <2>4, <1>b DEF n
  <1>5. ASSUME NEW r \in Requests, FindNone(r) PROVE P
    <2> DEFINE q == req[r]
    <2> DEFINE n == req'[r]
    <2>1. /\ Moved(r)
          /\ \/ q.op = "subscribe" /\ q.pc = 3
             \/ q.op = "cancel" /\ q.pc = 1
             \/ q.op = "setAddon" /\ q.pc = 2
             \/ q.op = "syncSeats" /\ q.pc = 1
          /\ \/ q.op = "subscribe" /\ Later(q, n) /\ SameRow(q, n) /\ SameRest(q, n)
             \/ /\ q.op = "setAddon" /\ n \in Memory /\ n.op = q.op /\ n.pc = 6
                /\ SameRow(q, n) /\ SameRest(q, n)
             \/ n = Idle
      BY <1>5, FindNoneDoes, FindsAt DEF FindNone
    <2>2. Placed(q)
      BY MemoryOf
    <2> HIDE DEF q, n
    <2>3. CASE q.op = "subscribe" /\ Later(q, n) /\ SameRow(q, n) /\ SameRest(q, n)
      BY <2>1, <2>3, <1>c DEF q, n, SameRest
    <2>4. CASE /\ q.op = "setAddon" /\ n \in Memory /\ n.op = q.op /\ n.pc = 6
               /\ SameRow(q, n) /\ SameRest(q, n)
      <3>1. q.row = 0 /\ q.seen = NoRow /\ q.sub = 0
        BY <2>1, <2>2, <2>4 DEF Placed
      <3>2. n.row = 0 /\ n.seen = NoRow /\ n.sub = 0
        BY <3>1, <2>4 DEF SameRow, SameRest
      <3>3. Placed(n)
        BY <3>2, <2>4, Lengths DEF Placed
      <3>4. n.row <= Len(rows') /\ n.sub <= Len(gateway')
        BY <3>2, <1>0
      <3> QED
        BY <2>1, <2>4, <3>3, <3>4, RequestsStay DEF n
    <2> QED
      BY <2>1, <2>3, <2>4, <1>b DEF n
  <1>6. ASSUME NEW r \in Requests, Create(r) PROVE P
    <2> DEFINE q == req[r]
    <2> DEFINE n == req'[r]
    <2>1. /\ Moved(r) /\ q.op = "subscribe" /\ q.pc = 4
          /\ Later(q, n) /\ SameRow(q, n) /\ n.sub = Len(gateway) + 1
      BY <1>6, CreateDoes
    <2>2. Placed(q) /\ q.row <= Len(rows')
      BY MemoryOf, <1>e
    <2>3. Len(gateway') = Len(gateway) + 1
      <3>1. Opens(AmountOf(r))
        BY <1>6 DEF Create, Opens
      <3> QED
        BY <3>1, Opened, AmountTyped
    <2> HIDE DEF q, n
    <2>4. n \in Memory /\ n.op = q.op /\ n.pc = 5 /\ n.row = q.row /\ n.seen = q.seen
      BY <2>1 DEF Later, SameRow
    <2>5. Placed(n)
      BY <2>1, <2>2, <2>4, <1>0, Lengths DEF Placed
    <2> QED
      BY <2>1, <2>2, <2>3, <2>4, <2>5, <1>0, RequestsStay DEF n
  <1>7. ASSUME NEW r \in Requests, CancelOld(r) PROVE P
    BY <1>7, <1>c, CancelOldDoes DEF SameRest
  <1>8. ASSUME NEW r \in Requests, Push(r) PROVE P
    <2> DEFINE q == req[r]
    <2> DEFINE n == req'[r]
    <2>1. /\ Moved(r) /\ q.op \in {"setAddon", "syncSeats"} /\ q.pc = 4
          /\ n = Idle \/ (Later(q, n) /\ SameRow(q, n) /\ SameRest(q, n))
      BY <1>8, PushDoes
    <2> HIDE DEF q, n
    <2> QED
      BY <2>1, <1>b, <1>c DEF q, n, SameRest
  <1>9. ASSUME NEW r \in Requests, Save(r) \/ SaveFirst(r) PROVE P
    <2> DEFINE q == req[r]
    <2> DEFINE n == req'[r]
    <2>1. /\ Moved(r)
          /\ n = Idle \/ (q.op \in {"subscribe", "setAddon"} /\ Later(q, n) /\ SameRow(q, n) /\ SameRest(q, n))
      BY <1>9, SaveDoes
    <2>2. \/ q.op = "subscribe" /\ q.pc = 6
          \/ q.op = "cancel" /\ q.pc = 3
          \/ q.op = "setAddon" /\ q.pc = 5
          \/ q.op = "syncSeats" /\ q.pc = 5
      BY <1>9, SavesAt DEF Save, SaveFirst
    <2> HIDE DEF q, n
    <2> QED
      BY <2>1, <2>2, <1>b, <1>c DEF q, n, SameRest
  <1>10. ASSUME NEW r \in Requests, SaveRefused(r) \/ Activate(r) \/ Flip(r) \/ Die(r) \/ LoseAnswer(r) PROVE P
    BY <1>10, <1>b, StopDoes
  <1>11. ASSUME NEW r \in Requests, GatewayFails(r) PROVE P
    BY <1>11, <1>b, <1>c, GatewayFailsDoes DEF SameRest
  <1>12. ASSUME NEW r \in Requests, Decline(r) PROVE P
    BY <1>12, <1>b, DeclineDoes
  <1> HIDE DEF P
  <1>13. P
    BY <1>a, <1>1, <1>2, <1>3, <1>4, <1>5, <1>6, <1>7, <1>8, <1>9, <1>10, <1>11, <1>12, NextCases
       DEF Suspend, Expire, ApplyHook, ReadHook, SetMemberStatus
  <1> QED
    BY <1>13 DEF P

\* A step leaves the store well typed.
LEMMA NextStore == Typed /\ Next => StoreOK'
  <1> SUFFICES ASSUME Typed, Next PROVE StoreOK'
    OBVIOUS
  <1> DEFINE Statuses == {"TRIALING", "ACTIVE", "PAST_DUE", "CANCELED"}
  <1> DEFINE P == org' \in Statuses /\ addon' \in BOOLEAN /\ seats' \in 1 .. MaxSeats
  <1>0. org \in Statuses /\ addon \in BOOLEAN /\ seats \in 1 .. MaxSeats
    BY DEF Typed, StoreOK
  <1>1. ASSUME org' = org, addon' = addon, seats' = seats PROVE P
    BY <1>0, <1>1
  <1>2. ASSUME NEW r \in Requests, Activate(r) PROVE P
    BY <1>0, <1>2 DEF Activate
  <1>3. ASSUME NEW r \in Requests, Flip(r) PROVE P
    <2>1. req[r].addon \in BOOLEAN
      BY MemoryOf DEF Memory
    <2> QED
      BY <1>0, <1>3, <2>1 DEF Flip
  <1>4. ASSUME NEW h \in Hooks, ApplyHook(h) PROVE P
    <2>1. hook[h].event.status \in {"PAST_DUE", "CANCELED"}
      BY <1>4, HookTyped DEF ApplyHook
    <2>2. org' = org \/ org' = hook[h].event.status
      BY <1>4 DEF ApplyHook
    <2>3. addon' = addon /\ seats' = seats
      BY <1>4 DEF ApplyHook
    <2> QED
      BY <1>0, <2>1, <2>2, <2>3
  <1>5. ASSUME org' = org, addon' = addon, seats' \in 1 .. MaxSeats PROVE P
    BY <1>0, <1>5
  <1> HIDE DEF P
  <1>6. P
    BY <1>1, <1>2, <1>3, <1>4, <1>5, NextCases
       DEF Start, Count, ReadAddon, FindRow, FindNone, Create, Decline, CancelOld, Push, Save, SaveFirst,
           SaveRefused, Die, LoseAnswer, GatewayFails, Fault, Suspend, Expire, ReadHook, SetMemberStatus
  <1> QED
    BY <1>6, GatewayTyped, RowsTyped DEF P, StoreOK

\* A step leaves the counters and the history well typed.
LEMMA NextHistory == Typed /\ Next => HistoryOK'
  <1> SUFFICES ASSUME Typed, Next PROVE HistoryOK'
    OBVIOUS
  <1> DEFINE P == HistoryOK'
  <1>0. /\ faults \in 0 .. MaxFaults /\ begun \in 0 .. MaxRequests
        /\ overtaken \in BOOLEAN /\ disturbed \in BOOLEAN
        /\ MaxFaults \in Nat /\ MaxRequests \in Nat
    BY BoundsAssumption DEF Typed, HistoryOK
  <1>a. faults < MaxFaults => faults + 1 \in 0 .. MaxFaults
    BY <1>0
  <1>b. begun < MaxRequests => begun + 1 \in 0 .. MaxRequests
    BY <1>0
  <1>1. ASSUME UNCHANGED history PROVE P
    BY <1>0, <1>1 DEF history, HistoryOK
  <1>2. ASSUME NEW r, NEW lost, Fault(r, lost) PROVE P
    <2>1. overtaken' \in BOOLEAN /\ disturbed' \in BOOLEAN
      BY <1>2 DEF Fault
    <2>2. faults' \in 0 .. MaxFaults /\ begun' \in 0 .. MaxRequests
      BY <1>0, <1>2, <1>a DEF Fault
    <2> QED
      BY <2>1, <2>2 DEF HistoryOK
  <1>3. ASSUME NEW r \in Requests, NEW op, NEW plan, NEW wanted, Start(r, op, plan, wanted) PROVE P
    <2>1. overtaken' = overtaken /\ disturbed' \in BOOLEAN
      BY <1>3 DEF Start
    <2>2. faults' = faults /\ begun' \in 0 .. MaxRequests
      BY <1>3, <1>b DEF Start
    <2> QED
      BY <1>0, <2>1, <2>2 DEF HistoryOK
  <1>4. ASSUME NEW r \in Requests, Save(r) \/ SaveFirst(r) \/ SaveRefused(r) PROVE P
    <2>1. overtaken' \in BOOLEAN /\ disturbed' = disturbed /\ faults' = faults /\ begun' = begun
      BY <1>4 DEF Save, SaveFirst, SaveRefused
    <2> QED
      BY <1>0, <2>1 DEF HistoryOK
  <1>5. ASSUME NEW h \in Hooks, ApplyHook(h) PROVE P
    <2>1. overtaken' \in BOOLEAN /\ disturbed' = disturbed /\ begun' = begun
      BY <1>5 DEF ApplyHook
    <2>2. faults' \in 0 .. MaxFaults
      BY <1>0, <1>5, <1>a DEF ApplyHook
    <2> QED
      BY <1>0, <2>1, <2>2 DEF HistoryOK
  <1>6. ASSUME SetMemberStatus PROVE P
    <2>1. overtaken' = overtaken /\ disturbed' \in BOOLEAN /\ faults' = faults
      BY <1>6 DEF SetMemberStatus
    <2>2. begun' \in 0 .. MaxRequests
      BY <1>6, <1>b DEF SetMemberStatus
    <2> QED
      BY <1>0, <2>1, <2>2 DEF HistoryOK
  <1> HIDE DEF P
  <1>7. P
    BY <1>1, <1>2, <1>3, <1>4, <1>5, <1>6, NextCases
       DEF Count, ReadAddon, FindRow, FindNone, Create, Decline, CancelOld, Push, Activate, Flip,
           Die, LoseAnswer, GatewayFails, Suspend, Expire, ReadHook
  <1> QED
    BY <1>7 DEF P

-----------------------------------------------------------------------------
(***************************************************************************)
(* The gateway tells the truth, however late: what it says of a            *)
(* subscription when it ends or is not paid stays true.                    *)
(***************************************************************************)
LEMMA FactsStay ==
    ASSUME Ages
    PROVE  /\ Ended \subseteq Ended' /\ Unpaid \subseteq Unpaid' /\ Facts \subseteq Facts'
           /\ Ended \subseteq Unpaid
  <1>1. Ended \subseteq Ended' /\ Unpaid \subseteq Unpaid'
    BY DEF Ages, Ended, Unpaid
  <1>2. EventSet \subseteq EventSet'
    BY Wider
  <1>3. Facts \subseteq Facts'
    <2> HIDE DEF Ended, Unpaid, EventSet
    <2> QED
      BY <1>1, <1>2 DEF Facts
  <1>4. Ended \subseteq Unpaid
    BY DEF Ended, Unpaid
  <1> QED
    BY <1>1, <1>3, <1>4

\* An event is sent when it becomes true.
LEMMA Reported ==
    ASSUME Typed, Next, NEW s \in 1 .. Len(gateway), NEW state \in {"suspended", "ended"}, Marks(s, state),
           NEW status, status = IF state = "ended" THEN "CANCELED" ELSE "PAST_DUE"
    PROVE  [sub |-> s, status |-> status] \in Facts'
  <1>1. gateway'[s].state = state /\ Len(gateway') = Len(gateway)
    BY Marked
  <1>2. s \in Unpaid' /\ (state = "ended" => s \in Ended')
    BY <1>1 DEF Unpaid, Ended
  <1> DEFINE e == [sub |-> s, status |-> status]
  <1>3. e \in EventSet' /\ e.sub = s /\ e.status = status
    BY <1>1 DEF EventSet
  <1> HIDE DEF e
  <1>4. e \in Facts'
    BY <1>2, <1>3 DEF Facts
  <1> QED
    BY <1>4 DEF e

\* Steps keep the events true.
LEMMA NextEvents ==
    ASSUME Typed, Told, Next
    PROVE  events' \subseteq Facts'
  <1>0. events \subseteq Facts' /\ DOMAIN gateway = 1 .. Len(gateway)
    BY GatewayTyped, FactsStay DEF Told, Typed, StoreOK
  <1> DEFINE P == events' \subseteq Facts'
  <1>1. ASSUME events' \subseteq events PROVE P
    BY <1>0, <1>1
  <1>2. ASSUME NEW s \in 1 .. Len(gateway), Finish(s) PROVE P
    <2>1. Marks(s, "ended")
      BY <1>2 DEF Finish, Marks
    <2>2. [sub |-> s, status |-> "CANCELED"] \in Facts'
      BY <2>1, Reported
    <2> QED
      BY <1>0, <1>2, <2>2 DEF Finish
  <1>3. ASSUME NEW r \in Requests, CancelOld(r) PROVE P
    <2>1. CASE req[r].seen # NoRow /\ Live(req[r].seen.sub)
      BY <2>1, <1>2, <1>3, SeenTyped DEF CancelOld
    <2>2. CASE ~(req[r].seen # NoRow /\ Live(req[r].seen.sub))
      BY <2>2, <1>1, <1>3 DEF CancelOld
    <2> QED
      BY <2>1, <2>2
  <1>4. ASSUME NEW s \in DOMAIN gateway, Suspend(s) PROVE P
    <2>1. Marks(s, "suspended")
      BY <1>4 DEF Suspend, Marks
    <2>2. [sub |-> s, status |-> "PAST_DUE"] \in Facts'
      BY <1>0, <2>1, Reported
    <2> QED
      BY <1>0, <1>4, <2>2 DEF Suspend
  <1>5. ASSUME NEW s \in DOMAIN gateway, Expire(s) PROVE P
    BY <1>0, <1>2, <1>5 DEF Expire
  <1>6. ASSUME NEW h \in Hooks, ApplyHook(h) PROVE P
    <2>1. events' \subseteq events
      BY <1>6 DEF ApplyHook
    <2> QED
      BY <2>1, <1>1
  <1>7. ASSUME NEW h \in Hooks, NEW e \in events, ReadHook(h, e) PROVE P
    <2>1. events' \subseteq events
      BY <1>7 DEF ReadHook
    <2> QED
      BY <2>1, <1>1
  <1> HIDE DEF P
  <1>8. P
    BY <1>1, <1>3, <1>4, <1>5, <1>6, <1>7, NextCases
       DEF Start, Count, ReadAddon, FindRow, FindNone, Create, Decline, Push, Save, SaveFirst, SaveRefused,
           Activate, Flip, Die, LoseAnswer, GatewayFails, Fault, SetMemberStatus, outside
  <1> QED
    BY <1>8 DEF P

\* A webhook under way keeps its row and its event.
HooksTold ==
    /\ hook \in [Hooks -> HookSet \cup {NoHook}]
    /\ \A h \in Hooks : hook[h] # NoHook => hook[h].event \in Facts /\ hook[h].event.sub = hook[h].sub

\* A step leaves webhook posts with a row, and with what the gateway told.
LEMMA NextHooks ==
    ASSUME Typed, Told, Next
    PROVE  HooksTold'
  <1>0. /\ HookSet \subseteq HookSet' /\ Facts \subseteq Facts'
        /\ HooksTold
    <2>1. /\ Len(rows) \in Nat /\ Len(rows') \in Nat /\ Len(rows) <= Len(rows') /\ Ages
      BY GatewayTyped, RowsTyped
    <2>2. EventSet \subseteq EventSet' /\ Facts \subseteq Facts'
      BY <2>1, Wider, FactsStay
    <2>3. HookSet \subseteq HookSet'
      <3> HIDE DEF EventSet
      <3> QED
        BY <2>1, <2>2 DEF Ages, HookSet
    <2> QED
      BY <2>2, <2>3 DEF Typed, HooksOK, Told, HooksTold
  <1> HIDE DEF HookSet, Facts
  <1> DEFINE P == HooksTold'
  <1>1. ASSUME hook' = hook PROVE P
    BY <1>0, <1>1 DEF HooksTold
  <1>2. ASSUME NEW h \in Hooks, NEW n \in HookSet \cup {NoHook}, hook' = [hook EXCEPT ![h] = n],
               n # NoHook => n.event \in Facts /\ n.event.sub = n.sub
        PROVE  P
    <2>1. hook'[h] = n /\ \A g \in Hooks : g # h => hook'[g] = hook[g]
      BY <1>0, <1>2 DEF HooksTold
    <2>2. hook' \in [Hooks -> HookSet' \cup {NoHook}]
      BY <1>0, <1>2 DEF HooksTold
    <2> QED
      BY <1>0, <1>2, <2>1, <2>2 DEF HooksTold
  <1>3. ASSUME NEW h \in Hooks, ApplyHook(h) PROVE P
    BY <1>2, <1>3 DEF ApplyHook
  <1>4. ASSUME NEW h \in Hooks, NEW e \in events, ReadHook(h, e) PROVE P
    <2>1. CASE hook' = hook
      BY <2>1, <1>1
    <2>2. ASSUME NEW i \in DOMAIN rows, Names(i, e),
                 hook' = [hook EXCEPT ![h] = [row |-> i, sub |-> rows[i].sub, event |-> e]]
          PROVE  P
      <3> DEFINE n == [row |-> i, sub |-> rows[i].sub, event |-> e]
      <3>1. rows \in Seq(RowSet) /\ i \in 1 .. Len(rows)
        BY DEF Typed, StoreOK
      <3>2. rows[i].sub \in 1 .. Len(gateway)
        <4>1. rows[i] \in RowSet
          BY <3>1
        <4> QED
          BY <4>1 DEF RowSet
      <3>3. e \in EventSet /\ e \in Facts
        BY DEF Typed, HooksOK, Told
      <3>4. n \in HookSet /\ n.event = e /\ n.sub = e.sub
        BY <2>2, <3>1, <3>2, <3>3 DEF HookSet, Names
      <3> HIDE DEF n
      <3>5. hook' = [hook EXCEPT ![h] = n]
        BY <2>2 DEF n
      <3> QED
        BY <3>3, <3>4, <3>5, <1>2
    <2> QED
      BY <1>4, <2>1, <2>2 DEF ReadHook
  <1> HIDE DEF P
  <1>5. P
    BY <1>1, <1>3, <1>4, NextCases
       DEF Start, Count, ReadAddon, FindRow, FindNone, Create, Decline, CancelOld, Push, Save, SaveFirst,
           SaveRefused, Activate, Flip, Die, LoseAnswer, GatewayFails, Fault, Suspend, Expire, SetMemberStatus,
           outside
  <1> QED
    BY <1>5 DEF P

\* Whatever happens, the state is well typed and the gateway is told the truth of.
Base == Typed /\ Told

\* The first layer of the inductive invariant holds at first.
LEMMA InitBase == Init => Base
  <1> SUFFICES ASSUME Init PROVE Base
    OBVIOUS
  <1>0. /\ MaxSubscriptions \in Nat /\ MaxRequests \in Nat /\ MaxFaults \in Nat
        /\ MaxSeats \in Nat \ {0}
    BY BoundsAssumption
  <1>1. StoreOK
    <2>1. gateway \in Seq(Subscriptions) /\ rows \in Seq(RowSet) /\ Len(gateway) = 0
      BY EmptySeq DEF Init
    <2> QED
      <3>1. addon \in BOOLEAN /\ org \in {"TRIALING", "ACTIVE", "PAST_DUE", "CANCELED"}
        BY DEF Init
      <3>2. seats = 1 /\ seats \in 1 .. MaxSeats
        BY <1>0 DEF Init
      <3> QED
        BY <1>0, <2>1, <3>1, <3>2 DEF StoreOK
  <1>2. HistoryOK
    <2>1. overtaken \in BOOLEAN /\ disturbed \in BOOLEAN
      BY DEF Init
    <2>2. faults \in 0 .. MaxFaults /\ begun \in 0 .. MaxRequests
      BY <1>0 DEF Init
    <2> QED
      BY <2>1, <2>2 DEF HistoryOK
  <1>3. RequestsOK
    <2>1. Len(gateway) = 0 /\ Len(rows) = 0
      BY DEF Init
    <2>2. Idle \in RequestSet
      BY <2>1, Lengths, BoundsAssumption DEF Idle, RequestSet, Plans
    <2>3. Placed(Idle)
      <3>1. Idle.op = "none" /\ Idle.pc = 1 /\ Idle.row = 0 /\ Idle.seen = NoRow /\ Idle.sub = 0
        BY DEF Idle
      <3> QED
        BY <3>1, Lengths DEF Placed
    <2>4. req = [r \in Requests |-> Idle]
      BY DEF Init
    <2> HIDE DEF RequestSet, Idle
    <2> QED
      BY <2>2, <2>3, <2>4 DEF RequestsOK
  <1>4. HooksOK /\ Told
    BY DEF Init, HooksOK, Told
  <1> QED
    BY <1>1, <1>2, <1>3, <1>4 DEF Base, Typed

\* And each step leaves it.
LEMMA NextBase == Base /\ [Next]_vars => Base'
  <1>1. CASE UNCHANGED vars
    BY <1>1 DEF Base, Typed, StoreOK, HistoryOK, RequestsOK, HooksOK, Told, vars, Subscriptions,
                RequestSet, RowSet, EventSet, HookSet, Facts, Ended, Unpaid
  <1>2. ASSUME Base, Next PROVE Base'
    <2>1. events' \subseteq Facts' /\ HooksTold'
      BY <1>2, NextEvents, NextHooks DEF Base
    <2>2. Facts' \subseteq EventSet'
      BY DEF Facts
    <2>3. HooksOK' /\ Told'
      BY <2>1, <2>2 DEF HooksOK, Told, HooksTold
    <2> QED
      BY <1>2, <2>3, NextStore, NextHistory, NextRequests DEF Base, Typed
  <1> QED
    BY <1>1, <1>2

\* Rows, requests, webhooks and the gateway stay well typed, whatever the numbers of
\* requests, of webhooks and of subscriptions, and whatever faults there are.
THEOREM Typing == Spec => []TypeOK
  <1>1. Base => TypeOK
    <2> SUFFICES ASSUME Base PROVE TypeOK
      OBVIOUS
    <2>1. /\ gateway \in Seq(Subscriptions) /\ rows \in Seq(RowSet)
          /\ DOMAIN rows = 1 .. Len(rows) /\ DOMAIN gateway = 1 .. Len(gateway)
      BY DEF Base, Typed, StoreOK
    <2>2. \A s \in DOMAIN gateway : gateway[s] \in [state : {"active", "suspended", "ended"}, amount : Amounts]
      <3>1. \A s \in DOMAIN gateway : gateway[s] \in Subscriptions
        BY <2>1
      <3> QED
        BY <3>1 DEF Subscriptions
    <2>3. \A i \in DOMAIN rows : rows[i] \in RowSet
      BY <2>1
    <2>4. \A r \in Requests : req[r] \in RequestSet /\ req[r].pc <= Len(Steps[req[r].op])
      BY DEF Base, Typed, RequestsOK, Placed
    <2>5. \A h \in Hooks : hook[h] = NoHook \/ hook[h] \in [row : DOMAIN rows, sub : DOMAIN gateway, event : EventSet]
      BY <2>1 DEF Base, Typed, HooksOK, HookSet
    <2> HIDE DEF RowSet, EventSet, NoHook, NoRow
    <2> QED
      BY <2>2, <2>3, <2>4, <2>5 DEF TypeOK, Base, Typed, StoreOK, HistoryOK, HooksOK, RequestSet
  <1> QED
    BY <1>1, InitBase, NextBase, PTL DEF Spec

-----------------------------------------------------------------------------
(***************************************************************************)
(* Nobody pays twice, and who pays is served.                              *)
(***************************************************************************)
\* What has been lost hold of stays lost.
LEMMA OvertakenStays ==
    ASSUME Typed, Next, ~overtaken'
    PROVE  ~overtaken
  BY NextCases
     DEF Start, Count, ReadAddon, FindRow, FindNone, Create, Decline, CancelOld, Push, Save, SaveFirst,
         SaveRefused, Activate, Flip, Die, LoseAnswer, GatewayFails, Fault, Suspend, Expire, ApplyHook,
         ReadHook, SetMemberStatus, history

\* The rows' subscriptions are the gateway's, and a hook's event is about its row.
LEMMA RowSubs ==
    ASSUME Typed, NEW i \in 1 .. Len(rows)
    PROVE  rows[i] \in RowSet /\ rows[i].sub \in 1 .. Len(gateway)
  <1>1. rows \in Seq(RowSet)
    BY DEF Typed, StoreOK
  <1>2. rows[i] \in RowSet
    BY <1>1
  <1> QED
    BY <1>2 DEF RowSet

\* The row that a webhook writes is one whose subscription is not paid.
LEMMA AppliedIsUnpaid ==
    ASSUME Base, NEW h \in Hooks, ApplyHook(h), ~overtaken', NEW i, NEW e, i = hook[h].row, e = hook[h].event
    PROVE  /\ i \in 1 .. Len(rows) /\ rows[i].sub = e.sub
           /\ e.status \in {"PAST_DUE", "CANCELED"}
           /\ rows[i].sub \in Unpaid
           /\ e.status = "CANCELED" => rows[i].sub \in Ended
  <1>1. hook[h].row # 0 /\ rows[i].sub = hook[h].sub
    BY DEF ApplyHook
  <1>2. i \in 1 .. Len(rows) /\ hook[h] # NoHook /\ e.status \in {"PAST_DUE", "CANCELED"}
    BY <1>1, HookTyped DEF Base
  <1>3. e \in Facts /\ e.sub = hook[h].sub
    BY <1>2 DEF Base, Told
  <1>4. Ended \subseteq Unpaid
    BY DEF Ended, Unpaid
  <1> QED
    BY <1>1, <1>2, <1>3, <1>4 DEF Facts

\* There is one row at most.
LEMMA NextOneRow ==
    ASSUME Base, Accounted, Next, ~overtaken'
    PROVE  OneRow'
  <1>0. Typed /\ rows \in Seq(RowSet) /\ Len(rows) <= 1
    BY DEF Base, Typed, StoreOK, Accounted, OneRow
  <1> DEFINE P == OneRow'
  <1>1. ASSUME rows' = rows PROVE P
    BY <1>0, <1>1 DEF OneRow
  <1>2. ASSUME NEW r \in Requests, Save(r) PROVE P
    <2>1. req[r].row \in 1 .. Len(rows) /\ Saved(r) \in RowSet /\ Writes(req[r].row, Saved(r))
      BY <1>0, <1>2, SavedTyped DEF Save, Writes
    <2>2. Len(rows') = Len(rows)
      BY <1>0, <2>1, Written
    <2> QED
      BY <1>0, <2>2 DEF OneRow
  <1>3. ASSUME NEW r \in Requests, SaveFirst(r) PROVE P
    <2>1. rows = <<>> /\ rows' = Append(rows, NewRow(r))
      BY <1>3 DEF SaveFirst
    <2>2. Len(rows') = 1
      BY <2>1
    <2> QED
      BY <2>2 DEF OneRow
  <1>4. ASSUME NEW h \in Hooks, ApplyHook(h) PROVE P
    <2>1. hook[h].row \in 1 .. Len(rows)
      BY <1>4, AppliedIsUnpaid
    <2>2. rows' = rows \/ \E row \in RowSet : Writes(hook[h].row, row)
      BY <1>0, <1>4, ApplyWrites
    <2>3. Len(rows') = Len(rows)
      BY <1>0, <2>1, <2>2, Written
    <2> QED
      BY <1>0, <2>3 DEF OneRow
  <1> HIDE DEF P
  <1>5. P
    BY <1>1, <1>2, <1>3, <1>4, NextCases
       DEF Start, Count, ReadAddon, FindRow, FindNone, Create, Decline, CancelOld, Push, SaveRefused,
           Activate, Flip, Die, LoseAnswer, GatewayFails, Fault, Suspend, Expire, ReadHook, SetMemberStatus
  <1> QED
    BY <1>5 DEF P

\* A subscription that a row names is named afterwards, or has ended.
LEMMA NamedStay ==
    ASSUME Base, Accounted, Next, ~overtaken'
    PROVE  Named \subseteq Named' \cup Ended'
  <1>0. Typed /\ Ended \subseteq Ended'
    BY GatewayTyped, FactsStay DEF Base
  <1> DEFINE P == Named \subseteq Named' \cup Ended'
  <1>1. ASSUME rows' = rows PROVE P
    BY <1>1 DEF Named
  <1>2. ASSUME NEW i \in 1 .. Len(rows), NEW row \in RowSet, Writes(i, row),
               row.sub = rows[i].sub \/ rows[i].sub \in Ended'
        PROVE  P
    <2>1. /\ Len(rows') = Len(rows) /\ rows'[i] = row
          /\ \A j \in 1 .. Len(rows) : j # i => rows'[j] = rows[j]
      BY <1>0, <1>2, Written
    <2>2. ASSUME NEW j \in 1 .. Len(rows), rows[j].sub \notin Ended' PROVE rows[j].sub = rows'[j].sub
      BY <2>1, <2>2, <1>2
    <2> QED
      BY <2>1, <2>2 DEF Named
  <1>3. ASSUME NEW r \in Requests, Save(r) PROVE P
    <2>1. /\ req[r].row \in 1 .. Len(rows) /\ Saved(r) \in RowSet /\ Writes(req[r].row, Saved(r))
          /\ req[r].row # 0
      BY <1>0, <1>3, SavedTyped DEF Save, Writes
    <2>2. CASE req[r].op # "subscribe"
      <3>1. Saved(r).sub = rows[req[r].row].sub
        BY <1>0, <1>3, <2>1, <2>2, SavedTyped DEF Save
      <3> QED
        BY <2>1, <3>1, <1>2
    <2>3. CASE req[r].op = "subscribe"
      <3>1. req[r].pc = 6
        BY <1>0, <1>3, <2>3, SavesAt DEF Save
      <3>2. PastCancel(req[r])
        BY <2>1, <2>3, <3>1 DEF PastCancel
      <3>3. rows[req[r].row].sub \in Ended'
        BY <1>0, <1>3, <3>2 DEF Save, Accounted, OldAreEnded
      <3> QED
        BY <2>1, <3>3, <1>2
    <2> QED
      BY <2>2, <2>3
  <1>4. ASSUME NEW r \in Requests, SaveFirst(r) PROVE P
    <2>1. rows = <<>>
      BY <1>4 DEF SaveFirst
    <2> QED
      BY <2>1 DEF Named
  <1>5. ASSUME NEW h \in Hooks, ApplyHook(h) PROVE P
    <2>1. hook[h].row \in 1 .. Len(rows)
      BY <1>5, AppliedIsUnpaid
    <2>2. rows' = rows \/ \E row \in RowSet : Writes(hook[h].row, row) /\ row.sub = rows[hook[h].row].sub
      BY <1>0, <1>5, ApplyWrites
    <2> QED
      BY <2>1, <2>2, <1>1, <1>2
  <1> HIDE DEF P
  <1>6. P
    BY <1>1, <1>3, <1>4, <1>5, NextCases
       DEF Start, Count, ReadAddon, FindRow, FindNone, Create, Decline, CancelOld, Push, SaveRefused,
           Activate, Flip, Die, LoseAnswer, GatewayFails, Fault, Suspend, Expire, ReadHook, SetMemberStatus
  <1> QED
    BY <1>6 DEF P

\* A row that is saved by a subscription names it.
LEMMA SavedIsNamed ==
    ASSUME Typed, NEW r \in Requests, Save(r) \/ SaveFirst(r), req[r].op = "subscribe"
    PROVE  /\ req[r].sub \in Named'
           /\ \E i \in 1 .. Len(rows') : rows'[i] = NewRow(r)
  <1>1. NewRow(r) \in RowSet /\ NewRow(r).sub = req[r].sub
    BY SavedTyped DEF Save, SaveFirst, NewRow
  <1>2. ASSUME Save(r) PROVE \E i \in 1 .. Len(rows') : rows'[i] = NewRow(r)
    <2>1. req[r].row \in 1 .. Len(rows) /\ Writes(req[r].row, NewRow(r))
      BY <1>2, SavedTyped DEF Save, Writes
    <2> QED
      BY <1>1, <2>1, Written
  <1>3. ASSUME SaveFirst(r) PROVE \E i \in 1 .. Len(rows') : rows'[i] = NewRow(r)
    <2>1. rows \in Seq(RowSet) /\ rows' = Append(rows, NewRow(r))
      BY <1>3 DEF SaveFirst, Typed, StoreOK
    <2>2. Len(rows') = Len(rows) + 1 /\ rows'[Len(rows) + 1] = NewRow(r) /\ Len(rows) \in Nat
      BY <1>1, <2>1
    <2>3. Len(rows) + 1 \in 1 .. Len(rows')
      BY <2>2
    <2> QED
      BY <2>2, <2>3
  <1>4. \E i \in 1 .. Len(rows') : rows'[i] = NewRow(r)
    BY <1>2, <1>3
  <1> QED
    BY <1>1, <1>4 DEF Named

\* One request moves: what it has in hand it keeps in hand or in a row, and what it
\* says it has ended has ended.
Careful(r) ==
    /\ Moved(r)
    /\ InHand(req[r]) => \/ req[r].sub \in Named'
                         \/ InHand(req'[r]) /\ req'[r].sub = req[r].sub
    /\ PastCancel(req'[r]) => req'[r].seen.sub \in Ended'

\* Each step moves no request, or is careful with the one it moves.
LEMMA NextCareful ==
    ASSUME Base, Accounted, Next, ~overtaken'
    PROVE  req' = req \/ \E r \in Requests : Careful(r)
  <1>0. Typed /\ Ended \subseteq Ended'
    BY GatewayTyped, FactsStay DEF Base
  <1> DEFINE P == req' = req \/ \E r \in Requests : Careful(r)
  <1>a. ASSUME req' = req PROVE P
    BY <1>a
  <1>b. ASSUME NEW r \in Requests, Moved(r), req'[r] = Idle, ~InHand(req[r]) PROVE P
    <2>1. ~PastCancel(Idle)
      BY DEF PastCancel, Idle
    <2> QED
      BY <1>b, <2>1 DEF Careful
  <1>c. ASSUME NEW r \in Requests, Moved(r), ~InHand(req[r]), ~PastCancel(req'[r]) PROVE P
    BY <1>c DEF Careful
  <1>1. ASSUME NEW r \in Requests, NEW op \in DOMAIN Steps \ {"none"}, NEW plan \in Plans,
               NEW wanted \in BOOLEAN, Start(r, op, plan, wanted)
        PROVE  P
    <2>1. Moved(r) /\ req[r] = Idle /\ req'[r].row = 0
      BY <1>0, <1>1, StartDoes
    <2> QED
      BY <2>1, <1>c DEF PastCancel, InHand, Idle
  <1>2. ASSUME NEW r \in Requests, Count(r) PROVE P
    <2> DEFINE q == req[r]
    <2> DEFINE n == req'[r]
    <2>1. /\ Moved(r)
          /\ (q.op = "subscribe" /\ q.pc = 1) \/ (q.op = "setAddon" /\ q.pc = 3) \/ (q.op = "syncSeats" /\ q.pc = 2)
          /\ n = Idle \/ Later(q, n)
      BY <1>0, <1>2, CountDoes
    <2> HIDE DEF q, n
    <2>2. ~InHand(q) /\ (n = Idle \/ ~PastCancel(n))
      BY <2>1 DEF InHand, PastCancel, Later
    <2> QED
      BY <2>1, <2>2, <1>b, <1>c DEF q, n
  <1>3. ASSUME NEW r \in Requests, ReadAddon(r) PROVE P
    <2> DEFINE q == req[r]
    <2> DEFINE n == req'[r]
    <2>1. /\ Moved(r)
          /\ (q.op = "subscribe" /\ q.pc = 2) \/ (q.op = "setAddon" /\ q.pc = 1) \/ (q.op = "syncSeats" /\ q.pc = 3)
          /\ n = Idle \/ Later(q, n)
      BY <1>0, <1>3, ReadAddonDoes
    <2> HIDE DEF q, n
    <2>2. ~InHand(q) /\ (n = Idle \/ ~PastCancel(n))
      BY <2>1 DEF InHand, PastCancel, Later
    <2> QED
      BY <2>1, <2>2, <1>b, <1>c DEF q, n
  <1>4. ASSUME NEW r \in Requests, FindRow(r) \/ FindNone(r) PROVE P
    <2> DEFINE q == req[r]
    <2> DEFINE n == req'[r]
    <2>1. /\ \/ q.op = "subscribe" /\ q.pc = 3
             \/ q.op = "cancel" /\ q.pc = 1
             \/ q.op = "setAddon" /\ q.pc = 2
             \/ q.op = "syncSeats" /\ q.pc = 1
      BY <1>0, <1>4, FindsAt DEF FindRow, FindNone
    <2>2. Moved(r) /\ (n = Idle \/ Later(q, n) \/ (n.op = q.op /\ q.op = "setAddon"))
      BY <1>0, <1>4, FindRowDoes, FindNoneDoes
    <2> HIDE DEF q, n
    <2>3. ~InHand(q) /\ (n = Idle \/ ~PastCancel(n))
      BY <2>1, <2>2 DEF InHand, PastCancel, Later
    <2> QED
      BY <2>2, <2>3, <1>b, <1>c DEF q, n
  <1>5. ASSUME NEW r \in Requests, Create(r) PROVE P
    <2> DEFINE q == req[r]
    <2> DEFINE n == req'[r]
    <2>1. Moved(r) /\ q.op = "subscribe" /\ q.pc = 4 /\ Later(q, n)
      BY <1>0, <1>5, CreateDoes
    <2> HIDE DEF q, n
    <2>2. ~InHand(q) /\ ~PastCancel(n)
      BY <2>1 DEF InHand, PastCancel, Later
    <2> QED
      BY <2>1, <2>2, <1>c DEF q, n
  <1>6. ASSUME NEW r \in Requests, Decline(r) PROVE P
    <2>1. Moved(r) /\ req'[r] = Idle /\ ~InHand(req[r])
      BY <1>0, <1>6, DeclineDoes DEF InHand
    <2> QED
      BY <2>1, <1>b
  <1>7. ASSUME NEW r \in Requests, CancelOld(r) PROVE P
    <2> DEFINE q == req[r]
    <2> DEFINE n == req'[r]
    <2>1. /\ Moved(r)
          /\ (q.op = "subscribe" /\ q.pc = 5) \/ (q.op = "cancel" /\ q.pc = 2)
          /\ Later(q, n) /\ SameRow(q, n) /\ SameRest(q, n)
      BY <1>0, <1>7, CancelOldDoes
    <2>2. q.row # 0 => q.seen.sub \in Ended'
      <3> SUFFICES ASSUME q.row # 0 PROVE q.seen.sub \in Ended'
        OBVIOUS
      <3>1. q.seen.sub \in 1 .. Len(gateway) /\ q.seen # NoRow
        BY <1>0, SeenTyped
      <3>2. CASE Live(q.seen.sub)
        <4>1. Marks(q.seen.sub, "ended")
          BY <1>7, <3>1, <3>2 DEF CancelOld, Finish, Marks
        <4>2. gateway'[q.seen.sub].state = "ended" /\ Len(gateway') = Len(gateway)
          BY <1>0, <3>1, <4>1, Marked
        <4> QED
          BY <3>1, <4>2 DEF Ended
      <3>3. CASE ~Live(q.seen.sub)
        BY <1>0, <3>1, <3>3 DEF Live, Ended
      <3> QED
        BY <3>2, <3>3
    <2> HIDE DEF q, n
    <2>3. InHand(q) => InHand(n) /\ n.sub = q.sub
      BY <2>1 DEF InHand, Later, SameRest
    <2>4. PastCancel(n) => n.seen.sub \in Ended'
      BY <2>1, <2>2 DEF PastCancel, SameRow
    <2> QED
      BY <2>1, <2>3, <2>4 DEF Careful, q, n
  <1>8. ASSUME NEW r \in Requests, Push(r) \/ GatewayFails(r) PROVE P
    <2> DEFINE q == req[r]
    <2> DEFINE n == req'[r]
    <2>1. /\ Moved(r) /\ q.op \in {"setAddon", "syncSeats"}
          /\ n = Idle \/ Later(q, n)
      <3>1. CASE Push(r)
        BY <1>0, <3>1, PushDoes
      <3>2. CASE GatewayFails(r)
        <4>1. ~At(r, "cancel")
          BY <3>2 DEF GatewayFails, Fault
        <4> QED
          BY <1>0, <3>2, <4>1, GatewayFailsDoes, Places
      <3> QED
        BY <1>8, <3>1, <3>2
    <2> HIDE DEF q, n
    <2>2. ~InHand(q) /\ (n = Idle \/ ~PastCancel(n))
      BY <2>1 DEF InHand, PastCancel, Later
    <2> QED
      BY <2>1, <2>2, <1>b, <1>c DEF q, n
  <1>9. ASSUME NEW r \in Requests, Save(r) \/ SaveFirst(r) PROVE P
    <2> DEFINE q == req[r]
    <2> DEFINE n == req'[r]
    <2>1. /\ Moved(r)
          /\ \/ q.op \in {"cancel", "syncSeats"} /\ n = Idle
             \/ q.op \in {"subscribe", "setAddon"} /\ Later(q, n) /\ SameRow(q, n)
      BY <1>0, <1>9, SaveDoes
    <2>2. CASE q.op # "subscribe"
      <3> HIDE DEF q, n
      <3>1. ~InHand(q) /\ (n = Idle \/ ~PastCancel(n))
        BY <2>1, <2>2 DEF InHand, PastCancel, Later
      <3> QED
        BY <2>1, <3>1, <1>b, <1>c DEF q, n
    <2>3. CASE q.op = "subscribe"
      <3>1. q.sub \in Named'
        BY <1>0, <1>9, <2>3, SavedIsNamed
      <3>2. q.pc = 6
        BY <1>0, <1>9, <2>3, SavesAt DEF Save, SaveFirst
      <3>3. PastCancel(q) => q.seen.sub \in Ended
        BY DEF Accounted, OldAreEnded
      <3> HIDE DEF q, n
      <3>4. PastCancel(n) => n.seen.sub \in Ended'
        BY <1>0, <2>1, <2>3, <3>2, <3>3 DEF PastCancel, SameRow, Later
      <3> QED
        BY <2>1, <3>1, <3>4 DEF Careful, q, n
    <2> QED
      BY <2>2, <2>3
  <1>10. ASSUME NEW r \in Requests, SaveRefused(r) PROVE P
    BY <1>10 DEF SaveRefused
  <1>11. ASSUME NEW r \in Requests, Activate(r) \/ Flip(r) PROVE P
    <2>1. Moved(r) /\ req'[r] = Idle
      BY <1>0, <1>11, StopDoes
    <2>2. ~InHand(req[r])
      BY <1>0, <1>11, Places DEF Activate, Flip, InHand
    <2> QED
      BY <2>1, <2>2, <1>b
  <1>12. ASSUME NEW r \in Requests, Die(r) \/ LoseAnswer(r) PROVE P
    <2>1. Moved(r) /\ req'[r] = Idle
      BY <1>0, <1>12, StopDoes
    <2>2. CASE Die(r)
      <3>1. req[r].sub = 0
        BY <2>2 DEF Die, Fault
      <3>2. ~InHand(req[r])
        BY <1>0, <3>1, MemoryOf DEF Placed, InHand
      <3> QED
        BY <2>1, <3>2, <1>b
    <2>3. CASE LoseAnswer(r)
      <3>1. req[r].op # "subscribe"
        BY <2>3 DEF LoseAnswer, Fault, Op
      <3> QED
        BY <2>1, <3>1, <1>b DEF InHand
    <2> QED
      BY <1>12, <2>2, <2>3
  <1> HIDE DEF P
  <1>13. P
    BY <1>a, <1>1, <1>2, <1>3, <1>4, <1>5, <1>6, <1>7, <1>8, <1>9, <1>10, <1>11, <1>12, NextCases
       DEF Suspend, Expire, ApplyHook, ReadHook, SetMemberStatus
  <1> QED
    BY <1>13 DEF P

\* The other requests stay as they are.
LEMMA OthersStay ==
    ASSUME Typed, NEW r \in Requests, Moved(r)
    PROVE  \A p \in Requests : p # r => req'[p] = req[p]
  BY DEF Moved, Typed, RequestsOK

\* What requests say they have ended has ended.
LEMMA NextOldAreEnded ==
    ASSUME Base, Accounted, Next, ~overtaken'
    PROVE  OldAreEnded'
  <1>0. Ended \subseteq Ended' /\ OldAreEnded
    BY GatewayTyped, FactsStay DEF Base, Accounted
  <1>1. CASE req' = req
    BY <1>0, <1>1 DEF OldAreEnded
  <1>2. ASSUME NEW r \in Requests, Careful(r) PROVE OldAreEnded'
    <2>1. \A p \in Requests : p # r => req'[p] = req[p]
      BY <1>2, OthersStay DEF Careful, Base
    <2>2. ASSUME NEW p \in Requests, PastCancel(req'[p]) PROVE req'[p].seen.sub \in Ended'
      <3>1. CASE p = r
        BY <1>2, <2>2, <3>1 DEF Careful
      <3>2. CASE p # r
        BY <1>0, <2>1, <2>2, <3>2 DEF OldAreEnded
      <3> QED
        BY <3>1, <3>2
    <2> QED
      BY <2>2 DEF OldAreEnded
  <1> QED
    BY <1>1, <1>2, NextCareful

\* A subscription is created into a request's hands.
LEMMA OpenedIsHeld ==
    ASSUME Base, Next, ~overtaken', NEW s \in 1 .. Len(gateway'), s \notin 1 .. Len(gateway)
    PROVE  s \in Held'
  <1>0. Typed /\ Len(gateway) \in Nat /\ Len(gateway') \in Nat
    BY GatewayTyped DEF Base, Ages
  <1> DEFINE P == s \in Held'
  <1>1. ASSUME Len(gateway') = Len(gateway) PROVE P
    BY <1>1
  <1>2. ASSUME gateway' = gateway PROVE P
    BY <1>1, <1>2
  <1>3. ASSUME NEW r \in Requests, Create(r) PROVE P
    <2>1. Opens(AmountOf(r)) /\ AmountOf(r) \in Amounts
      BY <1>0, <1>3, AmountTyped DEF Create, Opens
    <2>2. s = Len(gateway) + 1
      BY <1>0, <2>1, Opened
    <2> DEFINE n == req'[r]
    <2>3. Later(req[r], n) /\ req[r].op = "subscribe" /\ req[r].pc = 4 /\ n.sub = Len(gateway) + 1
      BY <1>0, <1>3, CreateDoes
    <2> HIDE DEF n
    <2>4. InHand(n)
      BY <2>3 DEF Later, InHand
    <2> QED
      BY <2>2, <2>3, <2>4 DEF Held, n
  <1>4. ASSUME NEW x \in 1 .. Len(gateway), NEW a \in Amounts, Charges(x, a) PROVE P
    BY <1>0, <1>1, <1>4, Charged
  <1>5. ASSUME NEW x \in 1 .. Len(gateway), NEW state \in {"suspended", "ended"}, Marks(x, state) PROVE P
    BY <1>0, <1>1, <1>5, Marked
  <1>6. ASSUME NEW r \in Requests, LoseAnswer(r) PROVE P
    <2>1. Op(r) # "subscribe"
      BY <1>6 DEF LoseAnswer, Fault
    <2>2. At(r, "push") /\ Charges(req[r].seen.sub, AmountOf(r))
      BY <1>0, <1>6, <2>1, Places DEF LoseAnswer, Op, Charges
    <2>3. req[r].row # 0
      BY <1>0, <2>2, MemoryOf, Places DEF Placed
    <2> QED
      BY <1>0, <2>2, <2>3, <1>4, SeenTyped, AmountTyped
  <1>7. ASSUME NEW r \in Requests, CancelOld(r) PROVE P
    <2>1. CASE req[r].seen # NoRow /\ Live(req[r].seen.sub)
      BY <1>0, <1>5, <1>7, <2>1, SeenTyped DEF CancelOld, Finish, Marks
    <2>2. CASE ~(req[r].seen # NoRow /\ Live(req[r].seen.sub))
      BY <1>2, <1>7, <2>2 DEF CancelOld
    <2> QED
      BY <2>1, <2>2
  <1>8. ASSUME NEW r \in Requests, Push(r) PROVE P
    <2>1. CASE gateway' = gateway
      BY <2>1, <1>2
    <2>2. CASE Charges(req[r].seen.sub, AmountOf(r))
      <3> DEFINE q == req[r]
      <3>0. q.op \in {"setAddon", "syncSeats"} /\ q.pc = 4 /\ Placed(q)
        BY <1>0, <1>8, MemoryOf, PushDoes
      <3>1. q.row # 0
        <4> HIDE DEF q
        <4> QED
          BY <3>0 DEF Placed
      <3> QED
        BY <1>0, <2>2, <3>1, <1>4, SeenTyped, AmountTyped
    <2> QED
      BY <1>0, <1>8, <2>1, <2>2, PushDoes DEF Charges
  <1>9. ASSUME NEW x \in DOMAIN gateway, Suspend(x) \/ Expire(x) PROVE P
    <2>1. x \in 1 .. Len(gateway) /\ (Marks(x, "suspended") \/ Marks(x, "ended"))
      BY <1>0, <1>9 DEF Suspend, Expire, Finish, Marks, Typed, StoreOK
    <2> QED
      BY <2>1, <1>5
  <1> HIDE DEF P
  <1>10. P
    BY <1>2, <1>3, <1>6, <1>7, <1>8, <1>9, NextCases
       DEF Start, Count, ReadAddon, FindRow, FindNone, Decline, Save, SaveFirst, SaveRefused,
           Activate, Flip, Die, GatewayFails, ApplyHook, ReadHook, SetMemberStatus
  <1> QED
    BY <1>10 DEF P

\* A subscription that lives is named by a row or in hand.
LEMMA NextNoneLost ==
    ASSUME Base, Accounted, Next, ~overtaken'
    PROVE  NoneLost'
  <1>1. Ended \subseteq Ended' /\ Named \subseteq Named' \cup Ended'
    BY GatewayTyped, FactsStay, NamedStay DEF Base
  <1>2. Held \subseteq Held' \cup Named'
    <2>1. CASE req' = req
      BY <2>1 DEF Held
    <2>2. ASSUME NEW r \in Requests, Careful(r), NEW p \in Requests, InHand(req[p])
          PROVE  req[p].sub \in Held' \cup Named'
      <3>1. CASE p = r
        <4>1. req[p].sub \in Named' \/ (InHand(req'[p]) /\ req'[p].sub = req[p].sub)
          BY <2>2, <3>1 DEF Careful
        <4> QED
          BY <4>1 DEF Held
      <3>2. CASE p # r
        <4>1. req'[p] = req[p]
          BY <2>2, <3>2, OthersStay DEF Careful, Base
        <4> QED
          BY <2>2, <4>1 DEF Held
      <3> QED
        BY <3>1, <3>2
    <2>3. ASSUME NEW r \in Requests, Careful(r) PROVE Held \subseteq Held' \cup Named'
      BY <2>2, <2>3 DEF Held
    <2> QED
      BY <2>1, <2>3, NextCareful
  <1>3. ASSUME NEW s \in 1 .. Len(gateway'), s \notin Ended' PROVE s \in Named' \cup Held'
    <2>1. CASE s \in 1 .. Len(gateway)
      <3>1. s \in Named \cup Held
        BY <1>1, <1>3, <2>1 DEF Accounted, NoneLost
      <3> QED
        BY <1>1, <1>2, <1>3, <3>1
    <2>2. CASE s \notin 1 .. Len(gateway)
      BY <2>2, OpenedIsHeld
    <2> QED
      BY <2>1, <2>2
  <1> HIDE DEF Named, Held
  <1> QED
    BY <1>3 DEF NoneLost

\* A row that is CANCELED names a subscription that has ended.
LEMMA NextCanceled ==
    ASSUME Base, Accounted, Next, ~overtaken'
    PROVE  CanceledAreEnded'
  <1>0. Typed /\ Ended \subseteq Ended' /\ CanceledAreEnded /\ rows \in Seq(RowSet)
    BY GatewayTyped, FactsStay DEF Base, Accounted, Typed, StoreOK
  <1> DEFINE P == CanceledAreEnded'
  <1>1. ASSUME rows' = rows PROVE P
    BY <1>0, <1>1 DEF CanceledAreEnded
  <1>2. ASSUME NEW i \in 1 .. Len(rows), NEW row \in RowSet, Writes(i, row),
               row.status = "CANCELED" => row.sub \in Ended'
        PROVE  P
    <2>1. /\ Len(rows') = Len(rows) /\ rows'[i] = row
          /\ \A j \in 1 .. Len(rows) : j # i => rows'[j] = rows[j]
      BY <1>0, <1>2, Written
    <2>2. ASSUME NEW j \in 1 .. Len(rows), rows'[j].status = "CANCELED" PROVE rows'[j].sub \in Ended'
      BY <1>0, <1>2, <2>1, <2>2 DEF CanceledAreEnded
    <2> QED
      BY <2>1, <2>2 DEF CanceledAreEnded
  <1>3. ASSUME NEW r \in Requests, Save(r) PROVE P
    <2>1. /\ req[r].row \in 1 .. Len(rows) /\ Saved(r) \in RowSet /\ Writes(req[r].row, Saved(r))
          /\ req[r].row # 0
      BY <1>0, <1>3, SavedTyped DEF Save, Writes
    <2>2. CASE req[r].op = "subscribe"
      <3>1. Saved(r) = NewRow(r)
        BY <1>3, <2>2 DEF Saved, Op
      <3>2. Saved(r).status = "ACTIVE"
        BY <3>1 DEF NewRow
      <3> QED
        BY <2>1, <3>2, <1>2
    <2>3. CASE req[r].op = "cancel"
      <3>1. PastCancel(req[r])
        BY <1>0, <1>3, <2>1, <2>3, SavesAt DEF Save, PastCancel
      <3>2. rows[req[r].row].sub \in Ended'
        BY <1>0, <1>3, <3>1 DEF Save, Accounted, OldAreEnded
      <3>3. Saved(r).sub = rows[req[r].row].sub
        BY <1>0, <1>3, <2>1, <2>3, SavedTyped DEF Save
      <3> QED
        BY <2>1, <3>2, <3>3, <1>2
    <2>4. CASE req[r].op \in {"setAddon", "syncSeats"}
      <3>1. /\ Saved(r).sub = rows[req[r].row].sub
            /\ Saved(r).status = rows[req[r].row].status
        BY <1>0, <1>3, <2>1, <2>4, SavedTyped DEF Save
      <3>2. Saved(r).status = "CANCELED" => Saved(r).sub \in Ended'
        BY <1>0, <2>1, <3>1 DEF CanceledAreEnded
      <3> QED
        BY <2>1, <3>2, <1>2
    <2> QED
      BY <1>0, <1>3, <2>2, <2>3, <2>4, SavesAt DEF Save
  <1>4. ASSUME NEW r \in Requests, SaveFirst(r) PROVE P
    <2>1. rows' = Append(rows, NewRow(r)) /\ rows = <<>> /\ NewRow(r).status = "ACTIVE"
      BY <1>4 DEF SaveFirst, NewRow
    <2>2. Len(rows') = 1 /\ rows'[1] = NewRow(r)
      BY <2>1
    <2> QED
      BY <2>1, <2>2 DEF CanceledAreEnded
  <1>5. ASSUME NEW h \in Hooks, ApplyHook(h) PROVE P
    <2> DEFINE i == hook[h].row
    <2>1. /\ i \in 1 .. Len(rows)
          /\ hook[h].event.status = "CANCELED" => rows[i].sub \in Ended
      BY <1>5, AppliedIsUnpaid
    <2>2. \/ rows' = rows
          \/ \E row \in RowSet : Writes(i, row) /\ row.status = hook[h].event.status /\ row.sub = rows[i].sub
      BY <1>0, <1>5, ApplyWrites
    <2> HIDE DEF i
    <2> QED
      BY <1>0, <2>1, <2>2, <1>1, <1>2
  <1> HIDE DEF P
  <1>6. P
    BY <1>1, <1>3, <1>4, <1>5, NextCases
       DEF Start, Count, ReadAddon, FindRow, FindNone, Create, Decline, CancelOld, Push, SaveRefused,
           Activate, Flip, Die, LoseAnswer, GatewayFails, Fault, Suspend, Expire, ReadHook, SetMemberStatus
  <1> QED
    BY <1>6 DEF P

\* A request that is about to make the workspace ACTIVE does so.
LEMMA ActivatingStays ==
    ASSUME Base, Next, ~overtaken'
    PROVE  org' = "ACTIVE" \/ Activating \subseteq Activating'
  <1>0. Typed
    BY DEF Base
  <1> DEFINE P == org' = "ACTIVE" \/ Activating \subseteq Activating'
  <1>1. ASSUME req' = req PROVE P
    BY <1>1 DEF Activating
  <1>2. ASSUME NEW r \in Requests, Moved(r), ~(req[r].op = "subscribe" /\ req[r].pc = 7) PROVE P
    <2>1. \A p \in Requests : p # r => req'[p] = req[p]
      BY <1>0, <1>2, OthersStay
    <2> QED
      BY <1>2, <2>1 DEF Activating
  <1>3. ASSUME NEW r \in Requests, NEW op \in DOMAIN Steps \ {"none"}, NEW plan \in Plans,
               NEW wanted \in BOOLEAN, Start(r, op, plan, wanted)
        PROVE  P
    <2>1. Moved(r) /\ req[r].op = "none"
      BY <1>0, <1>3, StartDoes, MemoryOf
    <2> QED
      BY <2>1, <1>2
  <1>4. ASSUME NEW r \in Requests, Activate(r) PROVE P
    BY <1>4 DEF Activate
  <1>5. ASSUME NEW r \in Requests, Count(r) PROVE P
    BY <1>0, <1>2, <1>5, CountDoes
  <1>6. ASSUME NEW r \in Requests, ReadAddon(r) PROVE P
    BY <1>0, <1>2, <1>6, ReadAddonDoes
  <1>7. ASSUME NEW r \in Requests, FindRow(r) \/ FindNone(r) PROVE P
    <2>1. Moved(r)
      BY <1>0, <1>7, FindRowDoes, FindNoneDoes
    <2>3. At(r, "find")
      BY <1>7 DEF FindRow, FindNone
    <2>2. ~(req[r].op = "subscribe" /\ req[r].pc = 7)
      BY <1>0, <2>3, Places
    <2> QED
      BY <1>2, <2>1, <2>2
  <1>8. ASSUME NEW r \in Requests, Create(r) \/ Decline(r) PROVE P
    BY <1>0, <1>2, <1>8, CreateDoes, DeclineDoes
  <1>9. ASSUME NEW r \in Requests, CancelOld(r) PROVE P
    BY <1>0, <1>2, <1>9, CancelOldDoes
  <1>10. ASSUME NEW r \in Requests, Push(r) PROVE P
    <2>1. Moved(r) /\ req[r].pc = 4
      BY <1>0, <1>10, PushDoes
    <2> QED
      BY <2>1, <1>2
  <1>11. ASSUME NEW r \in Requests, GatewayFails(r) PROVE P
    BY <1>0, <1>2, <1>11, GatewayFailsDoes
  <1>12. ASSUME NEW r \in Requests, Save(r) \/ SaveFirst(r) PROVE P
    <2>1. ~(req[r].op = "subscribe" /\ req[r].pc = 7)
      BY <1>0, <1>12, SavesAt DEF Save, SaveFirst
    <2> QED
      BY <1>0, <1>2, <1>12, <2>1, SaveDoes
  <1>13. ASSUME NEW r \in Requests, SaveRefused(r) PROVE P
    BY <1>13 DEF SaveRefused
  <1>14. ASSUME NEW r \in Requests, Flip(r) PROVE P
    BY <1>0, <1>2, <1>14, StopDoes, Places DEF Flip
  <1>15. ASSUME NEW r \in Requests, Die(r) PROVE P
    <2>1. req[r].sub = 0
      BY <1>15 DEF Die, Fault
    <2>2. ~(req[r].op = "subscribe" /\ req[r].pc = 7)
      BY <1>0, <2>1, MemoryOf DEF Placed
    <2> QED
      BY <1>0, <1>2, <1>15, <2>2, StopDoes
  <1>16. ASSUME NEW r \in Requests, LoseAnswer(r) PROVE P
    <2>1. req[r].op # "subscribe"
      BY <1>16 DEF LoseAnswer, Fault, Op
    <2> QED
      BY <1>0, <1>2, <1>16, <2>1, StopDoes
  <1> HIDE DEF P
  <1>17. P
    BY <1>1, <1>3, <1>4, <1>5, <1>6, <1>7, <1>8, <1>9, <1>10, <1>11, <1>12, <1>13, <1>14, <1>15, <1>16,
       NextCases
       DEF Suspend, Expire, ApplyHook, ReadHook, SetMemberStatus
  <1> QED
    BY <1>17 DEF P

\* A row whose subscription is paid is ACTIVE, and so is the workspace, or soon.
LEMMA NextServed ==
    ASSUME Base, Accounted, Next, ~overtaken'
    PROVE  Served'
  <1>0. /\ Typed /\ Unpaid \subseteq Unpaid' /\ Ended \subseteq Unpaid /\ Served
        /\ rows \in Seq(RowSet) /\ Len(rows) \in Nat /\ Len(rows) <= 1
    BY GatewayTyped, FactsStay DEF Base, Accounted, Typed, StoreOK, OneRow
  <1>00. org' = "ACTIVE" \/ Activating \subseteq Activating'
    BY ActivatingStays
  <1> DEFINE P == Served'
  <1>1. ASSUME rows' = rows, org' = org \/ org' = "ACTIVE" PROVE P
    BY <1>0, <1>00, <1>1 DEF Served
  <1>2. ASSUME NEW i \in 1 .. Len(rows), NEW row \in RowSet, Writes(i, row), row.sub \in Unpaid' PROVE P
    <2>1. Len(rows') = Len(rows) /\ rows'[i] = row
      BY <1>0, <1>2, Written
    <2>2. \A j \in 1 .. Len(rows') : j = i
      BY <1>0, <2>1
    <2> QED
      BY <1>2, <2>1, <2>2 DEF Served
  <1>3. ASSUME NEW r \in Requests, Save(r) PROVE P
    <2>1. /\ req[r].row \in 1 .. Len(rows) /\ Saved(r) \in RowSet /\ Writes(req[r].row, Saved(r))
          /\ req[r].row # 0 /\ org' = org
      BY <1>0, <1>3, SavedTyped DEF Save, Writes
    <2>2. Len(rows') = Len(rows) /\ rows'[req[r].row] = Saved(r)
      BY <1>0, <2>1, Written
    <2>3. \A j \in 1 .. Len(rows') : j = req[r].row
      BY <1>0, <2>1, <2>2
    <2>4. CASE req[r].op = "subscribe"
      <3>0. Saved(r) = NewRow(r)
        BY <1>3, <2>4 DEF Saved, Op
      <3>1. Saved(r).status = "ACTIVE"
        BY <3>0 DEF NewRow
      <3> DEFINE n == req'[r]
      <3>3. req[r].pc = 6 /\ Later(req[r], n)
        BY <1>0, <1>3, <2>4, SaveDoes, SavesAt DEF Save
      <3>4. n.op = "subscribe" /\ n.pc = 7
        <4> HIDE DEF n
        <4> QED
          BY <2>4, <3>3 DEF Later
      <3>2. r \in Activating'
        BY <3>4 DEF Activating
      <3> QED
        BY <2>2, <2>3, <3>1, <3>2 DEF Served
    <2>5. CASE req[r].op = "cancel"
      <3>1. PastCancel(req[r])
        BY <1>0, <1>3, <2>1, <2>5, SavesAt DEF Save, PastCancel
      <3>2. rows[req[r].row].sub \in Ended
        BY <1>0, <1>3, <3>1 DEF Save, Accounted, OldAreEnded
      <3>3. Saved(r).sub = rows[req[r].row].sub
        BY <1>0, <1>3, <2>1, <2>5, SavedTyped DEF Save
      <3>4. Saved(r).sub \in Unpaid'
        BY <1>0, <3>2, <3>3
      <3> QED
        BY <2>1, <3>4, <1>2
    <2>6. CASE req[r].op \in {"setAddon", "syncSeats"}
      <3>1. /\ Saved(r).sub = rows[req[r].row].sub
            /\ Saved(r).status = rows[req[r].row].status
        BY <1>0, <1>3, <2>1, <2>6, SavedTyped DEF Save
      <3>2. CASE rows[req[r].row].sub \in Unpaid'
        BY <2>1, <3>1, <3>2, <1>2
      <3>3. CASE rows[req[r].row].sub \notin Unpaid'
        <4>1. rows[req[r].row].status = "ACTIVE" /\ (org = "ACTIVE" \/ Activating # {})
          BY <1>0, <2>1, <3>3 DEF Served
        <4> QED
          BY <1>00, <2>1, <2>2, <2>3, <3>1, <4>1 DEF Served
      <3> QED
        BY <3>2, <3>3
    <2> QED
      BY <1>0, <1>3, <2>4, <2>5, <2>6, SavesAt DEF Save
  <1>4. ASSUME NEW r \in Requests, SaveFirst(r) PROVE P
    <2>1. rows' = Append(rows, NewRow(r)) /\ rows = <<>> /\ NewRow(r).status = "ACTIVE"
      BY <1>4 DEF SaveFirst, NewRow
    <2>2. Len(rows') = 1 /\ rows'[1] = NewRow(r)
      BY <2>1
    <2>3. req[r].op = "subscribe" /\ req[r].pc = 6
      BY <1>0, <1>4, SavesAt DEF SaveFirst
    <2> DEFINE n == req'[r]
    <2>5. Later(req[r], n)
      BY <1>0, <1>4, <2>3, SaveDoes
    <2>6. n.op = "subscribe" /\ n.pc = 7
      <3> HIDE DEF n
      <3> QED
        BY <2>3, <2>5 DEF Later
    <2>4. r \in Activating'
      BY <2>6 DEF Activating
    <2> QED
      BY <2>1, <2>2, <2>4 DEF Served
  <1>5. ASSUME NEW h \in Hooks, ApplyHook(h) PROVE P
    <2> DEFINE i == hook[h].row
    <2>1. i \in 1 .. Len(rows) /\ rows[i].sub \in Unpaid'
      BY <1>0, <1>5, AppliedIsUnpaid
    <2>2. \/ rows' = rows /\ org' = org
          \/ \E row \in RowSet : Writes(i, row) /\ row.sub = rows[i].sub
      BY <1>0, <1>5, ApplyWrites
    <2> HIDE DEF i
    <2> QED
      BY <2>1, <2>2, <1>1, <1>2
  <1>6. ASSUME NEW r \in Requests, Activate(r) PROVE P
    BY <1>1, <1>6 DEF Activate
  <1> HIDE DEF P
  <1>7. P
    BY <1>1, <1>3, <1>4, <1>5, <1>6, NextCases
       DEF Start, Count, ReadAddon, FindRow, FindNone, Create, Decline, CancelOld, Push, SaveRefused,
           Flip, Die, LoseAnswer, GatewayFails, Fault, Suspend, Expire, ReadHook, SetMemberStatus
  <1> QED
    BY <1>7 DEF P

\* The inductive invariant of both.
Kept == Base /\ (~overtaken => Accounted)

\* The second layer holds at first.
LEMMA InitAccounted == Init => Kept
  <1> SUFFICES ASSUME Init PROVE Kept
    OBVIOUS
  <1>1. Base
    BY InitBase
  <1>2. Len(gateway) = 0 /\ Len(rows) = 0 /\ \A r \in Requests : req[r] = Idle
    BY DEF Init
  <1>3. \A r \in Requests : ~PastCancel(req[r])
    BY <1>2 DEF PastCancel, Idle
  <1>4. Accounted
    BY <1>2, <1>3 DEF Accounted, OneRow, NoneLost, CanceledAreEnded, OldAreEnded, Served
  <1> QED
    BY <1>1, <1>4 DEF Kept

\* And each step leaves it, as long as nothing is lost hold of.
LEMMA NextAccounted == Kept /\ [Next]_vars => Kept'
  <1>1. CASE UNCHANGED vars
    <2>1. Kept => (~overtaken => Accounted) /\ Base
      BY DEF Kept
    <2>2. Base => Base'
      BY <1>1, NextBase
    <2>3. Accounted => Accounted'
      BY <1>1 DEF vars, Accounted, OneRow, NoneLost, CanceledAreEnded, OldAreEnded, Served, Named, Held,
                  Ended, Unpaid, Activating
    <2>4. overtaken' = overtaken
      BY <1>1 DEF vars
    <2> QED
      BY <2>1, <2>2, <2>3, <2>4 DEF Kept
  <1>2. ASSUME Kept, Next PROVE Kept'
    <2>1. Base /\ Base'
      BY <1>2, NextBase DEF Kept
    <2>2. ASSUME ~overtaken' PROVE Accounted'
      <3>1. Accounted
        BY <1>2, <2>1, <2>2, OvertakenStays DEF Kept, Base
      <3> QED
        BY <1>2, <2>1, <2>2, <3>1, NextOneRow, NextNoneLost, NextCanceled, NextOldAreEnded, NextServed
           DEF Accounted
    <2> QED
      BY <2>1, <2>2 DEF Kept
  <1> QED
    BY <1>1, <1>2

\* subscribe and cancel end the old subscription at the gateway before its row is
\* written over, and nobody but a row or a request holds one that lives: for any
\* number of requests and webhooks, as long as no fault and no overtaken request
\* lost hold of one.
THEOREM PaysOnce == Spec => []NobodyPaysTwice
  <1>1. Kept => NobodyPaysTwice
    <2> SUFFICES ASSUME Kept, ~overtaken, NEW s \in DOMAIN gateway, Live(s)
                 PROVE  \/ \E i \in DOMAIN rows : rows[i].sub = s /\ rows[i].status # "CANCELED"
                        \/ \E r \in Requests : Busy(r) /\ s \in {req[r].sub, req[r].seen.sub}
      BY DEF NobodyPaysTwice
    <2>1. Accounted /\ s \in 1 .. Len(gateway) /\ s \notin Ended /\ DOMAIN rows = 1 .. Len(rows)
      BY DEF Kept, Base, Typed, StoreOK, Live, Ended
    <2>2. s \in Named \cup Held
      BY <2>1 DEF Accounted, NoneLost
    <2>3. CASE s \in Named
      <3>1. PICK i \in 1 .. Len(rows) : rows[i].sub = s
        BY <2>3 DEF Named
      <3>2. rows[i].status # "CANCELED"
        BY <2>1, <3>1 DEF Accounted, CanceledAreEnded
      <3> QED
        BY <2>1, <3>1, <3>2
    <2>4. CASE s \in Held
      <3>1. PICK r \in Requests : InHand(req[r]) /\ req[r].sub = s
        BY <2>4 DEF Held
      <3> QED
        BY <3>1 DEF InHand, Busy
    <2> QED
      BY <2>2, <2>3, <2>4
  <1> QED
    BY <1>1, InitAccounted, NextAccounted, PTL DEF Spec

\* handleAuthorizeNetWebhook never takes from a workspace what it pays for: however
\* late and however often the gateway tells of a subscription, a row whose own is
\* paid stays ACTIVE, and subscribe makes its workspace so.
THEOREM PaidAreServed == Spec => []PaidIsServed
  <1>1. Kept => PaidIsServed
    <2> SUFFICES ASSUME Kept, ~overtaken, NEW i \in DOMAIN rows, gateway[rows[i].sub].state = "active"
                 PROVE  /\ rows[i].status = "ACTIVE"
                        /\ org = "ACTIVE" \/ \E r \in Requests : At(r, "activate")
      BY DEF PaidIsServed
    <2>1. Typed /\ Accounted /\ i \in 1 .. Len(rows)
      BY DEF Kept, Base, Typed, StoreOK
    <2>2. rows[i].sub \notin Unpaid
      BY <2>1, RowSubs DEF Unpaid
    <2>3. rows[i].status = "ACTIVE" /\ (org = "ACTIVE" \/ Activating # {})
      BY <2>1, <2>2 DEF Accounted, Served
    <2>4. \A r \in Activating : r \in Requests /\ At(r, "activate")
      BY <2>1, Places DEF Activating
    <2> QED
      BY <2>3, <2>4
  <1> QED
    BY <1>1, InitAccounted, NextAccounted, PTL DEF Spec

-----------------------------------------------------------------------------
(***************************************************************************)
(* The charge is for what the workspace uses.                              *)
(***************************************************************************)
\* What has been disturbed stays so.
LEMMA DisturbedStays ==
    ASSUME Typed, Next, ~disturbed'
    PROVE  ~disturbed
  BY NextCases
     DEF Start, Count, ReadAddon, FindRow, FindNone, Create, Decline, CancelOld, Push, Save, SaveFirst,
         SaveRefused, Activate, Flip, Die, LoseAnswer, GatewayFails, Fault, Suspend, Expire, ApplyHook,
         ReadHook, SetMemberStatus, history

\* A request that is alone, or none, fits the store.
LEMMA Solo ==
    ASSUME Typed, Exact, NEW r \in Requests, Working \subseteq {r}
    PROVE  Sound(req[r], gateway, rows, seats, addon)
  <1>1. CASE r \in Working
    BY <1>1 DEF Exact
  <1>2. CASE r \notin Working
    <2>1. Working = {} /\ req[r].op = "none"
      BY <1>2 DEF Working
    <2>2. req[r] = Idle
      BY <2>1, MemoryOf DEF Placed
    <2> QED
      BY <2>1, <2>2 DEF Exact
  <1> QED
    BY <1>1, <1>2

\* When such a request moves and fits the new store, the whole is exact.
LEMMA SoloAfter ==
    ASSUME Typed, Typed', NEW r \in Requests, Moved(r), Working \subseteq {r},
           Sound(req'[r], gateway', rows', seats', addon')
    PROVE  Exact'
  <1>1. Working' \subseteq {r}
    BY OthersStay DEF Working
  <1>2. ASSUME Working' = {} PROVE req'[r] = Idle
    <2>1. req'[r].op = "none" /\ Placed(req'[r])
      BY <1>2 DEF Working, Typed, RequestsOK
    <2> QED
      BY <2>1 DEF Placed
  <1> HIDE DEF Working, Sound
  <1>3. /\ \A p, q \in Working' : p = q
        /\ \A p \in Working' : Sound(req'[p], gateway', rows', seats', addon')
        /\ Working' = {} => Sound(Idle, gateway', rows', seats', addon')
    BY <1>1, <1>2
  <1> QED
    BY <1>3 DEF Exact

\* A request that is at a step is the only one.
LEMMA AloneAt ==
    ASSUME Exact, NEW r \in Requests, req[r].op # "none"
    PROVE  Working \subseteq {r}
  BY DEF Exact, Working

-----------------------------------------------------------------------------
\* When only the states at the gateway and of the rows change, and no row becomes
\* one that is paid, all that fitted still does.
LEMMA Calm ==
    ASSUME NEW q, NEW g, NEW h, NEW rs, NEW ss, NEW n, NEW a, Sound(q, g, rs, n, a),
           Len(ss) = Len(rs), q.row # 0 => q.row \in 1 .. Len(rs),
           \A i \in 1 .. Len(rs) :
              /\ ss[i].sub = rs[i].sub /\ ss[i].plan = rs[i].plan /\ ss[i].amount = rs[i].amount
              /\ rs[i].sub \in 1 .. Len(g)
              /\ ss[i].status = "ACTIVE" /\ h[ss[i].sub].state = "active" =>
                    rs[i].status = "ACTIVE" /\ g[rs[i].sub].state = "active",
           \A s \in 1 .. Len(g) :
              /\ h[s].amount = g[s].amount
              /\ g[s].state = "ended" => h[s].state = "ended",
           InHand(q) => q.sub \in 1 .. Len(g),
           Pushed(q) => q.seen.sub \in 1 .. Len(g)
    PROVE  Sound(q, h, ss, n, a)
  <1>1. Mirrors(q, h, ss)
    BY DEF Sound, Mirrors
  <1>2. Pays(q, h, ss, n, a)
    BY DEF Sound, Pays
  <1>3. RowHeld(q, ss)
    BY DEF Sound, Knows, RowHeld
  <1>4. Knows(q, h, ss, n, a)
    BY <1>3 DEF Sound, Knows
  <1> QED
    BY <1>1, <1>2, <1>4 DEF Sound

\* A request that is done, and neither recomputes nor switches, leaves what fits.
LEMMA Done ==
    ASSUME NEW q, NEW g, NEW rs, NEW n, NEW a, Sound(q, g, rs, n, a),
           ~Pushed(q), ~Recomputing(q), ~Switching(q)
    PROVE  Sound(Idle, g, rs, n, a)
  <1>1. ~Pushed(Idle) /\ ~Recomputing(Idle) /\ ~Switching(Idle) /\ ~SeatsKnown(Idle) /\ ~AddonKnown(Idle)
        /\ ~InHand(Idle) /\ Idle.row = 0 /\ Idle.op = "none"
    BY DEF Idle, Pushed, Recomputing, Switching, SeatsKnown, AddonKnown, InHand
  <1>2. Mirrors(Idle, g, rs)
    BY <1>1 DEF Sound, Mirrors
  <1>3. Pays(Idle, g, rs, n, a)
    BY <1>1 DEF Sound, Pays
  <1>4. Knows(Idle, g, rs, n, a)
    BY <1>1 DEF Knows, RowHeld
  <1> QED
    BY <1>2, <1>3, <1>4 DEF Sound

\* The same when there is nothing that is paid, or what is paid is the charge.
LEMMA DoneWith ==
    ASSUME NEW g, NEW rs, NEW n, NEW a, NEW q, Mirrors(q, g, rs), ~Pushed(q),
           \A i \in 1 .. Len(rs) :
              rs[i].status = "ACTIVE" /\ g[rs[i].sub].state = "active" =>
                 g[rs[i].sub].amount = Amount(rs[i].plan, n, a)
    PROVE  Sound(Idle, g, rs, n, a)
  <1>1. ~Pushed(Idle) /\ ~Recomputing(Idle) /\ ~Switching(Idle) /\ ~SeatsKnown(Idle) /\ ~AddonKnown(Idle)
        /\ ~InHand(Idle) /\ Idle.row = 0 /\ Idle.op = "none"
    BY DEF Idle, Pushed, Recomputing, Switching, SeatsKnown, AddonKnown, InHand
  <1>2. Mirrors(Idle, g, rs)
    BY <1>1 DEF Mirrors
  <1>3. Pays(Idle, g, rs, n, a)
    BY <1>1 DEF Pays
  <1>4. Knows(Idle, g, rs, n, a)
    BY <1>1 DEF Knows, RowHeld
  <1> QED
    BY <1>2, <1>3, <1>4 DEF Sound

\* A request goes on with its row and does not touch the store.
LEMMA OnSound ==
    ASSUME NEW q \in Memory, NEW m, NEW g, NEW rs, NEW n, NEW a, Sound(q, g, rs, n, a),
           Later(q, m), SameRow(q, m),
           ~Pushed(q), ~Pushed(m), Switching(m) <=> Switching(q), Recomputing(m) <=> Recomputing(q),
           SeatsKnown(m) => m.seats = n, AddonKnown(m) => m.addon = a,
           Switching(q) => m.addon = q.addon,
           q.op = "subscribe" /\ q.pc = 3 /\ q.row = 0 => Len(rs) = 0,
           InHand(m) => g[m.sub].amount = Charge(m)
    PROVE  Sound(m, g, rs, n, a)
  <1>1. Mirrors(m, g, rs)
    BY DEF Sound, Mirrors
  <1>2. Pays(m, g, rs, n, a)
    BY DEF Sound, Pays, SameRow
  <1>3. RowHeld(m, rs)
    <2>1. q.pc \in 1 .. 7 /\ m.pc \in 1 .. 7 /\ m.pc = q.pc + 1 /\ m.op = q.op
      BY DEF Memory, Later
    <2>2. RowHeld(q, rs)
      BY DEF Sound, Knows
    <2> QED
      BY <2>1, <2>2 DEF RowHeld, SameRow
  <1>4. Knows(m, g, rs, n, a)
    BY <1>3 DEF Knows
  <1> QED
    BY <1>1, <1>2, <1>4 DEF Sound

\* There is one row.
LEMMA TheRow ==
    ASSUME Typed, OneRow, NEW i \in 1 .. Len(rows), NEW j \in 1 .. Len(rows)
    PROVE  i = j
  <1>1. Len(rows) \in Nat /\ Len(rows) <= 1
    BY DEF Typed, StoreOK, OneRow
  <1> QED
    BY <1>1

\* A request begins; that of a team change leaves the seats uncharged for a while.
LEMMA StartSound ==
    ASSUME Typed, NEW r \in Requests, NEW op \in DOMAIN Steps \ {"none"}, NEW plan \in Plans,
           NEW wanted \in BOOLEAN, Start(r, op, plan, wanted), seats' = seats \/ op = "syncSeats",
           Sound(Idle, gateway, rows, seats, addon)
    PROVE  Sound(req'[r], gateway', rows', seats', addon')
  <1> DEFINE m == req'[r]
  <1>1. m.op = op /\ m.pc = 1 /\ m.row = 0
    BY StartDoes
  <1>2. gateway' = gateway /\ rows' = rows /\ addon' = addon
    BY DEF Start
  <1> HIDE DEF m
  <1>3. /\ ~Pushed(m) /\ ~Switching(m) /\ ~SeatsKnown(m) /\ ~AddonKnown(m) /\ ~InHand(m)
        /\ Recomputing(m) <=> op = "syncSeats"
    BY <1>1 DEF Pushed, Switching, SeatsKnown, AddonKnown, InHand, Recomputing
  <1>4. ~Pushed(Idle) /\ ~Recomputing(Idle) /\ ~Switching(Idle)
    BY DEF Idle, Pushed, Recomputing, Switching
  <1>5. Mirrors(m, gateway, rows)
    BY <1>4 DEF Sound, Mirrors
  <1>6. ASSUME NEW i \in 1 .. Len(rows), rows[i].status = "ACTIVE", gateway[rows[i].sub].state = "active"
        PROVE  LET paid == gateway[rows[i].sub].amount
               IN  /\ paid = Amount(rows[i].plan, seats, addon)
                   /\ paid.addon = addon /\ (rows[i].plan = "flat" => paid.seats = 0)
    <2>1. gateway[rows[i].sub].amount = Amount(rows[i].plan, seats, addon)
      BY <1>4, <1>6 DEF Sound, Pays
    <2> QED
      BY <2>1 DEF Amount
  <1>7. Pays(m, gateway, rows, seats', addon)
    BY <1>3, <1>6 DEF Pays
  <1>8. Knows(m, gateway, rows, seats', addon)
    BY <1>1, <1>3 DEF Knows, RowHeld
  <1> QED
    BY <1>2, <1>5, <1>7, <1>8 DEF Sound, m

\* The seats that are counted are the seats.
LEMMA CountSound ==
    ASSUME Typed, NEW r \in Requests, Count(r), Sound(req[r], gateway, rows, seats, addon)
    PROVE  Sound(req'[r], gateway', rows', seats', addon')
  <1> DEFINE q == req[r]
  <1> DEFINE m == req'[r]
  <1>1. gateway' = gateway /\ rows' = rows /\ addon' = addon /\ seats' = seats
    BY DEF Count
  <1>2. /\ (q.op = "subscribe" /\ q.pc = 1) \/ (q.op = "setAddon" /\ q.pc = 3) \/ (q.op = "syncSeats" /\ q.pc = 2)
        /\ \/ q.op = "subscribe" /\ m = Idle
           \/ Later(q, m) /\ SameRow(q, m) /\ m.seats = seats
    BY CountDoes
  <1>3. Sound(q, gateway, rows, seats, addon) /\ q \in Memory
    BY MemoryOf
  <1> HIDE DEF q, m
  <1>4. CASE m = Idle /\ q.op = "subscribe"
    <2>1. ~Pushed(q) /\ ~Recomputing(q) /\ ~Switching(q)
      BY <1>4 DEF Pushed, Recomputing, Switching
    <2> QED
      BY <1>1, <1>3, <1>4, <2>1, Done DEF m
  <1>5. CASE Later(q, m) /\ SameRow(q, m) /\ m.seats = seats
    <2>1. m.op = q.op /\ m.pc = q.pc + 1
      BY <1>5 DEF Later
    <2>2. /\ ~Pushed(q) /\ ~Pushed(m) /\ ~Switching(m) /\ ~Switching(q)
          /\ Recomputing(m) <=> Recomputing(q)
          /\ ~AddonKnown(m) /\ ~InHand(m)
      BY <1>2, <2>1 DEF Pushed, Recomputing, Switching, AddonKnown, InHand
    <2>3. ~(q.op = "subscribe" /\ q.pc = 3)
      BY <1>2
    <2> QED
      BY <1>1, <1>3, <1>5, <2>2, <2>3, OnSound DEF m
  <1> QED
    BY <1>2, <1>4, <1>5

\* The add-on that is read is the add-on.
LEMMA ReadAddonSound ==
    ASSUME Typed, NEW r \in Requests, ReadAddon(r), Sound(req[r], gateway, rows, seats, addon)
    PROVE  Sound(req'[r], gateway', rows', seats', addon')
  <1> DEFINE q == req[r]
  <1> DEFINE m == req'[r]
  <1>1. gateway' = gateway /\ rows' = rows /\ addon' = addon /\ seats' = seats
    BY DEF ReadAddon
  <1>2. /\ \/ q.op = "subscribe" /\ q.pc = 2
           \/ q.op = "setAddon" /\ q.pc = 1
           \/ q.op = "syncSeats" /\ q.pc = 3
        /\ \/ q.op = "setAddon" /\ m = Idle
           \/ /\ Later(q, m) /\ SameRow(q, m) /\ m.seats = q.seats
              /\ m.addon = IF q.op = "setAddon" THEN q.addon ELSE addon
    BY ReadAddonDoes
  <1>3. Sound(q, gateway, rows, seats, addon) /\ q \in Memory
    BY MemoryOf
  <1> HIDE DEF q, m
  <1>4. CASE m = Idle /\ q.op = "setAddon"
    <2>1. ~Pushed(q) /\ ~Recomputing(q) /\ ~Switching(q)
      BY <1>2, <1>4 DEF Pushed, Recomputing, Switching
    <2> QED
      BY <1>1, <1>3, <1>4, <2>1, Done DEF m
  <1>5. CASE /\ Later(q, m) /\ SameRow(q, m) /\ m.seats = q.seats
             /\ m.addon = IF q.op = "setAddon" THEN q.addon ELSE addon
    <2>1. m.op = q.op /\ m.pc = q.pc + 1
      BY <1>5 DEF Later
    <2>2. /\ ~Pushed(q) /\ ~Pushed(m) /\ ~Switching(m) /\ ~Switching(q)
          /\ Recomputing(m) <=> Recomputing(q)
          /\ SeatsKnown(m) => SeatsKnown(q)
          /\ AddonKnown(m) => q.op # "setAddon"
          /\ ~InHand(m)
      BY <1>2, <2>1 DEF Pushed, Recomputing, Switching, AddonKnown, SeatsKnown, InHand
    <2>3. SeatsKnown(m) => m.seats = seats
      BY <1>3, <1>5, <2>2 DEF Sound, Knows
    <2>4. AddonKnown(m) => m.addon = addon
      BY <1>5, <2>2
    <2>5. ~(q.op = "subscribe" /\ q.pc = 3)
      BY <1>2
    <2> QED
      BY <1>1, <1>3, <1>5, <2>2, <2>3, <2>4, <2>5, OnSound DEF m
  <1> QED
    BY <1>2, <1>4, <1>5

\* The row that is found shows what the gateway charges.
LEMMA FindRowSound ==
    ASSUME Typed, OneRow, NEW r \in Requests, FindRow(r), Sound(req[r], gateway, rows, seats, addon)
    PROVE  Sound(req'[r], gateway', rows', seats', addon')
  <1> DEFINE q == req[r]
  <1> DEFINE m == req'[r]
  <1>1. gateway' = gateway /\ rows' = rows /\ addon' = addon /\ seats' = seats
    BY DEF FindRow
  <1>2. PICK i \in 1 .. Len(rows) :
          \/ q.op = "syncSeats" /\ rows[i].plan = "flat" /\ m = Idle
          \/ /\ Later(q, m) /\ SameRest(q, m) /\ m.row = i /\ m.seen = rows[i]
             /\ m.plan = IF q.op = "subscribe" THEN q.plan ELSE rows[i].plan
    BY FindRowDoes
  <1>3. Sound(q, gateway, rows, seats, addon) /\ q \in Memory
    BY MemoryOf
  <1>4. \/ q.op = "subscribe" /\ q.pc = 3
        \/ q.op = "cancel" /\ q.pc = 1
        \/ q.op = "setAddon" /\ q.pc = 2
        \/ q.op = "syncSeats" /\ q.pc = 1
    BY FindsAt DEF FindRow
  <1> HIDE DEF q, m
  <1>5. ~Pushed(q) /\ ~Switching(q) /\ (Recomputing(q) <=> q.op = "syncSeats")
    BY <1>4 DEF Pushed, Switching, Recomputing
  <1>6. CASE q.op = "syncSeats" /\ rows[i].plan = "flat" /\ m = Idle
    <2>1. ASSUME NEW j \in 1 .. Len(rows), rows[j].status = "ACTIVE", gateway[rows[j].sub].state = "active"
          PROVE  gateway[rows[j].sub].amount = Amount(rows[j].plan, seats, addon)
      <3> DEFINE paid == gateway[rows[j].sub].amount
      <3>1. j = i
        BY TheRow
      <3>2. paid.addon = addon /\ paid.seats = 0
        BY <1>3, <1>5, <1>6, <2>1, <3>1 DEF Sound, Pays
      <3>3. paid \in Amounts
        <4>1. gateway \in Seq(Subscriptions) /\ rows[j].sub \in 1 .. Len(gateway)
          BY RowSubs DEF Typed, StoreOK
        <4>2. gateway[rows[j].sub] \in Subscriptions
          BY <4>1
        <4> QED
          BY <4>2 DEF Subscriptions
      <3> HIDE DEF paid
      <3>4. paid = [seats |-> 0, addon |-> addon]
        BY <3>2, <3>3 DEF Amounts
      <3>5. Amount(rows[j].plan, seats, addon) = [seats |-> 0, addon |-> addon]
        BY <1>6, <3>1 DEF Amount
      <3> QED
        BY <3>4, <3>5 DEF paid
    <2> QED
      BY <1>1, <1>3, <1>5, <1>6, <2>1, DoneWith DEF Sound, m
  <1>7. CASE /\ Later(q, m) /\ SameRest(q, m) /\ m.row = i /\ m.seen = rows[i]
             /\ m.plan = IF q.op = "subscribe" THEN q.plan ELSE rows[i].plan
    <2>1. m.op = q.op /\ m.pc = q.pc + 1
      BY <1>7 DEF Later
    <2>2. /\ ~Pushed(m) /\ ~Switching(m) /\ (Recomputing(m) <=> Recomputing(q))
          /\ SeatsKnown(m) => SeatsKnown(q)
          /\ AddonKnown(m) => AddonKnown(q)
          /\ ~InHand(m)
      BY <1>4, <2>1 DEF Pushed, Recomputing, Switching, AddonKnown, SeatsKnown, InHand
    <2>3. Mirrors(m, gateway, rows)
      BY <1>3, <1>5 DEF Sound, Mirrors
    <2>4. Pays(m, gateway, rows, seats, addon)
      BY <1>3, <1>5, <2>2 DEF Sound, Pays
    <2>5. RowHeld(m, rows)
      BY <1>7, <2>1 DEF RowHeld
    <2>6. Knows(m, gateway, rows, seats, addon)
      BY <1>3, <1>7, <2>2, <2>5 DEF Sound, Knows, SameRest
    <2> QED
      BY <1>1, <2>3, <2>4, <2>6 DEF Sound, m
  <1> QED
    BY <1>2, <1>6, <1>7

\* Without a row that is ACTIVE nothing is paid that setAddon could have to change.
LEMMA FindNoneSound ==
    ASSUME Typed, OneRow, NEW r \in Requests, FindNone(r), Sound(req[r], gateway, rows, seats, addon)
    PROVE  Sound(req'[r], gateway', rows', seats', addon')
  <1> DEFINE q == req[r]
  <1> DEFINE m == req'[r]
  <1>1. gateway' = gateway /\ rows' = rows /\ addon' = addon /\ seats' = seats
    BY DEF FindNone
  <1>2. \/ q.op = "subscribe" /\ Later(q, m) /\ SameRow(q, m) /\ SameRest(q, m)
        \/ q.op = "setAddon" /\ m.op = q.op /\ m.pc = 6 /\ SameRow(q, m)
        \/ m = Idle
    BY FindNoneDoes
  <1>3. Sound(q, gateway, rows, seats, addon) /\ q \in Memory /\ Placed(q)
    BY MemoryOf
  <1>4. \/ q.op = "subscribe" /\ q.pc = 3
        \/ q.op = "cancel" /\ q.pc = 1
        \/ q.op = "setAddon" /\ q.pc = 2
        \/ q.op = "syncSeats" /\ q.pc = 1
    BY FindsAt DEF FindNone
  <1>5. ASSUME NEW i \in 1 .. Len(rows)
        PROVE  q.op \in {"setAddon", "syncSeats"} /\ rows[i].status # "ACTIVE"
    <2>1. DOMAIN rows = 1 .. Len(rows) /\ Len(rows) \in Nat
      BY DEF Typed, StoreOK
    <2>2. ~RowFor(r, i)
      BY <2>1 DEF FindNone
    <2>3. \A j \in DOMAIN rows : j <= i
      BY <2>1, TheRow
    <2> QED
      BY <1>5, <2>1, <2>2, <2>3 DEF RowFor, Op
  <1>10. q.op = "subscribe" => Len(rows) = 0
    <2> HIDE DEF q
    <2>1. Len(rows) \in Nat
      BY DEF Typed, StoreOK
    <2>2. ASSUME Len(rows) # 0 PROVE q.op # "subscribe"
      <3>1. 1 \in 1 .. Len(rows)
        BY <2>1, <2>2
      <3> QED
        BY <1>5, <3>1
    <2> QED
      BY <2>2
  <1> HIDE DEF q, m
  <1>6. ~Pushed(q) /\ ~Switching(q) /\ (Recomputing(q) <=> q.op = "syncSeats")
    BY <1>4 DEF Pushed, Switching, Recomputing
  <1>7. CASE q.op = "subscribe" /\ Later(q, m) /\ SameRow(q, m) /\ SameRest(q, m)
    <2>1. m.op = q.op /\ m.pc = 4
      BY <1>4, <1>7 DEF Later
    <2>2. /\ ~Pushed(m) /\ ~Switching(m) /\ ~Recomputing(m) /\ SeatsKnown(q) /\ AddonKnown(q) /\ ~InHand(m)
      BY <1>4, <1>7, <2>1 DEF Pushed, Recomputing, Switching, AddonKnown, SeatsKnown, InHand
    <2>3. m.seats = seats /\ m.addon = addon
      BY <1>3, <1>7, <2>2 DEF Sound, Knows, SameRest
    <2> QED
      BY <1>1, <1>3, <1>6, <1>7, <1>10, <2>2, <2>3, OnSound DEF m
  <1>8. CASE q.op = "setAddon" /\ m.op = q.op /\ m.pc = 6 /\ SameRow(q, m)
    <2>1. m.row = 0
      BY <1>3, <1>4, <1>8 DEF Placed, SameRow
    <2>2. ~SeatsKnown(m) /\ ~AddonKnown(m) /\ ~InHand(m) /\ ~Pushed(m)
      BY <1>8, <2>1 DEF SeatsKnown, AddonKnown, InHand, Pushed
    <2>3. Mirrors(m, gateway, rows)
      BY <1>3, <1>6 DEF Sound, Mirrors
    <2>4. Pays(m, gateway, rows, seats, addon)
      BY <1>5, <1>8 DEF Pays
    <2>5. Knows(m, gateway, rows, seats, addon)
      BY <1>8, <2>1, <2>2 DEF Knows, RowHeld
    <2> QED
      BY <1>1, <2>3, <2>4, <2>5 DEF Sound, m
  <1>9. CASE m = Idle
    <2>1. CASE q.op = "syncSeats"
      <3>1. \A i \in 1 .. Len(rows) : rows[i].status # "ACTIVE"
        BY <1>5, <2>1
      <3> QED
        BY <1>1, <1>3, <1>6, <1>9, <3>1, DoneWith DEF Sound, m
    <2>2. CASE q.op # "syncSeats"
      BY <1>1, <1>3, <1>6, <1>9, <2>2, Done DEF m
    <2> QED
      BY <2>1, <2>2
  <1> QED
    BY <1>2, <1>7, <1>8, <1>9

\* The new subscription charges what was read.
LEMMA CreateSound ==
    ASSUME Typed, NEW r \in Requests, Create(r), Sound(req[r], gateway, rows, seats, addon)
    PROVE  Sound(req'[r], gateway', rows', seats', addon')
  <1> DEFINE q == req[r]
  <1> DEFINE m == req'[r]
  <1>1. rows' = rows /\ addon' = addon /\ seats' = seats
    BY DEF Create
  <1>2. /\ q.op = "subscribe" /\ q.pc = 4
        /\ Later(q, m) /\ SameRow(q, m) /\ m.seats = q.seats /\ m.addon = q.addon
        /\ m.sub = Len(gateway) + 1
    BY CreateDoes
  <1>3. Sound(q, gateway, rows, seats, addon) /\ q \in Memory
    BY MemoryOf
  <1>4. /\ Len(gateway) \in Nat /\ gateway'[Len(gateway) + 1].amount = AmountOf(r)
        /\ \A t \in 1 .. Len(gateway) : gateway'[t] = gateway[t]
    <2>1. Opens(AmountOf(r)) /\ AmountOf(r) \in Amounts
      BY AmountTyped DEF Create, Opens
    <2> QED
      BY <2>1, Opened DEF Typed, StoreOK
  <1>5. AmountOf(r) = Charge(q)
    BY DEF AmountOf, Charge
  <1>6. \A i \in 1 .. Len(rows) : gateway'[rows[i].sub] = gateway[rows[i].sub]
    BY <1>4, RowSubs
  <1> HIDE DEF q, m
  <1>7. m.op = "subscribe" /\ m.pc = 5
    BY <1>2 DEF Later
  <1>8. /\ ~Pushed(q) /\ ~Pushed(m) /\ ~Switching(m) /\ ~Switching(q) /\ ~Recomputing(m) /\ ~Recomputing(q)
        /\ SeatsKnown(q) /\ AddonKnown(q)
    BY <1>2, <1>7 DEF Pushed, Recomputing, Switching, SeatsKnown, AddonKnown
  <1>9. Mirrors(m, gateway', rows)
    BY <1>3, <1>6, <1>8 DEF Sound, Mirrors
  <1>10. Pays(m, gateway', rows, seats, addon)
    BY <1>3, <1>6, <1>8 DEF Sound, Pays
  <1>11. RowHeld(m, rows)
    BY <1>2, <1>3, <1>7 DEF Sound, Knows, RowHeld, SameRow
  <1>12. Charge(m) = Charge(q)
    BY <1>2 DEF Charge, SameRow
  <1>13. m.seats = seats /\ m.addon = addon
    BY <1>2, <1>3, <1>8 DEF Sound, Knows
  <1>14. gateway'[m.sub].amount = Charge(m)
    BY <1>2, <1>4, <1>5, <1>12
  <1>15. Knows(m, gateway', rows, seats, addon)
    BY <1>8, <1>11, <1>13, <1>14 DEF Knows
  <1> QED
    BY <1>1, <1>9, <1>10, <1>15 DEF Sound, m

\* Ending the old one takes a charge away.
LEMMA CancelOldSound ==
    ASSUME Typed, NEW r \in Requests, CancelOld(r), Sound(req[r], gateway, rows, seats, addon)
    PROVE  Sound(req'[r], gateway', rows', seats', addon')
  <1> DEFINE q == req[r]
  <1> DEFINE m == req'[r]
  <1>1. rows' = rows /\ addon' = addon /\ seats' = seats
    BY DEF CancelOld
  <1>2. /\ (q.op = "subscribe" /\ q.pc = 5) \/ (q.op = "cancel" /\ q.pc = 2)
        /\ Later(q, m) /\ SameRow(q, m) /\ SameRest(q, m)
    BY CancelOldDoes
  <1>3. Sound(q, gateway, rows, seats, addon) /\ q \in Memory
    BY MemoryOf
  <1>4. \A s \in 1 .. Len(gateway) : /\ gateway'[s].amount = gateway[s].amount
                                     /\ gateway'[s].state = gateway[s].state \/ gateway'[s].state = "ended"
    <2>1. CASE q.seen # NoRow /\ Live(q.seen.sub)
      <3>1. Marks(q.seen.sub, "ended")
        BY <2>1 DEF CancelOld, Finish, Marks
      <3>2. q.seen.sub \in 1 .. Len(gateway)
        BY <2>1, SeenTyped
      <3> QED
        BY <3>1, <3>2, Marked
    <2>2. CASE ~(q.seen # NoRow /\ Live(q.seen.sub))
      BY <2>2 DEF CancelOld
    <2> QED
      BY <2>1, <2>2
  <1>5. \A i \in 1 .. Len(rows) : rows[i].sub \in 1 .. Len(gateway)
    BY RowSubs
  <1>6. InHand(q) => q.sub \in 1 .. Len(gateway)
    <2>1. q \in RequestSet /\ Placed(q) /\ Len(gateway) \in Nat
      BY MemoryOf DEF Typed, StoreOK
    <2> HIDE DEF q
    <2> QED
      BY <2>1 DEF RequestSet, Placed, InHand
  <1> HIDE DEF q, m
  <1>7. q.row # 0 => q.row \in 1 .. Len(rows)
    BY SeenTyped DEF q
  <1>8. ~Pushed(q)
    BY <1>2 DEF Pushed
  <1>9. Sound(q, gateway', rows, seats, addon)
    BY <1>3, <1>4, <1>5, <1>6, <1>7, <1>8, Calm
  <1>10. m.op = q.op /\ m.pc = q.pc + 1
    BY <1>2 DEF Later
  <1>11. /\ ~Pushed(m) /\ ~Switching(m) /\ ~Switching(q) /\ ~Recomputing(m) /\ ~Recomputing(q)
         /\ SeatsKnown(m) => SeatsKnown(q)
         /\ AddonKnown(m) => AddonKnown(q)
         /\ InHand(m) => InHand(q)
    BY <1>2, <1>10 DEF Pushed, Recomputing, Switching, SeatsKnown, AddonKnown, InHand
  <1>12. Charge(m) = Charge(q) /\ m.sub = q.sub /\ m.seats = q.seats /\ m.addon = q.addon
    BY <1>2 DEF Charge, SameRow, SameRest
  <1>13. /\ SeatsKnown(m) => m.seats = seats
         /\ AddonKnown(m) => m.addon = addon
         /\ InHand(m) => gateway'[m.sub].amount = Charge(m)
    BY <1>9, <1>11, <1>12 DEF Sound, Knows
  <1> QED
    BY <1>1, <1>2, <1>3, <1>8, <1>9, <1>11, <1>13, OnSound DEF m

\* The gateway charges anew, or has no need to.
LEMMA PushSound ==
    ASSUME Typed, OneRow, NEW r \in Requests, Push(r), Sound(req[r], gateway, rows, seats, addon)
    PROVE  Sound(req'[r], gateway', rows', seats', addon')
  <1> DEFINE q == req[r]
  <1> DEFINE m == req'[r]
  <1>1. rows' = rows /\ addon' = addon /\ seats' = seats
    BY DEF Push, outside, history
  <1>2. /\ q.op \in {"setAddon", "syncSeats"} /\ q.pc = 4
        /\ \/ /\ m = Idle /\ gateway' = gateway
              /\ \/ q.op = "syncSeats" /\ q.seen.amount = AmountOf(r)
                 \/ q.op = "setAddon" /\ ~Live(q.seen.sub)
           \/ /\ Later(q, m) /\ SameRow(q, m) /\ SameRest(q, m)
              /\ gateway' = IF Live(q.seen.sub) THEN [gateway EXCEPT ![q.seen.sub].amount = AmountOf(r)]
                            ELSE gateway
    BY PushDoes
  <1>3. Sound(q, gateway, rows, seats, addon) /\ q \in Memory /\ Placed(q)
    BY MemoryOf
  <1>4. AmountOf(r) = Charge(q) /\ Charge(q) \in Amounts
    BY AmountTyped DEF AmountOf, Charge
  <1>6. q.row # 0
    <2> HIDE DEF q, m
    <2> QED
      BY <1>2, <1>3 DEF Placed
  <1>5. q.row \in 1 .. Len(rows) /\ q.seen.sub \in 1 .. Len(gateway)
    BY <1>6, SeenTyped
  <1> HIDE DEF q, m
  <1>7. /\ ~Pushed(q) /\ ~Switching(q) /\ SeatsKnown(q)
        /\ q.op = "syncSeats" => AddonKnown(q) /\ Recomputing(q)
        /\ q.op # "syncSeats" => ~Recomputing(q)
    BY <1>2, <1>6 DEF Pushed, Switching, SeatsKnown, AddonKnown, Recomputing
  <1>8. /\ rows[q.row].sub = q.seen.sub /\ rows[q.row].plan = q.plan /\ rows[q.row].amount = q.seen.amount
        /\ q.seats = seats /\ (q.op = "syncSeats" => q.addon = addon)
    BY <1>2, <1>3, <1>6, <1>7 DEF Sound, Knows, RowHeld
  <1>9. CASE m = Idle /\ gateway' = gateway /\ q.op = "syncSeats" /\ q.seen.amount = AmountOf(r)
    <2>1. ASSUME NEW i \in 1 .. Len(rows), rows[i].status = "ACTIVE", gateway[rows[i].sub].state = "active"
          PROVE  gateway[rows[i].sub].amount = Amount(rows[i].plan, seats, addon)
      <3>1. i = q.row
        BY <1>5, TheRow
      <3>2. rows[i].amount = gateway[rows[i].sub].amount
        BY <1>3, <1>7, <2>1 DEF Sound, Mirrors
      <3>3. rows[i].amount = Charge(q)
        BY <1>4, <1>8, <1>9, <3>1
      <3> QED
        BY <1>8, <1>9, <3>1, <3>2, <3>3 DEF Charge
    <2> QED
      BY <1>1, <1>3, <1>7, <1>9, <2>1, DoneWith DEF Sound, m
  <1>10. CASE m = Idle /\ gateway' = gateway /\ q.op = "setAddon"
    BY <1>1, <1>3, <1>7, <1>10, Done DEF m
  <1>11. CASE /\ Later(q, m) /\ SameRow(q, m) /\ SameRest(q, m)
              /\ gateway' = IF Live(q.seen.sub) THEN [gateway EXCEPT ![q.seen.sub].amount = AmountOf(r)]
                            ELSE gateway
    <2>1. /\ m.op = q.op /\ m.pc = 5 /\ m.row = q.row /\ m.seen = q.seen /\ m.plan = q.plan
          /\ m.seats = q.seats /\ m.addon = q.addon
      BY <1>2, <1>11 DEF Later, SameRow, SameRest
    <2>2. Pushed(m) /\ ~Recomputing(m) /\ (Switching(m) <=> q.op = "setAddon") /\ ~InHand(m)
      BY <1>2, <2>1 DEF Pushed, Recomputing, Switching, InHand
    <2>3. Charge(m) = Charge(q)
      BY <2>1 DEF Charge
    <2>4. gateway'[q.seen.sub].state # "ended" => gateway'[q.seen.sub].amount = Charge(m)
      <3>1. CASE Live(q.seen.sub)
        <4>1. Charges(q.seen.sub, Charge(q))
          BY <1>4, <1>11, <3>1 DEF Charges
        <4>2. gateway'[q.seen.sub].amount = Charge(q)
          BY <1>4, <1>5, <4>1, Charged
        <4> QED
          BY <2>3, <4>2
      <3>2. CASE ~Live(q.seen.sub)
        BY <1>11, <3>2 DEF Live
      <3> QED
        BY <3>1, <3>2
    <2>5. Mirrors(m, gateway', rows)
      BY <2>2 DEF Mirrors
    <2>6. ASSUME NEW i \in 1 .. Len(rows), gateway'[rows[i].sub].state = "active"
          PROVE  /\ Switching(m) => m.row # 0 /\ gateway'[rows[i].sub].amount = Amount(rows[i].plan, seats, m.addon)
                 /\ ~Switching(m) => gateway'[rows[i].sub].amount = Amount(rows[i].plan, seats, addon)
      <3>1. i = q.row
        BY <1>5, TheRow
      <3>2. gateway'[rows[i].sub].amount = Charge(m)
        BY <1>8, <2>4, <2>6, <3>1
      <3>3. Charge(m) = Amount(rows[i].plan, seats, m.addon)
        BY <1>8, <2>1, <3>1 DEF Charge
      <3>4. ~Switching(m) => m.addon = addon
        BY <1>2, <1>8, <2>1, <2>2
      <3> QED
        BY <1>6, <2>1, <3>2, <3>3, <3>4
    <2>7. Pays(m, gateway', rows, seats, addon)
      BY <2>2, <2>6 DEF Pays
    <2>8. RowHeld(m, rows)
      BY <1>2, <1>8, <2>1 DEF RowHeld
    <2>9. AddonKnown(m) => m.addon = addon
      BY <1>2, <1>8, <2>1 DEF AddonKnown
    <2>10. Knows(m, gateway', rows, seats, addon)
      BY <1>8, <2>1, <2>2, <2>4, <2>8, <2>9 DEF Knows
    <2> QED
      BY <1>1, <2>5, <2>7, <2>10 DEF Sound, m
  <1> QED
    BY <1>2, <1>9, <1>10, <1>11

\* A new subscription's row is all there is.
LEMMA SubscribedSound ==
    ASSUME Typed, NEW r \in Requests, At(r, "save"), req[r].op = "subscribe",
           Sound(req[r], gateway, rows, seats, addon),
           Later(req[r], req'[r]), SameRow(req[r], req'[r]), SameRest(req[r], req'[r]),
           gateway' = gateway, addon' = addon, seats' = seats,
           Len(rows') = 1, rows'[1] = NewRow(r)
    PROVE  Sound(req'[r], gateway', rows', seats', addon')
  <1> DEFINE q == req[r]
  <1> DEFINE m == req'[r]
  <1> DEFINE row == NewRow(r)
  <1>1. /\ q.op = "subscribe" /\ q.pc = 6 /\ Sound(q, gateway, rows, seats, addon)
        /\ Later(q, m) /\ SameRow(q, m) /\ SameRest(q, m)
    BY SavesAt
  <1>2. row.sub = q.sub /\ row.plan = q.plan /\ row.amount = Charge(q)
    BY DEF NewRow, Charge, AmountOf
  <1>3. rows'[1] = row
    OBVIOUS
  <1> HIDE DEF q, m, row
  <1>4. /\ m.op = "subscribe" /\ m.pc = 7 /\ m.seats = q.seats /\ m.addon = q.addon
        /\ m.plan = q.plan
    BY <1>1 DEF Later, SameRow, SameRest
  <1>5. /\ ~Pushed(m) /\ ~Switching(m) /\ ~Recomputing(m) /\ ~InHand(m)
        /\ SeatsKnown(q) /\ AddonKnown(q) /\ InHand(q)
    BY <1>1, <1>4 DEF Pushed, Recomputing, Switching, SeatsKnown, AddonKnown, InHand
  <1>6. gateway[q.sub].amount = Charge(q) /\ q.seats = seats /\ q.addon = addon
    BY <1>1, <1>5 DEF Sound, Knows
  <1>7. Charge(q) = Amount(q.plan, seats, addon)
    BY <1>6 DEF Charge
  <1>8. \A i \in 1 .. Len(rows') : i = 1
    OBVIOUS
  <1>9. Mirrors(m, gateway, rows')
    BY <1>2, <1>3, <1>6, <1>8 DEF Mirrors
  <1>10. Pays(m, gateway, rows', seats, addon)
    BY <1>2, <1>3, <1>5, <1>6, <1>7, <1>8 DEF Pays
  <1>11. Knows(m, gateway, rows', seats, addon)
    BY <1>4, <1>5, <1>6 DEF Knows, RowHeld
  <1> QED
    BY <1>9, <1>10, <1>11 DEF Sound, m

\* The row shows what the gateway has been told, or is CANCELED.
LEMMA SaveSound ==
    ASSUME Typed, OneRow, NEW r \in Requests, Save(r), Sound(req[r], gateway, rows, seats, addon)
    PROVE  Sound(req'[r], gateway', rows', seats', addon')
  <1> DEFINE q == req[r]
  <1> DEFINE m == req'[r]
  <1> DEFINE row == Saved(r)
  <1>1. addon' = addon /\ seats' = seats /\ gateway' = gateway /\ At(r, "save")
    BY DEF Save
  <1>2. /\ q.row \in 1 .. Len(rows) /\ row \in RowSet /\ Writes(q.row, row) /\ q.row # 0
    BY <1>1, SavedTyped DEF Save, Writes
  <1>3. rows'[q.row] = row /\ Len(rows') = Len(rows)
    BY <1>2, Written
  <1>4. \A i \in 1 .. Len(rows') : i = q.row
    BY <1>2, <1>3, TheRow
  <1>5. /\ \/ q.op = "subscribe" /\ q.pc = 6
           \/ q.op = "cancel" /\ q.pc = 3
           \/ q.op = "setAddon" /\ q.pc = 5
           \/ q.op = "syncSeats" /\ q.pc = 5
        /\ q \in Memory
    BY <1>1, SavesAt
  <1>6. \/ q.op \in {"cancel", "syncSeats"} /\ m = Idle
        \/ q.op \in {"subscribe", "setAddon"} /\ Later(q, m) /\ SameRow(q, m) /\ SameRest(q, m)
    BY SaveDoes
  <1>7. CASE q.op = "subscribe"
    <2>1. Len(rows) = 1 /\ q.row = 1
      <3>1. Len(rows) \in Nat /\ Len(rows) <= 1
        BY DEF Typed, StoreOK, OneRow
      <3>2. q.row \in 1 .. Len(rows)
        BY <1>2
      <3>3. ASSUME NEW n \in Nat, n <= 1, NEW k \in 1 .. n PROVE n = 1 /\ k = 1
        BY <3>3
      <3> QED
        BY <3>1, <3>2, <3>3
    <2>2. rows'[1] = NewRow(r) /\ Len(rows') = 1
      BY <1>1, <1>2, <1>3, <1>7, <2>1, SavedTyped
    <2> QED
      BY <1>1, <1>6, <1>7, <2>2, SubscribedSound
  <1>8. /\ q.op # "subscribe" => row.sub = rows[q.row].sub /\ row.plan = rows[q.row].plan
        /\ q.op = "cancel" => row.status = "CANCELED" /\ row.amount = rows[q.row].amount
        /\ q.op \in {"setAddon", "syncSeats"} => row.status = rows[q.row].status /\ row.amount = Charge(q)
    BY <1>1, <1>2, SavedTyped DEF Charge, AmountOf
  <1>9. Sound(q, gateway, rows, seats, addon)
    OBVIOUS
  <1> HIDE DEF q, m, row
  <1>10. CASE q.op = "cancel"
    <2>1. m = Idle /\ ~Pushed(q)
      BY <1>6, <1>10 DEF Pushed
    <2>2. Mirrors(q, gateway, rows')
      BY <1>2, <1>3, <1>4, <1>8, <1>9, <1>10, <2>1 DEF Sound, Mirrors
    <2>3. \A i \in 1 .. Len(rows') : rows'[i].status # "ACTIVE"
      BY <1>3, <1>4, <1>8, <1>10
    <2> QED
      BY <1>1, <2>1, <2>2, <2>3, DoneWith DEF m
  <1>11. CASE q.op \in {"setAddon", "syncSeats"}
    <2>1. Pushed(q) /\ ~Recomputing(q) /\ (Switching(q) <=> q.op = "setAddon")
      BY <1>5, <1>11 DEF Pushed, Recomputing, Switching
    <2>2. RowHeld(q, rows) /\ (gateway[q.seen.sub].state # "ended" => gateway[q.seen.sub].amount = Charge(q))
      BY <1>9, <2>1 DEF Sound, Knows
    <2>3. rows[q.row].sub = q.seen.sub /\ rows[q.row].plan = q.plan
      BY <1>2, <1>11, <2>2 DEF RowHeld
    <2>4. \A i \in 1 .. Len(rows') :
             gateway[rows'[i].sub].state # "ended" => rows'[i].amount = gateway[rows'[i].sub].amount
      BY <1>3, <1>4, <1>8, <1>11, <2>2, <2>3
    <2>5. ASSUME NEW i \in 1 .. Len(rows'), rows'[i].status = "ACTIVE", gateway[rows'[i].sub].state = "active"
          PROVE  /\ Switching(q) => gateway[rows'[i].sub].amount = Amount(rows'[i].plan, seats, q.addon)
                 /\ ~Switching(q) => gateway[rows'[i].sub].amount = Amount(rows'[i].plan, seats, addon)
      <3>1. i = q.row /\ rows'[i].sub = rows[i].sub /\ rows'[i].plan = rows[i].plan /\ rows[i].status = "ACTIVE"
        BY <1>3, <1>4, <1>8, <1>11, <2>5
      <3> QED
        BY <1>2, <1>9, <2>1, <2>5, <3>1 DEF Sound, Pays
    <2>6. CASE q.op = "syncSeats"
      <3>1. m = Idle /\ ~Switching(q) /\ ~Pushed(Idle)
        BY <1>6, <2>1, <2>6 DEF Pushed, Idle
      <3>2. Mirrors(Idle, gateway, rows')
        BY <2>4 DEF Mirrors
      <3> QED
        BY <1>1, <2>5, <3>1, <3>2, DoneWith DEF m
    <2>7. CASE q.op = "setAddon"
      <3>1. m.op = q.op /\ m.pc = 6 /\ m.row = q.row /\ m.seen = q.seen /\ m.plan = q.plan
            /\ m.seats = q.seats /\ m.addon = q.addon
        BY <1>5, <1>6, <2>7 DEF Later, SameRow, SameRest
      <3>2. /\ ~Pushed(m) /\ Switching(m) /\ ~Recomputing(m) /\ ~AddonKnown(m) /\ ~InHand(m)
            /\ SeatsKnown(q)
        BY <1>2, <1>5, <2>7, <3>1 DEF Pushed, Switching, Recomputing, AddonKnown, InHand, SeatsKnown
      <3>3. Mirrors(m, gateway, rows')
        BY <2>4 DEF Mirrors
      <3>4. Pays(m, gateway, rows', seats, addon)
        BY <1>2, <2>1, <2>5, <2>7, <3>1, <3>2 DEF Pays
      <3>5. RowHeld(m, rows')
        BY <1>3, <1>8, <2>3, <2>7, <3>1 DEF RowHeld
      <3>6. m.seats = seats
        BY <1>9, <3>1, <3>2 DEF Sound, Knows
      <3>7. Knows(m, gateway, rows', seats, addon)
        BY <3>2, <3>5, <3>6 DEF Knows
      <3> QED
        BY <1>1, <3>3, <3>4, <3>7 DEF Sound, m
    <2> QED
      BY <1>11, <2>6, <2>7
  <1> QED
    BY <1>5, <1>7, <1>10, <1>11

\* The workspace has the add-on that the gateway charges.
LEMMA FlipSound ==
    ASSUME Typed, NEW r \in Requests, Flip(r), Sound(req[r], gateway, rows, seats, addon)
    PROVE  Sound(req'[r], gateway', rows', seats', addon')
  <1> DEFINE q == req[r]
  <1>1. addon' = q.addon /\ seats' = seats /\ gateway' = gateway /\ rows' = rows /\ req'[r] = Idle
    BY StopDoes DEF Flip
  <1>2. q.op = "setAddon" /\ q.pc = 6 /\ Sound(q, gateway, rows, seats, addon)
    BY Places DEF Flip
  <1> HIDE DEF q
  <1>3. Switching(q) /\ ~Recomputing(q) /\ ~Pushed(q)
    BY <1>2 DEF Switching, Recomputing, Pushed
  <1>4. \A i \in 1 .. Len(rows) :
           rows[i].status = "ACTIVE" /\ gateway[rows[i].sub].state = "active" =>
              gateway[rows[i].sub].amount = Amount(rows[i].plan, seats, q.addon)
    BY <1>2, <1>3 DEF Sound, Pays
  <1>5. Sound(Idle, gateway, rows, seats, q.addon)
    BY <1>2, <1>3, <1>4, DoneWith DEF Sound
  <1> QED
    BY <1>1, <1>5

\* A request of subscribe or cancel that ends leaves no charge to be made.
LEMMA EndsSound ==
    ASSUME Typed, NEW r \in Requests, req[r].op \in {"subscribe", "cancel"}, req'[r] = Idle,
           gateway' = gateway, rows' = rows, seats' = seats, addon' = addon,
           Sound(req[r], gateway, rows, seats, addon)
    PROVE  Sound(req'[r], gateway', rows', seats', addon')
  <1> DEFINE q == req[r]
  <1>1. q.op \in {"subscribe", "cancel"} /\ Sound(q, gateway, rows, seats, addon)
    OBVIOUS
  <1> HIDE DEF q
  <1>2. ~Switching(q) /\ ~Recomputing(q) /\ ~Pushed(q)
    BY <1>1 DEF Switching, Recomputing, Pushed
  <1>3. Sound(Idle, gateway, rows, seats, addon)
    BY <1>1, <1>2, Done
  <1> QED
    BY <1>3

\* What the gateway and its webhooks do by themselves takes charges away, and makes none.
LEMMA CalmStep ==
    ASSUME Typed, Exact, req' = req, seats' = seats, addon' = addon,
           Len(rows') = Len(rows),
           \A i \in 1 .. Len(rows) :
              /\ rows'[i].sub = rows[i].sub /\ rows'[i].plan = rows[i].plan
              /\ rows'[i].amount = rows[i].amount
              /\ rows'[i].status = "ACTIVE" /\ gateway'[rows'[i].sub].state = "active" =>
                    rows[i].status = "ACTIVE" /\ gateway[rows[i].sub].state = "active",
           \A s \in 1 .. Len(gateway) :
              /\ gateway'[s].amount = gateway[s].amount
              /\ gateway[s].state = "ended" => gateway'[s].state = "ended"
    PROVE  Exact'
  <1>1. \A i \in 1 .. Len(rows) : rows[i].sub \in 1 .. Len(gateway)
    BY RowSubs
  <1>2. Working' = Working
    BY DEF Working
  <1>3. ASSUME NEW q, q \in RequestSet, Placed(q), Sound(q, gateway, rows, seats, addon),
               q.row # 0 => q.row \in 1 .. Len(rows) /\ q.seen.sub \in 1 .. Len(gateway)
        PROVE  Sound(q, gateway', rows', seats, addon)
    <2>1. Len(gateway) \in Nat
      BY DEF Typed, StoreOK
    <2>2. InHand(q) => q.sub \in 1 .. Len(gateway)
      BY <1>3, <2>1 DEF RequestSet, Placed, InHand
    <2>3. Pushed(q) => q.row # 0
      BY <1>3 DEF Placed, Pushed
    <2> QED
      BY <1>1, <1>3, <2>2, <2>3, Calm
  <1>4. ASSUME NEW r \in Requests, Sound(req[r], gateway, rows, seats, addon)
        PROVE  Sound(req[r], gateway', rows', seats, addon)
    <2>1. /\ req[r] \in RequestSet /\ Placed(req[r])
          /\ req[r].row # 0 => req[r].row \in 1 .. Len(rows) /\ req[r].seen.sub \in 1 .. Len(gateway)
      BY MemoryOf, SeenTyped
    <2> QED
      BY <1>3, <1>4, <2>1
  <1>5. ASSUME Sound(Idle, gateway, rows, seats, addon)
        PROVE  Sound(Idle, gateway', rows', seats, addon)
    <2>1. ~InHand(Idle) /\ ~Pushed(Idle) /\ Idle.row = 0
      BY DEF InHand, Pushed, Idle
    <2> QED
      BY <1>1, <1>5, <2>1, Calm
  <1>6. Working \subseteq Requests
    BY DEF Working
  <1> HIDE DEF Sound, Working
  <1> QED
    BY <1>2, <1>4, <1>5, <1>6 DEF Exact

\* The gateway changes the state of a subscription.
LEMMA MarkSound ==
    ASSUME Typed, Exact, NEW s \in DOMAIN gateway, Suspend(s) \/ Expire(s)
    PROVE  Exact'
  <1>1. s \in 1 .. Len(gateway) /\ \E state \in {"suspended", "ended"} : Marks(s, state)
    BY DEF Suspend, Expire, Finish, Marks, Typed, StoreOK
  <1>2. \A t \in 1 .. Len(gateway) :
           /\ gateway'[t].amount = gateway[t].amount
           /\ gateway[t].state = gateway'[t].state \/ (t = s /\ gateway'[t].state # "active")
    BY <1>1, Marked
  <1>3. gateway[s].state = "ended" => gateway'[s].state = "ended"
    <2>1. CASE Suspend(s)
      BY <2>1 DEF Suspend
    <2>2. CASE Expire(s)
      BY <2>2 DEF Expire, Live
    <2> QED
      BY <2>1, <2>2
  <1>4. req' = req /\ seats' = seats /\ addon' = addon /\ rows' = rows
    BY DEF Suspend, Expire
  <1>5. \A i \in 1 .. Len(rows) : rows[i].sub \in 1 .. Len(gateway)
    BY RowSubs
  <1>6. \A i \in 1 .. Len(rows) :
           gateway'[rows[i].sub].state = "active" => gateway[rows[i].sub].state = "active"
    BY <1>2, <1>5
  <1> QED
    BY <1>2, <1>3, <1>4, <1>6, CalmStep

\* A webhook takes the status from its row.
LEMMA ApplySound ==
    ASSUME Typed, Exact, NEW h \in Hooks, ApplyHook(h)
    PROVE  Exact'
  <1> DEFINE i == hook[h].row
  <1>1. req' = req /\ seats' = seats /\ addon' = addon /\ gateway' = gateway
    BY DEF ApplyHook
  <1>2. i \in 1 .. Len(rows) /\ hook[h].event.status \in {"PAST_DUE", "CANCELED"}
    BY HookTyped DEF ApplyHook
  <1>3. \/ rows' = rows
        \/ \E row \in RowSet :
              /\ Writes(i, row) /\ row.status = hook[h].event.status /\ row.sub = rows[i].sub
              /\ row.plan = rows[i].plan /\ row.amount = rows[i].amount
    BY ApplyWrites
  <1>4. CASE rows' = rows
    BY <1>1, <1>4, CalmStep
  <1>5. ASSUME NEW row \in RowSet, Writes(i, row), row.status \in {"PAST_DUE", "CANCELED"},
               row.sub = rows[i].sub, row.plan = rows[i].plan, row.amount = rows[i].amount
        PROVE  Exact'
    <2> HIDE DEF i
    <2>1. /\ Len(rows') = Len(rows) /\ rows'[i] = row
          /\ \A j \in 1 .. Len(rows) : j # i => rows'[j] = rows[j]
      BY <1>2, <1>5, Written DEF i
    <2>2. \A j \in 1 .. Len(rows) :
             /\ rows'[j].sub = rows[j].sub /\ rows'[j].plan = rows[j].plan
             /\ rows'[j].amount = rows[j].amount
             /\ rows'[j].status = "ACTIVE" => rows[j].status = "ACTIVE"
      BY <1>5, <2>1
    <2> QED
      BY <1>1, <2>1, <2>2, CalmStep
  <1> HIDE DEF i
  <1> QED
    BY <1>2, <1>3, <1>4, <1>5

\* As long as requests come one after the other, each step leaves what fits.
LEMMA NextExact ==
    ASSUME Base, Base', OneRow, Exact, Next, ~overtaken', ~disturbed'
    PROVE  Exact'
  <1>0. Typed /\ Typed'
    BY DEF Base
  <1> DEFINE P == Exact'
  <1>a. ASSUME NEW r \in Requests, Moved(r), req[r].op # "none",
               Sound(req[r], gateway, rows, seats, addon) => Sound(req'[r], gateway', rows', seats', addon')
        PROVE  P
    <2>1. Working \subseteq {r}
      BY <1>a, AloneAt
    <2>2. Sound(req[r], gateway, rows, seats, addon)
      BY <1>0, <2>1, Solo
    <2> QED
      BY <1>0, <1>a, <2>1, <2>2, SoloAfter
  <1>1. ASSUME NEW r \in Requests, NEW op \in DOMAIN Steps \ {"none"}, NEW plan \in Plans,
               NEW wanted \in BOOLEAN, Start(r, op, plan, wanted), seats' = seats \/ op = "syncSeats"
        PROVE  P
    <2>1. Working = {}
      BY <1>1 DEF Start, Busy, Working
    <2>2. Sound(Idle, gateway, rows, seats, addon)
      BY <2>1 DEF Exact
    <2>3. Moved(r)
      BY <1>0, <1>1, StartDoes
    <2> QED
      BY <1>0, <1>1, <2>1, <2>2, <2>3, StartSound, SoloAfter
  <1>2. ASSUME NEW r \in Requests, Count(r) PROVE P
    BY <1>0, <1>2, <1>a, CountDoes, CountSound DEF Count, At
  <1>3. ASSUME NEW r \in Requests, ReadAddon(r) PROVE P
    BY <1>0, <1>3, <1>a, ReadAddonDoes, ReadAddonSound DEF ReadAddon, At
  <1>4. ASSUME NEW r \in Requests, FindRow(r) PROVE P
    BY <1>0, <1>4, <1>a, FindRowDoes, FindRowSound DEF FindRow, At
  <1>5. ASSUME NEW r \in Requests, FindNone(r) PROVE P
    BY <1>0, <1>5, <1>a, FindNoneDoes, FindNoneSound DEF FindNone, At
  <1>6. ASSUME NEW r \in Requests, Create(r) PROVE P
    BY <1>0, <1>6, <1>a, CreateDoes, CreateSound DEF Create, At
  <1>7. ASSUME NEW r \in Requests, CancelOld(r) PROVE P
    BY <1>0, <1>7, <1>a, CancelOldDoes, CancelOldSound DEF CancelOld, At
  <1>8. ASSUME NEW r \in Requests, Push(r) PROVE P
    BY <1>0, <1>8, <1>a, PushDoes, PushSound DEF Push, At
  <1>9. ASSUME NEW r \in Requests, Save(r) PROVE P
    BY <1>0, <1>9, <1>a, SaveDoes, SaveSound DEF Save, At
  <1>10. ASSUME NEW r \in Requests, SaveFirst(r) PROVE P
    <2>1. rows = <<>> /\ rows' = Append(rows, NewRow(r)) /\ At(r, "save")
      BY <1>10 DEF SaveFirst
    <2>2. Len(rows') = 1 /\ rows'[1] = NewRow(r)
      BY <2>1
    <2>3. req[r].op = "subscribe"
      BY <1>0, <1>10, SavesAt DEF SaveFirst
    <2>4. Moved(r) /\ Later(req[r], req'[r]) /\ SameRow(req[r], req'[r]) /\ SameRest(req[r], req'[r])
      BY <1>0, <1>10, <2>3, SaveDoes
    <2>5. gateway' = gateway /\ addon' = addon /\ seats' = seats
      BY <1>10 DEF SaveFirst
    <2> QED
      BY <1>0, <1>a, <2>1, <2>2, <2>3, <2>4, <2>5, SubscribedSound
  <1>b. ASSUME NEW r \in Requests, req[r].op \in {"subscribe", "cancel"}, Moved(r), req'[r] = Idle,
               gateway' = gateway, rows' = rows, seats' = seats, addon' = addon
        PROVE  P
    BY <1>0, <1>a, <1>b, EndsSound
  <1>11. ASSUME NEW r \in Requests, Decline(r) PROVE P
    BY <1>0, <1>11, <1>b, DeclineDoes DEF Decline
  <1>12. ASSUME NEW r \in Requests, Activate(r) PROVE P
    <2>1. req[r].op = "subscribe" /\ Moved(r) /\ req'[r] = Idle
      BY <1>0, <1>12, StopDoes, Places DEF Activate
    <2> QED
      BY <1>12, <2>1, <1>b DEF Activate
  <1>13. ASSUME NEW r \in Requests, Flip(r) PROVE P
    BY <1>0, <1>13, <1>a, StopDoes, FlipSound DEF Flip, At
  <1>14. ASSUME NEW r \in Requests, Die(r) PROVE P
    <2>1. req[r].op \notin {"setAddon", "syncSeats", "none"}
      BY <1>14 DEF Die, Fault, Busy, Op
    <2>2. req[r].op \in {"subscribe", "cancel"}
      BY <1>0, <2>1, MemoryOf, Lengths DEF Memory
    <2>3. Moved(r) /\ req'[r] = Idle
      BY <1>0, <1>14, StopDoes
    <2> QED
      BY <1>14, <2>2, <2>3, <1>b DEF Die, Fault
  <1>15. ASSUME NEW r \in Requests, LoseAnswer(r) PROVE P
    <2>1. Op(r) # "subscribe" /\ Op(r) # "setAddon"
      BY <1>15 DEF LoseAnswer, Fault
    <2> QED
      BY <1>0, <1>15, <2>1, Places DEF LoseAnswer, Op
  <1>16. ASSUME NEW r \in Requests, GatewayFails(r) PROVE P
    <2>1. Op(r) \notin {"setAddon", "syncSeats"} /\ ~At(r, "cancel")
      BY <1>16 DEF GatewayFails, Fault
    <2> QED
      BY <1>0, <1>16, <2>1, Places DEF GatewayFails, Op
  <1>17. ASSUME NEW s \in DOMAIN gateway, Suspend(s) \/ Expire(s) PROVE P
    BY <1>0, <1>17, MarkSound
  <1>18. ASSUME NEW h \in Hooks, ApplyHook(h) PROVE P
    BY <1>0, <1>18, ApplySound
  <1>19. ASSUME NEW h \in Hooks, NEW e \in events, ReadHook(h, e) PROVE P
    <2>1. req' = req /\ gateway' = gateway /\ rows' = rows /\ seats' = seats /\ addon' = addon
      BY <1>19 DEF ReadHook
    <2> QED
      BY <1>0, <2>1, CalmStep
  <1>20. ASSUME NEW r \in Requests, SaveRefused(r) PROVE P
    BY <1>20 DEF SaveRefused
  <1>21. ASSUME SetMemberStatus PROVE P
    BY <1>21 DEF SetMemberStatus
  <1> HIDE DEF P
  <1>22. P
    BY <1>1, <1>2, <1>3, <1>4, <1>5, <1>6, <1>7, <1>8, <1>9, <1>10, <1>11, <1>12, <1>13, <1>14, <1>15,
       <1>16, <1>17, <1>18, <1>19, <1>20, <1>21, NextCases
  <1> QED
    BY <1>22 DEF P

\* The inductive invariant of all four: what IInv adds to Kept holds of requests that
\* do not overlap.
LEMMA InitIInv == Init => IInv
  <1> SUFFICES ASSUME Init PROVE IInv
    OBVIOUS
  <1>1. Base /\ Accounted
    BY InitAccounted DEF Kept, Init
  <1>2. Len(rows) = 0 /\ \A r \in Requests : req[r] = Idle
    BY DEF Init
  <1>3. Working = {}
    BY <1>2 DEF Working, Idle
  <1>4. /\ ~Pushed(Idle) /\ ~SeatsKnown(Idle) /\ ~AddonKnown(Idle) /\ ~InHand(Idle) /\ Idle.row = 0
    BY DEF Idle, Pushed, SeatsKnown, AddonKnown, InHand
  <1>5. Sound(Idle, gateway, rows, seats, addon)
    BY <1>2, <1>4 DEF Sound, Mirrors, Pays, Knows, RowHeld
  <1> QED
    BY <1>1, <1>3, <1>5 DEF IInv, Base, Exact

\* Each step leaves the inductive invariant.
LEMMA NextIInv == IInv /\ [Next]_vars => IInv'
  <1>0. IInv => Kept /\ Base /\ (~overtaken => Accounted)
    BY DEF IInv, Kept, Base
  <1>1. IInv /\ [Next]_vars => Kept'
    BY <1>0, NextAccounted
  <1>2. CASE UNCHANGED vars
    <2>1. Exact => Exact'
      BY <1>2 DEF vars, Exact, Working
    <2>2. disturbed' = disturbed /\ overtaken' = overtaken
      BY <1>2 DEF vars
    <2> QED
      BY <1>1, <1>2, <2>1, <2>2 DEF IInv, Kept, Base
  <1>3. ASSUME IInv, Next PROVE IInv'
    <2>1. Kept' /\ Base /\ Base'
      BY <1>0, <1>1, <1>3 DEF Kept
    <2>2. ASSUME ~overtaken', ~disturbed' PROVE Exact'
      <3>1. ~overtaken /\ ~disturbed
        BY <1>3, <2>1, <2>2, OvertakenStays, DisturbedStays DEF Base
      <3>2. Exact /\ OneRow
        BY <1>3, <3>1 DEF IInv, Accounted
      <3> QED
        BY <1>3, <2>1, <2>2, <3>2, NextExact
    <2> QED
      BY <2>1, <2>2 DEF IInv, Kept, Base
  <1> QED
    BY <1>2, <1>3

\* subscribe, cancel, setAddon and syncSeats, one after the other and in any number,
\* leave the gateway charging for the team and the add-on the workspace has, whatever
\* the gateway suspends, ends and reports meanwhile.
THEOREM ChargesAsUsed == Spec => []ChargedAsUsed
  <1>1. IInv => ChargedAsUsed
    <2> SUFFICES ASSUME IInv, ~overtaken, ~disturbed, \A r \in Requests : ~Busy(r),
                        NEW i \in DOMAIN rows, rows[i].status = "ACTIVE",
                        gateway[rows[i].sub].state = "active"
                 PROVE  gateway[rows[i].sub].amount = Amount(rows[i].plan, seats, addon)
      BY DEF ChargedAsUsed
    <2>1. Typed /\ Exact /\ i \in 1 .. Len(rows)
      BY DEF IInv, Typed, StoreOK
    <2>2. Working = {}
      BY DEF Working, Busy
    <2>3. Sound(Idle, gateway, rows, seats, addon)
      BY <2>1, <2>2 DEF Exact
    <2>4. ~Recomputing(Idle) /\ ~Switching(Idle)
      BY DEF Idle, Recomputing, Switching
    <2> QED
      BY <2>1, <2>3, <2>4 DEF Sound, Pays
  <1> QED
    BY <1>1, InitIInv, NextIInv, PTL DEF Spec

\* A subscription is not lost hold of by requests that come one after the other and
\* do not fail: what takes it away is a fault, or a webhook that had read its row
\* before the row was written for another subscription.  The exceptions of
\* NobodyPaysTwice and PaidIsServed are no more than that.
LostForAReason ==
    overtaken' /\ ~overtaken /\ ~disturbed =>
        \/ faults' > faults
        \/ \E h \in Hooks : hook[h] # NoHook /\ rows[hook[h].row].sub # hook[h].sub

LEMMA LosesForAReason ==
    ASSUME IInv, Next
    PROVE  LostForAReason
  <1> SUFFICES ASSUME overtaken', ~overtaken, ~disturbed
               PROVE  \/ faults' > faults
                      \/ \E h \in Hooks : hook[h] # NoHook /\ rows[hook[h].row].sub # hook[h].sub
    BY DEF LostForAReason
  <1> DEFINE P == \/ faults' > faults
                  \/ \E h \in Hooks : hook[h] # NoHook /\ rows[hook[h].row].sub # hook[h].sub
  <1>0. Typed /\ Exact /\ OneRow /\ faults \in Nat
    BY BoundsAssumption DEF IInv, Accounted, Typed, HistoryOK
  <1>1. ASSUME overtaken' = overtaken PROVE P
    BY <1>1
  <1>2. ASSUME NEW r \in Requests, At(r, "save")
        PROVE  /\ req[r].row # 0 => rows[req[r].row].sub = req[r].seen.sub /\ req[r].row \in 1 .. Len(rows)
               /\ req[r].row = 0 => Len(rows) = 0
    <2> DEFINE q == req[r]
    <2>1. Working \subseteq {r}
      BY <1>0, <1>2, AloneAt DEF At
    <2>2. Sound(q, gateway, rows, seats, addon)
      BY <1>0, <2>1, Solo
    <2>3. /\ \/ q.op = "subscribe" /\ q.pc = 6
             \/ q.op = "cancel" /\ q.pc = 3
             \/ q.op = "setAddon" /\ q.pc = 5
             \/ q.op = "syncSeats" /\ q.pc = 5
          /\ q.row = 0 => q.op = "subscribe"
      BY <1>0, <1>2, SavesAt
    <2>4. q.row # 0 => q.row \in 1 .. Len(rows)
      BY <1>0, SeenTyped
    <2> HIDE DEF q
    <2>5. (q.row # 0 => rows[q.row].sub = q.seen.sub) /\ (q.row = 0 => Len(rows) = 0)
      BY <2>2, <2>3 DEF Sound, Knows, RowHeld
    <2> QED
      BY <2>4, <2>5 DEF q
  <1>3. ASSUME NEW r \in Requests, Save(r) PROVE P
    BY <1>1, <1>2, <1>3 DEF Save
  <1>4. rows \in Seq(RowSet)
    BY <1>0 DEF Typed, StoreOK
  <1>5. ASSUME NEW r \in Requests, SaveFirst(r) PROVE P
    <2>1. Len(rows) = 0
      BY <1>2, <1>5 DEF SaveFirst
    <2>2. rows = <<>>
      BY <1>4, <2>1
    <2> QED
      BY <1>1, <1>5, <2>2 DEF SaveFirst
  <1>6. ASSUME NEW r \in Requests, SaveRefused(r) PROVE P
    <2>1. /\ req[r].row # 0 => req[r].row \in 1 .. Len(rows)
          /\ req[r].row = 0 => Len(rows) = 0
      BY <1>2, <1>6 DEF SaveRefused
    <2>2. DOMAIN rows = 1 .. Len(rows) /\ Len(rows) \in Nat
      BY <1>4
    <2>3. \A j \in DOMAIN rows : j = req[r].row
      BY <1>0, <2>1, <2>2, TheRow
    <2>4. \A status : MayBe(req[r].row, status)
      BY <2>3 DEF MayBe
    <2> QED
      BY <1>6, <2>4 DEF SaveRefused
  <1>7. ASSUME NEW r \in Requests, Die(r) \/ LoseAnswer(r) \/ GatewayFails(r) PROVE P
    <2>1. faults' = faults + 1
      BY <1>7 DEF Die, LoseAnswer, GatewayFails, Fault
    <2> QED
      BY <1>0, <2>1
  <1>8. ASSUME NEW h \in Hooks, ApplyHook(h) PROVE P
    <2>1. hook[h] # NoHook
      BY <1>0, <1>8, HookTyped DEF ApplyHook
    <2> QED
      BY <1>1, <1>8, <2>1 DEF ApplyHook
  <1> HIDE DEF P
  <1>9. P
    BY <1>1, <1>3, <1>5, <1>6, <1>7, <1>8, NextCases
       DEF Start, Count, ReadAddon, FindRow, FindNone, Create, Decline, CancelOld, Push,
           Activate, Flip, Suspend, Expire, ReadHook, SetMemberStatus, history
  <1> QED
    BY <1>9 DEF P

\* Every step of the specification that loses hold of a subscription, with requests one
\* after the other, is such a fault or such a webhook.
THEOREM LosesOnlySo == Spec => [][LostForAReason]_vars
  <1>1. IInv /\ [Next]_vars => [LostForAReason]_vars
    BY LosesForAReason
  <1> QED
    BY <1>1, InitIInv, NextIInv, PTL DEF Spec
=============================================================================

---------------------------- MODULE Subscription ----------------------------
(***************************************************************************)
(* What a workspace pays: BillingService, the recurring subscriptions that *)
(* it keeps at the payment gateway (Authorize.net ARB), the rows that      *)
(* mirror them, and the gateway's webhooks.                                *)
(*                                                                         *)
(* One workspace, with the gateway configured, one add-on (the catalog has *)
(* one), a flat plan and a plan per agent.  An amount is represented by    *)
(* what it is the price of.  No request locks anything: each step below is *)
(* one statement or one call of the gateway.                               *)
(***************************************************************************)
EXTENDS Naturals, Sequences, FiniteSets

CONSTANTS
    Requests,       \* requests handled at the same time
    Hooks,          \* webhook posts handled at the same time
    Cap,            \* agents the flat plan allows
    MaxSubscriptions, \* bound: subscriptions the gateway ever creates
    MaxSeats,       \* bound: active members
    MaxRequests,    \* bound: requests in all
    MaxFaults       \* bound: dead processes, and calls that fail or whose answer is lost

ASSUME BoundsAssumption ==
    /\ {Cap, MaxSubscriptions, MaxFaults, MaxRequests} \subseteq Nat
    /\ MaxSeats \in Nat \ {0}

VARIABLES
    gateway,        \* the gateway's subscriptions, in the order of creation
    rows,           \* billing_subscriptions of the workspace, in the order of creation
    org,            \* organizations.status
    addon,          \* organizations.metadata.addons
    seats,          \* ACTIVE memberships
    req,            \* requests under way
    hook,           \* webhook posts under way
    events,         \* events the gateway has still to deliver
    faults,         \* how many there were
    begun,          \* requests begun
    overtaken,      \* history: a fault lost hold of a subscription, or a row was written
                    \* for another subscription than it had got meanwhile
    disturbed       \* history: requests overlapped, a charge was not made for a fault, or
                    \* seats changed without syncSeats

vars == <<gateway, rows, org, addon, seats, req, hook, events, faults, begun, overtaken, disturbed>>
history == <<begun, faults, overtaken, disturbed>>
outside == <<hook, events>>

Plans == {"flat", "perSeat"}
Amount(plan, n, a) == [seats |-> IF plan = "perSeat" THEN n ELSE 0, addon |-> a]
Amounts == [seats : 0 .. MaxSeats, addon : BOOLEAN]
RowSet == [sub : 1 .. Len(gateway), plan : Plans, status : {"ACTIVE", "PAST_DUE", "CANCELED"},
           seats : 0 .. MaxSeats, amount : Amounts]
NoRow == [sub |-> 0]
Current == rows[Len(rows)]

\* The statements and gateway calls of each operation, in their order.
Steps == [none |-> <<"idle">>,
          subscribe |-> <<"count", "addon", "find", "create", "cancel", "save", "activate">>,
          cancel |-> <<"find", "cancel", "save">>,
          setAddon |-> <<"addon", "find", "count", "push", "save", "flip">>,
          syncSeats |-> <<"find", "count", "addon", "push", "save">>]

Idle == [op |-> "none", pc |-> 1, plan |-> "flat", seats |-> 0, addon |-> FALSE,
         row |-> 0, seen |-> NoRow, sub |-> 0]
NoHook == [row |-> 0, sub |-> 0, event |-> [sub |-> 0, status |-> "ACTIVE"]]
EventSet == [sub : 1 .. Len(gateway), status : {"PAST_DUE", "CANCELED"}]

TypeOK ==
    /\ \A s \in DOMAIN gateway :
          gateway[s] \in [state : {"active", "suspended", "ended"}, amount : Amounts]
    /\ Len(gateway) <= MaxSubscriptions
    /\ \A i \in DOMAIN rows : rows[i] \in RowSet
    /\ org \in {"TRIALING", "ACTIVE", "PAST_DUE", "CANCELED"}
    /\ addon \in BOOLEAN /\ overtaken \in BOOLEAN /\ disturbed \in BOOLEAN
    /\ seats \in 1 .. MaxSeats /\ faults \in 0 .. MaxFaults /\ begun \in 0 .. MaxRequests
    /\ \A r \in Requests :
          /\ req[r] \in [op : DOMAIN Steps, pc : 1 .. 7, plan : Plans, seats : 0 .. MaxSeats,
                         addon : BOOLEAN, row : 0 .. Len(rows), seen : RowSet \cup {NoRow},
                         sub : 0 .. Len(gateway)]
          /\ req[r].pc <= Len(Steps[req[r].op])
    /\ \A h \in Hooks : hook[h] = NoHook \/ hook[h] \in [row : DOMAIN rows, sub : DOMAIN gateway, event : EventSet]
    /\ events \subseteq EventSet

Init ==
    /\ gateway = <<>> /\ rows = <<>>
    /\ org = "TRIALING" /\ addon = FALSE
    /\ seats = 1
    /\ req = [r \in Requests |-> Idle] /\ hook = [h \in Hooks |-> NoHook]
    /\ events = {}
    /\ faults = 0 /\ begun = 0 /\ overtaken = FALSE /\ disturbed = FALSE

-----------------------------------------------------------------------------
(***************************************************************************)
(* Requests.                                                               *)
(***************************************************************************)
At(r, step) == req[r].op # "none" /\ Steps[req[r].op][req[r].pc] = step
Busy(r) == req[r].op # "none"
Op(r) == req[r].op

End(r) == req' = [req EXCEPT ![r] = Idle]

\* r goes on to its next step, remembering what changes says.
GoOn(r, changes) ==
    req' = [req EXCEPT ![r] =
               IF req[r].pc = Len(Steps[Op(r)]) THEN Idle
               ELSE [changes EXCEPT !.pc = @ + 1]]

Start(r, op, plan, wanted) ==
    /\ ~Busy(r) /\ begun < MaxRequests
    /\ begun' = begun + 1
    /\ req' = [req EXCEPT ![r] = [Idle EXCEPT !.op = op, !.plan = plan, !.addon = wanted]]
    /\ disturbed' = (disturbed \/ \E q \in Requests : Busy(q))
    /\ UNCHANGED <<gateway, rows, org, addon, outside, faults, overtaken>>

Subscribe(r, plan) == Start(r, "subscribe", plan, FALSE) /\ UNCHANGED seats
Cancel(r) == Start(r, "cancel", "flat", FALSE) /\ UNCHANGED seats
SetAddon(r, wanted) == Start(r, "setAddon", "flat", wanted) /\ UNCHANGED seats

\* An invitation is accepted, or a member is removed; the charge is recomputed.
ChangeTeam(r) ==
    /\ seats' \in {seats - 1, seats + 1} \cap 1 .. MaxSeats
    /\ Start(r, "syncSeats", "flat", FALSE)

\* updateMember: a member is suspended or taken back.
SetMemberStatus ==
    /\ begun < MaxRequests /\ begun' = begun + 1
    /\ seats' \in {seats - 1, seats + 1} \cap 1 .. MaxSeats
    /\ disturbed' = TRUE
    /\ UNCHANGED <<gateway, rows, org, addon, req, outside, faults, overtaken>>

\* seatCount; a flat plan must have room for the team.
Count(r) ==
    /\ At(r, "count")
    /\ IF Op(r) = "subscribe" /\ req[r].plan = "flat" /\ seats > Cap
       THEN End(r)
       ELSE GoOn(r, [req[r] EXCEPT !.seats = seats])
    /\ UNCHANGED <<gateway, rows, org, addon, seats, outside, history>>

\* MUTANT of ReadAddon: a new subscription is for the plan alone.
ReadAddonOfOthers(r) ==
    /\ At(r, "addon")
    /\ CASE Op(r) = "setAddon" /\ addon = req[r].addon -> End(r)
         [] Op(r) = "syncSeats" -> GoOn(r, [req[r] EXCEPT !.addon = addon])
         [] OTHER -> GoOn(r, req[r])
    /\ UNCHANGED <<gateway, rows, org, addon, seats, outside, history>>

\* The add-ons are read; setAddon has nothing to do when the add-on is as wanted.
ReadAddon(r) ==
    /\ At(r, "addon")
    /\ CASE Op(r) = "setAddon" /\ addon = req[r].addon -> End(r)
         [] Op(r) = "setAddon" -> GoOn(r, req[r])
         [] OTHER -> GoOn(r, [req[r] EXCEPT !.addon = addon])
    /\ UNCHANGED <<gateway, rows, org, addon, seats, outside, history>>

\* The row r works on: the newest, for the amount's sake the newest ACTIVE one.
RowFor(r, i) ==
    LET fit == {j \in DOMAIN rows :
                   Op(r) \in {"setAddon", "syncSeats"} => rows[j].status = "ACTIVE"}
    IN  i \in fit /\ \A j \in fit : j <= i

FindRow(r) ==
    /\ At(r, "find")
    /\ \E i \in DOMAIN rows :
          /\ RowFor(r, i)
          /\ IF Op(r) = "syncSeats" /\ rows[i].plan = "flat"
             THEN End(r)
             ELSE GoOn(r, [req[r] EXCEPT !.row = i, !.seen = rows[i],
                                        !.plan = IF Op(r) = "subscribe" THEN @ ELSE rows[i].plan])
    /\ UNCHANGED <<gateway, rows, org, addon, seats, outside, history>>

\* MUTANT of FindNone: "No subscription to cancel" is forgotten.
FindNoneCancels(r) ==
    /\ At(r, "find")
    /\ \A i \in DOMAIN rows : ~RowFor(r, i)
    /\ IF Op(r) \in {"subscribe", "cancel"} THEN GoOn(r, req[r]) ELSE End(r)
    /\ UNCHANGED <<gateway, rows, org, addon, seats, outside, history>>

\* Without a row a first subscription is made, an add-on can only be switched off,
\* and nothing else is done.
FindNone(r) ==
    /\ At(r, "find")
    /\ \A i \in DOMAIN rows : ~RowFor(r, i)
    /\ CASE Op(r) = "subscribe" -> GoOn(r, req[r])
         [] Op(r) = "setAddon" /\ ~req[r].addon ->
               req' = [req EXCEPT ![r].pc = Len(Steps.setAddon)]
         [] OTHER -> End(r)
    /\ UNCHANGED <<gateway, rows, org, addon, seats, outside, history>>

AmountOf(r) == Amount(req[r].plan, req[r].seats, req[r].addon)

Create(r) ==
    /\ At(r, "create")
    /\ Len(gateway) < MaxSubscriptions
    /\ gateway' = Append(gateway, [state |-> "active", amount |-> AmountOf(r)])
    /\ GoOn(r, [req[r] EXCEPT !.sub = Len(gateway) + 1])
    /\ UNCHANGED <<rows, org, addon, seats, outside, history>>

\* The card is declined.
Decline(r) ==
    /\ At(r, "create")
    /\ End(r)
    /\ UNCHANGED <<gateway, rows, org, addon, seats, outside, history>>

Live(s) == gateway[s].state # "ended"

\* The gateway ends subscription s and will say so.
Finish(s) ==
    /\ gateway' = [gateway EXCEPT ![s].state = "ended"]
    /\ events' = events \cup {[sub |-> s, status |-> "CANCELED"]}

\* MUTANT of CancelOld: only a row that is ACTIVE has something to cancel.
CancelActive(r) ==
    /\ At(r, "cancel")
    /\ GoOn(r, req[r])
    /\ IF req[r].seen # NoRow /\ Live(req[r].seen.sub) /\ req[r].seen.status = "ACTIVE"
       THEN Finish(req[r].seen.sub)
       ELSE UNCHANGED <<gateway, events>>
    /\ UNCHANGED <<rows, org, addon, seats, hook, history>>

\* cancelSubscription of what the row named; nobody looks at the answer.
CancelOld(r) ==
    /\ At(r, "cancel")
    /\ GoOn(r, req[r])
    /\ IF req[r].seen # NoRow /\ Live(req[r].seen.sub)
       THEN Finish(req[r].seen.sub)
       ELSE UNCHANGED <<gateway, events>>
    /\ UNCHANGED <<rows, org, addon, seats, hook, history>>

\* updateSubscriptionAmount, unless syncSeats finds nothing changed.  The gateway
\* refuses an ended subscription, which fails setAddon and which syncSeats ignores.
Push(r) ==
    /\ At(r, "push")
    /\ LET seen == req[r].seen
       IN  CASE Op(r) = "syncSeats" /\ seen.seats = req[r].seats /\ seen.amount = AmountOf(r) ->
                   End(r) /\ UNCHANGED gateway
             [] Op(r) = "setAddon" /\ ~Live(seen.sub) ->
                   End(r) /\ UNCHANGED gateway
             [] OTHER ->
                   /\ GoOn(r, req[r])
                   /\ gateway' = IF Live(seen.sub) THEN [gateway EXCEPT ![seen.sub].amount = AmountOf(r)]
                                 ELSE gateway
    /\ UNCHANGED <<rows, org, addon, seats, outside, history>>

\* billing_subscriptions_one_current_idx
MayBe(i, status) ==
    status # "CANCELED" => \A j \in DOMAIN rows \ {i} : rows[j].status = "CANCELED"

NewRow(r) == [sub |-> req[r].sub, plan |-> req[r].plan, status |-> "ACTIVE",
              seats |-> req[r].seats, amount |-> AmountOf(r)]

\* The row as the operation leaves it: a subscription replaces all of it, the
\* others write the columns they are about, setAddon without the seats.
Saved(r) ==
    LET row == rows[req[r].row]
    IN  CASE Op(r) = "subscribe" -> NewRow(r)
          [] Op(r) = "cancel"    -> [row EXCEPT !.status = "CANCELED"]
          [] Op(r) = "setAddon"  -> [row EXCEPT !.seats = req[r].seen.seats, !.amount = AmountOf(r)]
          [] OTHER               -> [row EXCEPT !.seats = req[r].seats, !.amount = AmountOf(r)]

Save(r) ==
    /\ At(r, "save") /\ req[r].row # 0
    /\ MayBe(req[r].row, Saved(r).status)
    /\ rows' = [rows EXCEPT ![req[r].row] = Saved(r)]
    /\ GoOn(r, req[r])
    /\ overtaken' = (overtaken \/ rows[req[r].row].sub # req[r].seen.sub)
    /\ UNCHANGED <<gateway, org, addon, seats, outside, faults, begun, disturbed>>

\* The first row, if it is the first.
SaveFirst(r) ==
    /\ At(r, "save") /\ req[r].row = 0
    /\ MayBe(0, "ACTIVE")
    /\ rows' = Append(rows, NewRow(r))
    /\ GoOn(r, req[r])
    /\ overtaken' = (overtaken \/ rows # <<>>)
    /\ UNCHANGED <<gateway, org, addon, seats, outside, faults, begun, disturbed>>

\* The index refuses the row, with the subscription created.
SaveRefused(r) ==
    /\ At(r, "save") /\ Op(r) # "cancel"
    /\ ~MayBe(req[r].row, IF Op(r) = "subscribe" THEN "ACTIVE" ELSE rows[req[r].row].status)
    /\ End(r)
    /\ overtaken' = TRUE
    /\ UNCHANGED <<gateway, rows, org, addon, seats, outside, faults, begun, disturbed>>

Activate(r) ==
    /\ At(r, "activate")
    /\ org' = "ACTIVE"
    /\ End(r)
    /\ UNCHANGED <<gateway, rows, addon, seats, outside, history>>

Flip(r) ==
    /\ At(r, "flip")
    /\ addon' = req[r].addon
    /\ End(r)
    /\ UNCHANGED <<gateway, rows, org, seats, outside, history>>

-----------------------------------------------------------------------------
(***************************************************************************)
(* The gateway and its webhook.                                            *)
(***************************************************************************)
\* A renewal is not paid.
Suspend(s) ==
    /\ gateway[s].state = "active"
    /\ gateway' = [gateway EXCEPT ![s].state = "suspended"]
    /\ events' = events \cup {[sub |-> s, status |-> "PAST_DUE"]}
    /\ UNCHANGED <<rows, org, addon, seats, req, hook, history>>

\* Terminated or expired.
Expire(s) ==
    /\ Live(s)
    /\ Finish(s)
    /\ UNCHANGED <<rows, org, addon, seats, req, hook, history>>

Names(i, e) == rows[i].sub = e.sub

\* MUTANT of ReadHook: the row is looked up by its workspace.
ReadHookOfWorkspace(h, e) ==
    /\ hook[h] = NoHook
    /\ IF rows # <<>>
       THEN hook' = [hook EXCEPT ![h] = [row |-> Len(rows), sub |-> Current.sub, event |-> e]] /\ UNCHANGED events
       ELSE UNCHANGED hook /\ events' = events \ {e}
    /\ UNCHANGED <<gateway, rows, org, addon, seats, req, history>>

\* Events come in any order.  One about a subscription that no row names is
\* answered and forgotten.
ReadHook(h, e) ==
    /\ hook[h] = NoHook
    /\ \/ \E i \in DOMAIN rows :
             /\ Names(i, e)
             /\ hook' = [hook EXCEPT ![h] = [row |-> i, sub |-> rows[i].sub, event |-> e]]
             /\ UNCHANGED events
       \/ /\ \A i \in DOMAIN rows : ~Names(i, e)
          /\ events' = events \ {e}
          /\ UNCHANGED hook
    /\ UNCHANGED <<gateway, rows, org, addon, seats, req, history>>

\* The transaction on the row and the workspace.  An event that is refused, or
\* whose answer is lost, comes again.
ApplyHook(h) ==
    LET i == hook[h].row
        e == hook[h].event
    IN  /\ i # 0
        /\ IF MayBe(i, e.status)
           THEN rows' = [rows EXCEPT ![i].status = e.status] /\ org' = e.status
           ELSE UNCHANGED <<rows, org>>
        /\ overtaken' = (overtaken \/ rows[i].sub # hook[h].sub)
        /\ hook' = [hook EXCEPT ![h] = NoHook]
        /\ \/ events' = (IF MayBe(i, e.status) THEN events \ {e} ELSE events) /\ UNCHANGED faults
           \/ faults < MaxFaults /\ faults' = faults + 1 /\ UNCHANGED events
        /\ UNCHANGED <<gateway, addon, seats, req, begun, disturbed>>

-----------------------------------------------------------------------------
(***************************************************************************)
(* Faults.                                                                 *)
(***************************************************************************)
Fault(r, losesSubscription) ==
    /\ faults < MaxFaults
    /\ faults' = faults + 1
    /\ overtaken' = (overtaken \/ losesSubscription)
    /\ disturbed' = (disturbed \/ Op(r) \in {"setAddon", "syncSeats"})
    /\ UNCHANGED <<rows, org, addon, seats, outside, begun>>

\* The process dies.  A new subscription that no row names yet stays behind, and
\* so does a workspace that is not made ACTIVE.
Die(r) ==
    /\ Busy(r) /\ Fault(r, req[r].sub # 0)
    /\ End(r)
    /\ UNCHANGED gateway

\* The gateway does what it is asked and the answer is lost: subscribe and
\* setAddon fail.
LoseAnswer(r) ==
    /\ Fault(r, Op(r) = "subscribe")
    /\ \/ /\ At(r, "create") /\ Len(gateway) < MaxSubscriptions
          /\ gateway' = Append(gateway, [state |-> "active", amount |-> AmountOf(r)])
       \/ /\ At(r, "push") /\ Op(r) = "setAddon" /\ Live(req[r].seen.sub)
          /\ gateway' = [gateway EXCEPT ![req[r].seen.sub].amount = AmountOf(r)]
    /\ End(r)

\* The gateway is not reached: setAddon fails, and the others go on all the same.
GatewayFails(r) ==
    /\ Fault(r, At(r, "cancel"))
    /\ \/ At(r, "cancel") /\ GoOn(r, req[r])
       \/ At(r, "push") /\ IF Op(r) = "setAddon" THEN End(r) ELSE GoOn(r, req[r])
    /\ UNCHANGED gateway

-----------------------------------------------------------------------------
Begin(r) ==
    \/ \E plan \in Plans : Subscribe(r, plan)
    \/ Cancel(r) \/ ChangeTeam(r)
    \/ \E wanted \in BOOLEAN : SetAddon(r, wanted)

Proceed(r) ==
    \/ Count(r) \/ ReadAddon(r) \/ FindRow(r) \/ FindNone(r) \/ Create(r) \/ Decline(r)
    \/ CancelOld(r) \/ Push(r) \/ Save(r) \/ SaveFirst(r) \/ SaveRefused(r)
    \/ Activate(r) \/ Flip(r)
    \/ Die(r) \/ LoseAnswer(r) \/ GatewayFails(r)

Next ==
    \/ \E r \in Requests : Begin(r) \/ Proceed(r)
    \/ \E s \in DOMAIN gateway : Suspend(s) \/ Expire(s)
    \/ \E h \in Hooks : ApplyHook(h) \/ \E e \in events : ReadHook(h, e)
    \/ SetMemberStatus

Spec == Init /\ [][Next]_vars

-----------------------------------------------------------------------------
(***************************************************************************)
(* Correctness.                                                            *)
(***************************************************************************)
\* "Cancel any prior live gateway subscription so we don't double-bill": each
\* subscription that lives at the gateway is the one of a row that is not CANCELED,
\* or a request still has it in hand, whatever order plans are taken, cancelled and
\* suspended in, unless a fault or an overtaken request lost hold of one.
NobodyPaysTwice ==
    ~overtaken =>
       \A s \in DOMAIN gateway :
          Live(s) => \/ \E i \in DOMAIN rows : rows[i].sub = s /\ rows[i].status # "CANCELED"
                     \/ \E r \in Requests : Busy(r) /\ s \in {req[r].sub, req[r].seen.sub}

\* A workspace whose subscription is paid is ACTIVE, also when events about a
\* subscription it had before come late, unless it is just being made so.
PaidIsServed ==
    ~overtaken =>
       \A i \in DOMAIN rows :
          gateway[rows[i].sub].state = "active" =>
             /\ rows[i].status = "ACTIVE"
             /\ org = "ACTIVE" \/ \E r \in Requests : At(r, "activate")

\* When nothing is under way the gateway charges for the team and the add-on the
\* workspace has, whatever the plans, add-ons and team changes before, as long as
\* they came one after the other.
ChargedAsUsed ==
    ~overtaken /\ ~disturbed /\ (\A r \in Requests : ~Busy(r)) =>
       \A i \in DOMAIN rows :
          rows[i].status = "ACTIVE" /\ gateway[rows[i].sub].state = "active" =>
             gateway[rows[i].sub].amount = Amount(rows[i].plan, seats, addon)
=============================================================================

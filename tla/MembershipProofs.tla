-------------------------- MODULE MembershipProofs --------------------------
(***************************************************************************)
(* A workspace keeps an active Owner, ownership is the Owners' affair, and *)
(* who was removed stays out: for any number of people, requests,          *)
(* invitations and custom roles, whatever their rights and names.          *)
(*                                                                         *)
(* The invariant that carries an Owner over the awaits of a request that   *)
(* may take him away: once the check is passed, there is an active Owner   *)
(* besides the request's target, and while no second such request runs,    *)
(* nothing takes that one away.                                            *)
(***************************************************************************)
EXTENDS Membership, FiniteSetTheorems, TLAPS

Managing == {"update", "remove", "assign", "revoke"}

\* The operations that pass through a place.
OpsAt(place) ==
    CASE place = "idle"                      -> {"none"}
      [] place \in {"look", "write"}         -> Managing
      [] place \in {"active", "owners"}      -> {"update", "remove", "revoke"}
      [] place = "total"                     -> {"remove"}
      [] place \in {"seats", "pending", "member", "insert"} -> {"invite"}
      [] place \in {"token", "mark", "join"} -> {"accept"}
      [] place = "place"                     -> {"accept", "sso"}
      [] place \in {"name", "rename"}        -> {"rename"}
      [] OTHER                               -> {"sso"}

\* Every request is at a place of its operation.
OnCourse == \A r \in Requests : req[r].op \in OpsAt(req[r].at)

Typed == TypeOK /\ OnCourse

\* A request that may take an Owner away has passed the check.
Sure(r) == RemovesOwnership(req[r]) /\ req[r].at \in {"total", "write"}

\* An active Owner, alone threatened by one request, which left another.
Kept ==
    /\ Active \cap Owners # {}
    /\ \A r, x \in Requests : RemovesOwnership(req[r]) /\ RemovesOwnership(req[x]) => r = x
    /\ \A r \in Requests : RemovesOwnership(req[r]) /\ At(r, "owners") => req[r].seen \subseteq Active
    /\ \A r \in Requests : Sure(r) => \E p \in Active \cap Owners : p # Target(r)

\* Taken for an Owner, with all an Owner may do.
Entitled(context) == IsOwner(context) /\ Permissions \subseteq context.permissions

\* The role of Owner is given by who is entitled, and who changes an Owner is taken
\* for one, or found him without the role.
GivenByOwners ==
    /\ \A p \in People : invitation[p].role = "OWNER" => Entitled(invitation[p].by)
    /\ \A r \in Requests :
          /\ req[r].op \in {"assign", "revoke", "invite", "accept"} /\ req[r].role = "OWNER"
                => Entitled(req[r].context)
          /\ req[r].at \in {"active", "owners", "total", "write"} /\ Target(r) \in Owners
                => IsOwner(req[r].context) \/ req[r].promoted

\* Nothing is under way that could let a removed person in.
Locked ==
    \A p \in out :
       /\ ~IsMember(p)
       /\ invitation[p].state # "open"
       /\ \A r \in Requests : Target(r) = p /\ req[r].op \in {"accept", "sso"} => At(r, "token")

-----------------------------------------------------------------------------
(***************************************************************************)
(* Lemmas.                                                                 *)
(***************************************************************************)

\* A context is a set of names of roles and a set of permissions.
LEMMA ContextTyped ==
    ASSUME NEW rs \in SUBSET Roles, name \in [Custom -> Roles]
    PROVE  ContextOf(rs) \in Context
  <1>1. ASSUME NEW role \in Roles PROVE Label(role) \in Roles
    BY <1>1 DEF Label
  <1>2. ASSUME NEW role \in Roles PROVE PermissionsOf(role) \subseteq Permissions
    BY <1>2, RolesAssumption DEF PermissionsOf, Roles, Permissions
  <1>3. {Label(role) : role \in rs} \in SUBSET Roles
    BY <1>1
  <1>4. UNION {PermissionsOf(role) : role \in rs} \in SUBSET Permissions
    BY <1>2
  <1> QED
    BY <1>3, <1>4 DEF ContextOf, Context

LEMMA ContextsTyped == ASSUME TypeOK, NEW permission PROVE Contexts(permission) \subseteq Context
  <1>1. ASSUME NEW p \in Active PROVE ContextOf(roles[p]) \in Context
    BY ContextTyped DEF TypeOK, Active
  <1> QED
    BY <1>1 DEF Contexts

\* The steps of Next, one by one.
LEMMA NextCases ==
    ASSUME TypeOK, Next, NEW P,
           ASSUME NEW r \in Requests, NEW p \in People, AcceptInvitation(r, p) PROVE P,
           ASSUME NEW r \in Requests, NEW p \in People, SignOn(r, p) PROVE P,
           ASSUME NEW r \in Requests, NEW p \in People, NEW by \in Context,
                  RemoveMember(r, by, p) PROVE P,
           ASSUME NEW r \in Requests, NEW p \in People, NEW by \in Context, NEW s \in Statuses,
                  UpdateMember(r, by, p, s) PROVE P,
           ASSUME NEW r \in Requests, NEW p \in People, NEW by \in Context, NEW role \in Given,
                  AssignRole(r, by, p, role) PROVE P,
           ASSUME NEW r \in Requests, NEW p \in People, NEW by \in Context, NEW role \in Given,
                  RevokeRole(r, by, p, role) PROVE P,
           ASSUME NEW r \in Requests, NEW p \in People, NEW by \in Context, NEW role \in Given,
                  CreateInvitation(r, by, p, role) PROVE P,
           ASSUME NEW r \in Requests, NEW by \in Context, NEW role \in Custom,
                  NEW new \in {role, "OWNER"}, UpdateRole(r, by, role, new) PROVE P,
           ASSUME NEW r \in Requests, CheckName(r) PROVE P,
           ASSUME NEW r \in Requests, Rename(r) PROVE P,
           ASSUME NEW r \in Requests, Look(r) PROVE P,
           ASSUME NEW r \in Requests, ReadActive(r) PROVE P,
           ASSUME NEW r \in Requests, CountOwners(r) PROVE P,
           ASSUME NEW r \in Requests, CountMembers(r) PROVE P,
           ASSUME NEW r \in Requests, WriteStatus(r) PROVE P,
           ASSUME NEW r \in Requests, Delete(r) PROVE P,
           ASSUME NEW r \in Requests, Assign(r) PROVE P,
           ASSUME NEW r \in Requests, Revoke(r) PROVE P,
           ASSUME NEW r \in Requests, CheckSeats(r) PROVE P,
           ASSUME NEW r \in Requests, CheckPending(r) PROVE P,
           ASSUME NEW r \in Requests, CheckMember(r) PROVE P,
           ASSUME NEW r \in Requests, Insert(r) PROVE P,
           ASSUME NEW r \in Requests, ReadInvitation(r) PROVE P,
           ASSUME NEW r \in Requests, FindPlace(r) PROVE P,
           ASSUME NEW r \in Requests, MarkAccepted(r) PROVE P,
           ASSUME NEW r \in Requests, Join(r) PROVE P,
           ASSUME NEW r \in Requests, Revive(r) PROVE P,
           ASSUME NEW r \in Requests, CreateMember(r) PROVE P,
           ASSUME NEW r \in Requests, CreateRole(r) PROVE P,
           ASSUME NEW r \in Requests, Die(r) PROVE P,
           ASSUME NEW p \in People, Expire(p) PROVE P
    PROVE  P
  BY ContextsTyped DEF Next, Ask, Proceed

-----------------------------------------------------------------------------
(***************************************************************************)
(* Type correctness.                                                       *)
(***************************************************************************)
LEMMA NobodyTyped == Nobody \in Context
  BY DEF Nobody, Context

LEMMA IdleTyped == Idle \in RequestSet /\ Idle.op = "none" /\ Idle.at = "idle"
  BY PeopleAssumption, NobodyTyped DEF Idle, RequestSet, Ops, Places, Roles, Statuses

LEMMA InitTyped == Init => Typed
  <1> SUFFICES ASSUME Init PROVE Typed
    OBVIOUS
  <1>1. out \subseteq People /\ raced \in BOOLEAN /\ begun \in 0 .. MaxRequests
    <2>1. out = {} /\ raced = FALSE /\ begun = 0
      BY DEF Init
    <2>2. 0 \in 0 .. MaxRequests
      BY PeopleAssumption
    <2> QED
      BY <2>1, <2>2, Zenon
  <1>5. status \in [People -> Statuses \cup {"absent"}]
    BY DEF Init, Statuses
  <1>4. roles \in [People -> SUBSET Roles]
    <2>1. PICK higher \in SUBSET (People \ Newcomers) :
             roles = [p \in People |-> IF p \in Newcomers THEN {}
                                       ELSE IF p \in higher \cup {Founder} THEN {"OWNER"} ELSE Custom]
      BY DEF Init
    <2>2. {} \in SUBSET Roles /\ {"OWNER"} \in SUBSET Roles /\ Custom \in SUBSET Roles
      BY DEF Roles
    <2> HIDE DEF Roles
    <2> QED
      BY <2>1, <2>2
  <1>6. name \in [Custom -> Roles]
    BY DEF Init, Roles
  <1>2. invitation \in [People -> Invited]
    <2>1. ContextOf({"OWNER"}) \in Context /\ Given \subseteq Roles /\ "AGENT" \in Roles
      BY <1>6, ContextTyped, RolesAssumption DEF Roles
    <2>2. 0 \in 0 .. MaxInvitations /\ 1 \in 0 .. MaxInvitations
      BY PeopleAssumption
    <2> QED
      BY <2>1, <2>2, NobodyTyped DEF Init, Invited
  <1>3. req \in [Requests -> RequestSet] /\ OnCourse
    BY IdleTyped DEF Init, OnCourse, OpsAt
  <1> QED
    BY <1>1, <1>2, <1>3, <1>4, <1>5, <1>6 DEF Typed, TypeOK

\* A new request at its first place.
LEMMA BeginTyped ==
    ASSUME Typed, NEW r \in Requests, NEW q \in RequestSet, q.op \in OpsAt(q.at), Begin(r, q)
    PROVE  /\ status' \in [People -> Statuses \cup {"absent"}]
           /\ roles' \in [People -> SUBSET Roles]
           /\ raced' \in BOOLEAN /\ begun' \in 0 .. MaxRequests /\ name' \in [Custom -> Roles]
           /\ invitation' \in [People -> Invited]
           /\ req' \in [Requests -> RequestSet]
           /\ OnCourse'
  BY PeopleAssumption DEF Begin, MayBegin, Typed, TypeOK, OnCourse

\* A request goes to another place of its operation.
LEMMA GoTyped ==
    ASSUME Typed, NEW r \in Requests, NEW place \in Places, req[r].op \in OpsAt(place), GoTo(r, place)
    PROVE  req' \in [Requests -> RequestSet] /\ OnCourse'
  <1>1. [req[r] EXCEPT !.at = place] \in RequestSet
    BY DEF Typed, TypeOK, RequestSet
  <1>2. req' = [req EXCEPT ![r] = [req[r] EXCEPT !.at = place]]
    BY DEF GoTo
  <1>3. [req[r] EXCEPT !.at = place].op = req[r].op /\ [req[r] EXCEPT !.at = place].at = place
    BY DEF Typed, TypeOK, RequestSet
  <1> QED
    BY <1>1, <1>2, <1>3 DEF Typed, TypeOK, OnCourse

\* A request ends.
LEMMA EndTyped ==
    ASSUME Typed, NEW r \in Requests, End(r)
    PROVE  req' \in [Requests -> RequestSet] /\ OnCourse'
  BY IdleTyped DEF End, Typed, TypeOK, OnCourse, OpsAt

LEMMA EndPromotingTyped ==
    ASSUME Typed, NEW r \in Requests, NEW p, NEW role, EndPromoting(r, p, role)
    PROVE  req' \in [Requests -> RequestSet] /\ OnCourse'
  <1>1. ASSUME NEW x \in Requests
        PROVE  /\ req'[x] \in RequestSet
               /\ req'[x].op \in OpsAt(req'[x].at)
    <2>1. req[x] \in RequestSet /\ req[x].op \in OpsAt(req[x].at)
      BY DEF Typed, TypeOK, OnCourse
    <2>2. /\ [req[x] EXCEPT !.promoted = TRUE] \in RequestSet
          /\ [req[x] EXCEPT !.promoted = TRUE].op = req[x].op
          /\ [req[x] EXCEPT !.promoted = TRUE].at = req[x].at
      BY <2>1 DEF RequestSet
    <2>3. req'[x] \in {Idle, req[x], [req[x] EXCEPT !.promoted = TRUE]}
      BY DEF EndPromoting
    <2> QED
      BY <2>1, <2>2, <2>3, IdleTyped DEF OpsAt
  <1> QED
    BY <1>1 DEF EndPromoting, OnCourse

\* A step that only reads.
LEMMA ReadTyped ==
    ASSUME Typed, NEW r \in Requests, Reads,
           \/ End(r)
           \/ \E place \in Places : req[r].op \in OpsAt(place) /\ GoTo(r, place)
    PROVE  Typed'
  <1>1. req' \in [Requests -> RequestSet] /\ OnCourse'
    BY EndTyped, GoTyped
  <1> QED
    BY <1>1 DEF Reads, history, Typed, TypeOK

LEMMA NextTyped == Typed /\ [Next]_vars => Typed'
  <1> SUFFICES ASSUME Typed, [Next]_vars PROVE Typed'
    OBVIOUS
  <1> DEFINE P == Typed'
  <1>typed. TypeOK /\ OnCourse
    BY DEF Typed
  <1>0. CASE UNCHANGED vars
    BY <1>0 DEF vars, Typed, TypeOK, OnCourse
  <1>1. ASSUME NEW r \in Requests, NEW p \in People, AcceptInvitation(r, p) PROVE P
    <2> DEFINE q == [Idle EXCEPT !.op = "accept", !.at = "token", !.target = p]
    <2>1. q \in RequestSet /\ q.op \in OpsAt(q.at)
      BY IdleTyped DEF RequestSet, Ops, Places, OpsAt, Idle
    <2>2. Begin(r, q) /\ UNCHANGED out
      BY <1>1 DEF AcceptInvitation
    <2> HIDE DEF q
    <2> QED
      BY <2>1, <2>2, BeginTyped DEF Typed, TypeOK
  <1>2. ASSUME NEW r \in Requests, NEW p \in People, SignOn(r, p) PROVE P
    <2> DEFINE q == [Idle EXCEPT !.op = "sso", !.at = "place", !.target = p]
    <2>1. q \in RequestSet /\ q.op \in OpsAt(q.at)
      BY IdleTyped DEF RequestSet, Ops, Places, OpsAt, Idle
    <2>2. Begin(r, q) /\ out' = out \ {p}
      BY <1>2 DEF SignOn
    <2> HIDE DEF q
    <2> QED
      BY <2>1, <2>2, BeginTyped DEF Typed, TypeOK
  <1>manage. ASSUME NEW r \in Requests, NEW by \in Context, NEW op \in Managing, NEW p \in People,
                    NEW role \in Roles, NEW s \in Statuses, Manage(r, by, op, p, role, s)
             PROVE  P
    <2> DEFINE q == [Idle EXCEPT !.op = op, !.at = "look", !.context = by, !.target = p,
                                 !.role = role, !.status = s]
    <2>1. q \in RequestSet /\ q.op \in OpsAt(q.at)
      BY IdleTyped, <1>typed DEF RequestSet, Ops, Places, OpsAt, Idle, Managing
    <2>2. Begin(r, q) /\ UNCHANGED out
      BY <1>manage DEF Manage
    <2> HIDE DEF q
    <2> QED
      BY <2>1, <2>2, BeginTyped DEF Typed, TypeOK
  <1>roles. Given \subseteq Roles /\ "AGENT" \in Roles /\ "ACTIVE" \in Statuses
    BY RolesAssumption DEF Roles, Statuses
  <1>3. ASSUME NEW r \in Requests, NEW p \in People, NEW by \in Context, RemoveMember(r, by, p) PROVE P
    BY <1>3, <1>manage, <1>roles DEF RemoveMember, Managing
  <1>4. ASSUME NEW r \in Requests, NEW p \in People, NEW by \in Context, NEW s \in Statuses,
               UpdateMember(r, by, p, s) PROVE P
    BY <1>4, <1>manage, <1>roles DEF UpdateMember, Managing
  <1>5. ASSUME NEW r \in Requests, NEW p \in People, NEW by \in Context, NEW role \in Given,
               AssignRole(r, by, p, role) PROVE P
    BY <1>5, <1>manage, <1>roles DEF AssignRole, Managing
  <1>6. ASSUME NEW r \in Requests, NEW p \in People, NEW by \in Context, NEW role \in Given,
               RevokeRole(r, by, p, role) PROVE P
    BY <1>6, <1>manage, <1>roles DEF RevokeRole, Managing
  <1>7. ASSUME NEW r \in Requests, NEW p \in People, NEW by \in Context, NEW role \in Given,
               CreateInvitation(r, by, p, role) PROVE P
    <2> DEFINE q == [Idle EXCEPT !.op = "invite", !.at = "seats", !.context = by,
                                 !.target = p, !.role = role]
    <2>1. q \in RequestSet /\ q.op \in OpsAt(q.at)
      BY IdleTyped, <1>typed, <1>roles DEF RequestSet, Ops, Places, OpsAt, Idle
    <2>2. Begin(r, q) /\ UNCHANGED out
      BY <1>7 DEF CreateInvitation
    <2> HIDE DEF q
    <2> QED
      BY <2>1, <2>2, BeginTyped DEF Typed, TypeOK
  <1>8. ASSUME NEW r \in Requests, Look(r) PROVE P
    <2>1. req[r].op \in Managing /\ Reads
      BY <1>8, <1>typed DEF Look, At, OnCourse, OpsAt
    <2>2. RemovesOwnership(req[r]) => req[r].op \in OpsAt("active")
      BY DEF RemovesOwnership, OpsAt
    <2>3. req[r].op \in OpsAt(IF req[r].op = "remove" THEN "total" ELSE "write")
      BY <2>1 DEF OpsAt
    <2>4. {"active", "total", "write"} \subseteq Places
      BY DEF Places
    <2>5. \/ End(r)
          \/ RemovesOwnership(req[r]) /\ GoTo(r, "active")
          \/ GoTo(r, IF req[r].op = "remove" THEN "total" ELSE "write")
      BY <1>8 DEF Look, Allowed
    <2> QED
      BY <2>1, <2>2, <2>3, <2>4, <2>5, ReadTyped
  <1>9. ASSUME NEW r \in Requests, ReadActive(r) PROVE P
    <2> DEFINE q == [req[r] EXCEPT !.at = "owners", !.seen = Active]
    <2>1. req' = [req EXCEPT ![r] = q] /\ Reads
      BY <1>9 DEF ReadActive
    <2>3. req[r].op \in OpsAt("owners")
      BY <1>9, <1>typed DEF OnCourse, ReadActive, At, OpsAt
    <2>2. q \in RequestSet /\ q.op \in OpsAt(q.at)
      BY <2>3, <1>typed, ZenonT(40) DEF TypeOK, RequestSet, Places, Active
    <2> HIDE DEF q
    <2> QED
      BY <2>1, <2>2, <1>typed DEF Reads, history, Typed, TypeOK, OnCourse
  <1>10. ASSUME NEW r \in Requests, CountOwners(r) PROVE P
    <2>1. req[r].op \in {"update", "remove", "revoke"} /\ Reads
      BY <1>10, <1>typed DEF CountOwners, At, OnCourse, OpsAt
    <2>2. /\ req[r].op \in OpsAt(IF req[r].op = "remove" THEN "total" ELSE "write")
          /\ {"total", "write"} \subseteq Places
      BY <2>1 DEF OpsAt, Managing, Places
    <2>3. End(r) \/ GoTo(r, IF req[r].op = "remove" THEN "total" ELSE "write")
      BY <1>10 DEF CountOwners, Allowed
    <2> QED
      BY <2>1, <2>2, <2>3, ReadTyped
  <1>11. ASSUME NEW r \in Requests, CountMembers(r) PROVE P
    <2>1. req[r].op \in OpsAt("write") /\ "write" \in Places
      BY <1>11, <1>typed DEF CountMembers, At, OnCourse, OpsAt, Managing, Places
    <2> QED
      BY <1>11, <2>1, ReadTyped DEF CountMembers
  <1>12. ASSUME NEW r \in Requests, WriteStatus(r) PROVE P
    <2>1. req[r].status \in Statuses
      BY <1>typed DEF TypeOK, RequestSet
    <2>2. req' \in [Requests -> RequestSet] /\ OnCourse'
      BY <1>12, EndTyped DEF WriteStatus
    <2> QED
      BY <1>12, <2>1, <2>2, <1>typed DEF WriteStatus, history, Typed, TypeOK
  <1>13. ASSUME NEW r \in Requests, Delete(r) PROVE P
    <2>1. Target(r) \in People
      BY <1>typed DEF TypeOK, RequestSet, Target
    <2>2. req' \in [Requests -> RequestSet] /\ OnCourse'
      BY <1>13, EndTyped DEF Delete
    <2> QED
      BY <1>13, <2>1, <2>2, <1>typed DEF Delete, Typed, TypeOK
  <1>14. ASSUME NEW r \in Requests, Assign(r) PROVE P
    <2>1. Target(r) \in People /\ req[r].role \in Roles
      BY <1>typed DEF TypeOK, RequestSet, Target
    <2>2. req' \in [Requests -> RequestSet] /\ OnCourse'
      BY <1>14, EndTyped, EndPromotingTyped DEF Assign
    <2> QED
      BY <1>14, <2>1, <2>2, <1>typed DEF Assign, history, Typed, TypeOK
  <1>15. ASSUME NEW r \in Requests, Revoke(r) PROVE P
    <2>2. req' \in [Requests -> RequestSet] /\ OnCourse'
      BY <1>15, EndTyped DEF Revoke
    <2> QED
      BY <1>15, <2>2, <1>typed DEF Revoke, history, Typed, TypeOK
  <1>16. ASSUME NEW r \in Requests, CheckSeats(r) PROVE P
    <2>1. req[r].op \in OpsAt("pending") /\ "pending" \in Places
      BY <1>16, <1>typed DEF CheckSeats, At, OnCourse, OpsAt, Places
    <2> QED
      BY <1>16, <2>1, ReadTyped DEF CheckSeats
  <1>17. ASSUME NEW r \in Requests, CheckPending(r) PROVE P
    <2>1. req[r].op \in OpsAt("member") /\ "member" \in Places
      BY <1>17, <1>typed DEF CheckPending, At, OnCourse, OpsAt, Places
    <2> QED
      BY <1>17, <2>1, ReadTyped DEF CheckPending
  <1>18. ASSUME NEW r \in Requests, CheckMember(r) PROVE P
    <2>1. req[r].op \in OpsAt("insert") /\ "insert" \in Places
      BY <1>18, <1>typed DEF CheckMember, At, OnCourse, OpsAt, Places
    <2> QED
      BY <1>18, <2>1, ReadTyped DEF CheckMember
  <1>19. ASSUME NEW r \in Requests, Insert(r) PROVE P
    <2>1. Target(r) \in People /\ req[r].role \in Roles /\ req[r].context \in Context
      BY <1>typed DEF TypeOK, RequestSet, Target
    <2>2. req' \in [Requests -> RequestSet] /\ OnCourse'
      BY <1>19, EndTyped DEF Insert
    <2> DEFINE i == [nr |-> invitation[Target(r)].nr + 1, state |-> "open", role |-> req[r].role,
                     by |-> req[r].context]
    <2>3. i \in Invited
      BY <1>19, <2>1, <1>typed, PeopleAssumption DEF Insert, TypeOK, Invited
    <2>4. invitation' \in {invitation, [invitation EXCEPT ![Target(r)] = i]}
      BY <1>19 DEF Insert
    <2>5. out' \in {out, out \ {Target(r)}} /\ UNCHANGED <<status, roles, name, begun, raced>>
      BY <1>19 DEF Insert
    <2> HIDE DEF i
    <2> QED
      BY <2>1, <2>2, <2>3, <2>4, <2>5, <1>typed DEF Typed, TypeOK
  <1>20. ASSUME NEW r \in Requests, ReadInvitation(r) PROVE P
    <2> DEFINE i == invitation[Target(r)]
               q == [req[r] EXCEPT !.at = "place", !.role = i.role, !.nr = i.nr, !.context = i.by]
    <2>1. i \in Invited
      BY <1>typed DEF TypeOK, RequestSet, Target
    <2>2. req' = [req EXCEPT ![r] = q] \/ req' = [req EXCEPT ![r] = Idle]
      BY <1>20 DEF ReadInvitation
    <2>6. req[r].op \in OpsAt("place")
      BY <1>20, <1>typed DEF OnCourse, ReadInvitation, At, OpsAt
    <2>7. i.nr \in 0 .. MaxInvitations /\ i.role \in Roles /\ i.by \in Context
      BY <2>1 DEF Invited
    <2>3. q \in RequestSet /\ q.op \in OpsAt(q.at)
      <3>1. req[r] \in RequestSet
        BY <1>typed DEF TypeOK
      <3> HIDE DEF i
      <3> QED
        BY <2>6, <2>7, <3>1 DEF RequestSet, Places
    <2>4. Reads
      BY <1>20 DEF ReadInvitation
    <2>5. req' \in [Requests -> RequestSet] /\ OnCourse'
      <3> HIDE DEF q
      <3> QED
        BY <2>2, <2>3, <1>typed, EndTyped DEF TypeOK, OnCourse, End
    <2> QED
      BY <2>4, <2>5, <1>typed DEF Reads, history, Typed, TypeOK
  <1>21. ASSUME NEW r \in Requests, FindPlace(r) PROVE P
    <2>1. req[r].op \in {"accept", "sso"} /\ Reads
      BY <1>21, <1>typed DEF FindPlace, At, OnCourse, OpsAt
    <2>2. /\ req[r].op = "accept" => req[r].op \in OpsAt("mark") /\ req[r].op \in OpsAt("join")
          /\ req[r].op # "accept" => req[r].op \in OpsAt("create") /\ req[r].op \in OpsAt("revive")
          /\ {"mark", "join", "create", "revive"} \subseteq Places
      BY <2>1 DEF OpsAt, Places
    <2>3. \/ req[r].op = "accept" /\ (GoTo(r, "mark") \/ GoTo(r, "join"))
          \/ req[r].op # "accept" /\ (GoTo(r, "create") \/ GoTo(r, "revive"))
          \/ End(r)
      BY <1>21 DEF FindPlace
    <2> QED
      BY <2>1, <2>2, <2>3, ReadTyped
  <1>accepted. ASSUME NEW r \in Requests PROVE Accepted(r) \in [People -> Invited]
    <2>1. Target(r) \in People /\ invitation[Target(r)] \in Invited
      BY <1>typed DEF TypeOK, RequestSet, Target
    <2> DEFINE s == IF invitation[Target(r)].nr = req[r].nr THEN "accepted" ELSE invitation[Target(r)].state
    <2>2. [invitation[Target(r)] EXCEPT !.state = s] \in Invited
      BY <2>1 DEF Invited
    <2>3. Accepted(r) = [invitation EXCEPT ![Target(r)] = [invitation[Target(r)] EXCEPT !.state = s]]
      BY DEF Accepted
    <2> HIDE DEF s
    <2> QED
      BY <2>1, <2>2, <2>3, <1>typed DEF TypeOK
  <1>22. ASSUME NEW r \in Requests, MarkAccepted(r) PROVE P
    <2>1. req' \in [Requests -> RequestSet] /\ OnCourse'
      BY <1>22, EndTyped DEF MarkAccepted
    <2> QED
      BY <1>22, <2>1, <1>accepted, <1>typed DEF MarkAccepted, history, Typed, TypeOK
  <1>23. ASSUME NEW r \in Requests, Join(r) PROVE P
    <2>1. Target(r) \in People /\ req[r].role \in Roles
      BY <1>typed DEF TypeOK, RequestSet, Target
    <2>2. req' \in [Requests -> RequestSet] /\ OnCourse'
      BY <1>23, EndTyped, EndPromotingTyped DEF Join
    <2>3. status' \in [People -> Statuses \cup {"absent"}] /\ roles' \in [People -> SUBSET Roles]
      BY <1>23, <2>1, <1>typed, <1>roles DEF Join, TypeOK
    <2>4. invitation' \in [People -> Invited]
      BY <1>23, <1>accepted, <1>typed DEF Join, TypeOK
    <2>5. UNCHANGED <<name, begun, raced, out>>
      BY <1>23 DEF Join, history
    <2> QED
      BY <2>2, <2>3, <2>4, <2>5, <1>typed DEF Typed, TypeOK
  <1>24. ASSUME NEW r \in Requests, Revive(r) PROVE P
    <2>1. req' \in [Requests -> RequestSet] /\ OnCourse'
      BY <1>24, EndTyped DEF Revive
    <2> QED
      BY <1>24, <2>1, <1>typed, <1>roles DEF Revive, history, Typed, TypeOK
  <1>25. ASSUME NEW r \in Requests, CreateMember(r) PROVE P
    <2>1. req[r].op \in OpsAt("role") /\ "role" \in Places
      BY <1>25, <1>typed DEF CreateMember, At, OnCourse, OpsAt, Places
    <2>2. req' \in [Requests -> RequestSet] /\ OnCourse'
      BY <1>25, <2>1, EndTyped, GoTyped DEF CreateMember
    <2> QED
      BY <1>25, <2>2, <1>typed, <1>roles DEF CreateMember, history, Typed, TypeOK
  <1>26. ASSUME NEW r \in Requests, CreateRole(r) PROVE P
    <2>1. req' \in [Requests -> RequestSet] /\ OnCourse'
      BY <1>26, EndTyped DEF CreateRole
    <2> QED
      BY <1>26, <2>1, <1>typed, <1>roles DEF CreateRole, history, Typed, TypeOK
  <1>27. ASSUME NEW r \in Requests, Die(r) PROVE P
    BY <1>27, ReadTyped DEF Die
  <1>30. ASSUME NEW r \in Requests, NEW by \in Context, NEW role \in Custom, NEW new \in {role, "OWNER"},
                UpdateRole(r, by, role, new) PROVE P
    <2> DEFINE q == [Idle EXCEPT !.op = "rename", !.at = "name", !.context = by, !.role = role, !.name = new]
    <2>1. q \in RequestSet /\ q.op \in OpsAt(q.at)
      BY IdleTyped DEF RequestSet, Ops, Places, OpsAt, Idle, Roles
    <2>2. Begin(r, q) /\ UNCHANGED out
      BY <1>30 DEF UpdateRole
    <2> HIDE DEF q
    <2> QED
      BY <2>1, <2>2, BeginTyped DEF Typed, TypeOK
  <1>31. ASSUME NEW r \in Requests, CheckName(r) PROVE P
    <2>1. req[r].op \in OpsAt("rename") /\ "rename" \in Places
      BY <1>31, <1>typed DEF CheckName, At, OnCourse, OpsAt, Places
    <2> QED
      BY <1>31, <2>1, ReadTyped DEF CheckName
  <1>32. ASSUME NEW r \in Requests, Rename(r) PROVE P
    <2>1. req[r].name \in Roles
      BY <1>typed DEF TypeOK, RequestSet
    <2>2. req' \in [Requests -> RequestSet] /\ OnCourse'
      BY <1>32, EndTyped DEF Rename
    <2>3. name' \in [Custom -> Roles]
      BY <1>32, <2>1, <1>typed DEF Rename, TypeOK
    <2> QED
      BY <1>32, <2>2, <2>3, <1>typed DEF Rename, history, Typed, TypeOK
  <1>28. ASSUME NEW p \in People, Expire(p) PROVE P
    <2>1. [invitation[p] EXCEPT !.state = "expired"] \in Invited
      BY <1>typed DEF TypeOK, Invited
    <2>2. invitation' = [invitation EXCEPT ![p] = [invitation[p] EXCEPT !.state = "expired"]]
      BY <1>28 DEF Expire
    <2> QED
      BY <1>28, <2>1, <2>2, <1>typed DEF Expire, history, Typed, TypeOK, OnCourse
  <1> HIDE DEF P
  <1>29. Next => P
    BY <1>1, <1>2, <1>3, <1>4, <1>5, <1>6, <1>7, <1>8, <1>9, <1>10, <1>11, <1>12, <1>13, <1>14, <1>15,
       <1>16, <1>17, <1>18, <1>19, <1>20, <1>21, <1>22, <1>23, <1>24, <1>25, <1>26, <1>27, <1>28, <1>30, <1>31, <1>32,
       <1>typed, NextCases
  <1> QED
    BY <1>0, <1>29 DEF P

\* The state of a workspace stays well typed, whatever its size: statuses, roles,
\* invitations and requests in Membership.
THEOREM Typing == Spec => []TypeOK
  <1>1. Typed => TypeOK
    BY DEF Typed
  <1> QED
    BY InitTyped, NextTyped, <1>1, PTL DEF Spec

-----------------------------------------------------------------------------
(***************************************************************************)
(* What a step does to the requests.                                       *)
(***************************************************************************)
LEMMA Ended ==
    ASSUME Typed, NEW r \in Requests, End(r)
    PROVE  req'[r] = Idle /\ \A x \in Requests : x # r => req'[x] = req[x]
  BY DEF End, Typed, TypeOK

LEMMA Went ==
    ASSUME Typed, NEW r \in Requests, NEW place, GoTo(r, place)
    PROVE  /\ req'[r].op = req[r].op /\ req'[r].at = place /\ req'[r].context = req[r].context
           /\ req'[r].target = req[r].target /\ req'[r].role = req[r].role
           /\ req'[r].status = req[r].status /\ req'[r].seen = req[r].seen
           /\ req'[r].promoted = req[r].promoted
           /\ \A x \in Requests : x # r => req'[x] = req[x]
  <1>1. req' = [req EXCEPT ![r] = [req[r] EXCEPT !.at = place]] /\ req[r] \in RequestSet
    BY DEF GoTo, Typed, TypeOK
  <1> QED
    BY <1>1 DEF Typed, TypeOK, RequestSet

LEMMA Began ==
    ASSUME Typed, NEW r \in Requests, NEW q, Begin(r, q)
    PROVE  /\ req'[r] = q
           /\ \A x \in Requests : x # r => req'[x] = req[x]
           /\ UNCHANGED <<status, roles, invitation>>
           /\ raced' = (raced \/ (RemovesOwnership(q) /\ \E x \in Requests : RemovesOwnership(req[x])))
  BY DEF Begin, Typed, TypeOK

\* Others that work on a person who becomes an Owner have not seen it.
LEMMA EndedPromoting ==
    ASSUME Typed, NEW r \in Requests, NEW p, NEW role, EndPromoting(r, p, role)
    PROVE  /\ req'[r] = Idle
           /\ \A x \in Requests : x # r =>
                 /\ req'[x].op = req[x].op /\ req'[x].at = req[x].at /\ req'[x].context = req[x].context
                 /\ req'[x].target = req[x].target /\ req'[x].role = req[x].role
                 /\ req'[x].status = req[x].status /\ req'[x].seen = req[x].seen
                 /\ req[x].promoted => req'[x].promoted
                 /\ Busy(x) /\ req[x].target = p /\ role = "OWNER" => req'[x].promoted
  <1>1. req'[r] = Idle
    BY DEF EndPromoting
  <1>2. ASSUME NEW x \in Requests, x # r
        PROVE  req'[x] = IF Busy(x) /\ Target(x) = p /\ role = "OWNER"
                         THEN [req[x] EXCEPT !.promoted = TRUE] ELSE req[x]
    BY <1>2 DEF EndPromoting
  <1>3. \A x \in Requests : req[x] \in RequestSet
    BY DEF Typed, TypeOK
  <1> QED
    BY <1>1, <1>2, <1>3, ZenonT(40) DEF RequestSet, Target

LEMMA IdleFields ==
    /\ Idle.op = "none" /\ Idle.at = "idle" /\ Idle.role = "AGENT" /\ Idle.status = "ACTIVE"
    /\ Idle.target = Founder /\ Idle.promoted = FALSE
  BY DEF Idle

-----------------------------------------------------------------------------
(***************************************************************************)
(* Who was removed stays out.                                              *)
(***************************************************************************)
LEMMA LockedNext == Typed /\ Locked /\ [Next]_vars => Locked'
  <1> SUFFICES ASSUME Typed, Locked, [Next]_vars PROVE Locked'
    OBVIOUS
  <1> DEFINE P == Locked'
  <1>typed. TypeOK /\ OnCourse
    BY DEF Typed
  <1>0. CASE UNCHANGED vars
    BY <1>0 DEF vars, Locked, IsMember, Target, At
  <1>inside. ASSUME NEW r \in Requests, req[r].op \in {"accept", "sso"}, ~At(r, "token")
             PROVE  Target(r) \notin out
    BY <1>inside DEF Locked
  <1>begin. ASSUME NEW r \in Requests, NEW q, Begin(r, q), UNCHANGED out,
                   q.op \in {"accept", "sso"} => q.at = "token"
            PROVE  P
    BY <1>begin, Began DEF Locked, IsMember, Target, At
  <1>read. ASSUME NEW r \in Requests, Reads, ~At(r, "token"),
                  End(r) \/ \E place \in Places : GoTo(r, place)
           PROVE  P
    <2>1. UNCHANGED <<status, invitation, out>>
      BY <1>read DEF Reads, history
    <2>2. CASE End(r)
      BY <2>1, <2>2, Ended, IdleFields DEF Locked, IsMember, Target, At
    <2>3. ASSUME NEW place \in Places, GoTo(r, place) PROVE P
      BY <2>1, <2>3, <1>read, <1>inside, Went DEF Locked, IsMember, Target, At
    <2> QED
      BY <2>2, <2>3, <1>read
  <1>end. ASSUME NEW r \in Requests, End(r), UNCHANGED <<status, invitation, out>>
          PROVE  P
    BY <1>end, Ended, IdleFields DEF Locked, IsMember, Target, At
  <1>1. ASSUME NEW r \in Requests, NEW p \in People, AcceptInvitation(r, p) PROVE P
    BY <1>1, <1>begin DEF AcceptInvitation, Idle
  <1>2. ASSUME NEW r \in Requests, NEW p \in People, SignOn(r, p) PROVE P
    <2> DEFINE q == [Idle EXCEPT !.op = "sso", !.at = "place", !.target = p]
    <2>1. Begin(r, q) /\ out' = out \ {p} /\ q.target = p
      BY <1>2 DEF SignOn, Idle
    <2> HIDE DEF q
    <2> QED
      BY <2>1, Began DEF Locked, IsMember, Target, At
  <1>manage. ASSUME NEW r \in Requests, NEW by, NEW op \in Managing, NEW p, NEW role, NEW s,
                    Manage(r, by, op, p, role, s)
             PROVE  P
    BY <1>manage, <1>begin DEF Manage, Idle, Managing
  <1>3. ASSUME NEW r \in Requests, NEW p \in People, NEW by \in Context, RemoveMember(r, by, p) PROVE P
    BY <1>3, <1>manage DEF RemoveMember, Managing
  <1>4. ASSUME NEW r \in Requests, NEW p \in People, NEW by \in Context, NEW s \in Statuses,
               UpdateMember(r, by, p, s) PROVE P
    BY <1>4, <1>manage DEF UpdateMember, Managing
  <1>5. ASSUME NEW r \in Requests, NEW p \in People, NEW by \in Context, NEW role \in Given,
               AssignRole(r, by, p, role) PROVE P
    BY <1>5, <1>manage DEF AssignRole, Managing
  <1>6. ASSUME NEW r \in Requests, NEW p \in People, NEW by \in Context, NEW role \in Given,
               RevokeRole(r, by, p, role) PROVE P
    BY <1>6, <1>manage DEF RevokeRole, Managing
  <1>7. ASSUME NEW r \in Requests, NEW p \in People, NEW by \in Context, NEW role \in Given,
               CreateInvitation(r, by, p, role) PROVE P
    BY <1>7, <1>begin DEF CreateInvitation, Idle
  <1>8. ASSUME NEW r \in Requests, Look(r) PROVE P
    BY <1>8, <1>read DEF Look, Allowed, At, Places
  <1>9. ASSUME NEW r \in Requests, ReadActive(r) PROVE P
    <2> DEFINE q == [req[r] EXCEPT !.at = "owners", !.seen = Active]
    <2>1. req' = [req EXCEPT ![r] = q] /\ UNCHANGED <<status, invitation, out>>
      BY <1>9 DEF ReadActive, Reads, history
    <2>2. q.op = req[r].op /\ q.op \notin {"accept", "sso"}
      BY <1>9, <1>typed DEF TypeOK, RequestSet, OnCourse, OpsAt, ReadActive, At
    <2> HIDE DEF q
    <2> QED
      BY <2>1, <2>2, <1>typed DEF TypeOK, Locked, IsMember, Target, At
  <1>10. ASSUME NEW r \in Requests, CountOwners(r) PROVE P
    BY <1>10, <1>read DEF CountOwners, Allowed, At, Places
  <1>11. ASSUME NEW r \in Requests, CountMembers(r) PROVE P
    BY <1>11, <1>read DEF CountMembers, At, Places
  <1>12. ASSUME NEW r \in Requests, WriteStatus(r) PROVE P
    <2>1. \A p \in out : Target(r) = p => ~IsMember(Target(r))
      BY DEF Locked
    <2>2. \A p \in out : status'[p] = status[p]
      BY <1>12, <2>1, <1>typed DEF WriteStatus, TypeOK
    <2> QED
      BY <1>12, <2>2, Ended, IdleFields DEF WriteStatus, history, Locked, IsMember, Target, At
  <1>13. ASSUME NEW r \in Requests, Delete(r) PROVE P
    <2>1. /\ req'[r] = Idle /\ \A x \in Requests : x # r => req'[x] = req[x]
          /\ UNCHANGED invitation
      BY <1>13, Ended DEF Delete
    <2>2. \A p \in out : status'[p] = status[p] \/ status'[p] = "absent"
      BY <1>13, <1>typed DEF Delete, TypeOK
    <2>3. ASSUME NEW p \in out', p \notin out
          PROVE  /\ status'[p] = "absent" /\ invitation[p].state # "open"
                 /\ \A x \in Requests : Target(x) = p => req[x].op \notin {"accept", "sso"}
      <3>1. /\ p = Target(r) /\ status' = [status EXCEPT ![p] = "absent"]
            /\ ~ \/ invitation[p].state = "open"
                 \/ \E x \in Requests : Target(x) = p /\ req[x].op \in {"accept", "sso"}
        BY <1>13, <2>3 DEF Delete
      <3>2. p \in People
        BY <3>1, <1>typed DEF TypeOK, RequestSet, Target
      <3> QED
        BY <3>1, <3>2, <1>typed DEF TypeOK
    <2> QED
      BY <2>1, <2>2, <2>3, IdleFields DEF Locked, IsMember, Target, At
  <1>14. ASSUME NEW r \in Requests, Assign(r) PROVE P
    <2>1. UNCHANGED <<status, invitation, out>>
      BY <1>14 DEF Assign, history
    <2>2. CASE EndPromoting(r, Target(r), req[r].role)
      BY <2>1, <2>2, EndedPromoting, IdleFields DEF Locked, IsMember, Target, At
    <2> QED
      BY <1>14, <2>1, <2>2, <1>end DEF Assign
  <1>15. ASSUME NEW r \in Requests, Revoke(r) PROVE P
    BY <1>15, <1>end DEF Revoke, history
  <1>16. ASSUME NEW r \in Requests, CheckSeats(r) PROVE P
    BY <1>16, <1>read DEF CheckSeats, At, Places
  <1>17. ASSUME NEW r \in Requests, CheckPending(r) PROVE P
    BY <1>17, <1>read DEF CheckPending, At, Places
  <1>18. ASSUME NEW r \in Requests, CheckMember(r) PROVE P
    BY <1>18, <1>read DEF CheckMember, At, Places
  <1>19. ASSUME NEW r \in Requests, Insert(r) PROVE P
    <2>1. UNCHANGED status /\ out' \subseteq out
      BY <1>19 DEF Insert
    <2>2. \A p \in out' : invitation'[p] = invitation[p]
      BY <1>19, <1>typed DEF Insert, TypeOK
    <2> QED
      BY <1>19, <2>1, <2>2, Ended, IdleFields DEF Insert, Locked, IsMember, Target, At
  <1>20. ASSUME NEW r \in Requests, ReadInvitation(r) PROVE P
    <2>1. UNCHANGED <<status, invitation, out>>
      BY <1>20 DEF ReadInvitation, Reads, history
    <2>2. CASE End(r)
      BY <2>1, <2>2, <1>end
    <2>3. CASE invitation[Target(r)].state = "open"
      <3> DEFINE i == invitation[Target(r)]
                 q == [req[r] EXCEPT !.at = "place", !.role = i.role, !.nr = i.nr, !.context = i.by]
      <3>1. req' = [req EXCEPT ![r] = q]
        BY <1>20, <2>3 DEF ReadInvitation
      <3>2. q.target = Target(r)
        BY <1>typed DEF TypeOK, RequestSet, Target
      <3>3. Target(r) \notin out
        BY <2>3 DEF Locked
      <3> HIDE DEF q, i
      <3> QED
        BY <2>1, <3>1, <3>2, <3>3, <1>typed DEF TypeOK, Locked, IsMember, Target, At
    <2> QED
      BY <1>20, <2>2, <2>3 DEF ReadInvitation, End
  <1>21. ASSUME NEW r \in Requests, FindPlace(r) PROVE P
    BY <1>21, <1>read DEF FindPlace, At, Places
  <1>accepted. ASSUME NEW r \in Requests, NEW p \in People, invitation[p].state # "open"
               PROVE  Accepted(r)[p].state # "open"
    BY <1>accepted, <1>typed DEF Accepted, TypeOK, Invited
  <1>22. ASSUME NEW r \in Requests, MarkAccepted(r) PROVE P
    <2>1. \A p \in out : invitation'[p].state # "open"
      BY <1>22, <1>accepted, <1>typed DEF MarkAccepted, Locked, TypeOK
    <2> QED
      BY <1>22, <2>1, Ended, IdleFields DEF MarkAccepted, history, Locked, IsMember, Target, At
  <1>23. ASSUME NEW r \in Requests, Join(r) PROVE P
    <2>1. Target(r) \notin out /\ UNCHANGED out
      BY <1>23, <1>inside, <1>typed DEF Join, history, At, OnCourse, OpsAt
    <2>2. \A p \in out : status'[p] = status[p]
      BY <1>23, <2>1, <1>typed DEF Join, TypeOK
    <2>3. \A p \in out : invitation'[p].state # "open"
      BY <1>23, <1>accepted, <1>typed DEF Join, Locked, TypeOK
    <2>4. CASE End(r)
      BY <2>1, <2>2, <2>3, <2>4, Ended, IdleFields DEF Locked, IsMember, Target, At
    <2>5. CASE EndPromoting(r, Target(r), req[r].role)
      BY <2>1, <2>2, <2>3, <2>5, EndedPromoting, IdleFields DEF Locked, IsMember, Target, At
    <2> QED
      BY <1>23, <2>4, <2>5 DEF Join
  <1>sso. ASSUME NEW r \in Requests, NEW s, At(r, "revive") \/ At(r, "create"), UNCHANGED <<invitation, out>>,
                 status' \in {status, [status EXCEPT ![Target(r)] = s]},
                 End(r) \/ GoTo(r, "role")
          PROVE  P
    <2>1. Target(r) \notin out
      BY <1>sso, <1>inside, <1>typed DEF At, OnCourse, OpsAt
    <2>2. \A p \in out : status'[p] = status[p]
      BY <1>sso, <2>1, <1>typed DEF TypeOK
    <2>3. CASE End(r)
      BY <1>sso, <2>2, <2>3, Ended, IdleFields DEF Locked, IsMember, Target, At
    <2>4. CASE GoTo(r, "role")
      BY <1>sso, <2>1, <2>2, <2>4, Went DEF Locked, IsMember, Target, At
    <2> QED
      BY <1>sso, <2>3, <2>4
  <1>24. ASSUME NEW r \in Requests, Revive(r) PROVE P
    BY <1>24, <1>sso DEF Revive, history
  <1>25. ASSUME NEW r \in Requests, CreateMember(r) PROVE P
    BY <1>25, <1>sso DEF CreateMember, history
  <1>26. ASSUME NEW r \in Requests, CreateRole(r) PROVE P
    BY <1>26, <1>end DEF CreateRole, history
  <1>27. ASSUME NEW r \in Requests, Die(r) PROVE P
    BY <1>27, <1>end DEF Die, Reads, history
  <1>30. ASSUME NEW r \in Requests, NEW by \in Context, NEW role \in Custom, NEW new \in {role, "OWNER"},
                UpdateRole(r, by, role, new) PROVE P
    BY <1>30, <1>begin DEF UpdateRole, Idle
  <1>31. ASSUME NEW r \in Requests, CheckName(r) PROVE P
    BY <1>31, <1>read DEF CheckName, At, Places
  <1>32. ASSUME NEW r \in Requests, Rename(r) PROVE P
    BY <1>32, <1>end DEF Rename, history
  <1>28. ASSUME NEW p \in People, Expire(p) PROVE P
    <2>1. \A x \in out : invitation'[x].state # "open"
      BY <1>28, <1>typed DEF Expire, Locked, TypeOK, Invited
    <2> QED
      BY <1>28, <2>1 DEF Expire, history, Locked, IsMember, Target, At
  <1> HIDE DEF P
  <1>29. Next => P
    BY <1>1, <1>2, <1>3, <1>4, <1>5, <1>6, <1>7, <1>8, <1>9, <1>10, <1>11, <1>12, <1>13, <1>14, <1>15,
       <1>16, <1>17, <1>18, <1>19, <1>20, <1>21, <1>22, <1>23, <1>24, <1>25, <1>26, <1>27, <1>28, <1>30, <1>31, <1>32,
       <1>typed, NextCases
  <1> QED
    BY <1>0, <1>29 DEF P

\* Who was removed is let in again only by a new invitation or by signing on:
\* acceptInvitation refuses the link he came by.
THEOREM StaysOut == Spec => []RemovedStaysOut
  <1>1. Init => Locked
    BY DEF Init, Locked
  <1>2. Locked => RemovedStaysOut
    BY DEF Locked, RemovedStaysOut
  <1> QED
    BY InitTyped, NextTyped, LockedNext, <1>1, <1>2, PTL DEF Spec

-----------------------------------------------------------------------------
(***************************************************************************)
(* An active Owner stays.                                                  *)
(***************************************************************************)

\* Of two people one is not the target.
LEMMA Another ==
    ASSUME TypeOK, NEW S \in SUBSET People, Cardinality(S) > 1, NEW q
    PROVE  \E p \in S : p # q
  <1>1. IsFiniteSet(S)
    BY PeopleAssumption, FS_Subset
  <1>2. ASSUME \A p \in S : p = q PROVE FALSE
    <2>1. S \subseteq {q}
      BY <1>2
    <2>2. IsFiniteSet({q}) /\ Cardinality({q}) = 1
      BY FS_Singleton
    <2>3. Cardinality(S) \in Nat /\ Cardinality(S) <= 1
      BY <2>1, <2>2, <1>1, FS_Subset, FS_CardinalityType
    <2> QED
      BY <2>3
  <1> QED
    BY <1>2

LEMMA KeptNext == Typed /\ (~raced => Kept) /\ [Next]_vars => (~raced' => Kept')
  <1> SUFFICES ASSUME Typed, ~raced => Kept, [Next]_vars PROVE ~raced' => Kept'
    OBVIOUS
  <1> DEFINE P == ~raced' => Kept'
  <1>typed. TypeOK /\ OnCourse
    BY DEF Typed
  <1>people. Active \in SUBSET People /\ Owners \in SUBSET People
    BY DEF Active, Owners
  <1>idle. ~RemovesOwnership(Idle)
    BY IdleFields DEF RemovesOwnership
  <1>0. CASE UNCHANGED vars
    BY <1>0 DEF vars, Kept, Active, Owners, Sure, RemovesOwnership, At, Target
  <1>begin. ASSUME NEW r \in Requests, NEW q, Begin(r, q), q.at \notin {"owners", "total", "write"}
            PROVE  P
    <2>1. /\ req'[r] = q /\ \A x \in Requests : x # r => req'[x] = req[x]
          /\ Active' = Active /\ Owners' = Owners
          /\ ~raced' => ~raced /\ (RemovesOwnership(q) => \A x \in Requests : ~RemovesOwnership(req[x]))
      BY <1>begin, Began DEF Active, Owners
    <2>2. SUFFICES ASSUME ~raced' PROVE Kept'
      OBVIOUS
    <2>3. Kept
      BY <2>1, <2>2
    <2>4. \A x, y \in Requests : RemovesOwnership(req'[x]) /\ RemovesOwnership(req'[y]) => x = y
      BY <2>1, <2>2, <2>3 DEF Kept
    <2> QED
      BY <1>begin, <2>1, <2>3, <2>4 DEF Kept, Sure, At, Target, RemovesOwnership
  <1>calm. ASSUME Active \subseteq Active', Active \cap Owners \subseteq Owners', UNCHANGED raced,
                  \A x \in Requests : RemovesOwnership(req'[x]) =>
                     /\ RemovesOwnership(req[x]) /\ req'[x].target = req[x].target
                     /\ \/ req'[x].at = req[x].at /\ req'[x].seen = req[x].seen
                        \/ req'[x].at = "write" /\ Sure(x)
                        \/ req'[x].at \notin {"owners", "total", "write"}
           PROVE  P
    <2> SUFFICES ASSUME ~raced' PROVE Kept'
      OBVIOUS
    <2>1. Kept
      BY <1>calm
    <2>2. (Active \cap Owners)' # {}
      BY <1>calm, <2>1 DEF Kept
    <2>3. \A x, y \in Requests : RemovesOwnership(req'[x]) /\ RemovesOwnership(req'[y]) => x = y
      BY <1>calm, <2>1 DEF Kept
    <2>4. ASSUME NEW x \in Requests, RemovesOwnership(req'[x]), req'[x].at = "owners"
          PROVE  req'[x].seen \subseteq Active'
      BY <1>calm, <2>1, <2>4 DEF Kept, At
    <2>5. ASSUME NEW x \in Requests, Sure(x)'
          PROVE  \E p \in (Active \cap Owners)' : p # req'[x].target
      <3>1. Sure(x) /\ req'[x].target = req[x].target
        BY <1>calm, <2>5 DEF Sure, RemovesOwnership
      <3> QED
        BY <1>calm, <2>1, <3>1 DEF Kept, Target
    <2> QED
      BY <2>2, <2>3, <2>4, <2>5 DEF Kept, At, Target, RemovesOwnership
  <1>end. ASSUME NEW r \in Requests, End(r), Active \subseteq Active', Active \cap Owners \subseteq Owners',
                 UNCHANGED raced
          PROVE  P
    BY <1>end, <1>calm, <1>idle, Ended
  <1>promote. ASSUME NEW r \in Requests, NEW p, NEW role, EndPromoting(r, p, role), Active \subseteq Active',
                     Active \cap Owners \subseteq Owners', UNCHANGED raced
              PROVE  P
    <2>1. \A x \in Requests : x # r => (RemovesOwnership(req'[x]) => RemovesOwnership(req[x]))
      BY <1>promote, EndedPromoting DEF RemovesOwnership
    <2> QED
      BY <1>promote, <1>calm, <1>idle, <2>1, EndedPromoting
  <1>read. ASSUME NEW r \in Requests, Reads,
                  \/ End(r)
                  \/ GoTo(r, "write") /\ Sure(r)
                  \/ \E place \in Places : /\ GoTo(r, place)
                                           /\ RemovesOwnership(req[r]) => place \notin {"owners", "total", "write"}
           PROVE  P
    <2>1. UNCHANGED <<Active, Owners, raced>>
      BY <1>read DEF Reads, history, Active, Owners
    <2>2. ASSUME NEW place, GoTo(r, place) PROVE RemovesOwnership(req'[r]) <=> RemovesOwnership(req[r])
      BY <2>2, Went DEF RemovesOwnership
    <2> QED
      BY <1>read, <1>calm, <1>end, <2>1, <2>2, Went
  <1>threat. ASSUME NEW r \in Requests, Sure(r), End(r), UNCHANGED raced,
                    \A p \in Active \cap Owners : p # Target(r) => p \in (Active \cap Owners)'
             PROVE  P
    <2> SUFFICES ASSUME ~raced' PROVE Kept'
      OBVIOUS
    <2>1. Kept
      BY <1>threat
    <2>2. \A x \in Requests : ~RemovesOwnership(req'[x])
      BY <1>threat, <2>1, <1>idle, Ended DEF Kept, Sure
    <2>3. (Active \cap Owners)' # {}
      BY <1>threat, <2>1 DEF Kept
    <2> QED
      BY <2>2, <2>3 DEF Kept, Sure, RemovesOwnership
  <1>1. ASSUME NEW r \in Requests, NEW p \in People, AcceptInvitation(r, p) PROVE P
    BY <1>1, <1>begin DEF AcceptInvitation, Idle
  <1>2. ASSUME NEW r \in Requests, NEW p \in People, SignOn(r, p) PROVE P
    BY <1>2, <1>begin DEF SignOn, Idle
  <1>manage. ASSUME NEW r \in Requests, NEW by, NEW op, NEW p, NEW role, NEW s,
                    Manage(r, by, op, p, role, s)
             PROVE  P
    BY <1>manage, <1>begin DEF Manage, Idle
  <1>3. ASSUME NEW r \in Requests, NEW p \in People, NEW by \in Context, RemoveMember(r, by, p) PROVE P
    BY <1>3, <1>manage DEF RemoveMember
  <1>4. ASSUME NEW r \in Requests, NEW p \in People, NEW by \in Context, NEW s \in Statuses,
               UpdateMember(r, by, p, s) PROVE P
    BY <1>4, <1>manage DEF UpdateMember
  <1>5. ASSUME NEW r \in Requests, NEW p \in People, NEW by \in Context, NEW role \in Given,
               AssignRole(r, by, p, role) PROVE P
    BY <1>5, <1>manage DEF AssignRole
  <1>6. ASSUME NEW r \in Requests, NEW p \in People, NEW by \in Context, NEW role \in Given,
               RevokeRole(r, by, p, role) PROVE P
    BY <1>6, <1>manage DEF RevokeRole
  <1>7. ASSUME NEW r \in Requests, NEW p \in People, NEW by \in Context, NEW role \in Given,
               CreateInvitation(r, by, p, role) PROVE P
    BY <1>7, <1>begin DEF CreateInvitation, Idle
  <1>8. ASSUME NEW r \in Requests, Look(r) PROVE P
    <2>1. CASE Target(r) \in Owners \/ ~RemovesOwnership(req[r])
      BY <1>8, <2>1, <1>read DEF Look, Allowed, At, Places
    <2>2. CASE Target(r) \notin Owners /\ RemovesOwnership(req[r])
      <3> SUFFICES ASSUME ~raced' PROVE Kept'
        OBVIOUS
      <3>1. UNCHANGED <<Active, Owners, raced>>
        BY <1>8 DEF Look, Reads, history, Active, Owners
      <3>2. GoTo(r, "total") \/ GoTo(r, "write")
        BY <1>8, <2>2 DEF Look, Allowed
      <3>3. /\ RemovesOwnership(req'[r]) /\ req'[r].target = req[r].target /\ req'[r].at # "owners"
            /\ \A x \in Requests : x # r => req'[x] = req[x]
        BY <2>2, <3>2, Went DEF RemovesOwnership
      <3>4. Kept
        BY <3>1
      <3>5. \E p \in (Active \cap Owners)' : p # req'[r].target
        BY <2>2, <3>1, <3>3, <3>4 DEF Kept, Target
      <3>6. \A x, y \in Requests : RemovesOwnership(req'[x]) /\ RemovesOwnership(req'[y]) => x = y
        BY <2>2, <3>3, <3>4 DEF Kept
      <3>7. (Active \cap Owners)' # {}
        BY <3>1, <3>4 DEF Kept
      <3>8. \A x \in Requests : RemovesOwnership(req'[x]) /\ req'[x].at = "owners" => req'[x].seen \subseteq Active'
        BY <3>1, <3>3, <3>4 DEF Kept, At
      <3>9. \A x \in Requests : Sure(x)' => \E p \in (Active \cap Owners)' : p # req'[x].target
        BY <3>1, <3>3, <3>4, <3>5 DEF Kept, Sure, Target, RemovesOwnership
      <3> QED
        BY <3>6, <3>7, <3>8, <3>9 DEF Kept, At, Target, RemovesOwnership
    <2> QED
      BY <2>1, <2>2
  <1>9. ASSUME NEW r \in Requests, ReadActive(r) PROVE P
    <2> SUFFICES ASSUME ~raced' PROVE Kept'
      OBVIOUS
    <2> DEFINE q == [req[r] EXCEPT !.at = "owners", !.seen = Active]
    <2>1. req' = [req EXCEPT ![r] = q] /\ UNCHANGED <<Active, Owners, raced>>
      BY <1>9 DEF ReadActive, Reads, history, Active, Owners
    <2>2. /\ q.op = req[r].op /\ q.status = req[r].status /\ q.role = req[r].role /\ q.target = req[r].target
          /\ q.at = "owners" /\ q.seen = Active
      BY <1>typed DEF TypeOK, RequestSet
    <2> HIDE DEF q
    <2>3. req'[r] = q /\ \A x \in Requests : x # r => req'[x] = req[x]
      BY <2>1, <1>typed DEF TypeOK
    <2>4. Kept
      BY <2>1
    <2>5. \A x \in Requests : RemovesOwnership(req'[x]) <=> RemovesOwnership(req[x])
      BY <2>2, <2>3 DEF RemovesOwnership
    <2>6. \A x \in Requests : RemovesOwnership(req'[x]) /\ req'[x].at = "owners" => req'[x].seen \subseteq Active'
      BY <2>1, <2>2, <2>3, <2>4, <2>5 DEF Kept, At
    <2>7. \A x \in Requests : Sure(x)' => \E p \in (Active \cap Owners)' : p # req'[x].target
      BY <2>1, <2>2, <2>3, <2>4 DEF Kept, Sure, Target, RemovesOwnership
    <2>8. (Active \cap Owners)' # {} /\ \A x, y \in Requests : RemovesOwnership(req'[x]) /\ RemovesOwnership(req'[y]) => x = y
      BY <2>1, <2>4, <2>5 DEF Kept
    <2> QED
      BY <2>6, <2>7, <2>8 DEF Kept, At, Target, RemovesOwnership
  <1>10. ASSUME NEW r \in Requests, CountOwners(r) PROVE P
    <2>1. CASE End(r)
      BY <1>10, <2>1, <1>read DEF CountOwners
    <2>2. CASE ~RemovesOwnership(req[r])
      BY <1>10, <2>2, <1>read DEF CountOwners, Allowed, Places
    <2>3. CASE ~End(r) /\ RemovesOwnership(req[r])
      <3> SUFFICES ASSUME ~raced' PROVE Kept'
        OBVIOUS
      <3>1. UNCHANGED <<Active, Owners, raced>> /\ At(r, "owners")
        BY <1>10 DEF CountOwners, Reads, history, Active, Owners
      <3>2. (GoTo(r, "total") \/ GoTo(r, "write")) /\ ~(Cardinality(req[r].seen \cap Owners) <= 1)
        BY <1>10, <2>3 DEF CountOwners, Allowed
      <3>3. /\ RemovesOwnership(req'[r]) /\ req'[r].target = req[r].target /\ req'[r].at # "owners"
            /\ \A x \in Requests : x # r => req'[x] = req[x]
        BY <2>3, <3>2, Went DEF RemovesOwnership
      <3>4. Kept
        BY <3>1
      <3>5. \E p \in (Active \cap Owners)' : p # req'[r].target
        <4>1. req[r].seen \subseteq Active /\ req[r].seen \cap Owners \in SUBSET People
          BY <2>3, <3>1, <3>4, <1>people DEF Kept
        <4>2. Cardinality(req[r].seen \cap Owners) \in Nat
          BY <4>1, PeopleAssumption, FS_Subset, FS_CardinalityType
        <4>3. PICK p \in req[r].seen \cap Owners : p # req[r].target
          BY <4>1, <4>2, <3>2, <1>typed, Another
        <4> QED
          BY <4>1, <4>3, <3>1, <3>3
      <3>6. \A x, y \in Requests : RemovesOwnership(req'[x]) /\ RemovesOwnership(req'[y]) => x = y
        BY <2>3, <3>3, <3>4 DEF Kept
      <3>7. (Active \cap Owners)' # {}
        BY <3>1, <3>4 DEF Kept
      <3>8. \A x \in Requests : RemovesOwnership(req'[x]) /\ req'[x].at = "owners" => req'[x].seen \subseteq Active'
        BY <3>1, <3>3, <3>4 DEF Kept, At
      <3>9. \A x \in Requests : Sure(x)' => \E p \in (Active \cap Owners)' : p # req'[x].target
        BY <3>1, <3>3, <3>4, <3>5 DEF Kept, Sure, Target, RemovesOwnership
      <3> QED
        BY <3>6, <3>7, <3>8, <3>9 DEF Kept, At, Target, RemovesOwnership
    <2> QED
      BY <2>1, <2>2, <2>3
  <1>11. ASSUME NEW r \in Requests, CountMembers(r) PROVE P
    <2>1. Sure(r)
      BY <1>11, <1>typed DEF CountMembers, At, OnCourse, OpsAt, Sure, RemovesOwnership
    <2> QED
      BY <1>11, <2>1, <1>read DEF CountMembers
  <1>12. ASSUME NEW r \in Requests, WriteStatus(r) PROVE P
    <2>1. UNCHANGED <<raced, Owners>> /\ End(r)
      BY <1>12 DEF WriteStatus, history, Owners
    <2>2. CASE req[r].status = "ACTIVE"
      <3>1. Active \subseteq Active'
        BY <1>12, <2>2, <1>typed DEF WriteStatus, Active, TypeOK
      <3> QED
        BY <2>1, <3>1, <1>end
    <2>3. CASE req[r].status # "ACTIVE"
      <3>1. Sure(r)
        BY <1>12, <2>3 DEF WriteStatus, At, Sure, RemovesOwnership
      <3>2. \A p \in Active : p # Target(r) => p \in Active'
        BY <1>12, <1>typed DEF WriteStatus, Active, TypeOK
      <3> QED
        BY <2>1, <3>1, <3>2, <1>threat
    <2> QED
      BY <2>2, <2>3
  <1>13. ASSUME NEW r \in Requests, Delete(r) PROVE P
    <2>1. UNCHANGED raced /\ End(r) /\ Sure(r)
      BY <1>13 DEF Delete, At, Sure, RemovesOwnership
    <2>2. \A p \in Active \cap Owners : p # Target(r) => p \in (Active \cap Owners)'
      BY <1>13, <1>typed DEF Delete, Active, Owners, TypeOK
    <2> QED
      BY <2>1, <2>2, <1>threat
  <1>14. ASSUME NEW r \in Requests, Assign(r) PROVE P
    <2>1. UNCHANGED <<Active, raced>> /\ Owners \subseteq Owners'
      BY <1>14, <1>typed DEF Assign, history, Active, Owners, TypeOK
    <2> QED
      BY <1>14, <2>1, <1>end, <1>promote DEF Assign
  <1>15. ASSUME NEW r \in Requests, Revoke(r) PROVE P
    <2>1. UNCHANGED <<Active, raced>> /\ End(r)
      BY <1>15 DEF Revoke, history, Active
    <2>2. CASE req[r].role = "OWNER"
      <3>1. Sure(r)
        BY <1>15, <2>2 DEF Revoke, At, Sure, RemovesOwnership
      <3>2. \A p \in Owners : p # Target(r) => p \in Owners'
        BY <1>15, <1>typed DEF Revoke, Owners, TypeOK
      <3> QED
        BY <2>1, <3>1, <3>2, <1>threat
    <2>3. CASE req[r].role # "OWNER"
      <3>1. Owners \subseteq Owners'
        BY <1>15, <2>3, <1>typed DEF Revoke, Owners, TypeOK
      <3> QED
        BY <2>1, <3>1, <1>end
    <2> QED
      BY <2>2, <2>3
  <1>16. ASSUME NEW r \in Requests, CheckSeats(r) PROVE P
    BY <1>16, <1>read DEF CheckSeats, At, Places
  <1>17. ASSUME NEW r \in Requests, CheckPending(r) PROVE P
    BY <1>17, <1>read DEF CheckPending, At, Places
  <1>18. ASSUME NEW r \in Requests, CheckMember(r) PROVE P
    BY <1>18, <1>read DEF CheckMember, At, Places
  <1>19. ASSUME NEW r \in Requests, Insert(r) PROVE P
    BY <1>19, <1>end DEF Insert, Active, Owners
  <1>20. ASSUME NEW r \in Requests, ReadInvitation(r) PROVE P
    <2> DEFINE i == invitation[Target(r)]
               q == [req[r] EXCEPT !.at = "place", !.role = i.role, !.nr = i.nr, !.context = i.by]
    <2>1. UNCHANGED <<Active, Owners, raced>>
      BY <1>20 DEF ReadInvitation, Reads, history, Active, Owners
    <2>2. q.op = "accept"
      BY <1>20, <1>typed DEF TypeOK, RequestSet, OnCourse, OpsAt, ReadInvitation, At
    <2>3. ~RemovesOwnership(q)
      BY <2>2 DEF RemovesOwnership
    <2>4. req' = [req EXCEPT ![r] = q] \/ req' = [req EXCEPT ![r] = Idle]
      BY <1>20 DEF ReadInvitation
    <2> HIDE DEF q
    <2> QED
      BY <2>1, <2>3, <2>4, <1>calm, <1>idle, <1>typed DEF TypeOK
  <1>21. ASSUME NEW r \in Requests, FindPlace(r) PROVE P
    BY <1>21, <1>read DEF FindPlace, At, Places
  <1>22. ASSUME NEW r \in Requests, MarkAccepted(r) PROVE P
    BY <1>22, <1>end DEF MarkAccepted, history, Active, Owners
  <1>23. ASSUME NEW r \in Requests, Join(r) PROVE P
    <2>1. UNCHANGED raced
      BY <1>23 DEF Join, history
    <2>2. Active \subseteq Active' /\ Active \cap Owners \subseteq Owners'
      BY <1>23, <1>typed DEF Join, IsMember, Active, Owners, TypeOK
    <2> QED
      BY <1>23, <2>1, <2>2, <1>end, <1>promote DEF Join
  <1>24. ASSUME NEW r \in Requests, Revive(r) PROVE P
    <2>1. Active \subseteq Active' /\ UNCHANGED <<Owners, raced>>
      BY <1>24, <1>typed DEF Revive, history, Active, Owners, TypeOK
    <2> QED
      BY <1>24, <2>1, <1>end DEF Revive
  <1>25. ASSUME NEW r \in Requests, CreateMember(r) PROVE P
    <2>1. Active \subseteq Active' /\ UNCHANGED <<Owners, raced>>
      BY <1>25, <1>typed DEF CreateMember, history, Active, Owners, TypeOK
    <2>2. ~RemovesOwnership(req[r])
      BY <1>25, <1>typed DEF CreateMember, At, OnCourse, OpsAt, RemovesOwnership
    <2>3. CASE GoTo(r, "role")
      <3>1. ~RemovesOwnership(req'[r]) /\ \A x \in Requests : x # r => req'[x] = req[x]
        BY <2>2, <2>3, Went DEF RemovesOwnership
      <3> QED
        BY <2>1, <3>1, <1>calm
    <2> QED
      BY <1>25, <2>1, <2>3, <1>end DEF CreateMember
  <1>26. ASSUME NEW r \in Requests, CreateRole(r) PROVE P
    <2>1. Owners \subseteq Owners' /\ UNCHANGED <<Active, raced>>
      BY <1>26, <1>typed DEF CreateRole, history, Active, Owners, TypeOK
    <2> QED
      BY <1>26, <2>1, <1>end DEF CreateRole
  <1>27. ASSUME NEW r \in Requests, Die(r) PROVE P
    BY <1>27, <1>read DEF Die
  <1>30. ASSUME NEW r \in Requests, NEW by \in Context, NEW role \in Custom, NEW new \in {role, "OWNER"},
                UpdateRole(r, by, role, new) PROVE P
    BY <1>30, <1>begin DEF UpdateRole, Idle
  <1>31. ASSUME NEW r \in Requests, CheckName(r) PROVE P
    BY <1>31, <1>read DEF CheckName, At, Places
  <1>32. ASSUME NEW r \in Requests, Rename(r) PROVE P
    BY <1>32, <1>end DEF Rename, history, Active, Owners
  <1>28. ASSUME NEW p \in People, Expire(p) PROVE P
    <2>1. UNCHANGED <<Active, Owners, raced, req>>
      BY <1>28 DEF Expire, history, Active, Owners
    <2> QED
      BY <2>1, <1>calm
  <1> HIDE DEF P
  <1>29. Next => P
    BY <1>1, <1>2, <1>3, <1>4, <1>5, <1>6, <1>7, <1>8, <1>9, <1>10, <1>11, <1>12, <1>13, <1>14, <1>15,
       <1>16, <1>17, <1>18, <1>19, <1>20, <1>21, <1>22, <1>23, <1>24, <1>25, <1>26, <1>27, <1>28, <1>30, <1>31, <1>32,
       <1>typed, NextCases
  <1> QED
    BY <1>0, <1>29 DEF P

\* "A workspace always keeps one active Owner" of assertCanManageMember, as long
\* as two requests that may take one away do not overlap.
THEOREM OwnerStays == Spec => []OwnerIsKept
  <1>1. Init => (~raced => Kept)
    <2> SUFFICES ASSUME Init PROVE Kept
      OBVIOUS
    <2>1. Founder \in Active \cap Owners
      BY PeopleAssumption DEF Init, Active, Owners
    <2>2. \A r \in Requests : ~RemovesOwnership(req[r])
      BY IdleFields DEF Init, RemovesOwnership
    <2> QED
      BY <2>1, <2>2 DEF Kept, Sure
  <1>2. (~raced => Kept) => OwnerIsKept
    BY DEF Kept, OwnerIsKept
  <1> QED
    BY InitTyped, NextTyped, KeptNext, <1>1, <1>2, PTL DEF Spec

-----------------------------------------------------------------------------
(***************************************************************************)
(* Ownership is the Owners' affair.                                        *)
(***************************************************************************)
Changing == {"active", "owners", "total", "write"}

\* Who makes p an Owner is entitled to, and who takes that away is taken for an Owner,
\* or met him before he was one.
Authorised(r, p) ==
    IF p \in Active' \cap Owners'
    THEN IsOwner(req[r].context) /\ Permissions \subseteq req[r].context.permissions
    ELSE IsOwner(req[r].context) \/ req[r].promoted

\* Who grants the role of Owner is entitled to; an Owner is.
LEMMA EntitledGrant == ASSUME NEW by, NEW role, CanGrant(by, role), role = "OWNER" PROVE Entitled(by)
  BY DEF CanGrant, Entitled, PermissionsOf

LEMMA OwnerEntitled == Entitled(ContextOf({"OWNER"}))
  <1>1. Label("OWNER") = "OWNER" /\ PermissionsOf("OWNER") = Permissions
    BY RolesAssumption DEF Label, PermissionsOf
  <1>2. "OWNER" \in {Label(role) : role \in {"OWNER"}}
    BY <1>1
  <1>3. Permissions \subseteq UNION {PermissionsOf(role) : role \in {"OWNER"}}
    BY <1>1
  <1> QED
    BY <1>2, <1>3 DEF Entitled, IsOwner, ContextOf

LEMMA GivenNext == Typed /\ GivenByOwners /\ [Next]_vars => GivenByOwners'
  <1> SUFFICES ASSUME Typed, GivenByOwners, [Next]_vars PROVE GivenByOwners'
    OBVIOUS
  <1> DEFINE P == GivenByOwners'
             Grants == {"assign", "revoke", "invite", "accept"}
  <1>typed. TypeOK /\ OnCourse
    BY DEF Typed
  <1>given. /\ \A p \in People : invitation[p].role = "OWNER" => Entitled(invitation[p].by)
            /\ \A x \in Requests : req[x].op \in Grants /\ req[x].role = "OWNER" => Entitled(req[x].context)
            /\ \A x \in Requests : req[x].at \in Changing /\ req[x].target \in Owners
                                      => IsOwner(req[x].context) \/ req[x].promoted
    BY DEF GivenByOwners, Target, Changing
  <1>goal. ASSUME \A p \in People : invitation'[p].role = "OWNER" => Entitled(invitation'[p].by),
                  \A x \in Requests : req'[x].op \in Grants /\ req'[x].role = "OWNER" => Entitled(req'[x].context),
                  \A x \in Requests : req'[x].at \in Changing /\ req'[x].target \in Owners'
                                         => IsOwner(req'[x].context) \/ req'[x].promoted
           PROVE  P
    BY <1>goal DEF GivenByOwners, Target, Changing
  <1> HIDE DEF P
  <1>0. ASSUME UNCHANGED vars PROVE P
    <2>1. Owners' = Owners /\ UNCHANGED <<invitation, req>>
      BY <1>0 DEF vars, Owners
    <2> QED
      BY <2>1, <1>goal, <1>given
  <1>begin. ASSUME NEW r \in Requests, NEW q, Begin(r, q), q.at \notin Changing,
                   q.op \in Grants /\ q.role = "OWNER" => Entitled(q.context)
            PROVE  P
    <2>1. Owners' = Owners
      BY <1>begin, Began DEF Owners
    <2> QED
      BY <1>begin, <1>goal, <1>given, <2>1, Began
  <1>calm. ASSUME Owners' \subseteq Owners,
                  \A p \in People : /\ invitation'[p].role = invitation[p].role
                                    /\ invitation'[p].by = invitation[p].by,
                  NEW r \in Requests,
                  \/ req'[r] = Idle
                  \/ /\ req'[r].op = req[r].op /\ req'[r].role = req[r].role /\ req'[r].context = req[r].context
                     /\ req'[r].target = req[r].target /\ req'[r].promoted = req[r].promoted
                     /\ req'[r].at \in Changing => \/ req[r].at \in Changing \/ req[r].target \notin Owners
                                                   \/ IsOwner(req[r].context),
                  \A x \in Requests : x # r => req'[x] = req[x]
           PROVE  P
    <2>1. \A p \in People : invitation'[p].role = "OWNER" => Entitled(invitation'[p].by)
      BY <1>calm, <1>given
    <2>2. \A x \in Requests : req'[x].op \in Grants /\ req'[x].role = "OWNER" => Entitled(req'[x].context)
      BY <1>calm, <1>given, IdleFields
    <2>3. \A x \in Requests : req'[x].at \in Changing /\ req'[x].target \in Owners'
                                 => IsOwner(req'[x].context) \/ req'[x].promoted
      BY <1>calm, <1>given, IdleFields DEF Changing
    <2> QED
      BY <2>1, <2>2, <2>3, <1>goal
  <1>end. ASSUME NEW r \in Requests, End(r), Owners' \subseteq Owners,
                 \A p \in People : /\ invitation'[p].role = invitation[p].role
                                   /\ invitation'[p].by = invitation[p].by
          PROVE  P
    BY <1>end, <1>calm, Ended
  <1>read. ASSUME NEW r \in Requests, Reads,
                  \/ End(r)
                  \/ \E place : /\ GoTo(r, place)
                                /\ place \in Changing => \/ req[r].at \in Changing \/ req[r].target \notin Owners
                                                         \/ IsOwner(req[r].context)
           PROVE  P
    <2>1. Owners' = Owners /\ UNCHANGED invitation
      BY <1>read DEF Reads, Owners
    <2>2. CASE End(r)
      BY <2>1, <2>2, <1>end
    <2>3. ASSUME NEW place, GoTo(r, place),
                 place \in Changing => req[r].at \in Changing \/ req[r].target \notin Owners \/ IsOwner(req[r].context)
          PROVE  P
      BY <2>1, <2>3, <1>calm, Went
    <2> QED
      BY <1>read, <2>2, <2>3
  <1>promote. ASSUME NEW r \in Requests, NEW p, NEW role, EndPromoting(r, p, role),
                     Owners' \subseteq IF role = "OWNER" THEN Owners \cup {p} ELSE Owners,
                     \A y \in People : /\ invitation'[y].role = invitation[y].role
                                       /\ invitation'[y].by = invitation[y].by
              PROVE  P
    <2>1. ASSUME NEW x \in Requests, req'[x].op \in Grants, req'[x].role = "OWNER"
          PROVE  Entitled(req'[x].context)
      BY <1>promote, <2>1, <1>given, IdleFields, EndedPromoting
    <2>2. ASSUME NEW x \in Requests, req'[x].at \in Changing, req'[x].target \in Owners'
          PROVE  IsOwner(req'[x].context) \/ req'[x].promoted
      <3>1. x # r
        BY <1>promote, <2>2, IdleFields, EndedPromoting DEF Changing
      <3>2. Busy(x)
        BY <1>promote, <2>2, <3>1, EndedPromoting, <1>typed DEF Busy, OnCourse, OpsAt, Changing, Managing
      <3> QED
        BY <1>promote, <2>2, <3>1, <3>2, <1>given, EndedPromoting
    <2> QED
      BY <1>promote, <1>goal, <1>given, <2>1, <2>2
  <1> HIDE DEF Grants
  <1>1. ASSUME NEW r \in Requests, NEW p \in People, AcceptInvitation(r, p) PROVE P
    BY <1>1, <1>begin DEF AcceptInvitation, Idle, Changing
  <1>2. ASSUME NEW r \in Requests, NEW p \in People, SignOn(r, p) PROVE P
    BY <1>2, <1>begin DEF SignOn, Idle, Changing
  <1>manage. ASSUME NEW r \in Requests, NEW by, NEW op, NEW p, NEW role, NEW s,
                    Manage(r, by, op, p, role, s), role = "OWNER" => Entitled(by)
             PROVE  P
    BY <1>manage, <1>begin DEF Manage, Idle, Changing
  <1>3. ASSUME NEW r \in Requests, NEW p \in People, NEW by \in Context, RemoveMember(r, by, p) PROVE P
    BY <1>3, <1>manage DEF RemoveMember
  <1>4. ASSUME NEW r \in Requests, NEW p \in People, NEW by \in Context, NEW s \in Statuses,
               UpdateMember(r, by, p, s) PROVE P
    BY <1>4, <1>manage DEF UpdateMember
  <1>5. ASSUME NEW r \in Requests, NEW p \in People, NEW by \in Context, NEW role \in Given,
               AssignRole(r, by, p, role) PROVE P
    BY <1>5, <1>manage, EntitledGrant DEF AssignRole
  <1>6. ASSUME NEW r \in Requests, NEW p \in People, NEW by \in Context, NEW role \in Given,
               RevokeRole(r, by, p, role) PROVE P
    BY <1>6, <1>manage, EntitledGrant DEF RevokeRole
  <1>7. ASSUME NEW r \in Requests, NEW p \in People, NEW by \in Context, NEW role \in Given,
               CreateInvitation(r, by, p, role) PROVE P
    BY <1>7, <1>begin, EntitledGrant DEF CreateInvitation, Idle, Changing
  <1>8. ASSUME NEW r \in Requests, Look(r) PROVE P
    BY <1>8, <1>read DEF Look, Allowed, Target
  <1>9. ASSUME NEW r \in Requests, ReadActive(r) PROVE P
    <2> DEFINE q == [req[r] EXCEPT !.at = "owners", !.seen = Active]
    <2>1. req' = [req EXCEPT ![r] = q] /\ UNCHANGED <<Owners, invitation>>
      BY <1>9 DEF ReadActive, Reads, Owners
    <2>2. /\ q.op = req[r].op /\ q.role = req[r].role /\ q.context = req[r].context
          /\ q.target = req[r].target /\ q.promoted = req[r].promoted
      BY <1>typed DEF TypeOK, RequestSet
    <2>3. req[r].at \in Changing
      BY <1>9 DEF ReadActive, At, Changing
    <2> HIDE DEF q
    <2>4. req'[r] = q /\ \A x \in Requests : x # r => req'[x] = req[x]
      BY <2>1, <1>typed DEF TypeOK
    <2> QED
      BY <2>1, <2>2, <2>3, <2>4, <1>calm
  <1>10. ASSUME NEW r \in Requests, CountOwners(r) PROVE P
    BY <1>10, <1>read DEF CountOwners, Allowed, At, Changing
  <1>11. ASSUME NEW r \in Requests, CountMembers(r) PROVE P
    BY <1>11, <1>read DEF CountMembers, At, Changing
  <1>12. ASSUME NEW r \in Requests, WriteStatus(r) PROVE P
    BY <1>12, <1>end DEF WriteStatus, Owners
  <1>13. ASSUME NEW r \in Requests, Delete(r) PROVE P
    <2>1. Owners' \subseteq Owners
      BY <1>13, <1>typed DEF Delete, Owners, TypeOK
    <2> QED
      BY <1>13, <2>1, <1>end DEF Delete
  <1>14. ASSUME NEW r \in Requests, Assign(r) PROVE P
    <2>1. UNCHANGED invitation
      BY <1>14 DEF Assign
    <2>2. Owners' \subseteq IF req[r].role = "OWNER" THEN Owners \cup {Target(r)} ELSE Owners
      BY <1>14, <1>typed DEF Assign, Owners, TypeOK
    <2>3. CASE IsMember(Target(r))
      BY <1>14, <2>1, <2>2, <2>3, <1>promote DEF Assign
    <2>4. CASE ~IsMember(Target(r))
      BY <1>14, <2>1, <2>4, <1>end DEF Assign, Owners
    <2> QED
      BY <2>3, <2>4
  <1>15. ASSUME NEW r \in Requests, Revoke(r) PROVE P
    <2>1. Owners' \subseteq Owners
      BY <1>15, <1>typed DEF Revoke, Owners, TypeOK
    <2> QED
      BY <1>15, <2>1, <1>end DEF Revoke
  <1>16. ASSUME NEW r \in Requests, CheckSeats(r) PROVE P
    BY <1>16, <1>read DEF CheckSeats, Changing
  <1>17. ASSUME NEW r \in Requests, CheckPending(r) PROVE P
    BY <1>17, <1>read DEF CheckPending, Changing
  <1>18. ASSUME NEW r \in Requests, CheckMember(r) PROVE P
    BY <1>18, <1>read DEF CheckMember, Changing
  <1>19. ASSUME NEW r \in Requests, Insert(r) PROVE P
    <2>1. Owners' = Owners /\ End(r)
      BY <1>19 DEF Insert, Owners
    <2>2. req[r].role = "OWNER" => Entitled(req[r].context)
      BY <1>19, <1>given, <1>typed DEF Insert, At, OnCourse, OpsAt, Grants
    <2>3. CASE UNCHANGED invitation
      BY <2>1, <2>3, <1>end
    <2>4. CASE ~UNCHANGED invitation
      <3> DEFINE i == [nr |-> invitation[Target(r)].nr + 1, state |-> "open", role |-> req[r].role,
                       by |-> req[r].context]
      <3>1. invitation' = [invitation EXCEPT ![Target(r)] = i] /\ i.role = req[r].role /\ i.by = req[r].context
        BY <1>19, <2>4 DEF Insert
      <3> HIDE DEF i
      <3>2. \A p \in People : invitation'[p].role = "OWNER" => Entitled(invitation'[p].by)
        BY <2>2, <3>1, <1>given, <1>typed DEF TypeOK
      <3>3. \A x \in Requests : x = r \/ req'[x] = req[x]
        BY <2>1, Ended
      <3>4. req'[r] = Idle
        BY <2>1, Ended
      <3> QED
        BY <1>goal, <1>given, <2>1, <3>2, <3>3, <3>4, IdleFields DEF Changing
    <2> QED
      BY <2>3, <2>4
  <1>20. ASSUME NEW r \in Requests, ReadInvitation(r) PROVE P
    <2> DEFINE i == invitation[Target(r)]
               q == [req[r] EXCEPT !.at = "place", !.role = i.role, !.nr = i.nr, !.context = i.by]
    <2>1. UNCHANGED <<Owners, invitation>>
      BY <1>20 DEF ReadInvitation, Reads, Owners
    <2>2. CASE End(r)
      BY <2>1, <2>2, <1>end
    <2>3. CASE req' = [req EXCEPT ![r] = q]
      <3>1. q.role = i.role /\ q.context = i.by /\ q.at = "place"
        BY <1>typed DEF TypeOK, RequestSet
      <3>2. i.role = "OWNER" => Entitled(i.by)
        BY <1>given, <1>typed DEF TypeOK, RequestSet, Target
      <3> HIDE DEF i, q
      <3>3. req'[r] = q /\ \A x \in Requests : x # r => req'[x] = req[x]
        BY <2>3, <1>typed DEF TypeOK
      <3> QED
        BY <1>goal, <1>given, <2>1, <3>1, <3>2, <3>3 DEF Changing
    <2> QED
      BY <1>20, <2>2, <2>3 DEF ReadInvitation, End
  <1>21. ASSUME NEW r \in Requests, FindPlace(r) PROVE P
    BY <1>21, <1>read DEF FindPlace, Changing
  <1>accepted. ASSUME NEW r \in Requests, NEW p \in People
               PROVE  Accepted(r)[p].role = invitation[p].role /\ Accepted(r)[p].by = invitation[p].by
    BY <1>typed DEF Accepted, TypeOK, Invited
  <1>22. ASSUME NEW r \in Requests, MarkAccepted(r) PROVE P
    <2>1. Owners' = Owners
      BY <1>22 DEF MarkAccepted, Owners
    <2> QED
      BY <1>22, <2>1, <1>end, <1>accepted DEF MarkAccepted
  <1>23. ASSUME NEW r \in Requests, Join(r) PROVE P
    <2>1. Owners' \subseteq IF req[r].role = "OWNER" THEN Owners \cup {Target(r)} ELSE Owners
      BY <1>23, <1>typed DEF Join, Owners, TypeOK
    <2>2. CASE IsMember(Target(r))
      BY <1>23, <2>2, <1>end DEF Join, Owners
    <2>3. CASE ~IsMember(Target(r))
      BY <1>23, <2>1, <2>3, <1>promote, <1>accepted DEF Join
    <2> QED
      BY <2>2, <2>3
  <1>24. ASSUME NEW r \in Requests, Revive(r) PROVE P
    BY <1>24, <1>end DEF Revive, Owners
  <1>25. ASSUME NEW r \in Requests, CreateMember(r) PROVE P
    <2>1. Owners' = Owners /\ UNCHANGED invitation
      BY <1>25 DEF CreateMember, Owners
    <2>2. CASE End(r)
      BY <2>1, <2>2, <1>end
    <2>3. CASE GoTo(r, "role")
      BY <2>1, <2>3, <1>calm, Went DEF Changing
    <2> QED
      BY <1>25, <2>2, <2>3 DEF CreateMember
  <1>26. ASSUME NEW r \in Requests, CreateRole(r) PROVE P
    <2>1. Owners' \subseteq Owners
      BY <1>26, <1>typed DEF CreateRole, Owners, TypeOK
    <2> QED
      BY <1>26, <2>1, <1>end DEF CreateRole
  <1>27. ASSUME NEW r \in Requests, Die(r) PROVE P
    BY <1>27, <1>read DEF Die
  <1>30. ASSUME NEW r \in Requests, NEW by \in Context, NEW role \in Custom, NEW new \in {role, "OWNER"},
                UpdateRole(r, by, role, new) PROVE P
    BY <1>30, <1>begin DEF UpdateRole, Idle, Grants, Changing
  <1>31. ASSUME NEW r \in Requests, CheckName(r) PROVE P
    BY <1>31, <1>read DEF CheckName, At, Changing
  <1>32. ASSUME NEW r \in Requests, Rename(r) PROVE P
    BY <1>32, <1>end DEF Rename, history, Owners
  <1>28. ASSUME NEW p \in People, Expire(p) PROVE P
    <2>1. \A y \in People : invitation'[y].role = invitation[y].role /\ invitation'[y].by = invitation[y].by
      BY <1>28, <1>typed DEF Expire, TypeOK, Invited
    <2>2. Owners' = Owners /\ UNCHANGED req
      BY <1>28 DEF Expire, Owners
    <2> QED
      BY <2>1, <2>2, <1>goal, <1>given
  <1>29. Next => P
    BY <1>1, <1>2, <1>3, <1>4, <1>5, <1>6, <1>7, <1>8, <1>9, <1>10, <1>11, <1>12, <1>13, <1>14, <1>15,
       <1>16, <1>17, <1>18, <1>19, <1>20, <1>21, <1>22, <1>23, <1>24, <1>25, <1>26, <1>27, <1>28, <1>30, <1>31, <1>32,
       <1>typed, NextCases
  <1> QED
    BY <1>0, <1>29 DEF P

\* p's being an active Owner changed, by a step other than Single sign-on's or a
\* manager's bringing back an Owner who was suspended.
Turned(p) ==
    /\ (p \in Active \cap Owners) # (p \in Active' \cap Owners')
    /\ ~(p \in Owners /\ p \in Owners' /\ p \in Active')

LEMMA ChangesAnswer ==
    ASSUME Typed, GivenByOwners, Next, NEW p \in People, Turned(p)
    PROVE  \E r \in Requests : req'[r] = Idle /\ Busy(r) /\ Target(r) = p /\ Authorised(r, p)
  <1> DEFINE P == \E r \in Requests : req'[r] = Idle /\ Busy(r) /\ Target(r) = p /\ Authorised(r, p)
  <1>typed. TypeOK /\ OnCourse
    BY DEF Typed
  <1>turned. /\ (p \in Active \cap Owners) # (p \in Active' \cap Owners')
             /\ ~(p \in Owners /\ p \in Owners' /\ p \in Active')
    BY DEF Turned
  <1>same. ASSUME UNCHANGED <<status, roles>> PROVE P
    BY <1>same, <1>turned DEF Active, Owners
  <1>by. ASSUME NEW r \in Requests, req'[r] = Idle, Target(r) = p, Busy(r), Authorised(r, p) PROVE P
    BY <1>by
  <1>changing. ASSUME NEW r \in Requests, req'[r] = Idle, Target(r) = p, At(r, "write"), p \in Owners,
                      p \notin Active' \cap Owners'
               PROVE  P
    <2>1. Busy(r)
      BY <1>changing, <1>typed DEF At, OnCourse, OpsAt, Busy, Managing
    <2>2. Authorised(r, p)
      BY <1>changing DEF GivenByOwners, At, Authorised
    <2> QED
      BY <1>changing, <2>1, <2>2
  <1>granting. ASSUME NEW r \in Requests, req'[r] = Idle, Target(r) = p, req[r].op \in {"assign", "accept"},
                      req[r].role = "OWNER"
               PROVE  P
    BY <1>granting DEF GivenByOwners, Entitled, Authorised, Busy
  <1> HIDE DEF P
  <1>begin. ASSUME NEW r, NEW q, Begin(r, q) PROVE P
    BY <1>begin, <1>same DEF Begin
  <1>reads. ASSUME Reads PROVE P
    BY <1>reads, <1>same DEF Reads
  <1>1. ASSUME NEW r \in Requests, NEW y \in People, AcceptInvitation(r, y) PROVE P
    BY <1>1, <1>begin DEF AcceptInvitation
  <1>2. ASSUME NEW r \in Requests, NEW y \in People, SignOn(r, y) PROVE P
    BY <1>2, <1>begin DEF SignOn
  <1>3. ASSUME NEW r \in Requests, NEW y \in People, NEW by \in Context, RemoveMember(r, by, y) PROVE P
    BY <1>3, <1>begin DEF RemoveMember, Manage
  <1>4. ASSUME NEW r \in Requests, NEW y \in People, NEW by \in Context, NEW s \in Statuses,
               UpdateMember(r, by, y, s) PROVE P
    BY <1>4, <1>begin DEF UpdateMember, Manage
  <1>5. ASSUME NEW r \in Requests, NEW y \in People, NEW by \in Context, NEW role \in Given,
               AssignRole(r, by, y, role) PROVE P
    BY <1>5, <1>begin DEF AssignRole, Manage
  <1>6. ASSUME NEW r \in Requests, NEW y \in People, NEW by \in Context, NEW role \in Given,
               RevokeRole(r, by, y, role) PROVE P
    BY <1>6, <1>begin DEF RevokeRole, Manage
  <1>7. ASSUME NEW r \in Requests, NEW y \in People, NEW by \in Context, NEW role \in Given,
               CreateInvitation(r, by, y, role) PROVE P
    BY <1>7, <1>begin DEF CreateInvitation
  <1>8. ASSUME NEW r \in Requests, Look(r) PROVE P
    BY <1>8, <1>reads DEF Look
  <1>9. ASSUME NEW r \in Requests, ReadActive(r) PROVE P
    BY <1>9, <1>reads DEF ReadActive
  <1>10. ASSUME NEW r \in Requests, CountOwners(r) PROVE P
    BY <1>10, <1>reads DEF CountOwners
  <1>11. ASSUME NEW r \in Requests, CountMembers(r) PROVE P
    BY <1>11, <1>reads DEF CountMembers
  <1>12. ASSUME NEW r \in Requests, WriteStatus(r) PROVE P
    <2>1. Owners' = Owners /\ At(r, "write") /\ req'[r] = Idle
      BY <1>12, Ended DEF WriteStatus, Owners
    <2>2. p = Target(r)
      BY <1>12, <2>1, <1>turned, <1>typed DEF WriteStatus, Active, TypeOK
    <2> QED
      BY <2>1, <2>2, <1>turned, <1>changing
  <1>13. ASSUME NEW r \in Requests, Delete(r) PROVE P
    <2>1. At(r, "write") /\ req'[r] = Idle
      BY <1>13, Ended DEF Delete
    <2>2. p = Target(r)
      BY <1>13, <1>turned, <1>typed DEF Delete, Active, Owners, TypeOK
    <2>3. p \notin Active' \/ UNCHANGED <<status, roles>>
      BY <1>13, <2>2, <1>typed DEF Delete, Active, TypeOK
    <2> QED
      BY <2>1, <2>2, <2>3, <1>turned, <1>changing, <1>same
  <1>14. ASSUME NEW r \in Requests, Assign(r) PROVE P
    <2>1. Active' = Active /\ req[r].op = "assign" /\ req'[r] = Idle
      BY <1>14, Ended, EndedPromoting DEF Assign, Active
    <2>2. p = Target(r) /\ req[r].role = "OWNER"
      BY <1>14, <2>1, <1>turned, <1>typed DEF Assign, Owners, TypeOK
    <2> QED
      BY <2>1, <2>2, <1>granting
  <1>15. ASSUME NEW r \in Requests, Revoke(r) PROVE P
    <2>1. Active' = Active /\ At(r, "write") /\ req'[r] = Idle
      BY <1>15, Ended DEF Revoke, Active
    <2>2. p = Target(r) /\ p \in Owners /\ p \notin Owners'
      BY <1>15, <2>1, <1>turned, <1>typed DEF Revoke, Owners, TypeOK
    <2> QED
      BY <2>1, <2>2, <1>changing
  <1>16. ASSUME NEW r \in Requests, CheckSeats(r) PROVE P
    BY <1>16, <1>reads DEF CheckSeats
  <1>17. ASSUME NEW r \in Requests, CheckPending(r) PROVE P
    BY <1>17, <1>reads DEF CheckPending
  <1>18. ASSUME NEW r \in Requests, CheckMember(r) PROVE P
    BY <1>18, <1>reads DEF CheckMember
  <1>19. ASSUME NEW r \in Requests, Insert(r) PROVE P
    BY <1>19, <1>same DEF Insert
  <1>20. ASSUME NEW r \in Requests, ReadInvitation(r) PROVE P
    BY <1>20, <1>reads DEF ReadInvitation
  <1>21. ASSUME NEW r \in Requests, FindPlace(r) PROVE P
    BY <1>21, <1>reads DEF FindPlace
  <1>22. ASSUME NEW r \in Requests, MarkAccepted(r) PROVE P
    BY <1>22, <1>same DEF MarkAccepted
  <1>23. ASSUME NEW r \in Requests, Join(r) PROVE P
    <2>1. req'[r] = Idle
      BY <1>23, Ended, EndedPromoting DEF Join
    <2>2. req[r].op = "accept"
      BY <1>23, <1>typed DEF Join, At, OnCourse, OpsAt
    <2>3. CASE IsMember(Target(r))
      BY <1>23, <2>3, <1>same DEF Join
    <2>4. CASE ~IsMember(Target(r))
      <3>1. p = Target(r) /\ p \in Owners' /\ p \notin Active
        BY <1>23, <2>4, <1>turned, <1>typed DEF Join, IsMember, Active, Owners, TypeOK
      <3>2. req[r].role = "OWNER"
        BY <1>23, <2>4, <3>1, <1>typed DEF Join, Owners, TypeOK
      <3> QED
        BY <2>1, <2>2, <3>1, <3>2, <1>granting
    <2> QED
      BY <2>3, <2>4
  <1>back. ASSUME NEW r \in Requests, UNCHANGED roles,
                  status' \in {status, [status EXCEPT ![Target(r)] = "ACTIVE"]}
           PROVE  P
    <2>1. Owners' = Owners /\ Active \subseteq Active'
      BY <1>back, <1>typed DEF Owners, Active, TypeOK
    <2> QED
      BY <2>1, <1>turned
  <1>24. ASSUME NEW r \in Requests, Revive(r) PROVE P
    BY <1>24, <1>back DEF Revive
  <1>25. ASSUME NEW r \in Requests, CreateMember(r) PROVE P
    BY <1>25, <1>back DEF CreateMember
  <1>26. ASSUME NEW r \in Requests, CreateRole(r) PROVE P
    <2>1. Active' = Active /\ Owners' = Owners
      BY <1>26, <1>typed DEF CreateRole, Active, Owners, TypeOK
    <2> QED
      BY <2>1, <1>turned
  <1>27. ASSUME NEW r \in Requests, Die(r) PROVE P
    BY <1>27, <1>reads DEF Die
  <1>30. ASSUME NEW r \in Requests, NEW by \in Context, NEW role \in Custom, NEW new \in {role, "OWNER"},
                UpdateRole(r, by, role, new) PROVE P
    BY <1>30, <1>begin DEF UpdateRole
  <1>31. ASSUME NEW r \in Requests, CheckName(r) PROVE P
    BY <1>31, <1>reads DEF CheckName
  <1>32. ASSUME NEW r \in Requests, Rename(r) PROVE P
    BY <1>32, <1>same DEF Rename
  <1>28. ASSUME NEW y \in People, Expire(y) PROVE P
    BY <1>28, <1>same DEF Expire
  <1>29. P
    BY <1>1, <1>2, <1>3, <1>4, <1>5, <1>6, <1>7, <1>8, <1>9, <1>10, <1>11, <1>12, <1>13, <1>14, <1>15,
       <1>16, <1>17, <1>18, <1>19, <1>20, <1>21, <1>22, <1>23, <1>24, <1>25, <1>26, <1>27, <1>28, <1>30, <1>31, <1>32,
       <1>typed, NextCases
  <1> QED
    BY <1>29 DEF P

\* Who becomes an active Owner was made one by a request, or invited by a request, of a
\* person the API takes for an Owner and who has every permission of one, and an active
\* Owner ceases to be one by a request of a person the API takes for an Owner, or by one
\* that had looked before he was an Owner; for any custom roles, named OWNER or not.
THEOREM OwnersAnswer == Spec => OwnersAnswerToOwners
  <1> DEFINE A == \A p \in People :
                (p \in Active \cap Owners) # (p \in Active' \cap Owners') =>
                   \/ p \in Owners /\ p \in Owners' /\ p \in Active'
                   \/ \E r \in Requests :
                         /\ req'[r] = Idle /\ Busy(r) /\ Target(r) = p
                         /\ IF p \in Active' \cap Owners'
                            THEN IsOwner(req[r].context) /\ Permissions \subseteq req[r].context.permissions
                            ELSE IsOwner(req[r].context) \/ req[r].promoted
  <1>1. Init => GivenByOwners
    <2> SUFFICES ASSUME Init PROVE GivenByOwners
      OBVIOUS
    <2>1. \A p \in People : invitation[p].role = "OWNER" => Entitled(invitation[p].by)
      BY OwnerEntitled DEF Init
    <2>2. \A r \in Requests : req[r] = Idle
      BY DEF Init
    <2> QED
      BY <2>1, <2>2, IdleFields DEF GivenByOwners
  <1>2. Typed /\ GivenByOwners /\ [Next]_vars => [A]_vars
    <2> SUFFICES ASSUME Typed, GivenByOwners, Next PROVE A
      OBVIOUS
    <2> SUFFICES ASSUME NEW p \in People,
                        (p \in Active \cap Owners) # (p \in Active' \cap Owners'),
                        ~(p \in Owners /\ p \in Owners' /\ p \in Active')
                 PROVE  \E r \in Requests :
                           /\ req'[r] = Idle /\ Busy(r) /\ Target(r) = p
                           /\ IF p \in Active' \cap Owners'
                              THEN IsOwner(req[r].context) /\ Permissions \subseteq req[r].context.permissions
                              ELSE IsOwner(req[r].context) \/ req[r].promoted
      OBVIOUS
    <2>1. Turned(p)
      BY DEF Turned
    <2> QED
      BY <2>1, ChangesAnswer DEF Authorised
  <1> HIDE DEF A
  <1>3. Spec => [][A]_vars
    BY InitTyped, NextTyped, GivenNext, <1>1, <1>2, PTL DEF Spec
  <1> QED
    BY <1>3 DEF A, OwnersAnswerToOwners

=============================================================================

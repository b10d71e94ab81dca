----------------------------- MODULE Membership -----------------------------
(***************************************************************************)
(* Who belongs to a workspace and what he may do: members and their        *)
(* status, roles, invitations, and the ways in (an invitation, single      *)
(* sign-on) and out.                                                       *)
(*                                                                         *)
(* A request carries what the API knew of its sender when it began; every  *)
(* read and every write of it is a step, and nothing is locked in between. *)
(* There are two roles of the system, OWNER and AGENT, and custom roles,   *)
(* which whoever manages roles may rename.                                 *)
(***************************************************************************)
EXTENDS Naturals, FiniteSets

CONSTANTS
    People,         \* users, each with one email address
    Founder,        \* registered the workspace
    Newcomers,      \* who are not members at first; the others manage
    Requests,       \* requests handled at the same time
    Custom,         \* the workspace's custom roles
    Rights,         \* their permissions
    Cap,            \* agents the flat plan includes
    Given,          \* bound: the roles that are given and taken away
    MaxRequests,    \* bound: requests in all
    MaxInvitations  \* bound: invitations of one person

ASSUME PeopleAssumption ==
    /\ Founder \in People \ Newcomers /\ Newcomers \subseteq People
    /\ IsFiniteSet(People)
    /\ Cap \in Nat /\ MaxRequests \in Nat /\ MaxInvitations \in Nat \ {0}

Roles == {"OWNER", "AGENT"} \cup Custom

\* The permissions told apart: to manage members, to manage roles, those of an agent
\* and the others of an Owner.
Permissions == {"members:manage", "roles:manage", "chat:write", "billing:manage"}

ASSUME RolesAssumption ==
    /\ Custom \cap {"OWNER", "AGENT"} = {}
    /\ Rights \in [Custom -> SUBSET Permissions]
    /\ Given \subseteq Roles

VARIABLES
    status,         \* user_organizations.status; "absent" without a row
    roles,          \* user_roles
    name,           \* the names of the custom roles: their own, or OWNER
    invitation,     \* the newest invitation of each person
    req,            \* requests under way
    begun,          \* requests begun
    raced,          \* history: two requests at once that may take an Owner away
    out             \* history: who was removed and is not invited or signed in again

vars == <<status, roles, name, invitation, req, begun, raced, out>>
history == <<raced, out>>

Statuses == {"ACTIVE", "SUSPENDED"}
Context == [labels : SUBSET Roles, permissions : SUBSET Permissions]
Invited == [nr : 0 .. MaxInvitations, state : {"none", "open", "expired", "accepted"},
            role : Roles, by : Context]

Ops == {"none", "update", "remove", "assign", "revoke", "invite", "accept", "sso", "rename"}
Places == {"idle", "look", "active", "owners", "total", "write", "seats", "pending", "member",
           "insert", "token", "place", "mark", "join", "revive", "create", "role", "name", "rename"}
Nobody == [labels |-> {}, permissions |-> {}]
Idle == [op |-> "none", at |-> "idle", context |-> Nobody, target |-> Founder, role |-> "AGENT",
         name |-> "AGENT", status |-> "ACTIVE", seen |-> {}, nr |-> 0, promoted |-> FALSE]
RequestSet == [op : Ops, at : Places, context : Context, target : People, role : Roles, name : Roles,
               status : Statuses, seen : SUBSET People, nr : 0 .. MaxInvitations, promoted : BOOLEAN]

TypeOK ==
    /\ status \in [People -> Statuses \cup {"absent"}]
    /\ roles \in [People -> SUBSET Roles]
    /\ name \in [Custom -> Roles]
    /\ out \subseteq People /\ raced \in BOOLEAN
    /\ invitation \in [People -> Invited]
    /\ req \in [Requests -> RequestSet]
    /\ begun \in 0 .. MaxRequests

-----------------------------------------------------------------------------
(***************************************************************************)
(* Roles, and what the API makes of them.                                  *)
(***************************************************************************)
PermissionsOf(role) ==
    CASE role = "OWNER" -> Permissions
      [] role = "AGENT" -> {"chat:write"}
      [] OTHER          -> Rights[role]

\* A role is known by its key, and a custom role, which has none, by its name.
Label(role) == IF role \in Custom THEN name[role] ELSE role

\* A request's context: what its sender is and may do by all his roles.
ContextOf(rs) == [labels      |-> {Label(role) : role \in rs},
                  permissions |-> UNION {PermissionsOf(role) : role \in rs}]

IsOwner(context) == "OWNER" \in context.labels

\* A role is granted by who has its permissions; OWNER by an Owner.
CanGrant(context, role) ==
    /\ role = "OWNER" => IsOwner(context)
    /\ PermissionsOf(role) \subseteq context.permissions

\* Of two custom roles one at most has a name.
Taken(role, new) == \E c \in Custom \ {role} : name[c] = new

-----------------------------------------------------------------------------
\* A workspace some time after its registration: the others have custom roles or
\* are Owners, a custom role may have been created with the name OWNER, and newcomers
\* may have been invited by the Founder.
Init ==
    /\ status = [p \in People |-> IF p \in Newcomers THEN "absent" ELSE "ACTIVE"]
    /\ \E higher \in SUBSET (People \ Newcomers) :
          roles = [p \in People |-> IF p \in Newcomers THEN {}
                                   ELSE IF p \in higher \cup {Founder} THEN {"OWNER"} ELSE Custom]
    /\ \E namesakes \in SUBSET Custom :
          /\ \A c, d \in namesakes : c = d
          /\ name = [c \in Custom |-> IF c \in namesakes THEN "OWNER" ELSE c]
    /\ \E guests \in SUBSET Newcomers, role \in Given :
          invitation = [p \in People |->
             IF p \in guests THEN [nr |-> 1, state |-> "open", role |-> role, by |-> ContextOf({"OWNER"})]
             ELSE [nr |-> 0, state |-> "none", role |-> "AGENT", by |-> Nobody]]
    /\ req = [r \in Requests |-> Idle] /\ begun = 0
    /\ raced = FALSE /\ out = {}

-----------------------------------------------------------------------------
(***************************************************************************)
(* What the operations have in common.                                     *)
(***************************************************************************)
At(r, place) == req[r].at = place
Busy(r) == req[r].op # "none"
Target(r) == req[r].target
IsMember(p) == status[p] # "absent"
Active == {p \in People : status[p] = "ACTIVE"}
Owners == {p \in People : "OWNER" \in roles[p]}

\* The contexts of active members whom the guard lets do what takes this permission.
Contexts(permission) == {c \in {ContextOf(roles[p]) : p \in Active} : permission \in c.permissions}

\* The request may take the workspace an active Owner.
RemovesOwnership(q) ==
    \/ q.op = "remove"
    \/ q.op = "update" /\ q.status # "ACTIVE"
    \/ q.op = "revoke" /\ q.role = "OWNER"

MayBegin(r) == ~Busy(r) /\ begun < MaxRequests

Begin(r, q) ==
    /\ MayBegin(r)
    /\ begun' = begun + 1
    /\ req' = [req EXCEPT ![r] = q]
    /\ raced' = (raced \/ (RemovesOwnership(q) /\ \E x \in Requests : RemovesOwnership(req[x])))
    /\ UNCHANGED <<status, roles, name, invitation>>

GoTo(r, place) == req' = [req EXCEPT ![r].at = place]
End(r) == req' = [req EXCEPT ![r] = Idle]
Reads == UNCHANGED <<status, roles, invitation, name, begun, history>>

\* r ends having given p the role; who works on p meanwhile has not seen it.
EndPromoting(r, p, role) ==
    req' = [x \in Requests |->
              IF x = r THEN Idle
              ELSE IF Busy(x) /\ Target(x) = p /\ role = "OWNER" THEN [req[x] EXCEPT !.promoted = TRUE]
              ELSE req[x]]

-----------------------------------------------------------------------------
(***************************************************************************)
(* A manager changes a member.                                             *)
(***************************************************************************)
Manage(r, by, op, p, role, newStatus) ==
    /\ IsMember(p)
    /\ Begin(r, [Idle EXCEPT !.op = op, !.at = "look", !.context = by, !.target = p,
                             !.role = role, !.status = newStatus])
    /\ UNCHANGED out

UpdateMember(r, by, p, newStatus) == Manage(r, by, "update", p, "AGENT", newStatus)
RemoveMember(r, by, p) == Manage(r, by, "remove", p, "AGENT", "ACTIVE")
AssignRole(r, by, p, role) ==
    CanGrant(by, role) /\ Manage(r, by, "assign", p, role, "ACTIVE")
RevokeRole(r, by, p, role) ==
    CanGrant(by, role) /\ Manage(r, by, "revoke", p, role, "ACTIVE")

Allowed(r) == GoTo(r, IF req[r].op = "remove" THEN "total" ELSE "write")

\* MUTANT of Look: whoever may manage members may manage an Owner.
LookAtAnyone(r) ==
    /\ At(r, "look")
    /\ IF Target(r) \in Owners /\ RemovesOwnership(req[r]) THEN GoTo(r, "active") ELSE Allowed(r)
    /\ Reads

\* assertCanManageMember: an Owner is changed by an Owner.
Look(r) ==
    /\ At(r, "look")
    /\ IF Target(r) \in Owners /\ ~IsOwner(req[r].context) THEN End(r)
       ELSE IF Target(r) \in Owners /\ RemovesOwnership(req[r]) THEN GoTo(r, "active")
       ELSE Allowed(r)
    /\ Reads

\* MUTANT of ReadActive: suspended members count.
ReadEverybody(r) ==
    /\ At(r, "active")
    /\ req' = [req EXCEPT ![r].at = "owners", ![r].seen = {p \in People : IsMember(p)}]
    /\ Reads

ReadActive(r) ==
    /\ At(r, "active")
    /\ req' = [req EXCEPT ![r].at = "owners", ![r].seen = Active]
    /\ Reads

CountOwners(r) ==
    /\ At(r, "owners")
    /\ IF Cardinality(req[r].seen \cap Owners) <= 1 THEN End(r) ELSE Allowed(r)
    /\ Reads

CountMembers(r) ==
    /\ At(r, "total")
    /\ IF Cardinality(Active) <= 1 THEN End(r) ELSE GoTo(r, "write")
    /\ Reads

\* A row that is gone fails the request.
WriteStatus(r) ==
    /\ At(r, "write") /\ req[r].op = "update"
    /\ status' = IF IsMember(Target(r)) THEN [status EXCEPT ![Target(r)] = req[r].status] ELSE status
    /\ End(r)
    /\ UNCHANGED <<roles, invitation, name, begun, history>>

\* MUTANT of Delete: the row is kept and marked.
MarkDeleted(r) ==
    /\ At(r, "write") /\ req[r].op = "remove"
    /\ status' = [status EXCEPT ![Target(r)] = "DELETED"]
    /\ End(r)
    /\ UNCHANGED <<roles, out, invitation, name, begun, raced>>

\* The messages of a member would lose their sender, which their check refuses:
\* the transaction fails when he has written any.
Delete(r) ==
    /\ At(r, "write") /\ req[r].op = "remove"
    /\ LET p == Target(r)
       IN  \/ /\ IsMember(p)
              /\ status' = [status EXCEPT ![p] = "absent"]
              /\ roles' = [roles EXCEPT ![p] = {}]
              /\ out' = IF \/ invitation[p].state = "open"
                           \/ \E x \in Requests : Target(x) = p /\ req[x].op \in {"accept", "sso"}
                        THEN out ELSE out \cup {p}
           \/ UNCHANGED <<status, roles, out>>
    /\ End(r)
    /\ UNCHANGED <<invitation, name, begun, raced>>

Assign(r) ==
    /\ At(r, "write") /\ req[r].op = "assign"
    /\ IF IsMember(Target(r))
       THEN /\ roles' = [roles EXCEPT ![Target(r)] = @ \cup {req[r].role}]
            /\ EndPromoting(r, Target(r), req[r].role)
       ELSE UNCHANGED roles /\ End(r)
    /\ UNCHANGED <<status, invitation, name, begun, history>>

Revoke(r) ==
    /\ At(r, "write") /\ req[r].op = "revoke"
    /\ roles' = [roles EXCEPT ![Target(r)] = @ \ {req[r].role}]
    /\ End(r)
    /\ UNCHANGED <<status, invitation, name, begun, history>>

-----------------------------------------------------------------------------
(***************************************************************************)
(* A custom role is renamed.                                               *)
(***************************************************************************)
UpdateRole(r, by, role, new) ==
    /\ Begin(r, [Idle EXCEPT !.op = "rename", !.at = "name", !.context = by,
                             !.role = role, !.name = new])
    /\ UNCHANGED out

CheckName(r) ==
    /\ At(r, "name")
    /\ IF Taken(req[r].role, req[r].name) THEN End(r) ELSE GoTo(r, "rename")
    /\ Reads

Rename(r) ==
    /\ At(r, "rename")
    /\ name' = IF Taken(req[r].role, req[r].name) THEN name
               ELSE [name EXCEPT ![req[r].role] = req[r].name]
    /\ End(r)
    /\ UNCHANGED <<status, roles, invitation, begun, history>>

-----------------------------------------------------------------------------
(***************************************************************************)
(* Invitations.                                                            *)
(***************************************************************************)
\* Nothing revokes an invitation, so that an expired one is in the way too.
Pending(p) == invitation[p].state \in {"open", "expired"}

\* An invitation that names no role is to become an agent, which takes no grant.
CreateInvitation(r, by, p, role) ==
    /\ role = "AGENT" \/ CanGrant(by, role)
    /\ Begin(r, [Idle EXCEPT !.op = "invite", !.at = "seats", !.context = by,
                             !.target = p, !.role = role])
    /\ UNCHANGED out

\* assertCanAddAgent.
CheckSeats(r) ==
    /\ At(r, "seats")
    /\ IF Cardinality(Active) >= Cap THEN End(r) ELSE GoTo(r, "pending")
    /\ Reads

CheckPending(r) ==
    /\ At(r, "pending")
    /\ IF Pending(Target(r)) THEN End(r) ELSE GoTo(r, "member")
    /\ Reads

CheckMember(r) ==
    /\ At(r, "member")
    /\ IF IsMember(Target(r)) THEN End(r) ELSE GoTo(r, "insert")
    /\ Reads

\* invitations_open_email_idx lets one be open.
Insert(r) ==
    LET p == Target(r)
    IN  /\ At(r, "insert")
        /\ invitation[p].nr < MaxInvitations
        /\ IF Pending(p)
           THEN UNCHANGED <<invitation, out>>
           ELSE /\ invitation' = [invitation EXCEPT ![p] =
                      [nr |-> @.nr + 1, state |-> "open", role |-> req[r].role,
                       by |-> req[r].context]]
                /\ out' = out \ {p}
        /\ End(r)
        /\ UNCHANGED <<status, roles, name, begun, raced>>

Expire(p) ==
    /\ invitation[p].state = "open"
    /\ invitation' = [invitation EXCEPT ![p].state = "expired"]
    /\ UNCHANGED <<status, roles, req, name, begun, history>>

\* The person opens the link of an invitation and accepts it.
AcceptInvitation(r, p) ==
    /\ invitation[p].nr > 0
    /\ Begin(r, [Idle EXCEPT !.op = "accept", !.at = "token", !.target = p])
    /\ UNCHANGED out

\* MUTANT of ReadInvitation: acceptedAt is not looked at.
ReadUsedInvitation(r) ==
    LET i == invitation[Target(r)]
    IN  /\ At(r, "token")
        /\ req' = [req EXCEPT ![r] = IF i.state \in {"open", "accepted"}
                                     THEN [@ EXCEPT !.at = "place", !.role = i.role, !.nr = i.nr,
                                                    !.context = i.by]
                                     ELSE Idle]
        /\ Reads

ReadInvitation(r) ==
    LET i == invitation[Target(r)]
    IN  /\ At(r, "token")
        /\ req' = [req EXCEPT ![r] = IF i.state = "open"
                                     THEN [@ EXCEPT !.at = "place", !.role = i.role, !.nr = i.nr,
                                                    !.context = i.by]
                                     ELSE Idle]
        /\ Reads

\* Member already, or not, to the knowledge of accept and of single sign-on.
FindPlace(r) ==
    /\ At(r, "place")
    /\ LET s == status[Target(r)]
           first == s = "absent"
       IN  IF req[r].op = "accept" THEN GoTo(r, IF first THEN "join" ELSE "mark")
           ELSE IF s = "ACTIVE" THEN End(r)
           ELSE GoTo(r, IF first THEN "create" ELSE "revive")
    /\ Reads

\* The invitation r read, if there is no newer one, is accepted.
Accepted(r) ==
    [invitation EXCEPT ![Target(r)].state = IF invitation[Target(r)].nr = req[r].nr THEN "accepted" ELSE @]

MarkAccepted(r) ==
    /\ At(r, "mark")
    /\ invitation' = Accepted(r)
    /\ End(r)
    /\ UNCHANGED <<status, roles, name, begun, history>>

\* The transaction of the membership, its role and the invitation.
Join(r) ==
    LET p == Target(r)
    IN  /\ At(r, "join")
        /\ IF IsMember(p)
           THEN UNCHANGED <<status, roles, invitation>> /\ End(r)
           ELSE /\ status' = [status EXCEPT ![p] = "ACTIVE"]
                /\ roles' = [roles EXCEPT ![p] = {req[r].role}]
                /\ invitation' = Accepted(r)
                /\ EndPromoting(r, p, req[r].role)
        /\ UNCHANGED <<name, begun, history>>

-----------------------------------------------------------------------------
(***************************************************************************)
(* Single sign-on: ensureMembership.                                       *)
(***************************************************************************)
SignOn(r, p) ==
    /\ Begin(r, [Idle EXCEPT !.op = "sso", !.at = "place", !.target = p])
    /\ out' = out \ {p}

\* Who was suspended is ACTIVE again.
Revive(r) ==
    /\ At(r, "revive")
    /\ status' = IF IsMember(Target(r)) THEN [status EXCEPT ![Target(r)] = "ACTIVE"] ELSE status
    /\ End(r)
    /\ UNCHANGED <<roles, invitation, name, begun, history>>

\* The membership, and its role by another statement.
CreateMember(r) ==
    /\ At(r, "create")
    /\ IF IsMember(Target(r))
       THEN UNCHANGED status /\ End(r)
       ELSE status' = [status EXCEPT ![Target(r)] = "ACTIVE"] /\ GoTo(r, "role")
    /\ UNCHANGED <<roles, invitation, name, begun, history>>

CreateRole(r) ==
    /\ At(r, "role")
    /\ roles' = IF IsMember(Target(r)) THEN [roles EXCEPT ![Target(r)] = @ \cup {"AGENT"}] ELSE roles
    /\ End(r)
    /\ UNCHANGED <<status, invitation, name, begun, history>>

-----------------------------------------------------------------------------
\* The process dies.
Die(r) ==
    /\ Busy(r)
    /\ End(r)
    /\ Reads

\* Another name of a custom role than OWNER is its own: nothing tells such names apart.
Ask(r) ==
    /\ MayBegin(r)
    /\ \/ \E p \in People : AcceptInvitation(r, p) \/ SignOn(r, p)
       \/ \E by \in Contexts("members:manage"), p \in People :
             \/ RemoveMember(r, by, p)
             \/ \E s \in Statuses : UpdateMember(r, by, p, s)
             \/ \E role \in Given : CreateInvitation(r, by, p, role)
       \/ \E by \in Contexts("roles:manage") :
             \/ \E p \in People, role \in Given : AssignRole(r, by, p, role) \/ RevokeRole(r, by, p, role)
             \/ \E role \in Custom : \E new \in {role, "OWNER"} : UpdateRole(r, by, role, new)

Proceed(r) ==
    \/ Look(r) \/ ReadActive(r) \/ CountOwners(r) \/ CountMembers(r)
    \/ WriteStatus(r) \/ Delete(r) \/ Assign(r) \/ Revoke(r)
    \/ CheckName(r) \/ Rename(r)
    \/ CheckSeats(r) \/ CheckPending(r) \/ CheckMember(r) \/ Insert(r)
    \/ ReadInvitation(r) \/ FindPlace(r) \/ MarkAccepted(r) \/ Join(r)
    \/ Revive(r) \/ CreateMember(r) \/ CreateRole(r)
    \/ Die(r)

Next ==
    \/ \E r \in Requests : Ask(r) \/ Proceed(r)
    \/ \E p \in People : Expire(p)

Spec == Init /\ [][Next]_vars

-----------------------------------------------------------------------------
(***************************************************************************)
(* Correctness.                                                            *)
(***************************************************************************)
\* "A workspace always keeps one active Owner", whatever members are promoted,
\* invited, suspended or removed meanwhile, as long as two requests that may take
\* an Owner away do not overlap.
OwnerIsKept == ~raced => Active \cap Owners # {}

\* Ownership is in the hands of those the API takes for Owners, by the role or by a
\* custom role of that name: who becomes an Owner was made one by a request, or invited
\* by a request, of such a person with every permission of an Owner; and an Owner loses
\* the role, his activity or his membership by such a person's request only, or by one
\* that began before he was an Owner.
OwnersAnswerToOwners ==
    [][\A p \in People :
          (p \in Active \cap Owners) # (p \in Active' \cap Owners') =>
             \/ p \in Owners /\ p \in Owners' /\ p \in Active'
             \/ \E r \in Requests :
                   /\ req'[r] = Idle /\ Busy(r) /\ Target(r) = p
                   /\ IF p \in Active' \cap Owners'
                      THEN IsOwner(req[r].context) /\ Permissions \subseteq req[r].context.permissions
                      ELSE IsOwner(req[r].context) \/ req[r].promoted]_vars

\* Who was removed stays out until somebody invites him or he signs on: the link
\* he came by does not let him in again.
RemovedStaysOut == \A p \in out : ~IsMember(p)
=============================================================================

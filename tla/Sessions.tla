------------------------------ MODULE Sessions ------------------------------
(***************************************************************************)
(* How a person stays signed in: the refresh tokens of one account, each   *)
(* exchanged for the next one, what starts them (passwords, the second     *)
(* step, Google, invitations) and what ends them (logging out, a reset of  *)
(* the password, time); and the dashboard's tabs of one browser, which     *)
(* share the stored session and refresh it each on its own.                *)
(*                                                                         *)
(* A token is a row of refresh_tokens; a line is a sign-in with all the    *)
(* tokens exchanged since.  Each step of a request is one statement or     *)
(* transaction.  Whether the account has a second step is left open.       *)
(***************************************************************************)
EXTENDS Naturals, Sequences, FiniteSets

CONSTANTS
    Tabs,           \* tabs of the browser
    Requests,       \* requests handled at the same time
    Codes,          \* the account's recovery codes
    None,
    Attempts,       \* times a tab asks for one refresh (3 in the code)
    MaxTokens,      \* bound: refresh tokens ever issued
    MaxLinks,       \* bound: links of a kind ever issued
    MaxFaults       \* bound: dead processes and lost answers

ASSUME BoundsAssumption ==
    /\ MaxLinks \in Nat /\ MaxFaults \in Nat
    /\ Attempts \in Nat \ {0} /\ MaxTokens \in Nat \ {0}
ASSUME NoneAssumption == None \notin Tabs

VARIABLES
    tokens,         \* refresh_tokens, in the order of creation
    codes,          \* users.two_factor_recovery_codes
    link,           \* user_tokens: the newest of each kind
    req,            \* requests under way
    stored,         \* the token in the browser's localStorage, or 0
    tab,            \* per tab: the refresh it is at and the token it read for it
    faults,         \* how many there were
    ended,          \* history: lines that were logged out, reset or have expired
    doubted,        \* history: tokens two tabs asked about at once, or whose answer was lost
    spent,          \* history: tokens, links and codes that were used
    again,          \* history: those used again
    crossed         \* history: those looked at by two requests at once

vars == <<tokens, codes, link, req, stored, tab, faults, ended, doubted, spent, again, crossed>>
server == <<tokens, codes, link, ended>>
browser == <<stored, tab, doubted>>
uses == <<spent, again, crossed>>

Kinds == {"challenge", "reset"}
Things == ({"token"} \X (1 .. MaxTokens)) \cup (Kinds \X (1 .. MaxLinks)) \cup ({"code"} \X Codes)
Idle == [op |-> "none", at |-> "idle", tab |-> None, token |-> 0, nr |-> 0, code |-> {},
         left |-> {}, line |-> 0, late |-> FALSE, made |-> 0]
NoRefresh == [attempt |-> 0, token |-> 0]

TypeOK ==
    /\ tokens \in Seq([live : BOOLEAN, line : 1 .. MaxTokens, late : BOOLEAN])
    /\ Len(tokens) <= MaxTokens
    /\ codes \subseteq Codes
    /\ link \in [Kinds -> [nr : 0 .. MaxLinks, open : BOOLEAN]]
    /\ req \in [Requests ->
          [op : {"none", "refresh", "signin"} \cup Kinds,
           at : {"idle", "find", "revoke", "issue", "use", "check", "spend", "write", "create", "answer"},
           tab : Tabs \cup {None}, token : 0 .. MaxTokens, nr : 0 .. MaxLinks, code : SUBSET Codes,
           left : SUBSET Codes, line : 0 .. MaxTokens, late : BOOLEAN, made : 0 .. MaxTokens]]
    /\ stored \in 0 .. Len(tokens)
    /\ tab \in [Tabs -> [attempt : 0 .. Attempts, token : 0 .. MaxTokens]]
    /\ faults \in 0 .. MaxFaults
    /\ ended \subseteq 1 .. MaxTokens /\ doubted \subseteq 1 .. MaxTokens
    /\ spent \subseteq Things /\ again \subseteq spent /\ crossed \subseteq Things

\* Somebody is signed in.
Init ==
    /\ tokens = <<[live |-> TRUE, line |-> 1, late |-> FALSE]>>
    /\ codes = Codes
    /\ link = [k \in Kinds |-> [nr |-> 0, open |-> FALSE]]
    /\ req = [r \in Requests |-> Idle]
    /\ stored = 1 /\ tab = [b \in Tabs |-> NoRefresh]
    /\ faults = 0
    /\ ended = {} /\ doubted = {}
    /\ spent = {} /\ again = {} /\ crossed = {}

-----------------------------------------------------------------------------
(***************************************************************************)
(* Requests.                                                               *)
(***************************************************************************)
At(r, place) == req[r].at = place
Busy(r) == req[r].op # "none"
Waiting(b) == \E r \in Requests : req[r].tab = b

Begin(r, q) == ~Busy(r) /\ req' = [req EXCEPT ![r] = q]
Go(r, place) == req' = [req EXCEPT ![r].at = place]

\* The answer goes to who waits for it.
Answer(r) == IF req[r].tab = None THEN Idle ELSE [req[r] EXCEPT !.at = "answer"]
End(r) == req' = [req EXCEPT ![r] = Answer(r)]

\* What a request has looked at and is still to use.
Holds(q) ==
    CASE q.at = "revoke" -> {<<"token", q.token>>}
      [] q.at = "use"    -> {<<q.op, q.nr>>}
      [] q.at = "spend"  -> {"code"} \X (q.left \cup q.code)
      [] OTHER           -> {}

LookAt(r, things) ==
    /\ crossed' = crossed \cup (things \cap UNION {Holds(req[q]) : q \in Requests \ {r}})
    /\ UNCHANGED <<spent, again>>

Spend(thing) ==
    /\ spent' = spent \cup {thing}
    /\ again' = again \cup ({thing} \cap spent)
    /\ UNCHANGED crossed

\* createSession
Create(r) ==
    /\ At(r, "create") /\ Len(tokens) < MaxTokens
    /\ LET id == Len(tokens) + 1
       IN  /\ tokens' = Append(tokens, [live |-> TRUE, late |-> req[r].late,
                                        line |-> IF req[r].line = 0 THEN id ELSE req[r].line])
           /\ req' = [req EXCEPT ![r] = [Answer(r) EXCEPT !.made = IF req[r].tab = None THEN 0 ELSE id]]
    /\ UNCHANGED <<codes, link, ended, browser, uses, faults>>

-----------------------------------------------------------------------------
(***************************************************************************)
(* Exchanging a token.                                                     *)
(***************************************************************************)
FindToken(r) ==
    /\ At(r, "find")
    /\ LET t == tokens[req[r].token]
       IN  IF t.live
           THEN /\ req' = [req EXCEPT ![r].at = "revoke", ![r].late = t.late]
                /\ LookAt(r, {<<"token", req[r].token>>})
           ELSE End(r) /\ UNCHANGED uses
    /\ UNCHANGED <<server, browser, faults>>

\* Whoever exchanges a token that somebody else just has goes on as a line of his own.
Revoke(r) ==
    LET t == req[r].token
    IN  /\ At(r, "revoke")
        /\ tokens' = [tokens EXCEPT ![t].live = FALSE]
        /\ req' = [req EXCEPT ![r].at = "create",
                              ![r].line = IF <<"token", t>> \in spent THEN 0 ELSE tokens[t].line]
        /\ Spend(<<"token", t>>)
        /\ UNCHANGED <<codes, link, ended, browser, faults>>

\* These lines are over; requests that have a token of theirs in hand come late.
EndLines(lines) ==
    /\ ended' = ended \cup lines
    /\ tokens' = [t \in DOMAIN tokens |->
                     IF tokens[t].line \in lines THEN [tokens[t] EXCEPT !.live = FALSE] ELSE tokens[t]]

BeLate(q, lines) ==
    IF \/ q.at = "revoke" /\ tokens[q.token].line \in lines
       \/ q.at = "create" /\ q.line \in lines
    THEN [q EXCEPT !.late = TRUE] ELSE q

\* logout of the API, or the token's time is over.
EndLine(t) ==
    /\ tokens[t].live
    /\ EndLines({tokens[t].line})
    /\ req' = [r \in Requests |-> BeLate(req[r], {tokens[t].line})]
    /\ UNCHANGED <<codes, link, browser, uses, faults>>

-----------------------------------------------------------------------------
(***************************************************************************)
(* Signing in.                                                             *)
(***************************************************************************)
\* The password is right, or Google or an identity provider vouches, or an
\* invitation is accepted: by a tab that shows no session, or somewhere else.
SignIn(r, b) ==
    /\ b # None => stored = 0 /\ tab[b] = NoRefresh /\ ~Waiting(b)
    /\ \/ Begin(r, [Idle EXCEPT !.op = "signin", !.at = "create", !.tab = b])
       \/ b = None /\ Begin(r, [Idle EXCEPT !.op = "signin", !.at = "issue"])
    /\ UNCHANGED <<server, browser, uses, faults>>

\* issueUserToken: earlier links of the kind no longer work.
NewLink(kind) ==
    /\ link[kind].nr < MaxLinks
    /\ link' = [link EXCEPT ![kind] = [nr |-> @.nr + 1, open |-> TRUE]]

\* The password only earns a challenge.
IssueChallenge(r) ==
    /\ At(r, "issue")
    /\ NewLink("challenge")
    /\ End(r)
    /\ UNCHANGED <<tokens, codes, ended, browser, uses, faults>>

RequestPasswordReset ==
    /\ NewLink("reset")
    /\ UNCHANGED <<tokens, codes, ended, req, browser, uses, faults>>

LinkExpires(kind) ==
    /\ link[kind].open
    /\ link' = [link EXCEPT ![kind].open = FALSE]
    /\ UNCHANGED <<tokens, codes, ended, req, browser, uses, faults>>

\* consumeUserToken
LookAtLink(r, op) ==
    /\ link[op].open
    /\ Begin(r, [Idle EXCEPT !.op = op, !.at = "use", !.nr = link[op].nr])
    /\ LookAt(r, {<<op, link[op].nr>>})
    /\ UNCHANGED <<server, browser, faults>>

UseLink(r) ==
    LET op == req[r].op
    IN  /\ At(r, "use")
        /\ link' = IF link[op].nr = req[r].nr THEN [link EXCEPT ![op].open = FALSE] ELSE link
        /\ Spend(<<op, req[r].nr>>)
        /\ Go(r, IF op = "reset" THEN "write" ELSE "check")
        /\ UNCHANGED <<tokens, codes, ended, browser, faults>>

\* verifySecondFactor: the app's code, a recovery code, or none that is right.
CheckCode(r) ==
    /\ At(r, "check")
    /\ \/ Go(r, "create") /\ UNCHANGED uses
       \/ End(r) /\ UNCHANGED uses
       \/ \E c \in codes :
             /\ req' = [req EXCEPT ![r].at = "spend", ![r].code = {c}, ![r].left = codes \ {c}]
             /\ LookAt(r, {"code"} \X codes)
    /\ UNCHANGED <<server, browser, faults>>

\* MUTANT of SpendCode: the code that matched is not removed.
KeepCode(r) ==
    /\ At(r, "spend")
    /\ codes' = req[r].left \cup req[r].code
    /\ \E c \in req[r].code : Spend(<<"code", c>>)
    /\ req' = [req EXCEPT ![r].at = "create", ![r].code = {}, ![r].left = {}]
    /\ UNCHANGED <<tokens, link, ended, browser, faults>>

SpendCode(r) ==
    /\ At(r, "spend")
    /\ codes' = req[r].left
    /\ \E c \in req[r].code : Spend(<<"code", c>>)
    /\ req' = [req EXCEPT ![r].at = "create", ![r].code = {}, ![r].left = {}]
    /\ UNCHANGED <<tokens, link, ended, browser, faults>>

\* MUTANT of SetPassword: the sessions there are go on.
SetPasswordOnly(r) ==
    /\ At(r, "write")
    /\ ended' = ended \cup {tokens[t].line : t \in DOMAIN tokens}
    /\ End(r)
    /\ UNCHANGED <<tokens, codes, link, browser, uses, faults>>

\* resetPassword signs everybody out.
SetPassword(r) ==
    LET lines == {tokens[t].line : t \in DOMAIN tokens}
    IN  /\ At(r, "write")
        /\ EndLines(lines)
        /\ req' = [q \in Requests |-> IF q = r THEN Idle ELSE BeLate(req[q], lines)]
        /\ UNCHANGED <<codes, link, browser, uses, faults>>

\* The new password is too weak; the link has been used all the same.
RefusePassword(r) ==
    /\ At(r, "write")
    /\ End(r)
    /\ UNCHANGED <<server, browser, uses, faults>>

-----------------------------------------------------------------------------
(***************************************************************************)
(* The tabs.                                                               *)
(***************************************************************************)
Ask(r, b, t) == Begin(r, [Idle EXCEPT !.op = "refresh", !.at = "find", !.tab = b, !.token = t])

StartRefresh(r, b) ==
    /\ stored # 0
    /\ Ask(r, b, stored)
    /\ tab' = [tab EXCEPT ![b] = [attempt |-> 1, token |-> stored]]
    /\ doubted' = doubted \cup
          {t \in {stored} : \E x \in Tabs \ {b} : tab[x].token = t}
    /\ UNCHANGED <<server, stored, uses, faults>>

\* MUTANT of Refresh: callers do not share the request under way (refreshPromise).
RefreshEach(r, b) == StartRefresh(r, b)

\* refreshAccessToken: before the access token's time is over, or after it.
Refresh(r, b) == tab[b] = NoRefresh /\ ~Waiting(b) /\ StartRefresh(r, b)

\* MUTANT of Retry: a tab never gives up.
RetryForEver(r, b) ==
    /\ tab[b] # NoRefresh /\ ~Waiting(b)
    /\ Ask(r, b, tab[b].token)
    /\ tab' = [tab EXCEPT ![b].attempt = @ + 1]
    /\ UNCHANGED <<server, stored, doubted, uses, faults>>

\* The same token again, whatever is stored by now.
Retry(r, b) ==
    /\ tab[b].attempt \in 1 .. Attempts - 1 /\ ~Waiting(b)
    /\ Ask(r, b, tab[b].token)
    /\ tab' = [tab EXCEPT ![b].attempt = @ + 1]
    /\ UNCHANGED <<server, stored, doubted, uses, faults>>

GiveUp(b) ==
    /\ tab[b].attempt = Attempts /\ ~Waiting(b)
    /\ tab' = [tab EXCEPT ![b] = NoRefresh]
    /\ UNCHANGED <<server, req, stored, doubted, uses, faults>>

\* A refresh that is refused removes the stored session, whichever it is by now.
Receive(r) ==
    /\ At(r, "answer")
    /\ stored' = req[r].made
    /\ tab' = [tab EXCEPT ![req[r].tab] = NoRefresh]
    /\ req' = [req EXCEPT ![r] = Idle]
    /\ UNCHANGED <<server, doubted, uses, faults>>

\* handleLogout: the API is not asked.
LogOut ==
    /\ stored # 0
    /\ stored' = 0
    /\ UNCHANGED <<server, req, tab, doubted, uses, faults>>

-----------------------------------------------------------------------------
(***************************************************************************)
(* Faults.                                                                 *)
(***************************************************************************)
Fault(r) ==
    /\ Busy(r) /\ faults < MaxFaults
    /\ faults' = faults + 1
    /\ doubted' = doubted \cup ({req[r].token} \ {0})
    /\ UNCHANGED <<server, stored, tab, uses>>

Die(r) == Fault(r) /\ req' = [req EXCEPT ![r] = Idle]

\* The tab hears nothing, while the request goes on.
LoseAnswer(r) ==
    /\ req[r].tab # None
    /\ Fault(r)
    /\ req' = [req EXCEPT ![r] = IF At(r, "answer") THEN Idle ELSE [@ EXCEPT !.tab = None]]

-----------------------------------------------------------------------------
Server(r) ==
    \/ FindToken(r) \/ Revoke(r) \/ Create(r) \/ IssueChallenge(r)
    \/ UseLink(r) \/ CheckCode(r) \/ SpendCode(r) \/ SetPassword(r) \/ RefusePassword(r)
    \/ SignIn(r, None) \/ \E op \in Kinds : LookAtLink(r, op)
    \/ Die(r)

Browser(r) ==
    \/ Receive(r) \/ LoseAnswer(r)
    \/ \E b \in Tabs : Refresh(r, b) \/ Retry(r, b) \/ SignIn(r, b)

Next ==
    \/ \E r \in Requests : Server(r) \/ Browser(r)
    \/ \E b \in Tabs : GiveUp(b)
    \/ \E t \in DOMAIN tokens : EndLine(t)
    \/ \E k \in Kinds : LinkExpires(k)
    \/ RequestPasswordReset \/ LogOut

Spec == Init /\ [][Next]_vars

-----------------------------------------------------------------------------
(***************************************************************************)
(* Correctness.                                                            *)
(***************************************************************************)
\* A token, link or recovery code works once ("Recovery codes are single use: the
\* one that matched is removed"), unless two requests had looked at it at once:
\* the codes are written back as a whole, so that two sign-ins by different codes
\* bring one of them back.
SpentOnce == again \subseteq crossed

\* What was logged out, reset or has expired stays so: no token of its line works,
\* but for one that a request made which had the token in hand at that moment
\* ("set the new password and sign every other session out").
EndedStaysEnded ==
    \A t \in DOMAIN tokens : tokens[t].live /\ tokens[t].line \in ended => tokens[t].late

\* A tab throws the person out ("force a fresh login") only for a token that was
\* ended, that two tabs asked about at once, or for which an answer was lost; not
\* because a refresh of its own, or one long over, had exchanged it.
RefusedForAReason ==
    \A r \in Requests :
       req[r].op = "refresh" /\ At(r, "answer") /\ req[r].made = 0 =>
          tokens[req[r].token].line \in ended \/ req[r].token \in doubted
=============================================================================

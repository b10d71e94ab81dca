--------------------------- MODULE SessionsProofs ---------------------------
(***************************************************************************)
(* Sessions, for any number of tabs, requests, recovery codes, tokens and  *)
(* faults: what is used works once, what was ended stays so, and a tab     *)
(* throws nobody out without a reason.                                     *)
(***************************************************************************)
EXTENDS Sessions, SequenceTheorems, TLAPS

Token == [live : BOOLEAN, line : 1 .. MaxTokens, late : BOOLEAN]
Link == [nr : 0 .. MaxLinks, open : BOOLEAN]
TabSet == [attempt : 0 .. Attempts, token : 0 .. MaxTokens]
Ops == {"none", "refresh", "signin"} \cup Kinds
Places == {"idle", "find", "revoke", "issue", "use", "check", "spend", "write", "create", "answer"}
RequestSet == [op : Ops, at : Places, tab : Tabs \cup {None}, token : 0 .. MaxTokens,
               nr : 0 .. MaxLinks, code : SUBSET Codes, left : SUBSET Codes,
               line : 0 .. MaxTokens, late : BOOLEAN, made : 0 .. MaxTokens]

\* The operations that pass through a place.
OpsAt(place) ==
    CASE place = "idle"                -> {"none"}
      [] place \in {"find", "revoke"}  -> {"refresh"}
      [] place = "issue"               -> {"signin"}
      [] place = "create"              -> {"refresh", "signin", "challenge"}
      [] place = "answer"              -> {"refresh", "signin"}
      [] place = "use"                 -> Kinds
      [] place = "write"               -> {"reset"}
      [] OTHER                         -> {"challenge"}

\* What a request keeps at its place; n tokens have been issued.
Sound(q, n) ==
    /\ q.op \in OpsAt(q.at)
    /\ q.token <= n /\ q.made <= n /\ q.line <= n
    /\ q.op = "refresh" <=> q.token # 0
    /\ q.op # "refresh" => q.line = 0
    /\ q.tab # None => q.op \in {"refresh", "signin"} /\ q.at # "issue"
    /\ q.at = "answer" => q.tab # None
    /\ q.made # 0 => q.at = "answer"
    /\ q.code \cap q.left = {}

TokensOK ==
    /\ tokens \in Seq(Token) /\ Len(tokens) <= MaxTokens
    /\ \A t \in DOMAIN tokens : tokens[t].line <= Len(tokens)
    /\ ended \subseteq 1 .. Len(tokens)
LinksOK ==
    /\ codes \subseteq Codes /\ link \in [Kinds -> Link]
    /\ \A k \in Kinds : link[k].open => link[k].nr # 0
TabsOK ==
    /\ stored \in 0 .. Len(tokens)
    /\ tab \in [Tabs -> TabSet]
    /\ \A b \in Tabs : tab[b].token <= Len(tokens) /\ (tab[b].attempt = 0 <=> tab[b].token = 0)
    /\ doubted \subseteq 1 .. Len(tokens)
    /\ faults \in 0 .. MaxFaults
UsesOK == spent \subseteq Things /\ again \subseteq spent /\ crossed \subseteq Things
RequestsOK ==
    /\ req \in [Requests -> RequestSet]
    /\ \A r \in Requests :
          Sound(req[r], Len(tokens)) /\ (At(r, "use") => req[r].nr \in 1 .. link[req[r].op].nr)

Typed == TokensOK /\ LinksOK /\ TabsOK /\ UsesOK /\ RequestsOK

-----------------------------------------------------------------------------
(***************************************************************************)
(* Lemmas.                                                                 *)
(***************************************************************************)
\* The steps of Next, one by one.
LEMMA NextCases ==
    ASSUME Next, NEW P,
           ASSUME NEW r \in Requests, FindToken(r) PROVE P,
           ASSUME NEW r \in Requests, Revoke(r) PROVE P,
           ASSUME NEW r \in Requests, Create(r) PROVE P,
           ASSUME NEW r \in Requests, IssueChallenge(r) PROVE P,
           ASSUME NEW r \in Requests, UseLink(r) PROVE P,
           ASSUME NEW r \in Requests, CheckCode(r) PROVE P,
           ASSUME NEW r \in Requests, SpendCode(r) PROVE P,
           ASSUME NEW r \in Requests, SetPassword(r) PROVE P,
           ASSUME NEW r \in Requests, RefusePassword(r) PROVE P,
           ASSUME NEW r \in Requests, NEW b \in Tabs \cup {None}, SignIn(r, b) PROVE P,
           ASSUME NEW r \in Requests, NEW op \in Kinds, LookAtLink(r, op) PROVE P,
           ASSUME NEW r \in Requests, Die(r) PROVE P,
           ASSUME NEW r \in Requests, Receive(r) PROVE P,
           ASSUME NEW r \in Requests, LoseAnswer(r) PROVE P,
           ASSUME NEW r \in Requests, NEW b \in Tabs, Refresh(r, b) PROVE P,
           ASSUME NEW r \in Requests, NEW b \in Tabs, Retry(r, b) PROVE P,
           ASSUME NEW b \in Tabs, GiveUp(b) PROVE P,
           ASSUME NEW t \in DOMAIN tokens, EndLine(t) PROVE P,
           ASSUME NEW k \in Kinds, LinkExpires(k) PROVE P,
           ASSUME RequestPasswordReset PROVE P,
           ASSUME LogOut PROVE P
    PROVE  P
  BY DEF Next, Server, Browser

LEMMA TypedImplies == Typed => TypeOK
  <1> SUFFICES ASSUME Typed PROVE TypeOK
    OBVIOUS
  <1>1. Len(tokens) \in Nat /\ Len(tokens) <= MaxTokens /\ 1 .. Len(tokens) \subseteq 1 .. MaxTokens
    BY BoundsAssumption DEF Typed, TokensOK
  <1>2. req \in [Requests -> RequestSet] /\ tab \in [Tabs -> TabSet] /\ link \in [Kinds -> Link]
    BY DEF Typed, RequestsOK, TabsOK, LinksOK
  <1>3. tokens \in Seq(Token) /\ stored \in 0 .. Len(tokens) /\ faults \in 0 .. MaxFaults
        /\ ended \subseteq 1 .. MaxTokens /\ doubted \subseteq 1 .. MaxTokens /\ codes \subseteq Codes
    BY <1>1 DEF Typed, TokensOK, TabsOK, LinksOK
  <1> QED
    BY <1>1, <1>2, <1>3 DEF Typed, UsesOK, TypeOK, Token, Link, TabSet, RequestSet, Ops, Places

\* Tokens are numbered in the order they are issued.
LEMMA Numbered ==
    ASSUME Typed
    PROVE  /\ Len(tokens) \in 0 .. MaxTokens /\ DOMAIN tokens = 1 .. Len(tokens)
           /\ \A t \in DOMAIN tokens : tokens[t] \in Token /\ tokens[t].line \in 1 .. Len(tokens)
  <1>1. tokens \in Seq(Token) /\ Len(tokens) <= MaxTokens /\ \A t \in DOMAIN tokens : tokens[t].line <= Len(tokens)
    BY DEF Typed, TokensOK
  <1>2. Len(tokens) \in 0 .. MaxTokens /\ DOMAIN tokens = 1 .. Len(tokens)
        /\ \A t \in DOMAIN tokens : tokens[t] \in Token
    BY <1>1, BoundsAssumption
  <1> QED
    BY <1>1, <1>2 DEF Token

LEMMA IdleSound == Idle \in RequestSet /\ \A n \in Nat : Sound(Idle, n)
  <1>1. Idle \in RequestSet
    BY BoundsAssumption DEF Idle, RequestSet, Ops, Places
  <1> QED
    BY <1>1 DEF Idle, Sound, OpsAt

\* What most steps of a request leave as it is.
Keeps(q, p) == p.op = q.op /\ p.tab = q.tab /\ p.token = q.token /\ p.nr = q.nr /\ p.made = q.made

\* The step is r's alone.
Others(r) == \A x \in Requests \ {r} : req'[x] = req[x]

Went(r, place) == RequestsOK' /\ Others(r) /\ req'[r].at = place /\ Keeps(req[r], req'[r])

Ended(r) ==
    /\ RequestsOK' /\ Others(r)
    /\ IF req[r].tab = None THEN req'[r] = Idle
       ELSE req'[r].at = "answer" /\ Keeps(req[r], req'[r])

Began(r, q) == ~Busy(r) /\ RequestsOK' /\ Others(r) /\ req'[r] = q

\* One request changes, and what the links and tokens are only grows.
LEMMA OneChanges ==
    ASSUME Typed, NEW r \in Requests, NEW q \in RequestSet, req' = [req EXCEPT ![r] = q],
           Len(tokens') \in Nat, Len(tokens) <= Len(tokens'), Sound(q, Len(tokens')),
           \A k \in Kinds : link'[k].nr \in Nat /\ link[k].nr <= link'[k].nr,
           q.at = "use" => q.nr \in 1 .. link'[q.op].nr
    PROVE  RequestsOK' /\ Others(r) /\ req'[r] = q
  <1>1. req \in [Requests -> RequestSet] /\ Len(tokens) \in Nat
    BY Numbered DEF Typed, RequestsOK
  <1>2. req' \in [Requests -> RequestSet] /\ req'[r] = q /\ Others(r)
    BY <1>1 DEF Others
  <1>3. ASSUME NEW x \in Requests \ {r}
        PROVE  Sound(req'[x], Len(tokens')) /\ (At(x, "use")' => req'[x].nr \in 1 .. link'[req'[x].op].nr)
    <2>1. req'[x] = req[x] /\ req[x] \in RequestSet /\ Sound(req[x], Len(tokens))
          /\ (req[x].at = "use" => req[x].nr \in 1 .. link[req[x].op].nr)
      BY <1>1, <1>2 DEF Others, Typed, RequestsOK, At
    <2>2. Sound(req[x], Len(tokens'))
      BY <1>1, <2>1 DEF Sound, RequestSet
    <2>3. req[x].at = "use" => req[x].op \in Kinds
      BY <2>1 DEF Sound, OpsAt
    <2>4. req[x].at = "use" => req[x].nr \in 1 .. link'[req[x].op].nr
      <3> SUFFICES ASSUME req[x].at = "use" PROVE req[x].nr \in 1 .. link'[req[x].op].nr
        OBVIOUS
      <3>1. link[req[x].op] \in Link
        BY <2>3 DEF Typed, LinksOK
      <3> QED
        BY <2>1, <2>3, <3>1 DEF Link
    <2> QED
      BY <2>1, <2>2, <2>4 DEF At
  <1> QED
    BY <1>2, <1>3 DEF RequestsOK, At

\* The same with links and tokens left alone.
LEMMA OneAlone ==
    ASSUME Typed, NEW r \in Requests, NEW q \in RequestSet, req' = [req EXCEPT ![r] = q],
           Sound(q, Len(tokens)), q.at = "use" => q.nr \in 1 .. link[q.op].nr,
           Len(tokens') = Len(tokens), UNCHANGED link
    PROVE  RequestsOK' /\ Others(r) /\ req'[r] = q
  <1>1. \A k \in Kinds : link[k].nr \in Nat
    BY DEF Typed, LinksOK, Link
  <1>2. Len(tokens) \in Nat
    BY Numbered
  <1>3. Len(tokens') \in Nat /\ Len(tokens) <= Len(tokens') /\ Sound(q, Len(tokens'))
        /\ \A k \in Kinds : link'[k].nr \in Nat /\ link[k].nr <= link'[k].nr
    BY <1>1, <1>2
  <1>4. q.at = "use" => q.nr \in 1 .. link'[q.op].nr
    OBVIOUS
  <1> QED
    BY <1>3, <1>4, OneChanges

LEMMA GoDoes ==
    ASSUME Typed, NEW r \in Requests, NEW place \in Places \ {"use", "answer", "issue"}, Go(r, place),
           req[r].op \in OpsAt(place), req[r].at # "answer",
           Len(tokens') = Len(tokens), \A k \in Kinds : link'[k].nr = link[k].nr
    PROVE  Went(r, place) /\ req'[r].line = req[r].line
  <1> DEFINE q == [req[r] EXCEPT !.at = place]
  <1>1. req[r] \in RequestSet /\ Sound(req[r], Len(tokens)) /\ Len(tokens) \in Nat
        /\ \A k \in Kinds : link[k].nr \in Nat
    BY Numbered DEF Typed, RequestsOK, LinksOK, Link
  <1>2. req' = [req EXCEPT ![r] = q]
    BY DEF Typed, RequestsOK, Go
  <1>3. q \in RequestSet /\ q.at = place /\ Keeps(req[r], q) /\ q.line = req[r].line
        /\ q.code = req[r].code /\ q.left = req[r].left
    BY <1>1 DEF RequestSet, Keeps
  <1> HIDE DEF q
  <1>4. Sound(q, Len(tokens))
    BY <1>1, <1>3 DEF Sound, Keeps
  <1>5. Len(tokens') \in Nat /\ Len(tokens) <= Len(tokens') /\ Sound(q, Len(tokens'))
        /\ \A k \in Kinds : link'[k].nr \in Nat /\ link[k].nr <= link'[k].nr
    BY <1>1, <1>4
  <1>6. RequestsOK' /\ Others(r) /\ req'[r] = q
    BY <1>2, <1>3, <1>5, OneChanges
  <1> QED
    BY <1>3, <1>6 DEF Went

LEMMA EndDoes ==
    ASSUME Typed, NEW r \in Requests, End(r), Len(tokens') = Len(tokens), UNCHANGED link
    PROVE  Ended(r)
  <1>1. req[r] \in RequestSet /\ Sound(req[r], Len(tokens)) /\ Len(tokens) \in Nat
    BY Numbered DEF Typed, RequestsOK
  <1>2. CASE req[r].tab = None
    <2>1. req' = [req EXCEPT ![r] = Idle] /\ Idle.at # "use"
      BY <1>2 DEF End, Answer, Idle
    <2> QED
      BY <1>1, <1>2, <2>1, IdleSound, OneAlone DEF Ended
  <1>3. CASE req[r].tab # None
    <2> DEFINE q == [req[r] EXCEPT !.at = "answer"]
    <2>1. req' = [req EXCEPT ![r] = q]
      BY <1>3 DEF End, Answer
    <2>2. q \in RequestSet /\ q.at = "answer" /\ Keeps(req[r], q) /\ q.line = req[r].line
          /\ q.code = req[r].code /\ q.left = req[r].left
      BY <1>1 DEF RequestSet, Places, Keeps
    <2> HIDE DEF q
    <2>3. Sound(q, Len(tokens))
      BY <1>1, <1>3, <2>2 DEF Sound, OpsAt, Keeps
    <2> QED
      BY <1>3, <2>1, <2>2, <2>3, OneAlone DEF Ended
  <1> QED
    BY <1>2, <1>3

LEMMA BeginDoes ==
    ASSUME Typed, NEW r \in Requests, NEW q \in RequestSet, Begin(r, q), Sound(q, Len(tokens)),
           q.at = "use" => q.nr \in 1 .. link[q.op].nr, UNCHANGED <<tokens, link>>
    PROVE  Began(r, q)
  BY OneAlone DEF Begin, Began

\* What each step of a request does to it.
LEMMA FindDoes ==
    ASSUME Typed, NEW r \in Requests, FindToken(r)
    PROVE  /\ req[r].token \in DOMAIN tokens /\ req[r].op = "refresh"
           /\ IF tokens[req[r].token].live
              THEN /\ Went(r, "revoke") /\ req'[r].late = tokens[req[r].token].late
                   /\ LookAt(r, {<<"token", req[r].token>>})
              ELSE Ended(r) /\ UNCHANGED uses
  <1>1. req[r] \in RequestSet /\ Sound(req[r], Len(tokens)) /\ req[r].at = "find"
    BY DEF Typed, RequestsOK, FindToken, At
  <1>2. req[r].op = "refresh" /\ req[r].made = 0
    BY <1>1 DEF Sound, OpsAt
  <1>3. req[r].token \in DOMAIN tokens
    BY <1>1, <1>2, Numbered DEF Sound, RequestSet
  <1>4. UNCHANGED <<tokens, link>>
    BY DEF FindToken, server
  <1>5. CASE tokens[req[r].token].live
    <2> DEFINE q == [req[r] EXCEPT !.at = "revoke", !.late = tokens[req[r].token].late]
    <2>1. req' = [req EXCEPT ![r] = q] /\ LookAt(r, {<<"token", req[r].token>>})
      BY <1>5 DEF FindToken, Typed, RequestsOK
    <2>2. tokens[req[r].token].late \in BOOLEAN
      BY <1>3, Numbered DEF Token
    <2>3. q \in RequestSet /\ q.at = "revoke" /\ Keeps(req[r], q) /\ q.line = req[r].line
          /\ q.code = req[r].code /\ q.left = req[r].left /\ q.late = tokens[req[r].token].late
      BY <1>1, <2>2 DEF RequestSet, Places, Keeps
    <2> HIDE DEF q
    <2>4. Sound(q, Len(tokens))
      BY <1>1, <1>2, <2>3 DEF Sound, OpsAt, Keeps
    <2> QED
      BY <1>2, <1>3, <1>4, <1>5, <2>1, <2>3, <2>4, OneAlone DEF Went
  <1>6. CASE ~tokens[req[r].token].live
    <2>1. End(r) /\ UNCHANGED uses
      BY <1>6 DEF FindToken
    <2> QED
      BY <1>2, <1>3, <1>4, <1>6, <2>1, EndDoes
  <1> QED
    BY <1>5, <1>6

LEMMA RevokeDoes ==
    ASSUME Typed, NEW r \in Requests, Revoke(r)
    PROVE  /\ req[r].token \in DOMAIN tokens /\ req[r].op = "refresh"
           /\ TokensOK' /\ Len(tokens') = Len(tokens) /\ ~tokens'[req[r].token].live
           /\ \A t \in DOMAIN tokens : /\ tokens'[t].line = tokens[t].line /\ tokens'[t].late = tokens[t].late
                                       /\ t # req[r].token => tokens'[t] = tokens[t]
           /\ Went(r, "create") /\ req'[r].line \in {0, tokens[req[r].token].line}
           /\ req'[r].late = req[r].late
           /\ Spend(<<"token", req[r].token>>)
  <1> DEFINE t == req[r].token
  <1>1. req[r] \in RequestSet /\ Sound(req[r], Len(tokens)) /\ req[r].at = "revoke"
    BY DEF Typed, RequestsOK, Revoke, At
  <1>2. req[r].op = "refresh" /\ req[r].made = 0
    BY <1>1 DEF Sound, OpsAt
  <1>3. t \in DOMAIN tokens /\ t \in 1 .. Len(tokens) /\ tokens[t] \in Token /\ Len(tokens) \in Nat
    BY <1>1, <1>2, Numbered DEF Sound, RequestSet
  <1> DEFINE u == [tokens[t] EXCEPT !.live = FALSE]
  <1>4. u \in Token /\ u.line = tokens[t].line /\ u.late = tokens[t].late /\ ~u.live
    BY <1>3 DEF Token
  <1>5. tokens' = [tokens EXCEPT ![t] = u] /\ UNCHANGED <<link, ended>> /\ Spend(<<"token", t>>)
    BY DEF Revoke
  <1> DEFINE line == IF <<"token", t>> \in spent THEN 0 ELSE tokens[t].line
             q == [req[r] EXCEPT !.at = "create", !.line = line]
  <1>6. req' = [req EXCEPT ![r] = q]
    BY DEF Revoke, Typed, RequestsOK
  <1>7. line \in {0, tokens[t].line}
    OBVIOUS
  <1> HIDE DEF u, t, line
  <1>8. /\ tokens' \in Seq(Token) /\ Len(tokens') = Len(tokens)
        /\ \A x \in 1 .. Len(tokens) : tokens'[x] = IF x = t THEN u ELSE tokens[x]
    BY <1>3, <1>4, <1>5, ExceptSeq DEF Typed, TokensOK
  <1>9. DOMAIN tokens' = 1 .. Len(tokens) /\ DOMAIN tokens = 1 .. Len(tokens)
    BY <1>8, Numbered
  <1>10. line \in 0 .. MaxTokens /\ line <= Len(tokens)
    BY <1>3, <1>7, Numbered, BoundsAssumption
  <1>11. q \in RequestSet /\ q.at = "create" /\ Keeps(req[r], q) /\ q.line = line
         /\ q.code = req[r].code /\ q.left = req[r].left /\ q.late = req[r].late
    BY <1>1, <1>10 DEF RequestSet, Places, Keeps
  <1> HIDE DEF q
  <1>12. Sound(q, Len(tokens))
    BY <1>1, <1>2, <1>10, <1>11 DEF Sound, OpsAt, Keeps
  <1>13. Went(r, "create") /\ req'[r] = q
    BY <1>5, <1>6, <1>8, <1>11, <1>12, OneAlone DEF Went
  <1>14. TokensOK'
    BY <1>4, <1>5, <1>8, <1>9, Numbered DEF TokensOK, Typed
  <1> QED
    BY <1>2, <1>3, <1>4, <1>5, <1>7, <1>8, <1>9, <1>11, <1>13, <1>14 DEF t

LEMMA CreateDoes ==
    ASSUME Typed, NEW r \in Requests, Create(r)
    PROVE  LET id == Len(tokens) + 1
           IN  /\ id \in 1 .. MaxTokens /\ TokensOK' /\ Len(tokens') = id
               /\ DOMAIN tokens' = DOMAIN tokens \cup {id} /\ id \notin DOMAIN tokens
               /\ \A t \in DOMAIN tokens : tokens'[t] = tokens[t]
               /\ tokens'[id].live /\ tokens'[id].late = req[r].late
               /\ tokens'[id].line \in {id} \cup ({req[r].line} \ {0})
               /\ RequestsOK' /\ Others(r) /\ req[r].op \in {"refresh", "signin", "challenge"}
               /\ IF req[r].tab = None THEN req'[r] = Idle
                  ELSE /\ req'[r].at = "answer" /\ req'[r].made = id /\ req'[r].op = req[r].op
                       /\ req'[r].tab = req[r].tab /\ req'[r].token = req[r].token
  <1> DEFINE id == Len(tokens) + 1
             line == IF req[r].line = 0 THEN id ELSE req[r].line
             u == [live |-> TRUE, late |-> req[r].late, line |-> line]
  <1>1. req[r] \in RequestSet /\ Sound(req[r], Len(tokens)) /\ req[r].at = "create"
    BY DEF Typed, RequestsOK, Create, At
  <1>2. req[r].op \in {"refresh", "signin", "challenge"} /\ req[r].line \in 0 .. Len(tokens) /\ req[r].late \in BOOLEAN
        /\ req[r].token <= Len(tokens) /\ req[r].token \in Nat
    BY <1>1, Numbered DEF Sound, OpsAt, RequestSet
  <1>3. Len(tokens) \in Nat /\ id \in 1 .. MaxTokens /\ id \notin DOMAIN tokens
        /\ tokens \in Seq(Token) /\ DOMAIN tokens = 1 .. Len(tokens)
    BY Numbered, BoundsAssumption DEF Create, Typed, TokensOK
  <1>4. /\ u \in Token /\ u.live /\ u.late = req[r].late /\ u.line \in {id} \cup ({req[r].line} \ {0})
        /\ u.line <= id
    <2>1. line \in {id} \cup ({req[r].line} \ {0})
      OBVIOUS
    <2>2. line \in 1 .. MaxTokens /\ line <= id
      BY <1>2, <1>3, BoundsAssumption
    <2> HIDE DEF line
    <2> QED
      BY <1>2, <2>1, <2>2 DEF Token
  <1>5. tokens' = Append(tokens, u) /\ UNCHANGED <<link, ended>>
    BY DEF Create
  <1> HIDE DEF u
  <1>6. /\ tokens' \in Seq(Token) /\ Len(tokens') = id /\ DOMAIN tokens' = 1 .. id /\ tokens'[id] = u
        /\ \A t \in DOMAIN tokens : tokens'[t] = tokens[t]
    BY <1>3, <1>4, <1>5
  <1>7. DOMAIN tokens' = DOMAIN tokens \cup {id}
    BY <1>3, <1>6
  <1>8. TokensOK'
    <2>1. \A t \in DOMAIN tokens' : tokens'[t].line <= id
      BY <1>3, <1>4, <1>6, <1>7, Numbered
    <2>2. ended' \subseteq 1 .. id
      BY <1>3, <1>5 DEF Typed, TokensOK
    <2> QED
      BY <1>3, <1>6, <2>1, <2>2 DEF TokensOK
  <1>9. RequestsOK' /\ Others(r)
        /\ IF req[r].tab = None THEN req'[r] = Idle
           ELSE /\ req'[r].at = "answer" /\ req'[r].made = id /\ req'[r].op = req[r].op
                /\ req'[r].tab = req[r].tab /\ req'[r].token = req[r].token
    <2>1. Len(tokens') \in Nat /\ Len(tokens) <= Len(tokens')
          /\ \A k \in Kinds : link'[k].nr \in Nat /\ link[k].nr <= link'[k].nr
      BY <1>3, <1>5, <1>6 DEF Typed, LinksOK, Link
    <2>2. CASE req[r].tab = None
      <3>1. req' = [req EXCEPT ![r] = Idle] /\ Idle.at # "use"
        <4>1. Idle.made = 0 /\ Idle.at # "use"
          BY DEF Idle
        <4>2. \A q \in RequestSet : [q EXCEPT !.made = q.made] = q
          BY DEF RequestSet
        <4>3. [Idle EXCEPT !.made = 0] = Idle
          BY <4>1, <4>2, IdleSound
        <4> QED
          BY <2>2, <4>1, <4>3 DEF Create, Answer
      <3> QED
        BY <2>1, <2>2, <3>1, IdleSound, OneChanges
    <2>3. CASE req[r].tab # None
      <3> DEFINE q == [req[r] EXCEPT !.at = "answer", !.made = id]
      <3>1. req' = [req EXCEPT ![r] = q]
        BY <1>1, <2>3 DEF Create, Answer, RequestSet
      <3>2. id \in 0 .. MaxTokens
        BY <1>3
      <3> HIDE DEF id
      <3>3. q \in RequestSet /\ q.at = "answer" /\ q.made = id /\ q.op = req[r].op /\ q.tab = req[r].tab
            /\ q.token = req[r].token /\ q.line = req[r].line /\ q.code = req[r].code /\ q.left = req[r].left
        BY <1>1, <3>2 DEF RequestSet, Places
      <3> HIDE DEF q
      <3>4. Sound(q, id)
        BY <1>1, <1>2, <1>3, <2>3, <3>3 DEF Sound, OpsAt, id
      <3>5. Sound(q, Len(tokens'))
        BY <1>6, <3>4
      <3>6. RequestsOK' /\ Others(r) /\ req'[r] = q
        BY <2>1, <3>1, <3>3, <3>5, OneChanges
      <3> QED
        BY <2>3, <3>3, <3>6
    <2> QED
      BY <2>2, <2>3
  <1> QED
    BY <1>2, <1>3, <1>4, <1>6, <1>7, <1>8, <1>9

LEMMA UseLinkDoes ==
    ASSUME Typed, NEW r \in Requests, UseLink(r)
    PROVE  LET op == req[r].op
           IN  /\ op \in Kinds /\ req[r].nr \in 1 .. link[op].nr /\ LinksOK'
               /\ Spend(<<op, req[r].nr>>)
               /\ \A k \in Kinds : link'[k].nr = link[k].nr /\ (link'[k].open => link[k].open)
               /\ link[op].nr = req[r].nr => ~link'[op].open
               /\ Went(r, IF op = "reset" THEN "write" ELSE "check") /\ req'[r].line = 0
               /\ req[r].tab = None
  <1> DEFINE op == req[r].op
  <1>1. req[r] \in RequestSet /\ Sound(req[r], Len(tokens)) /\ req[r].at = "use"
        /\ req[r].nr \in 1 .. link[op].nr
    BY DEF Typed, RequestsOK, UseLink, At
  <1>2. op \in Kinds /\ req[r].line = 0 /\ req[r].tab = None
    BY <1>1 DEF Sound, OpsAt, Kinds
  <1>3. link \in [Kinds -> Link]
    BY DEF Typed, LinksOK
  <1>4. /\ link' \in [Kinds -> Link] /\ \A k \in Kinds : link'[k].nr = link[k].nr
        /\ \A k \in Kinds : link'[k].open => link[k].open
        /\ link[op].nr = req[r].nr => ~link'[op].open
    <2> DEFINE u == [link[op] EXCEPT !.open = FALSE]
    <2>1. u \in Link /\ u.nr = link[op].nr /\ ~u.open
      BY <1>2, <1>3 DEF Link
    <2>2. link' = IF link[op].nr = req[r].nr THEN [link EXCEPT ![op] = u] ELSE link
      BY DEF UseLink
    <2> HIDE DEF u, op
    <2> QED
      BY <1>2, <1>3, <2>1, <2>2
  <1>5. LinksOK'
    BY <1>4 DEF Typed, LinksOK, UseLink
  <1> DEFINE place == IF op = "reset" THEN "write" ELSE "check"
  <1>6. Go(r, place) /\ Len(tokens') = Len(tokens) /\ Spend(<<op, req[r].nr>>)
    BY DEF UseLink
  <1>7. op \in OpsAt(place) /\ place \in Places \ {"use", "answer", "issue"}
    BY <1>2 DEF OpsAt, Places, Kinds
  <1>8. \A k \in Kinds : link'[k].nr = link[k].nr
    BY <1>4
  <1> HIDE DEF place
  <1>9. Went(r, place) /\ req'[r].line = req[r].line
    BY <1>1, <1>6, <1>7, <1>8, GoDoes
  <1> QED
    BY <1>1, <1>2, <1>4, <1>5, <1>6, <1>9 DEF place

LEMMA CheckCodeDoes ==
    ASSUME Typed, NEW r \in Requests, CheckCode(r)
    PROVE  /\ req[r].op = "challenge" /\ req[r].tab = None /\ req[r].line = 0
           /\ \/ Went(r, "create") /\ req'[r].line = 0 /\ UNCHANGED uses
              \/ Ended(r) /\ UNCHANGED uses
              \/ \E c \in codes : /\ Went(r, "spend") /\ req'[r].line = 0
                                  /\ req'[r].code = {c} /\ req'[r].left = codes \ {c}
                                 /\ LookAt(r, {"code"} \X codes)
  <1>1. req[r] \in RequestSet /\ Sound(req[r], Len(tokens)) /\ req[r].at = "check"
        /\ UNCHANGED <<tokens, link>>
    BY DEF Typed, RequestsOK, CheckCode, At, server
  <1>2. req[r].op = "challenge" /\ req[r].tab = None /\ req[r].line = 0
    BY <1>1 DEF Sound, OpsAt, Kinds
  <1>3. CASE Go(r, "create") /\ UNCHANGED uses
    <2>1. "create" \in Places \ {"use", "answer", "issue"} /\ req[r].op \in OpsAt("create")
      BY <1>2 DEF Places, OpsAt
    <2>2. Went(r, "create") /\ req'[r].line = req[r].line
      BY <1>1, <1>3, <2>1, GoDoes
    <2> QED
      BY <1>2, <1>3, <2>2
  <1>4. CASE End(r) /\ UNCHANGED uses
    BY <1>1, <1>2, <1>4, EndDoes
  <1>5. ASSUME NEW c \in codes,
               req' = [req EXCEPT ![r].at = "spend", ![r].code = {c}, ![r].left = codes \ {c}],
               LookAt(r, {"code"} \X codes)
        PROVE  Went(r, "spend") /\ req'[r].line = 0 /\ req'[r].code = {c} /\ req'[r].left = codes \ {c}
    <2> DEFINE q == [req[r] EXCEPT !.at = "spend", !.code = {c}, !.left = codes \ {c}]
    <2>1. req' = [req EXCEPT ![r] = q]
      BY <1>5 DEF Typed, RequestsOK
    <2>2. codes \subseteq Codes
      BY DEF Typed, LinksOK
    <2>3. q \in RequestSet /\ q.at = "spend" /\ Keeps(req[r], q) /\ q.line = req[r].line
          /\ q.code = {c} /\ q.left = codes \ {c}
      BY <1>1, <2>2 DEF RequestSet, Places, Keeps
    <2> HIDE DEF q
    <2>4. Sound(q, Len(tokens))
      BY <1>1, <1>2, <2>3 DEF Sound, OpsAt, Keeps
    <2>5. RequestsOK' /\ Others(r) /\ req'[r] = q
      BY <1>1, <2>1, <2>3, <2>4, OneAlone
    <2> QED
      BY <1>2, <2>3, <2>5 DEF Went
  <1> QED
    BY <1>2, <1>3, <1>4, <1>5 DEF CheckCode

LEMMA SpendCodeDoes ==
    ASSUME Typed, NEW r \in Requests, SpendCode(r)
    PROVE  /\ req[r].op = "challenge" /\ req[r].tab = None
           /\ codes' = req[r].left /\ LinksOK'
           /\ \E c \in req[r].code \ req[r].left : Spend(<<"code", c>>)
           /\ Went(r, "create") /\ req'[r].line = 0
  <1>1. req[r] \in RequestSet /\ Sound(req[r], Len(tokens)) /\ req[r].at = "spend"
        /\ UNCHANGED <<tokens, link>>
    BY DEF Typed, RequestsOK, SpendCode, At
  <1>2. req[r].op = "challenge" /\ req[r].tab = None /\ req[r].line = 0 /\ req[r].code \cap req[r].left = {}
    BY <1>1 DEF Sound, OpsAt, Kinds
  <1> DEFINE q == [req[r] EXCEPT !.at = "create", !.code = {}, !.left = {}]
  <1>3. req' = [req EXCEPT ![r] = q]
    BY DEF Typed, RequestsOK, SpendCode
  <1>4. q \in RequestSet /\ q.at = "create" /\ Keeps(req[r], q) /\ q.line = req[r].line
        /\ q.code = {} /\ q.left = {}
    BY <1>1 DEF RequestSet, Places, Keeps
  <1> HIDE DEF q
  <1>5. Sound(q, Len(tokens))
    BY <1>1, <1>2, <1>4 DEF Sound, OpsAt, Keeps
  <1>6. RequestsOK' /\ Others(r) /\ req'[r] = q
    BY <1>1, <1>3, <1>4, <1>5, OneAlone
  <1>7. codes' = req[r].left /\ req[r].left \subseteq Codes
    BY <1>1 DEF SpendCode, RequestSet
  <1>8. LinksOK'
    BY <1>1, <1>7 DEF Typed, LinksOK
  <1> QED
    BY <1>2, <1>4, <1>6, <1>7, <1>8 DEF Went, SpendCode

\* What ending lines does to the tokens, and to the requests that had one in hand.
LEMMA LinesEnd ==
    ASSUME Typed, NEW lines \in SUBSET (1 .. Len(tokens)), EndLines(lines)
    PROVE  /\ TokensOK' /\ Len(tokens') = Len(tokens) /\ DOMAIN tokens' = DOMAIN tokens
           /\ ended' = ended \cup lines
           /\ \A t \in DOMAIN tokens :
                 /\ tokens'[t].line = tokens[t].line /\ tokens'[t].late = tokens[t].late
                 /\ IF tokens[t].line \in lines THEN ~tokens'[t].live ELSE tokens'[t] = tokens[t]
  <1>1. /\ Len(tokens) \in Nat /\ DOMAIN tokens = 1 .. Len(tokens) /\ Len(tokens) <= MaxTokens
        /\ \A t \in 1 .. Len(tokens) : tokens[t] \in Token /\ tokens[t].line <= Len(tokens)
    BY Numbered DEF Typed, TokensOK
  <1>2. ended' = ended \cup lines
        /\ tokens' = [t \in 1 .. Len(tokens) |->
                        IF tokens[t].line \in lines THEN [tokens[t] EXCEPT !.live = FALSE] ELSE tokens[t]]
    BY <1>1 DEF EndLines
  <1>3. \A t \in 1 .. Len(tokens) :
           /\ [tokens[t] EXCEPT !.live = FALSE] \in Token /\ ~[tokens[t] EXCEPT !.live = FALSE].live
           /\ [tokens[t] EXCEPT !.live = FALSE].line = tokens[t].line
           /\ [tokens[t] EXCEPT !.live = FALSE].late = tokens[t].late
    BY <1>1 DEF Token
  <1>4. tokens' \in [1 .. Len(tokens) -> Token]
    BY <1>1, <1>2, <1>3
  <1>5. tokens' \in Seq(Token) /\ Len(tokens') = Len(tokens) /\ DOMAIN tokens' = DOMAIN tokens
    BY <1>1, <1>4, SeqDef
  <1>6. \A t \in DOMAIN tokens :
           /\ tokens'[t].line = tokens[t].line /\ tokens'[t].late = tokens[t].late
           /\ IF tokens[t].line \in lines THEN ~tokens'[t].live ELSE tokens'[t] = tokens[t]
    BY <1>1, <1>2, <1>3
  <1>7. ended' \subseteq 1 .. Len(tokens)
    BY <1>2 DEF Typed, TokensOK
  <1>8. TokensOK'
    BY <1>1, <1>5, <1>6, <1>7 DEF TokensOK
  <1> QED
    BY <1>2, <1>5, <1>6, <1>8

\* Only how late it is may change.
Same(q, p) ==
    Keeps(q, p) /\ p.at = q.at /\ p.line = q.line /\ p.code = q.code /\ p.left = q.left /\ (q.late => p.late)

LEMMA LateDoes ==
    ASSUME NEW q \in RequestSet, NEW lines
    PROVE  /\ BeLate(q, lines) \in RequestSet /\ Same(q, BeLate(q, lines))
           /\ q.at = "revoke" /\ tokens[q.token].line \in lines => BeLate(q, lines).late
           /\ q.at = "create" /\ q.line \in lines => BeLate(q, lines).late
  <1> DEFINE p == [q EXCEPT !.late = TRUE]
  <1>1. p \in RequestSet /\ Same(q, p) /\ p.late /\ Same(q, q)
    BY DEF RequestSet, Same, Keeps
  <1> DEFINE late == \/ q.at = "revoke" /\ tokens[q.token].line \in lines
                     \/ q.at = "create" /\ q.line \in lines
  <1>2. BeLate(q, lines) = IF late THEN p ELSE q
    BY DEF BeLate
  <1> HIDE DEF p, late
  <1>3. CASE late
    BY <1>1, <1>2, <1>3
  <1>4. CASE ~late
    BY <1>1, <1>2, <1>4 DEF late
  <1> QED
    BY <1>3, <1>4

LEMMA SameSound ==
    ASSUME NEW q, NEW p, NEW n, Sound(q, n), Same(q, p)
    PROVE  Sound(p, n)
  BY DEF Sound, Same, Keeps

LEMMA SetPasswordDoes ==
    ASSUME Typed, NEW r \in Requests, SetPassword(r)
    PROVE  LET lines == {tokens[t].line : t \in DOMAIN tokens}
           IN  /\ EndLines(lines) /\ lines \in SUBSET (1 .. Len(tokens))
               /\ RequestsOK' /\ req'[r] = Idle /\ req[r].op = "reset" /\ req[r].tab = None
               /\ \A q \in Requests \ {r} : req'[q] = BeLate(req[q], lines)
  <1> DEFINE lines == {tokens[t].line : t \in DOMAIN tokens}
  <1>1. lines \in SUBSET (1 .. Len(tokens)) /\ Len(tokens) \in Nat
    BY Numbered
  <1>2. EndLines(lines) /\ req' = [q \in Requests |-> IF q = r THEN Idle ELSE BeLate(req[q], lines)]
        /\ UNCHANGED link
    BY DEF SetPassword
  <1> HIDE DEF lines
  <1>3. Len(tokens') = Len(tokens)
    BY <1>1, <1>2, LinesEnd
  <1>4. \A q \in Requests : /\ req[q] \in RequestSet /\ Sound(req[q], Len(tokens))
                            /\ req[q].at = "use" => req[q].nr \in 1 .. link[req[q].op].nr
    BY DEF Typed, RequestsOK, At
  <1>5. ASSUME NEW q \in Requests \ {r}
        PROVE  /\ BeLate(req[q], lines) \in RequestSet /\ Sound(BeLate(req[q], lines), Len(tokens))
               /\ Same(req[q], BeLate(req[q], lines))
    <2>1. BeLate(req[q], lines) \in RequestSet /\ Same(req[q], BeLate(req[q], lines))
      BY <1>4, LateDoes
    <2> QED
      BY <1>4, <2>1, SameSound
  <1>6. Idle \in RequestSet /\ Sound(Idle, Len(tokens)) /\ Idle.at # "use"
    BY <1>1, IdleSound DEF Idle
  <1>7. req' \in [Requests -> RequestSet] /\ \A q \in Requests : Sound(req'[q], Len(tokens))
    BY <1>2, <1>5, <1>6
  <1>8. ASSUME NEW q \in Requests, req'[q].at = "use" PROVE req'[q].nr \in 1 .. link[req'[q].op].nr
    <2>1. q # r /\ req'[q] = BeLate(req[q], lines)
      BY <1>2, <1>6, <1>8
    <2>2. req'[q].at = req[q].at /\ req'[q].nr = req[q].nr /\ req'[q].op = req[q].op
      BY <1>5, <2>1 DEF Same, Keeps
    <2> QED
      BY <1>4, <1>8, <2>2
  <1>9. RequestsOK'
    BY <1>2, <1>3, <1>7, <1>8 DEF RequestsOK, At
  <1>10. req[r].op = "reset" /\ req[r].tab = None
    <2>1. req[r].at = "write" /\ req[r].op \in OpsAt(req[r].at) /\ (req[r].tab # None => req[r].op \in {"refresh", "signin"})
      BY <1>4 DEF SetPassword, At, Sound
    <2> QED
      BY <2>1 DEF OpsAt
  <1> QED
    BY <1>1, <1>2, <1>9, <1>10 DEF lines

LEMMA EndLineDoes ==
    ASSUME Typed, NEW t \in DOMAIN tokens, EndLine(t)
    PROVE  LET lines == {tokens[t].line}
           IN  /\ EndLines(lines) /\ lines \in SUBSET (1 .. Len(tokens))
               /\ RequestsOK'
               /\ \A q \in Requests : req'[q] = BeLate(req[q], lines)
  <1> DEFINE lines == {tokens[t].line}
  <1>1. lines \in SUBSET (1 .. Len(tokens)) /\ Len(tokens) \in Nat
    BY Numbered
  <1>2. EndLines(lines) /\ req' = [q \in Requests |-> BeLate(req[q], lines)] /\ UNCHANGED link
    BY DEF EndLine
  <1> HIDE DEF lines
  <1>3. Len(tokens') = Len(tokens)
    BY <1>1, <1>2, LinesEnd
  <1>4. \A q \in Requests : /\ req[q] \in RequestSet /\ Sound(req[q], Len(tokens))
                            /\ req[q].at = "use" => req[q].nr \in 1 .. link[req[q].op].nr
    BY DEF Typed, RequestsOK, At
  <1>5. ASSUME NEW q \in Requests
        PROVE  /\ BeLate(req[q], lines) \in RequestSet /\ Sound(BeLate(req[q], lines), Len(tokens))
               /\ Same(req[q], BeLate(req[q], lines))
    <2>1. BeLate(req[q], lines) \in RequestSet /\ Same(req[q], BeLate(req[q], lines))
      BY <1>4, LateDoes
    <2> QED
      BY <1>4, <2>1, SameSound
  <1>6. req' \in [Requests -> RequestSet] /\ \A q \in Requests : Sound(req'[q], Len(tokens))
    BY <1>2, <1>5
  <1>7. ASSUME NEW q \in Requests, req'[q].at = "use" PROVE req'[q].nr \in 1 .. link[req'[q].op].nr
    <2>1. req'[q] = BeLate(req[q], lines)
      BY <1>2
    <2>2. req'[q].at = req[q].at /\ req'[q].nr = req[q].nr /\ req'[q].op = req[q].op
      BY <1>5, <2>1 DEF Same, Keeps
    <2> QED
      BY <1>4, <1>7, <2>2
  <1>8. RequestsOK'
    BY <1>2, <1>3, <1>6, <1>7 DEF RequestsOK, At
  <1> QED
    BY <1>1, <1>2, <1>8 DEF lines

LEMMA SignInDoes ==
    ASSUME Typed, NEW r \in Requests, NEW b \in Tabs \cup {None}, SignIn(r, b)
    PROVE  /\ ~Busy(r) /\ RequestsOK' /\ Others(r)
           /\ req'[r].op = "signin" /\ req'[r].tab = b /\ req'[r].token = 0 /\ req'[r].line = 0 /\ req'[r].made = 0
           /\ req'[r].at = "create" \/ (req'[r].at = "issue" /\ b = None)
  <1>1. Len(tokens) \in Nat /\ UNCHANGED <<tokens, link>>
    BY Numbered DEF SignIn, server
  <1>2. ASSUME NEW at \in {"create", "issue"}, at = "issue" => b = None,
               ~Busy(r), req' = [req EXCEPT ![r] = [Idle EXCEPT !.op = "signin", !.at = at, !.tab = b]]
        PROVE  /\ RequestsOK' /\ Others(r)
               /\ req'[r].op = "signin" /\ req'[r].tab = b /\ req'[r].token = 0 /\ req'[r].line = 0 /\ req'[r].made = 0
               /\ req'[r].at = at
    <2> DEFINE q == [Idle EXCEPT !.op = "signin", !.at = at, !.tab = b]
    <2>1. q.op = "signin" /\ q.at = at /\ q.tab = b /\ q.token = 0 /\ q.line = 0 /\ q.made = 0
          /\ q.code = {} /\ q.left = {} /\ q.nr = 0 /\ q.late = FALSE
      BY DEF Idle
    <2>2. q \in RequestSet
      BY IdleSound DEF RequestSet, Ops, Places
    <2>3. req' = [req EXCEPT ![r] = q]
      BY <1>2
    <2> HIDE DEF q
    <2>4. Sound(q, Len(tokens)) /\ q.at # "use"
      BY <1>1, <1>2, <2>1 DEF Sound, OpsAt
    <2>5. RequestsOK' /\ Others(r) /\ req'[r] = q
      BY <1>1, <2>2, <2>3, <2>4, OneAlone
    <2> QED
      BY <2>1, <2>5
  <1>3. CASE Begin(r, [Idle EXCEPT !.op = "signin", !.at = "create", !.tab = b])
    BY <1>2, <1>3 DEF Begin
  <1>4. CASE b = None /\ Begin(r, [Idle EXCEPT !.op = "signin", !.at = "issue"])
    <2>1. \A q \in RequestSet : q.tab = None => [q EXCEPT !.op = "signin", !.at = "issue"]
                                               = [q EXCEPT !.op = "signin", !.at = "issue", !.tab = None]
      BY DEF RequestSet
    <2>2. Idle.tab = None
      BY DEF Idle
    <2> QED
      BY <1>2, <1>4, <2>1, <2>2, IdleSound DEF Begin
  <1> QED
    BY <1>3, <1>4 DEF SignIn, Begin

LEMMA LookAtLinkDoes ==
    ASSUME Typed, NEW r \in Requests, NEW op \in Kinds, LookAtLink(r, op)
    PROVE  /\ ~Busy(r) /\ RequestsOK' /\ Others(r)
           /\ req'[r].op = op /\ req'[r].at = "use" /\ req'[r].nr = link[op].nr
           /\ req'[r].tab = None /\ req'[r].token = 0 /\ req'[r].line = 0 /\ req'[r].made = 0
  <1> DEFINE q == [Idle EXCEPT !.op = op, !.at = "use", !.nr = link[op].nr]
  <1>1. link[op].nr \in 1 .. link[op].nr /\ link[op].nr \in 0 .. MaxLinks
    BY DEF LookAtLink, Typed, LinksOK, Link
  <1>2. q.op = op /\ q.at = "use" /\ q.nr = link[op].nr /\ q.tab = None /\ q.token = 0 /\ q.line = 0
        /\ q.made = 0 /\ q.code = {} /\ q.left = {}
    BY DEF Idle
  <1>3. q \in RequestSet
    BY <1>1, IdleSound DEF RequestSet, Ops, Places
  <1>4. ~Busy(r) /\ req' = [req EXCEPT ![r] = q] /\ UNCHANGED <<tokens, link>>
    BY DEF LookAtLink, Begin, server
  <1> HIDE DEF q
  <1>5. Sound(q, Len(tokens))
    BY <1>2, Numbered DEF Sound, OpsAt, Kinds
  <1>6. RequestsOK' /\ Others(r) /\ req'[r] = q
    BY <1>1, <1>2, <1>3, <1>4, <1>5, OneAlone
  <1> QED
    BY <1>2, <1>4, <1>6

LEMMA AskDoes ==
    ASSUME Typed, NEW r \in Requests, NEW b \in Tabs, NEW t \in 1 .. Len(tokens), Ask(r, b, t),
           UNCHANGED <<tokens, link>>
    PROVE  /\ ~Busy(r) /\ RequestsOK' /\ Others(r)
           /\ req'[r].op = "refresh" /\ req'[r].at = "find" /\ req'[r].tab = b
           /\ req'[r].token = t /\ req'[r].made = 0
  <1> DEFINE q == [Idle EXCEPT !.op = "refresh", !.at = "find", !.tab = b, !.token = t]
  <1>1. t \in 0 .. MaxTokens /\ t <= Len(tokens) /\ t # 0
    BY Numbered, BoundsAssumption
  <1>2. q.op = "refresh" /\ q.at = "find" /\ q.tab = b /\ q.token = t /\ q.line = 0
        /\ q.made = 0 /\ q.code = {} /\ q.left = {}
    BY DEF Idle
  <1>3. q \in RequestSet
    BY <1>1, IdleSound DEF RequestSet, Ops, Places
  <1>4. ~Busy(r) /\ req' = [req EXCEPT ![r] = q]
    BY DEF Ask, Begin
  <1> HIDE DEF q
  <1>5. Sound(q, Len(tokens))
    BY <1>1, <1>2, Numbered DEF Sound, OpsAt
  <1>6. RequestsOK' /\ Others(r) /\ req'[r] = q
    BY <1>2, <1>3, <1>4, <1>5, OneAlone
  <1> QED
    BY <1>2, <1>4, <1>6

\* The request is gone.
LEMMA IdleDoes ==
    ASSUME Typed, NEW r \in Requests, req' = [req EXCEPT ![r] = Idle], UNCHANGED <<tokens, link>>
    PROVE  RequestsOK' /\ Others(r) /\ req'[r] = Idle
  <1>1. Len(tokens) \in Nat
    BY Numbered
  <1>2. Sound(Idle, Len(tokens)) /\ Idle \in RequestSet
    BY <1>1, IdleSound
  <1>3. Idle.at # "use"
    BY DEF Idle
  <1> QED
    BY <1>2, <1>3, OneAlone

LEMMA LoseAnswerDoes ==
    ASSUME Typed, NEW r \in Requests, LoseAnswer(r)
    PROVE  /\ RequestsOK' /\ Others(r) /\ req[r].tab \in Tabs /\ req[r].op \in {"refresh", "signin"}
           /\ IF At(r, "answer") THEN req'[r] = Idle
              ELSE /\ req'[r].at = req[r].at /\ req'[r].op = req[r].op /\ req'[r].tab = None
                   /\ req'[r].token = req[r].token /\ req'[r].line = req[r].line /\ req'[r].made = req[r].made
                   /\ req'[r].late = req[r].late
  <1>1. req[r] \in RequestSet /\ Sound(req[r], Len(tokens)) /\ req[r].tab # None
    BY DEF Typed, RequestsOK, LoseAnswer
  <1>2. req[r].op \in {"refresh", "signin"} /\ req[r].at # "use" /\ req[r].tab \in Tabs
    BY <1>1 DEF Sound, OpsAt, Kinds, RequestSet
  <1>3. UNCHANGED <<tokens, link>>
    BY DEF LoseAnswer, Fault, server
  <1>4. CASE At(r, "answer")
    <2>1. req' = [req EXCEPT ![r] = Idle]
      BY <1>4 DEF LoseAnswer
    <2> QED
      BY <1>2, <1>3, <1>4, <2>1, IdleDoes
  <1>5. CASE ~At(r, "answer")
    <2> DEFINE q == [req[r] EXCEPT !.tab = None]
    <2>1. req' = [req EXCEPT ![r] = q]
      BY <1>5 DEF LoseAnswer
    <2>2. q \in RequestSet /\ q.at = req[r].at /\ q.op = req[r].op /\ q.tab = None /\ q.token = req[r].token
          /\ q.line = req[r].line /\ q.made = req[r].made /\ q.late = req[r].late
          /\ q.code = req[r].code /\ q.left = req[r].left
      BY <1>1 DEF RequestSet
    <2> HIDE DEF q
    <2>3. Sound(q, Len(tokens))
      BY <1>1, <1>5, <2>2 DEF Sound, At
    <2>4. RequestsOK' /\ Others(r) /\ req'[r] = q
      BY <1>2, <1>3, <2>1, <2>2, <2>3, OneAlone
    <2> QED
      BY <1>2, <1>5, <2>2, <2>4
  <1> QED
    BY <1>4, <1>5

\* issueUserToken.
LEMMA NewLinkDoes ==
    ASSUME Typed, NEW kind \in Kinds, NewLink(kind), UNCHANGED codes
    PROVE  /\ LinksOK' /\ link'[kind].nr = link[kind].nr + 1
           /\ \A k \in Kinds : link'[k].nr \in Nat /\ link[k].nr <= link'[k].nr
           /\ \A k \in Kinds \ {kind} : link'[k] = link[k]
  <1> DEFINE u == [nr |-> link[kind].nr + 1, open |-> TRUE]
  <1>1. link' = [link EXCEPT ![kind] = u] /\ link[kind].nr < MaxLinks
    BY DEF NewLink
  <1>2. link \in [Kinds -> Link] /\ codes \subseteq Codes /\ \A k \in Kinds : link[k].open => link[k].nr # 0
    BY DEF Typed, LinksOK
  <1>3. \A k \in Kinds : link[k].nr \in Nat
    BY <1>2 DEF Link
  <1>4. link[kind].nr + 1 \in 0 .. MaxLinks /\ link[kind].nr + 1 # 0
    BY <1>1, <1>3, BoundsAssumption
  <1>5. u \in Link /\ u.nr = link[kind].nr + 1
    BY <1>4 DEF Link
  <1> HIDE DEF u
  <1>6. link' \in [Kinds -> Link] /\ link'[kind] = u /\ \A k \in Kinds \ {kind} : link'[k] = link[k]
    BY <1>1, <1>2, <1>5
  <1>7. LinksOK'
    BY <1>2, <1>4, <1>5, <1>6 DEF LinksOK
  <1>8. \A k \in Kinds : link'[k].nr \in Nat /\ link[k].nr <= link'[k].nr
    BY <1>3, <1>5, <1>6
  <1> QED
    BY <1>5, <1>6, <1>7, <1>8

LEMMA SameRequests ==
    ASSUME Typed, UNCHANGED <<tokens, req>>,
           \A k \in Kinds : link'[k].nr \in Nat /\ link[k].nr <= link'[k].nr
    PROVE  RequestsOK'
  <1>1. ASSUME NEW r \in Requests, req[r].at = "use" PROVE req[r].nr \in 1 .. link'[req[r].op].nr
    <2>1. req[r].op \in Kinds /\ req[r].nr \in 1 .. link[req[r].op].nr
      BY <1>1 DEF Typed, RequestsOK, At, Sound, OpsAt
    <2>2. link[req[r].op].nr \in Nat
      BY <2>1 DEF Typed, LinksOK, Link
    <2> QED
      BY <2>1, <2>2
  <1> QED
    BY <1>1 DEF Typed, RequestsOK, At

LEMMA RetryAsks ==
    ASSUME Typed, NEW b \in Tabs, tab[b].attempt \in 1 .. Attempts - 1
    PROVE  tab[b].token \in 1 .. Len(tokens)
  BY Numbered DEF Typed, TabsOK, TabSet

-----------------------------------------------------------------------------
(***************************************************************************)
(* Types.                                                                  *)
(***************************************************************************)
LEMMA InitTyped == Init => Typed
  <1> SUFFICES ASSUME Init PROVE Typed
    OBVIOUS
  <1>1. 1 \in 1 .. MaxTokens /\ 0 \in 0 .. MaxLinks /\ 0 \in 0 .. Attempts /\ 0 \in 0 .. MaxTokens
        /\ 0 \in 0 .. MaxFaults /\ 1 <= MaxTokens
    BY BoundsAssumption
  <1>2. TokensOK /\ Len(tokens) = 1
    <2> DEFINE t == [live |-> TRUE, line |-> 1, late |-> FALSE]
    <2>1. t \in Token /\ t.line = 1
      BY <1>1 DEF Token
    <2>2. tokens = <<t>> /\ ended = {}
      BY DEF Init
    <2> HIDE DEF t
    <2>3. tokens \in Seq(Token) /\ Len(tokens) = 1 /\ DOMAIN tokens = {1} /\ tokens[1] = t
      BY <2>1, <2>2
    <2> QED
      BY <1>1, <2>1, <2>2, <2>3 DEF TokensOK
  <1>3. LinksOK
    BY <1>1 DEF Init, LinksOK, Link
  <1>4. TabsOK
    BY <1>1, <1>2 DEF Init, TabsOK, TabSet, NoRefresh
  <1>5. UsesOK
    BY DEF Init, UsesOK
  <1>6. RequestsOK
    <2>1. Idle.at # "use" /\ Sound(Idle, 1)
      BY IdleSound DEF Idle
    <2> QED
      BY <1>2, <2>1, IdleSound DEF Init, RequestsOK, At
  <1> QED
    BY <1>2, <1>3, <1>4, <1>5, <1>6 DEF Typed

\* What a request holds is there.
LEMMA HoldsTyped ==
    ASSUME Typed, NEW r \in Requests
    PROVE  Holds(req[r]) \subseteq Things
  <1>1. req[r] \in RequestSet /\ Sound(req[r], Len(tokens)) /\ Len(tokens) \in 0 .. MaxTokens
        /\ (req[r].at = "use" => req[r].nr \in 1 .. link[req[r].op].nr)
    BY Numbered DEF Typed, RequestsOK, At
  <1>2. CASE req[r].at = "revoke"
    <2>1. req[r].token \in 1 .. MaxTokens
      BY <1>1, <1>2 DEF Sound, OpsAt, RequestSet
    <2> QED
      BY <1>2, <2>1 DEF Holds, Things
  <1>3. CASE req[r].at = "use"
    <2>1. req[r].op \in Kinds
      BY <1>1, <1>3 DEF Sound, OpsAt
    <2>2. link[req[r].op].nr \in 0 .. MaxLinks
      BY <2>1 DEF Typed, LinksOK, Link
    <2>3. req[r].nr \in 1 .. MaxLinks
      BY <1>1, <1>3, <2>2, BoundsAssumption
    <2> QED
      BY <1>3, <2>1, <2>3 DEF Holds, Things
  <1>4. CASE req[r].at = "spend"
    <2>1. req[r].left \cup req[r].code \subseteq Codes
      BY <1>1 DEF RequestSet
    <2> QED
      BY <1>4, <2>1 DEF Holds, Things
  <1> QED
    BY <1>2, <1>3, <1>4 DEF Holds

LEMMA LookTyped ==
    ASSUME Typed, NEW r \in Requests, NEW things, LookAt(r, things)
    PROVE  UsesOK'
  <1>1. \A q \in Requests : Holds(req[q]) \subseteq Things
    BY HoldsTyped
  <1> QED
    BY <1>1 DEF LookAt, Typed, UsesOK

LEMMA SpendTyped ==
    ASSUME Typed, NEW r \in Requests, NEW thing \in Holds(req[r]), Spend(thing)
    PROVE  UsesOK'
  BY HoldsTyped DEF Spend, Typed, UsesOK

\* A part that a step leaves alone stays as it is.
LEMMA Alone ==
    ASSUME Typed
    PROVE  /\ UNCHANGED <<tokens, ended>> => TokensOK'
           /\ UNCHANGED <<codes, link>> => LinksOK'
           /\ UNCHANGED server => TokensOK' /\ LinksOK'
           /\ UNCHANGED <<browser, faults>> /\ Len(tokens') \in Nat /\ Len(tokens) <= Len(tokens') => TabsOK'
           /\ UNCHANGED uses => UsesOK'
  <1>1. ASSUME UNCHANGED <<browser, faults>>, Len(tokens') \in Nat, Len(tokens) <= Len(tokens')
        PROVE  TabsOK'
    <2>1. stored \in 0 .. Len(tokens) /\ tab \in [Tabs -> TabSet] /\ Len(tokens) \in Nat
          /\ (\A b \in Tabs : tab[b].token <= Len(tokens) /\ (tab[b].attempt = 0 <=> tab[b].token = 0))
          /\ doubted \subseteq 1 .. Len(tokens) /\ faults \in 0 .. MaxFaults
      BY Numbered DEF Typed, TabsOK
    <2>2. stored \in 0 .. Len(tokens') /\ doubted \subseteq 1 .. Len(tokens')
      BY <1>1, <2>1
    <2>3. \A b \in Tabs : tab[b].token <= Len(tokens')
      BY <1>1, <2>1 DEF TabSet
    <2> QED
      BY <1>1, <2>1, <2>2, <2>3 DEF TabsOK, browser
  <1> QED
    BY <1>1 DEF Typed, TokensOK, LinksOK, UsesOK, server, uses

LEMMA NextTyped ==
    ASSUME Typed, Next
    PROVE  Typed'
  <1> DEFINE P == Typed'
  <1>n. /\ Len(tokens) \in Nat /\ Len(tokens) <= Len(tokens) /\ DOMAIN tokens = 1 .. Len(tokens)
        /\ \A r \in Requests : req[r] \in RequestSet /\ Sound(req[r], Len(tokens))
    BY Numbered DEF Typed, RequestsOK
  <1>1. ASSUME NEW r \in Requests, FindToken(r) PROVE P
    <2>1. UsesOK'
      <3>1. CASE tokens[req[r].token].live
        BY <1>1, <3>1, FindDoes, LookTyped
      <3>2. CASE ~tokens[req[r].token].live
        BY <1>1, <3>2, FindDoes, Alone
      <3> QED
        BY <3>1, <3>2
    <2>2. RequestsOK'
      BY <1>1, FindDoes DEF Went, Ended
    <2>3. UNCHANGED <<server, browser, faults>> /\ UNCHANGED tokens
      BY <1>1 DEF FindToken, server
    <2> QED
      BY <1>n, <2>1, <2>2, <2>3, Alone DEF Typed
  <1>2. ASSUME NEW r \in Requests, Revoke(r) PROVE P
    <2>1. TokensOK' /\ RequestsOK' /\ Len(tokens') = Len(tokens)
      BY <1>2, RevokeDoes DEF Went
    <2>2. <<"token", req[r].token>> \in Holds(req[r])
      BY <1>2 DEF Revoke, At, Holds
    <2>3. UsesOK'
      BY <1>2, <2>2, SpendTyped DEF Revoke
    <2>4. UNCHANGED <<codes, link, browser, faults>>
      BY <1>2 DEF Revoke
    <2> QED
      BY <1>n, <2>1, <2>3, <2>4, Alone DEF Typed
  <1>3. ASSUME NEW r \in Requests, Create(r) PROVE P
    <2>1. TokensOK' /\ RequestsOK' /\ Len(tokens') = Len(tokens) + 1
      BY <1>3, CreateDoes
    <2>2. UNCHANGED <<codes, link, browser, uses, faults>>
      BY <1>3 DEF Create
    <2> QED
      BY <1>n, <2>1, <2>2, Alone DEF Typed
  <1>4. ASSUME NEW r \in Requests, IssueChallenge(r) PROVE P
    <2>1. req[r].tab = None /\ NewLink("challenge") /\ "challenge" \in Kinds
      BY <1>4, <1>n DEF IssueChallenge, At, Sound, Kinds
    <2>2. /\ LinksOK'
          /\ \A k \in Kinds : link'[k].nr \in Nat /\ link[k].nr <= link'[k].nr
      BY <1>4, <2>1, NewLinkDoes DEF IssueChallenge
    <2>3. req' = [req EXCEPT ![r] = Idle] /\ UNCHANGED <<tokens, ended, browser, uses, faults>>
      BY <1>4, <2>1 DEF IssueChallenge, End, Answer
    <2>4. Sound(Idle, Len(tokens')) /\ Idle \in RequestSet /\ Len(tokens') \in Nat /\ Len(tokens) <= Len(tokens')
      BY <1>n, <2>3, IdleSound
    <2>5. Idle.at # "use"
      BY DEF Idle
    <2>6. RequestsOK'
      BY <2>2, <2>3, <2>4, <2>5, OneChanges
    <2> QED
      BY <2>2, <2>3, <2>4, <2>6, Alone DEF Typed
  <1>5. ASSUME NEW r \in Requests, UseLink(r) PROVE P
    <2>1. LinksOK' /\ RequestsOK' /\ Spend(<<req[r].op, req[r].nr>>)
      BY <1>5, UseLinkDoes DEF Went
    <2>2. <<req[r].op, req[r].nr>> \in Holds(req[r])
      BY <1>5 DEF UseLink, At, Holds
    <2>3. UsesOK'
      BY <2>1, <2>2, SpendTyped
    <2>4. UNCHANGED <<tokens, ended, browser, faults>>
      BY <1>5 DEF UseLink
    <2> QED
      BY <1>n, <2>1, <2>3, <2>4, Alone DEF Typed
  <1>6. ASSUME NEW r \in Requests, CheckCode(r) PROVE P
    <2>1. RequestsOK' /\ (UNCHANGED uses \/ LookAt(r, {"code"} \X codes))
      BY <1>6, CheckCodeDoes DEF Went, Ended
    <2>2. UsesOK'
      BY <2>1, LookTyped, Alone
    <2>3. UNCHANGED <<server, browser, faults>> /\ UNCHANGED tokens
      BY <1>6 DEF CheckCode, server
    <2> QED
      BY <1>n, <2>1, <2>2, <2>3, Alone DEF Typed
  <1>7. ASSUME NEW r \in Requests, SpendCode(r) PROVE P
    <2>1. LinksOK' /\ RequestsOK'
      BY <1>7, SpendCodeDoes DEF Went
    <2>2. PICK c \in req[r].code : Spend(<<"code", c>>)
      BY <1>7, SpendCodeDoes
    <2>3. <<"code", c>> \in Holds(req[r])
      BY <1>7 DEF SpendCode, At, Holds
    <2>4. UsesOK'
      BY <2>2, <2>3, SpendTyped
    <2>5. UNCHANGED <<tokens, ended, browser, faults>>
      BY <1>7 DEF SpendCode
    <2> QED
      BY <1>n, <2>1, <2>4, <2>5, Alone DEF Typed
  <1>8. ASSUME NEW r \in Requests, SetPassword(r) PROVE P
    <2>1. TokensOK' /\ RequestsOK' /\ Len(tokens') = Len(tokens)
      BY <1>8, SetPasswordDoes, LinesEnd
    <2>2. UNCHANGED <<codes, link, browser, uses, faults>>
      BY <1>8 DEF SetPassword
    <2> QED
      BY <1>n, <2>1, <2>2, Alone DEF Typed
  <1>9. ASSUME NEW r \in Requests, RefusePassword(r) PROVE P
    <2>1. UNCHANGED <<server, browser, uses, faults>> /\ UNCHANGED <<tokens, link>> /\ End(r)
      BY <1>9 DEF RefusePassword, server
    <2>2. RequestsOK'
      BY <2>1, EndDoes DEF Ended
    <2> QED
      BY <1>n, <2>1, <2>2, Alone DEF Typed
  <1>10. ASSUME NEW r \in Requests, NEW b \in Tabs \cup {None}, SignIn(r, b) PROVE P
    <2>1. UNCHANGED <<server, browser, uses, faults>> /\ UNCHANGED tokens /\ RequestsOK'
      BY <1>10, SignInDoes DEF SignIn, server
    <2> QED
      BY <1>n, <2>1, Alone DEF Typed
  <1>11. ASSUME NEW r \in Requests, NEW op \in Kinds, LookAtLink(r, op) PROVE P
    <2>1. UNCHANGED <<server, browser, faults>> /\ UNCHANGED tokens /\ RequestsOK' /\ UsesOK'
      BY <1>11, LookAtLinkDoes, LookTyped DEF LookAtLink, server
    <2> QED
      BY <1>n, <2>1, Alone DEF Typed
  <1>fault. ASSUME NEW r \in Requests, Fault(r) PROVE TokensOK' /\ LinksOK' /\ TabsOK' /\ UsesOK'
    <2>1. UNCHANGED <<server, stored, tab, uses>> /\ UNCHANGED tokens
      BY <1>fault DEF Fault, server
    <2>2. faults' \in 0 .. MaxFaults
      BY <1>fault, BoundsAssumption DEF Fault, Typed, TabsOK
    <2>3. doubted' \subseteq 1 .. Len(tokens)
      <3>1. req[r].token \in 0 .. Len(tokens)
        BY <1>n DEF Sound, RequestSet
      <3>2. {req[r].token} \ {0} \subseteq 1 .. Len(tokens)
        BY <1>n, <3>1
      <3>3. doubted' = doubted \cup ({req[r].token} \ {0}) /\ doubted \subseteq 1 .. Len(tokens)
        BY <1>fault DEF Fault, Typed, TabsOK
      <3> QED
        BY <3>2, <3>3
    <2>4. TabsOK'
      BY <2>1, <2>2, <2>3 DEF Typed, TabsOK
    <2> QED
      BY <2>1, <2>4, Alone
  <1>12. ASSUME NEW r \in Requests, Die(r) PROVE P
    <2>1. RequestsOK'
      BY <1>12, IdleDoes DEF Die, Fault, server
    <2> QED
      BY <1>12, <1>fault, <2>1 DEF Typed, Die
  <1>13. ASSUME NEW r \in Requests, Receive(r) PROVE P
    <2>1. RequestsOK' /\ UNCHANGED <<server, uses>> /\ UNCHANGED tokens
      BY <1>13, IdleDoes DEF Receive, server
    <2>2. TabsOK'
      <3>1. stored' \in 0 .. Len(tokens) /\ UNCHANGED <<doubted, faults>>
        BY <1>13, <1>n DEF Receive, Sound, RequestSet
      <3>2. NoRefresh \in TabSet /\ NoRefresh.token = 0 /\ NoRefresh.attempt = 0
        BY BoundsAssumption DEF NoRefresh, TabSet
      <3>3. tab' = [tab EXCEPT ![req[r].tab] = NoRefresh] /\ tab \in [Tabs -> TabSet]
        BY <1>13 DEF Receive, Typed, TabsOK
      <3>4. tab' \in [Tabs -> TabSet] /\ \A b \in Tabs : tab'[b] \in {tab[b], NoRefresh}
        BY <3>2, <3>3
      <3>5. \A b \in Tabs : tab'[b].token <= Len(tokens) /\ (tab'[b].attempt = 0 <=> tab'[b].token = 0)
        BY <1>n, <3>2, <3>4 DEF Typed, TabsOK
      <3> QED
        BY <2>1, <3>1, <3>4, <3>5 DEF Typed, TabsOK
    <2> QED
      BY <2>1, <2>2, Alone DEF Typed
  <1>14. ASSUME NEW r \in Requests, LoseAnswer(r) PROVE P
    BY <1>14, <1>fault, LoseAnswerDoes DEF Typed, LoseAnswer
  <1>15. ASSUME NEW r \in Requests, NEW b \in Tabs, Refresh(r, b) PROVE P
    <2>1. UNCHANGED <<server, stored, uses, faults>> /\ UNCHANGED <<tokens, link>> /\ Ask(r, b, stored)
          /\ stored \in 1 .. Len(tokens)
      BY <1>15 DEF Refresh, StartRefresh, server, Typed, TabsOK
    <2>2. RequestsOK'
      BY <2>1, AskDoes
    <2>3. TabsOK'
      <3> DEFINE u == [attempt |-> 1, token |-> stored]
      <3>1. u \in TabSet /\ u.token = stored /\ u.attempt = 1
        BY <2>1, Numbered, BoundsAssumption DEF TabSet
      <3>2. tab' = [tab EXCEPT ![b] = u] /\ doubted' \subseteq doubted \cup {stored}
        BY <1>15 DEF Refresh, StartRefresh
      <3> HIDE DEF u
      <3> QED
        BY <1>n, <2>1, <3>1, <3>2 DEF Typed, TabsOK
    <2> QED
      BY <2>1, <2>2, <2>3, Alone DEF Typed
  <1>16. ASSUME NEW r \in Requests, NEW b \in Tabs, Retry(r, b) PROVE P
    <2>1. UNCHANGED <<server, stored, doubted, uses, faults>> /\ UNCHANGED <<tokens, link>> /\ Ask(r, b, tab[b].token)
          /\ tab[b].attempt \in 1 .. Attempts - 1
      BY <1>16 DEF Retry, server
    <2>2. tab[b].token \in 1 .. Len(tokens)
      BY <1>n, <2>1 DEF Typed, TabsOK, TabSet
    <2>3. RequestsOK'
      BY <2>1, <2>2, AskDoes
    <2>4. TabsOK'
      <3> DEFINE u == [tab[b] EXCEPT !.attempt = tab[b].attempt + 1]
      <3>1. tab[b].attempt + 1 \in 0 .. Attempts /\ tab[b].attempt + 1 # 0
        BY <2>1, BoundsAssumption
      <3>2. u \in TabSet /\ u.token = tab[b].token /\ u.attempt # 0
        BY <3>1 DEF Typed, TabsOK, TabSet
      <3>3. tab' = [tab EXCEPT ![b] = u]
        BY <1>16 DEF Retry
      <3> HIDE DEF u
      <3> QED
        BY <1>n, <2>1, <2>2, <3>2, <3>3 DEF Typed, TabsOK
    <2> QED
      BY <2>1, <2>3, <2>4, Alone DEF Typed
  <1>17. ASSUME NEW b \in Tabs, GiveUp(b) PROVE P
    <2>1. UNCHANGED <<server, req, stored, doubted, uses, faults>> /\ UNCHANGED <<tokens, link>>
          /\ tab' = [tab EXCEPT ![b] = NoRefresh]
      BY <1>17 DEF GiveUp, server
    <2>2. TabsOK'
      <3>1. NoRefresh \in TabSet /\ NoRefresh.token = 0 /\ NoRefresh.attempt = 0
        BY BoundsAssumption DEF NoRefresh, TabSet
      <3> QED
        BY <1>n, <2>1, <3>1 DEF Typed, TabsOK
    <2> QED
      BY <2>1, <2>2, Alone DEF Typed, RequestsOK, At
  <1>18. ASSUME NEW t \in DOMAIN tokens, EndLine(t) PROVE P
    <2>1. TokensOK' /\ RequestsOK' /\ Len(tokens') = Len(tokens)
      BY <1>18, EndLineDoes, LinesEnd
    <2>2. UNCHANGED <<codes, link, browser, uses, faults>>
      BY <1>18 DEF EndLine
    <2> QED
      BY <1>n, <2>1, <2>2, Alone DEF Typed
  <1>19. ASSUME NEW k \in Kinds, LinkExpires(k) PROVE P
    <2>1. UNCHANGED <<tokens, codes, ended, req, browser, uses, faults>>
          /\ link' = [link EXCEPT ![k] = [link[k] EXCEPT !.open = FALSE]]
      BY <1>19 DEF LinkExpires, Typed, LinksOK
    <2>2. [link[k] EXCEPT !.open = FALSE] \in Link /\ [link[k] EXCEPT !.open = FALSE].nr = link[k].nr
          /\ ~[link[k] EXCEPT !.open = FALSE].open
      BY DEF Typed, LinksOK, Link
    <2>3. LinksOK' /\ \A x \in Kinds : link'[x].nr = link[x].nr
      BY <2>1, <2>2 DEF Typed, LinksOK
    <2>4. RequestsOK'
      <3>1. \A x \in Kinds : link[x].nr \in Nat
        BY DEF Typed, LinksOK, Link
      <3> QED
        BY <2>1, <2>3, <3>1, SameRequests
    <2> QED
      BY <1>n, <2>1, <2>3, <2>4, Alone DEF Typed
  <1>20. ASSUME RequestPasswordReset PROVE P
    <2>1. UNCHANGED <<tokens, codes, ended, req, browser, uses, faults>> /\ NewLink("reset") /\ "reset" \in Kinds
      BY <1>20 DEF RequestPasswordReset, Kinds
    <2>2. LinksOK' /\ \A k \in Kinds : link'[k].nr \in Nat /\ link[k].nr <= link'[k].nr
      BY <2>1, NewLinkDoes
    <2>3. RequestsOK'
      BY <2>1, <2>2, SameRequests
    <2> QED
      BY <1>n, <2>1, <2>2, <2>3, Alone DEF Typed
  <1>21. ASSUME LogOut PROVE P
    <2>1. UNCHANGED <<server, req, tab, doubted, uses, faults>> /\ UNCHANGED <<tokens, link>> /\ stored' = 0
      BY <1>21 DEF LogOut, server
    <2>2. TabsOK'
      BY <1>n, <2>1 DEF Typed, TabsOK
    <2> QED
      BY <2>1, <2>2, Alone DEF Typed, RequestsOK, At
  <1> HIDE DEF P
  <1>22. P
    BY NextCases, <1>1, <1>2, <1>3, <1>4, <1>5, <1>6, <1>7, <1>8, <1>9, <1>10, <1>11, <1>12,
       <1>13, <1>14, <1>15, <1>16, <1>17, <1>18, <1>19, <1>20, <1>21
  <1> QED
    BY <1>22 DEF P

LEMMA StutterTyped == ASSUME Typed, UNCHANGED vars PROVE Typed'
  BY DEF Typed, TokensOK, LinksOK, TabsOK, UsesOK, RequestsOK, At, vars

\* Every variable keeps its type (TypeOK), whatever is asked, lost or retried.
THEOREM Typing == Spec => []TypeOK
  <1>1. Typed /\ [Next]_vars => Typed'
    BY NextTyped, StutterTyped
  <1> QED
    BY InitTyped, <1>1, TypedImplies, PTL DEF Spec

-----------------------------------------------------------------------------
(***************************************************************************)
(* What was ended stays so.                                                *)
(***************************************************************************)
\* A request that has a token of an ended line in hand knows that it is late.
Late(r) ==
    /\ At(r, "revoke") /\ tokens[req[r].token].line \in ended => req[r].late
    /\ At(r, "create") /\ req[r].line \in ended => req[r].late

Over == EndedStaysEnded /\ \A r \in Requests : Late(r)

\* A step that ends and exchanges nothing: where a request is after it that has a
\* token in hand it was before, or it starts a line of its own.
LEMMA OverQuiet ==
    ASSUME Typed, Over, UNCHANGED <<tokens, ended>>,
           \A r \in Requests :
              \/ req'[r] = req[r]
              \/ req'[r].at \notin {"revoke", "create"}
              \/ req'[r].at = "create" /\ req'[r].line = 0
              \/ /\ req'[r].at = req[r].at /\ req'[r].token = req[r].token
                 /\ req'[r].line = req[r].line /\ req'[r].late = req[r].late
    PROVE  Over'
  <1>1. EndedStaysEnded'
    BY DEF Over, EndedStaysEnded
  <1>2. 0 \notin ended
    BY DEF Typed, TokensOK
  <1>3. ASSUME NEW r \in Requests PROVE Late(r)'
    BY <1>2 DEF Over, Late, At
  <1> QED
    BY <1>1, <1>3 DEF Over

\* Lines are ended.
LEMMA OverEnds ==
    ASSUME Typed, Over, NEW lines \in SUBSET (1 .. Len(tokens)), EndLines(lines),
           \A r \in Requests : req'[r] = BeLate(req[r], lines) \/ req'[r] = Idle
    PROVE  Over'
  <1>1. /\ DOMAIN tokens' = DOMAIN tokens /\ ended' = ended \cup lines
        /\ \A t \in DOMAIN tokens :
              /\ tokens'[t].line = tokens[t].line /\ tokens'[t].late = tokens[t].late
              /\ IF tokens[t].line \in lines THEN ~tokens'[t].live ELSE tokens'[t] = tokens[t]
    BY LinesEnd
  <1>2. EndedStaysEnded'
    <2> SUFFICES ASSUME NEW t \in DOMAIN tokens, tokens'[t].live, tokens'[t].line \in ended'
                 PROVE  tokens'[t].late
      BY <1>1 DEF EndedStaysEnded
    <2>1. tokens[t].line \notin lines /\ tokens'[t] = tokens[t] /\ tokens[t].line \in ended
      BY <1>1
    <2> QED
      BY <2>1 DEF Over, EndedStaysEnded
  <1>3. ASSUME NEW r \in Requests PROVE Late(r)'
    <2>1. req[r] \in RequestSet /\ Sound(req[r], Len(tokens))
      BY DEF Typed, RequestsOK
    <2>2. CASE req'[r] = Idle
      BY <2>2 DEF Late, At, Idle
    <2>3. CASE req'[r] = BeLate(req[r], lines)
      <3>1. Same(req[r], req'[r])
            /\ (req[r].at = "revoke" /\ tokens[req[r].token].line \in lines => req'[r].late)
            /\ (req[r].at = "create" /\ req[r].line \in lines => req'[r].late)
        BY <2>1, <2>3, LateDoes
      <3>2. req[r].at = "revoke" => req[r].token \in DOMAIN tokens
        BY <2>1, Numbered DEF Sound, OpsAt, RequestSet
      <3>3. ASSUME req'[r].at = "revoke", tokens'[req'[r].token].line \in ended' PROVE req'[r].late
        <4> DEFINE t == req[r].token
        <4>1. req[r].at = "revoke" /\ req'[r].token = t /\ (req[r].late => req'[r].late)
          BY <3>1, <3>3 DEF Same, Keeps
        <4>2. t \in DOMAIN tokens /\ tokens'[t].line = tokens[t].line /\ tokens'[t].line \in ended'
          BY <1>1, <3>2, <3>3, <4>1
        <4>3. CASE tokens[t].line \in lines
          BY <3>1, <4>1, <4>3
        <4>4. CASE tokens[t].line \in ended
          BY <4>1, <4>4 DEF Over, Late, At
        <4> QED
          BY <1>1, <4>2, <4>3, <4>4
      <3>4. ASSUME req'[r].at = "create", req'[r].line \in ended' PROVE req'[r].late
        BY <1>1, <3>1, <3>4 DEF Over, Late, At, Same, Keeps
      <3> QED
        BY <3>3, <3>4 DEF Late, At
    <2> QED
      BY <2>2, <2>3
  <1> QED
    BY <1>2, <1>3 DEF Over

LEMMA NextOver ==
    ASSUME Typed, Over, Next
    PROVE  Over'
  <1> DEFINE P == Over'
  <1>n. Idle.at = "idle"
    BY DEF Idle
  <1>end. ASSUME NEW r \in Requests, Ended(r), UNCHANGED <<tokens, ended>> PROVE P
    <2>1. Others(r) /\ req'[r].at \in {"idle", "answer"}
      BY <1>end, <1>n DEF Ended
    <2> QED
      BY <1>end, <2>1, OverQuiet DEF Others
  <1>one. ASSUME NEW r \in Requests, Others(r), UNCHANGED <<tokens, ended>>,
                 req'[r].at \notin {"revoke", "create"} \/ (req'[r].at = "create" /\ req'[r].line = 0)
          PROVE  P
    BY <1>one, OverQuiet DEF Others
  <1>1. ASSUME NEW r \in Requests, FindToken(r) PROVE P
    <2>1. UNCHANGED <<tokens, ended>> /\ req[r].token \in DOMAIN tokens
      BY <1>1, FindDoes DEF FindToken, server
    <2>2. CASE tokens[req[r].token].live
      <3>1. /\ Others(r) /\ req'[r].at = "revoke" /\ req'[r].token = req[r].token
            /\ req'[r].late = tokens[req[r].token].late
        BY <1>1, <2>2, FindDoes DEF Went, Keeps
      <3>2. Late(r)'
        BY <2>1, <2>2, <3>1 DEF Late, At, Over, EndedStaysEnded
      <3>3. \A x \in Requests \ {r} : Late(x)'
        BY <2>1, <3>1 DEF Late, At, Over, Others
      <3>4. EndedStaysEnded'
        BY <2>1 DEF Over, EndedStaysEnded
      <3> QED
        BY <3>2, <3>3, <3>4 DEF Over
    <2>3. CASE ~tokens[req[r].token].live
      BY <1>1, <1>end, <2>1, <2>3, FindDoes
    <2> QED
      BY <2>2, <2>3
  <1>2. ASSUME NEW r \in Requests, Revoke(r) PROVE P
    <2> DEFINE t == req[r].token
    <2>1. /\ t \in DOMAIN tokens /\ TokensOK' /\ Len(tokens') = Len(tokens) /\ ~tokens'[t].live
          /\ \A u \in DOMAIN tokens : /\ tokens'[u].line = tokens[u].line /\ tokens'[u].late = tokens[u].late
                                      /\ u # t => tokens'[u] = tokens[u]
          /\ Went(r, "create") /\ req'[r].line \in {0, tokens[t].line} /\ req'[r].late = req[r].late
      BY <1>2, RevokeDoes
    <2>2. UNCHANGED ended /\ At(r, "revoke") /\ 0 \notin ended
      BY <1>2 DEF Revoke, Typed, TokensOK
    <2>3. DOMAIN tokens' = DOMAIN tokens
      BY <2>1, Numbered DEF TokensOK
    <2> HIDE DEF t
    <2>4. EndedStaysEnded'
      <3> SUFFICES ASSUME NEW u \in DOMAIN tokens, tokens'[u].live, tokens'[u].line \in ended
                   PROVE  tokens'[u].late
        BY <2>2, <2>3 DEF EndedStaysEnded
      <3>1. u # t /\ tokens'[u] = tokens[u]
        BY <2>1
      <3> QED
        BY <3>1 DEF Over, EndedStaysEnded
    <2>5. Late(r)'
      BY <2>1, <2>2 DEF Late, At, Over, Went, t
    <2>6. ASSUME NEW x \in Requests \ {r} PROVE Late(x)'
      <3>1. req'[x] = req[x] /\ Sound(req[x], Len(tokens)) /\ req[x] \in RequestSet
        BY <2>1 DEF Went, Others, Typed, RequestsOK
      <3>2. req[x].at = "revoke" => req[x].token \in DOMAIN tokens
        BY <3>1, Numbered DEF Sound, OpsAt, RequestSet
      <3> QED
        BY <2>1, <2>2, <3>1, <3>2 DEF Late, At, Over
    <2> QED
      BY <2>4, <2>5, <2>6 DEF Over
  <1>3. ASSUME NEW r \in Requests, Create(r) PROVE P
    <2> DEFINE id == Len(tokens) + 1
    <2>1. /\ DOMAIN tokens' = DOMAIN tokens \cup {id} /\ id \notin DOMAIN tokens
          /\ \A t \in DOMAIN tokens : tokens'[t] = tokens[t]
          /\ tokens'[id].late = req[r].late
          /\ tokens'[id].line \in {id} \cup ({req[r].line} \ {0})
          /\ Others(r)
          /\ IF req[r].tab = None THEN req'[r] = Idle ELSE req'[r].at = "answer"
      BY <1>3, CreateDoes
    <2>2. UNCHANGED ended /\ At(r, "create") /\ id \notin ended
      BY <1>3, Numbered DEF Create, Typed, TokensOK
    <2> HIDE DEF id
    <2>3. EndedStaysEnded'
      <3> SUFFICES ASSUME NEW t \in DOMAIN tokens', tokens'[t].live, tokens'[t].line \in ended
                   PROVE  tokens'[t].late
        BY <2>2 DEF EndedStaysEnded
      <3>1. CASE t = id
        BY <2>1, <2>2, <3>1 DEF Over, Late
      <3>2. CASE t \in DOMAIN tokens
        BY <2>1, <3>2 DEF Over, EndedStaysEnded
      <3> QED
        BY <2>1, <3>1, <3>2
    <2>4. Late(r)'
      BY <1>n, <2>1 DEF Late, At
    <2>5. ASSUME NEW x \in Requests \ {r} PROVE Late(x)'
      <3>1. req'[x] = req[x] /\ Sound(req[x], Len(tokens)) /\ req[x] \in RequestSet
        BY <2>1 DEF Others, Typed, RequestsOK
      <3>2. req[x].at = "revoke" => req[x].token \in DOMAIN tokens
        BY <3>1, Numbered DEF Sound, OpsAt, RequestSet
      <3> QED
        BY <2>1, <2>2, <3>1, <3>2 DEF Late, At, Over
    <2> QED
      BY <2>3, <2>4, <2>5 DEF Over
  <1>4. ASSUME NEW r \in Requests, IssueChallenge(r) PROVE P
    <2>1. End(r) /\ UNCHANGED <<tokens, ended>>
      BY <1>4 DEF IssueChallenge
    <2>2. Answer(r).at \in {"idle", "answer"}
      BY <1>n DEF Answer, Typed, RequestsOK, RequestSet
    <2>3. Others(r) /\ req'[r] = Answer(r)
      BY <2>1 DEF End, Others, Typed, RequestsOK
    <2> QED
      BY <1>one, <2>1, <2>2, <2>3
  <1>5. ASSUME NEW r \in Requests, UseLink(r) PROVE P
    <2>1. Others(r) /\ req'[r].at \in {"write", "check"} /\ UNCHANGED <<tokens, ended>>
      BY <1>5, UseLinkDoes DEF Went, UseLink
    <2> QED
      BY <1>one, <2>1
  <1>6. ASSUME NEW r \in Requests, CheckCode(r) PROVE P
    <2>1. UNCHANGED <<tokens, ended>>
      BY <1>6 DEF CheckCode, server
    <2>2. \/ Ended(r)
          \/ Others(r) /\ (req'[r].at = "spend" \/ (req'[r].at = "create" /\ req'[r].line = 0))
      BY <1>6, CheckCodeDoes DEF Went
    <2> QED
      BY <1>one, <1>end, <2>1, <2>2
  <1>7. ASSUME NEW r \in Requests, SpendCode(r) PROVE P
    <2>1. Others(r) /\ req'[r].at = "create" /\ req'[r].line = 0 /\ UNCHANGED <<tokens, ended>>
      BY <1>7, SpendCodeDoes DEF Went, SpendCode
    <2> QED
      BY <1>one, <2>1
  <1>8. ASSUME NEW r \in Requests, SetPassword(r) PROVE P
    <2> DEFINE lines == {tokens[t].line : t \in DOMAIN tokens}
    <2>1. /\ EndLines(lines) /\ lines \in SUBSET (1 .. Len(tokens)) /\ req'[r] = Idle
          /\ \A q \in Requests \ {r} : req'[q] = BeLate(req[q], lines)
      BY <1>8, SetPasswordDoes
    <2> HIDE DEF lines
    <2> QED
      BY <2>1, OverEnds
  <1>9. ASSUME NEW r \in Requests, RefusePassword(r) PROVE P
    <2>1. End(r) /\ UNCHANGED <<tokens, ended, link>>
      BY <1>9 DEF RefusePassword, server
    <2> QED
      BY <1>end, <2>1, EndDoes
  <1>10. ASSUME NEW r \in Requests, NEW b \in Tabs \cup {None}, SignIn(r, b) PROVE P
    <2>1. Others(r) /\ req'[r].line = 0 /\ req'[r].at \in {"create", "issue"} /\ UNCHANGED <<tokens, ended>>
      BY <1>10, SignInDoes DEF SignIn, server
    <2> QED
      BY <1>one, <2>1
  <1>11. ASSUME NEW r \in Requests, NEW op \in Kinds, LookAtLink(r, op) PROVE P
    <2>1. Others(r) /\ req'[r].at = "use" /\ UNCHANGED <<tokens, ended>>
      BY <1>11, LookAtLinkDoes DEF LookAtLink, server
    <2> QED
      BY <1>one, <2>1
  <1>12. ASSUME NEW r \in Requests, Die(r) PROVE P
    <2>1. Others(r) /\ req'[r] = Idle /\ UNCHANGED <<tokens, ended>>
      BY <1>12, IdleDoes DEF Die, Fault, server
    <2> QED
      BY <1>n, <1>one, <2>1
  <1>13. ASSUME NEW r \in Requests, Receive(r) PROVE P
    <2>1. Others(r) /\ req'[r] = Idle /\ UNCHANGED <<tokens, ended>>
      BY <1>13, IdleDoes DEF Receive, server
    <2> QED
      BY <1>n, <1>one, <2>1
  <1>14. ASSUME NEW r \in Requests, LoseAnswer(r) PROVE P
    <2>1. UNCHANGED <<tokens, ended>> /\ Others(r)
          /\ (req'[r] = Idle \/ (/\ req'[r].at = req[r].at /\ req'[r].token = req[r].token
                                /\ req'[r].line = req[r].line /\ req'[r].late = req[r].late))
      BY <1>14, LoseAnswerDoes DEF LoseAnswer, Fault, server
    <2> QED
      BY <1>n, <2>1, OverQuiet DEF Others
  <1>15. ASSUME NEW r \in Requests, NEW b \in Tabs, Refresh(r, b) PROVE P
    <2>1. stored \in 1 .. Len(tokens) /\ UNCHANGED <<tokens, ended, link>> /\ Ask(r, b, stored)
      BY <1>15 DEF Refresh, StartRefresh, server, Typed, TabsOK
    <2> QED
      BY <1>one, <2>1, AskDoes
  <1>16. ASSUME NEW r \in Requests, NEW b \in Tabs, Retry(r, b) PROVE P
    <2>1. tab[b].token \in 1 .. Len(tokens) /\ UNCHANGED <<tokens, ended, link>> /\ Ask(r, b, tab[b].token)
      BY <1>16, RetryAsks DEF Retry, server
    <2> QED
      BY <1>one, <2>1, AskDoes
  <1>17. ASSUME NEW b \in Tabs, GiveUp(b) PROVE P
    BY <1>17, OverQuiet DEF GiveUp, server
  <1>18. ASSUME NEW t \in DOMAIN tokens, EndLine(t) PROVE P
    <2> DEFINE lines == {tokens[t].line}
    <2>1. /\ EndLines(lines) /\ lines \in SUBSET (1 .. Len(tokens))
          /\ \A q \in Requests : req'[q] = BeLate(req[q], lines)
      BY <1>18, EndLineDoes
    <2> HIDE DEF lines
    <2> QED
      BY <2>1, OverEnds
  <1>19. ASSUME NEW k \in Kinds, LinkExpires(k) PROVE P
    BY <1>19, OverQuiet DEF LinkExpires
  <1>20. ASSUME RequestPasswordReset PROVE P
    BY <1>20, OverQuiet DEF RequestPasswordReset
  <1>21. ASSUME LogOut PROVE P
    BY <1>21, OverQuiet DEF LogOut, server
  <1> HIDE DEF P
  <1>22. P
    BY NextCases, <1>1, <1>2, <1>3, <1>4, <1>5, <1>6, <1>7, <1>8, <1>9, <1>10, <1>11, <1>12,
       <1>13, <1>14, <1>15, <1>16, <1>17, <1>18, <1>19, <1>20, <1>21
  <1> QED
    BY <1>22 DEF P

LEMMA InitOver == Init => Over
  BY DEF Init, Over, EndedStaysEnded, Late, At, Idle

LEMMA StutterOver == ASSUME Typed, Over, UNCHANGED vars PROVE Over'
  BY OverQuiet DEF vars

\* What was logged out, reset or has expired stays so (EndedStaysEnded), but for
\* what a request makes that had the token in hand.
THEOREM StaysEnded == Spec => []EndedStaysEnded
  <1> DEFINE I == Typed /\ Over
  <1>1. Init => I
    BY InitTyped, InitOver
  <1>2. I /\ [Next]_vars => I'
    BY NextTyped, StutterTyped, NextOver, StutterOver
  <1>3. I => EndedStaysEnded
    BY DEF Over
  <1> HIDE DEF I
  <1> QED
    BY <1>1, <1>2, <1>3, PTL DEF Spec

-----------------------------------------------------------------------------
(***************************************************************************)
(* What is used works once.                                                *)
(***************************************************************************)
\* What can be used, and what there has ever been.
LiveTokens == {<<"token", t>> : t \in {u \in DOMAIN tokens : tokens[u].live}}
OpenLinks == {<<k, link[k].nr>> : k \in {l \in Kinds : link[l].open}}
Usable == LiveTokens \cup OpenLinks \cup ({"code"} \X codes)
Known ==
    ({"token"} \X DOMAIN tokens) \cup ({"code"} \X Codes)
       \cup {x \in Kinds \X (1 .. MaxLinks) : x[2] <= link[x[1]].nr}

\* Of what was used nothing can be used again, and nobody has it in hand, but for
\* what two requests had looked at.
Used ==
    /\ again \subseteq crossed
    /\ spent \subseteq Known
    /\ Usable \cap spent \subseteq crossed
    /\ \A r \in Requests : Holds(req[r]) \cap spent \subseteq crossed
    /\ \A r \in Requests : \A q \in Requests \ {r} : Holds(req[r]) \cap Holds(req[q]) \subseteq crossed

\* A step that uses nothing: what it makes is new, and nobody takes a thing in hand.
LEMMA UsedQuiet ==
    ASSUME Used, UNCHANGED uses, Known \subseteq Known', Usable' \cap Known \subseteq Usable,
           \A r \in Requests : Holds(req'[r]) \subseteq Holds(req[r])
    PROVE  Used'
  <1>1. again' = again /\ spent' = spent /\ crossed' = crossed
    BY DEF uses
  <1>2. /\ again \subseteq crossed /\ spent \subseteq Known /\ Usable \cap spent \subseteq crossed
        /\ \A r \in Requests : Holds(req[r]) \cap spent \subseteq crossed
        /\ \A r \in Requests : \A q \in Requests \ {r} : Holds(req[r]) \cap Holds(req[q]) \subseteq crossed
    BY DEF Used
  <1>3. spent' \subseteq Known' /\ Usable' \cap spent' \subseteq crossed'
    BY <1>1, <1>2
  <1>4. \A r \in Requests : Holds(req'[r]) \cap spent' \subseteq crossed'
    BY <1>1, <1>2
  <1>5. \A r \in Requests : \A q \in Requests \ {r} : Holds(req'[r]) \cap Holds(req'[q]) \subseteq crossed'
    BY <1>1, <1>2
  <1> QED
    BY <1>1, <1>2, <1>3, <1>4, <1>5 DEF Used

\* A request takes things in hand that can be used.
LEMMA UsedLook ==
    ASSUME Used, NEW r \in Requests, NEW things \in SUBSET Usable, LookAt(r, things), Others(r),
           Known \subseteq Known', Usable' \subseteq Usable, Holds(req'[r]) \subseteq things
    PROVE  Used'
  <1>1. /\ again' = again /\ spent' = spent /\ crossed \subseteq crossed'
        /\ \A q \in Requests \ {r} : things \cap Holds(req[q]) \subseteq crossed'
    BY DEF LookAt
  <1>2. /\ again \subseteq crossed /\ spent \subseteq Known /\ Usable \cap spent \subseteq crossed
        /\ \A x \in Requests : Holds(req[x]) \cap spent \subseteq crossed
        /\ \A x \in Requests : \A q \in Requests \ {x} : Holds(req[x]) \cap Holds(req[q]) \subseteq crossed
    BY DEF Used
  <1>3. spent' \subseteq Known' /\ Usable' \cap spent' \subseteq crossed' /\ again' \subseteq crossed'
    BY <1>1, <1>2
  <1>4. \A x \in Requests \ {r} : req'[x] = req[x]
    BY DEF Others
  <1>5. \A x \in Requests : Holds(req'[x]) \cap spent' \subseteq crossed'
    BY <1>1, <1>2, <1>4
  <1>6. ASSUME NEW x \in Requests, NEW q \in Requests \ {x}
        PROVE  Holds(req'[x]) \cap Holds(req'[q]) \subseteq crossed'
    <2>1. CASE x = r
      BY <1>1, <1>4, <2>1
    <2>2. CASE q = r
      BY <1>1, <1>4, <2>2
    <2>3. CASE x # r /\ q # r
      BY <1>1, <1>2, <1>4, <2>3
    <2> QED
      BY <2>1, <2>2, <2>3
  <1> QED
    BY <1>3, <1>5, <1>6 DEF Used

\* A request uses what it has in hand.
LEMMA UsedSpend ==
    ASSUME Used, NEW r \in Requests, NEW thing \in Holds(req[r]), Spend(thing), Others(r),
           Holds(req[r]) \subseteq Known, Known \subseteq Known', thing \notin Usable',
           Usable' \subseteq Usable \cup Holds(req[r]), Holds(req'[r]) = {}
    PROVE  Used'
  <1>1. again' = again \cup ({thing} \cap spent) /\ spent' = spent \cup {thing} /\ crossed' = crossed
    BY DEF Spend
  <1>2. /\ again \subseteq crossed /\ spent \subseteq Known /\ Usable \cap spent \subseteq crossed
        /\ \A x \in Requests : Holds(req[x]) \cap spent \subseteq crossed
        /\ \A x \in Requests : \A q \in Requests \ {x} : Holds(req[x]) \cap Holds(req[q]) \subseteq crossed
    BY DEF Used
  <1>3. spent' \subseteq Known' /\ again' \subseteq crossed'
    BY <1>1, <1>2
  <1>4. Usable' \cap spent' \subseteq crossed'
    BY <1>1, <1>2
  <1>5. \A x \in Requests \ {r} : req'[x] = req[x]
    BY DEF Others
  <1>6. ASSUME NEW x \in Requests PROVE Holds(req'[x]) \cap spent' \subseteq crossed'
    <2>1. CASE x = r
      BY <2>1
    <2>2. CASE x # r
      BY <1>1, <1>2, <1>5, <2>2
    <2> QED
      BY <2>1, <2>2
  <1>7. ASSUME NEW x \in Requests, NEW q \in Requests \ {x}
        PROVE  Holds(req'[x]) \cap Holds(req'[q]) \subseteq crossed'
    <2>1. CASE x = r \/ q = r
      BY <2>1
    <2>2. CASE x # r /\ q # r
      BY <1>1, <1>2, <1>5, <2>2
    <2> QED
      BY <2>1, <2>2
  <1> QED
    BY <1>3, <1>4, <1>6, <1>7 DEF Used

LEMMA HoldsNothing == ASSUME NEW q, q.at \notin {"revoke", "use", "spend"} PROVE Holds(q) = {}
  BY DEF Holds

LEMMA IdleHolds == Holds(Idle) = {}
  BY HoldsNothing DEF Idle

LEMMA HoldsSame == ASSUME NEW q, NEW p, Same(q, p) PROVE Holds(p) = Holds(q)
  BY DEF Holds, Same, Keeps

\* Who is not busy is idle.
LEMMA NotBusy == ASSUME Typed, NEW r \in Requests, ~Busy(r) PROVE req[r].at = "idle"
  BY DEF Typed, RequestsOK, Sound, OpsAt, Busy, RequestSet, Places, Kinds

\* A request that goes on, or ends, with nothing in hand.
LEMMA UsedOne ==
    ASSUME Used, NEW r \in Requests, Others(r), req'[r].at \notin {"revoke", "use", "spend"},
           UNCHANGED uses, Known \subseteq Known', Usable' \cap Known \subseteq Usable
    PROVE  Used'
  <1>1. \A x \in Requests : Holds(req'[x]) \subseteq Holds(req[x])
    BY HoldsNothing DEF Others
  <1> QED
    BY <1>1, UsedQuiet

\* Tokens and links are known for ever; what is exchanged, used or over is not usable.
LEMMA KnownGrows ==
    ASSUME Typed, DOMAIN tokens \subseteq DOMAIN tokens',
           \A k \in Kinds : link'[k].nr \in Nat /\ link[k].nr <= link'[k].nr
    PROVE  Known \subseteq Known'
  <1>1. \A k \in Kinds : link[k].nr \in Nat
    BY DEF Typed, LinksOK, Link
  <1>2. {x \in Kinds \X (1 .. MaxLinks) : x[2] <= link[x[1]].nr}
           \subseteq {x \in Kinds \X (1 .. MaxLinks) : x[2] <= link'[x[1]].nr}
    <2> SUFFICES ASSUME NEW x \in Kinds \X (1 .. MaxLinks), x[2] <= link[x[1]].nr
                 PROVE  x[2] <= link'[x[1]].nr
      OBVIOUS
    <2>1. x[1] \in Kinds /\ x[2] \in Nat
      BY BoundsAssumption
    <2> QED
      BY <1>1, <2>1
  <1> QED
    BY <1>2 DEF Known

LEMMA TokensLess ==
    ASSUME \A t \in DOMAIN tokens' : tokens'[t].live => t \in DOMAIN tokens /\ tokens[t].live
    PROVE  LiveTokens' \subseteq LiveTokens
  BY DEF LiveTokens

LEMMA LinksLess ==
    ASSUME \A k \in Kinds : link'[k].nr = link[k].nr /\ (link'[k].open => link[k].open)
    PROVE  OpenLinks' \subseteq OpenLinks
  BY DEF OpenLinks

\* A step that leaves the server's tables alone.
LEMMA ServerSame ==
    ASSUME UNCHANGED <<tokens, codes, link>>
    PROVE  Known' = Known /\ Usable' = Usable
  BY DEF Known, Usable, LiveTokens, OpenLinks

\* Lines end.
LEMMA UsedEnds ==
    ASSUME Typed, Used, NEW lines \in SUBSET (1 .. Len(tokens)), EndLines(lines),
           UNCHANGED <<codes, link, uses>>,
           \A r \in Requests : req'[r] = BeLate(req[r], lines) \/ req'[r] = Idle
    PROVE  Used'
  <1>1. /\ DOMAIN tokens' = DOMAIN tokens
        /\ \A t \in DOMAIN tokens : tokens'[t].live => tokens[t].live
    BY LinesEnd
  <1>2. Known' = Known
    BY <1>1 DEF Known
  <1>3. LiveTokens' \subseteq LiveTokens
    BY <1>1, TokensLess
  <1>4. OpenLinks' = OpenLinks
    BY DEF OpenLinks
  <1>5. Usable' \subseteq Usable
    BY <1>3, <1>4 DEF Usable
  <1>6. \A r \in Requests : Holds(req'[r]) \subseteq Holds(req[r])
    BY LateDoes, HoldsSame, IdleHolds DEF Typed, RequestsOK
  <1> QED
    BY <1>2, <1>5, <1>6, UsedQuiet

\* A link is issued: it is new.
LEMMA LinkIsNew ==
    ASSUME Typed, NEW kind \in Kinds, NewLink(kind), UNCHANGED <<tokens, codes>>
    PROVE  Known \subseteq Known' /\ Usable' \cap Known \subseteq Usable
  <1>1. /\ link'[kind].nr = link[kind].nr + 1 /\ link[kind].nr \in Nat
        /\ \A k \in Kinds : link'[k].nr \in Nat /\ link[k].nr <= link'[k].nr
        /\ \A k \in Kinds \ {kind} : link'[k] = link[k]
    BY NewLinkDoes DEF Typed, LinksOK, Link
  <1>2. Known \subseteq Known'
    BY <1>1, KnownGrows
  <1>3. OpenLinks' \subseteq OpenLinks \cup {<<kind, link[kind].nr + 1>>}
    BY <1>1 DEF OpenLinks
  <1>4. kind # "token" /\ kind # "code"
    BY DEF Kinds
  <1>5. <<kind, link[kind].nr + 1>> \notin Known
    <2>1. <<kind, link[kind].nr + 1>> \notin {x \in Kinds \X (1 .. MaxLinks) : x[2] <= link[x[1]].nr}
      BY <1>1
    <2> QED
      BY <1>4, <2>1 DEF Known
  <1>6. LiveTokens' = LiveTokens
    BY DEF LiveTokens
  <1> QED
    BY <1>2, <1>3, <1>5, <1>6 DEF Usable

LEMMA HoldsKnown ==
    ASSUME Typed, NEW r \in Requests
    PROVE  Holds(req[r]) \subseteq Known
  <1>1. req[r] \in RequestSet /\ Sound(req[r], Len(tokens)) /\ Holds(req[r]) \subseteq Things
        /\ (req[r].at = "use" => req[r].nr \in 1 .. link[req[r].op].nr)
    BY HoldsTyped DEF Typed, RequestsOK, At
  <1>2. CASE req[r].at = "revoke"
    <2>1. req[r].token \in DOMAIN tokens
      BY <1>1, <1>2, Numbered DEF Sound, OpsAt, RequestSet
    <2> QED
      BY <1>2, <2>1 DEF Holds, Known
  <1>3. CASE req[r].at = "use"
    <2>1. req[r].op \in Kinds
      BY <1>1, <1>3 DEF Sound, OpsAt
    <2>2. req[r].nr \in 1 .. MaxLinks /\ req[r].nr <= link[req[r].op].nr
      BY <1>1, <1>3, <2>1, BoundsAssumption DEF Typed, LinksOK, Link
    <2>3. <<req[r].op, req[r].nr>> \in {x \in Kinds \X (1 .. MaxLinks) : x[2] <= link[x[1]].nr}
      BY <2>1, <2>2
    <2> QED
      BY <1>3, <2>3 DEF Holds, Known
  <1>4. CASE req[r].at = "spend"
    <2>1. req[r].left \cup req[r].code \subseteq Codes
      BY <1>1 DEF RequestSet
    <2> QED
      BY <1>4, <2>1 DEF Holds, Known
  <1> QED
    BY <1>2, <1>3, <1>4 DEF Holds

LEMMA NextUsed ==
    ASSUME Typed, Used, Next
    PROVE  Used'
  <1> DEFINE P == Used'
  <1>k. \A k \in Kinds : link[k].nr \in Nat /\ k # "token" /\ k # "code"
    BY DEF Typed, LinksOK, Link, Kinds
  <1>one. ASSUME NEW r \in Requests, Others(r), req'[r].at \notin {"revoke", "use", "spend"},
                 UNCHANGED <<tokens, codes, link>>, UNCHANGED uses
          PROVE  P
    BY <1>one, ServerSame, UsedOne
  <1>end. ASSUME NEW r \in Requests, Ended(r), UNCHANGED <<tokens, codes, link>>, UNCHANGED uses PROVE P
    <2>1. Others(r) /\ req'[r].at \notin {"revoke", "use", "spend"}
      BY <1>end DEF Ended, Idle
    <2> QED
      BY <1>end, <1>one, <2>1
  <1>1. ASSUME NEW r \in Requests, FindToken(r) PROVE P
    <2>1. UNCHANGED <<tokens, codes, link>>
      BY <1>1 DEF FindToken, server
    <2>2. CASE tokens[req[r].token].live
      <3> DEFINE things == {<<"token", req[r].token>>}
      <3>1. /\ Others(r) /\ req'[r].at = "revoke" /\ req'[r].token = req[r].token
            /\ req[r].token \in DOMAIN tokens /\ LookAt(r, things)
        BY <1>1, <2>2, FindDoes DEF Went, Keeps
      <3>2. things \subseteq Usable /\ Holds(req'[r]) \subseteq things
        BY <2>2, <3>1 DEF Usable, LiveTokens, Holds
      <3> HIDE DEF things
      <3> QED
        BY <2>1, <3>1, <3>2, ServerSame, UsedLook
    <2>3. CASE ~tokens[req[r].token].live
      BY <1>1, <1>end, <2>1, <2>3, FindDoes
    <2> QED
      BY <2>2, <2>3
  <1>2. ASSUME NEW r \in Requests, Revoke(r) PROVE P
    <2> DEFINE thing == <<"token", req[r].token>>
    <2>1. /\ ~tokens'[req[r].token].live /\ Spend(thing) /\ Others(r) /\ req'[r].at = "create"
          /\ \A t \in DOMAIN tokens : t # req[r].token => tokens'[t] = tokens[t]
          /\ TokensOK' /\ Len(tokens') = Len(tokens)
      BY <1>2, RevokeDoes DEF Went
    <2>2. DOMAIN tokens' = DOMAIN tokens
      BY <2>1, Numbered DEF TokensOK
    <2>3. UNCHANGED <<codes, link>> /\ Holds(req[r]) = {thing}
      BY <1>2 DEF Revoke, Holds, At
    <2>4. LiveTokens' \subseteq LiveTokens
      BY <2>1, <2>2, TokensLess
    <2>5. thing \notin LiveTokens'
      BY <2>1 DEF LiveTokens
    <2>6. OpenLinks' = OpenLinks /\ thing \notin OpenLinks /\ thing \notin {"code"} \X codes
      BY <2>3, <1>k DEF OpenLinks
    <2>7. Usable' \subseteq Usable /\ thing \notin Usable'
      BY <2>3, <2>4, <2>5, <2>6 DEF Usable
    <2>8. Known' = Known
      BY <2>2, <2>3 DEF Known
    <2>9. Holds(req'[r]) = {}
      BY <2>1, HoldsNothing
    <2> HIDE DEF thing
    <2> QED
      BY <2>1, <2>3, <2>7, <2>8, <2>9, HoldsKnown, UsedSpend
  <1>3. ASSUME NEW r \in Requests, Create(r) PROVE P
    <2> DEFINE id == Len(tokens) + 1
    <2>1. /\ DOMAIN tokens' = DOMAIN tokens \cup {id} /\ id \notin DOMAIN tokens
          /\ \A t \in DOMAIN tokens : tokens'[t] = tokens[t]
          /\ Others(r)
          /\ IF req[r].tab = None THEN req'[r] = Idle ELSE req'[r].at = "answer"
      BY <1>3, CreateDoes
    <2>2. UNCHANGED <<codes, link, uses>>
      BY <1>3 DEF Create
    <2> HIDE DEF id
    <2>3. req'[r].at \notin {"revoke", "use", "spend"}
      BY <2>1 DEF Idle
    <2>4. Known \subseteq Known'
      BY <1>k, <2>1, <2>2, KnownGrows
    <2>5. LiveTokens' \subseteq LiveTokens \cup {<<"token", id>>}
      BY <2>1 DEF LiveTokens
    <2>6. <<"token", id>> \notin Known
      BY <1>k, <2>1 DEF Known
    <2>7. OpenLinks' = OpenLinks
      BY <2>2 DEF OpenLinks
    <2>8. Usable' \cap Known \subseteq Usable
      BY <2>2, <2>5, <2>6, <2>7 DEF Usable
    <2> QED
      BY <2>1, <2>2, <2>3, <2>4, <2>8, UsedOne
  <1>4. ASSUME NEW r \in Requests, IssueChallenge(r) PROVE P
    <2>1. /\ NewLink("challenge") /\ "challenge" \in Kinds /\ UNCHANGED <<tokens, codes, uses>>
          /\ End(r)
      BY <1>4 DEF IssueChallenge, Kinds
    <2>2. Known \subseteq Known' /\ Usable' \cap Known \subseteq Usable
      BY <2>1, LinkIsNew
    <2>3. Answer(r).at \in {"idle", "answer"} /\ req \in [Requests -> RequestSet]
      BY DEF Answer, Typed, RequestsOK, RequestSet, Idle
    <2>4. Others(r) /\ req'[r] = Answer(r)
      BY <2>1, <2>3 DEF End, Others
    <2> QED
      BY <2>1, <2>2, <2>3, <2>4, UsedOne
  <1>5. ASSUME NEW r \in Requests, UseLink(r) PROVE P
    <2> DEFINE op == req[r].op
               thing == <<op, req[r].nr>>
    <2>1. /\ op \in Kinds /\ Spend(thing) /\ Others(r) /\ req'[r].at \in {"write", "check"}
          /\ \A k \in Kinds : link'[k].nr = link[k].nr /\ (link'[k].open => link[k].open)
          /\ link[op].nr = req[r].nr => ~link'[op].open
      BY <1>5, UseLinkDoes DEF Went
    <2>2. UNCHANGED <<tokens, codes>> /\ Holds(req[r]) = {thing}
      BY <1>5 DEF UseLink, Holds, At
    <2>3. OpenLinks' \subseteq OpenLinks /\ thing \notin OpenLinks'
      BY <2>1, LinksLess DEF OpenLinks
    <2>4. LiveTokens' = LiveTokens /\ thing \notin LiveTokens /\ thing \notin {"code"} \X codes
      BY <1>k, <2>1, <2>2 DEF LiveTokens
    <2>5. Usable' \subseteq Usable /\ thing \notin Usable'
      BY <2>2, <2>3, <2>4 DEF Usable
    <2>6. Known \subseteq Known'
      BY <1>k, <2>1, <2>2, KnownGrows
    <2>7. Holds(req'[r]) = {}
      BY <2>1, HoldsNothing
    <2> HIDE DEF op, thing
    <2> QED
      BY <2>1, <2>2, <2>5, <2>6, <2>7, HoldsKnown, UsedSpend
  <1>6. ASSUME NEW r \in Requests, CheckCode(r) PROVE P
    <2>1. UNCHANGED <<tokens, codes, link>>
      BY <1>6 DEF CheckCode, server
    <2>2. ASSUME NEW c \in codes, Went(r, "spend"), req'[r].code = {c}, req'[r].left = codes \ {c},
                 LookAt(r, {"code"} \X codes)
          PROVE  P
      <3>1. Holds(req'[r]) = {"code"} \X codes /\ Others(r)
        BY <2>2 DEF Went, Holds
      <3>2. {"code"} \X codes \subseteq Usable
        BY DEF Usable
      <3> QED
        BY <2>1, <2>2, <3>1, <3>2, ServerSame, UsedLook
    <2>3. ASSUME Went(r, "create"), UNCHANGED uses PROVE P
      BY <1>one, <2>1, <2>3 DEF Went
    <2>4. ASSUME Ended(r), UNCHANGED uses PROVE P
      BY <1>end, <2>1, <2>4
    <2> HIDE DEF P
    <2> QED
      BY <1>6, <2>2, <2>3, <2>4, CheckCodeDoes
  <1>7. ASSUME NEW r \in Requests, SpendCode(r) PROVE P
    <2>1. PICK c \in req[r].code \ req[r].left : Spend(<<"code", c>>)
      BY <1>7, SpendCodeDoes
    <2> DEFINE thing == <<"code", c>>
    <2>2. /\ UNCHANGED <<tokens, link>> /\ codes' = req[r].left /\ Others(r) /\ req'[r].at = "create"
          /\ Holds(req[r]) = {"code"} \X (req[r].left \cup req[r].code)
      BY <1>7, SpendCodeDoes DEF SpendCode, Went, Holds, At
    <2>3. LiveTokens' = LiveTokens /\ OpenLinks' = OpenLinks /\ Known' = Known
      BY <2>2 DEF LiveTokens, OpenLinks, Known
    <2>4. thing \notin LiveTokens /\ thing \notin OpenLinks
      BY <1>k DEF LiveTokens, OpenLinks
    <2>5. {"code"} \X codes' \subseteq Holds(req[r]) /\ thing \notin {"code"} \X codes' /\ thing \in Holds(req[r])
      BY <2>1, <2>2
    <2>6. Usable' \subseteq Usable \cup Holds(req[r]) /\ thing \notin Usable'
      BY <2>3, <2>4, <2>5 DEF Usable
    <2>7. Holds(req'[r]) = {}
      BY <2>2, HoldsNothing
    <2> QED
      BY <2>1, <2>2, <2>3, <2>5, <2>6, <2>7, HoldsKnown, UsedSpend
  <1>8. ASSUME NEW r \in Requests, SetPassword(r) PROVE P
    <2> DEFINE lines == {tokens[t].line : t \in DOMAIN tokens}
    <2>1. /\ EndLines(lines) /\ lines \in SUBSET (1 .. Len(tokens)) /\ req'[r] = Idle
          /\ \A q \in Requests \ {r} : req'[q] = BeLate(req[q], lines)
      BY <1>8, SetPasswordDoes
    <2>2. UNCHANGED <<codes, link, uses>>
      BY <1>8 DEF SetPassword
    <2> HIDE DEF lines
    <2> QED
      BY <2>1, <2>2, UsedEnds
  <1>9. ASSUME NEW r \in Requests, RefusePassword(r) PROVE P
    <2>1. End(r) /\ UNCHANGED <<tokens, codes, link>> /\ UNCHANGED uses
      BY <1>9 DEF RefusePassword, server
    <2> QED
      BY <1>end, <2>1, EndDoes
  <1>10. ASSUME NEW r \in Requests, NEW b \in Tabs \cup {None}, SignIn(r, b) PROVE P
    <2>1. Others(r) /\ req'[r].at \in {"create", "issue"} /\ UNCHANGED <<tokens, codes, link>> /\ UNCHANGED uses
      BY <1>10, SignInDoes DEF SignIn, server
    <2> QED
      BY <1>one, <2>1
  <1>11. ASSUME NEW r \in Requests, NEW op \in Kinds, LookAtLink(r, op) PROVE P
    <2> DEFINE things == {<<op, link[op].nr>>}
    <2>1. /\ Others(r) /\ req'[r].at = "use" /\ req'[r].op = op /\ req'[r].nr = link[op].nr
          /\ UNCHANGED <<tokens, codes, link>> /\ LookAt(r, things) /\ link[op].open
      BY <1>11, LookAtLinkDoes DEF LookAtLink, server
    <2>2. things \subseteq Usable /\ Holds(req'[r]) \subseteq things
      BY <2>1 DEF Usable, OpenLinks, Holds
    <2> HIDE DEF things
    <2> QED
      BY <2>1, <2>2, ServerSame, UsedLook
  <1>12. ASSUME NEW r \in Requests, Die(r) PROVE P
    <2>1. Others(r) /\ req'[r] = Idle /\ UNCHANGED <<tokens, codes, link>> /\ UNCHANGED uses
      BY <1>12, IdleDoes DEF Die, Fault, server
    <2> QED
      BY <1>one, <2>1 DEF Idle
  <1>13. ASSUME NEW r \in Requests, Receive(r) PROVE P
    <2>1. Others(r) /\ req'[r] = Idle /\ UNCHANGED <<tokens, codes, link>> /\ UNCHANGED uses
      BY <1>13, IdleDoes DEF Receive, server
    <2> QED
      BY <1>one, <2>1 DEF Idle
  <1>14. ASSUME NEW r \in Requests, LoseAnswer(r) PROVE P
    <2>1. /\ UNCHANGED <<tokens, codes, link>> /\ UNCHANGED uses /\ Others(r)
          /\ req[r].op \in {"refresh", "signin"}
          /\ (req'[r] = Idle \/ (req'[r].at = req[r].at /\ req'[r].token = req[r].token))
      BY <1>14, LoseAnswerDoes DEF LoseAnswer, Fault, server
    <2>2. req[r].at \notin {"use", "spend"}
      BY <2>1 DEF Typed, RequestsOK, Sound, OpsAt, Kinds
    <2>3. Holds(req'[r]) \subseteq Holds(req[r])
      BY <2>1, <2>2, IdleHolds DEF Holds
    <2>4. \A x \in Requests : Holds(req'[x]) \subseteq Holds(req[x])
      BY <2>1, <2>3 DEF Others
    <2> QED
      BY <2>1, <2>4, ServerSame, UsedQuiet
  <1>15. ASSUME NEW r \in Requests, NEW b \in Tabs, Refresh(r, b) PROVE P
    <2>1. stored \in 1 .. Len(tokens) /\ UNCHANGED <<tokens, codes, link>> /\ UNCHANGED uses /\ Ask(r, b, stored)
      BY <1>15 DEF Refresh, StartRefresh, server, Typed, TabsOK
    <2> QED
      BY <1>one, <2>1, AskDoes
  <1>16. ASSUME NEW r \in Requests, NEW b \in Tabs, Retry(r, b) PROVE P
    <2>1. /\ tab[b].token \in 1 .. Len(tokens) /\ UNCHANGED <<tokens, codes, link>> /\ UNCHANGED uses
          /\ Ask(r, b, tab[b].token)
      BY <1>16, RetryAsks DEF Retry, server
    <2> QED
      BY <1>one, <2>1, AskDoes
  <1>same. ASSUME UNCHANGED <<tokens, codes, link, req>>, UNCHANGED uses PROVE P
    BY <1>same, ServerSame, UsedQuiet
  <1>17. ASSUME NEW b \in Tabs, GiveUp(b) PROVE P
    BY <1>17, <1>same DEF GiveUp, server
  <1>18. ASSUME NEW t \in DOMAIN tokens, EndLine(t) PROVE P
    <2> DEFINE lines == {tokens[t].line}
    <2>1. /\ EndLines(lines) /\ lines \in SUBSET (1 .. Len(tokens))
          /\ \A q \in Requests : req'[q] = BeLate(req[q], lines)
      BY <1>18, EndLineDoes
    <2>2. UNCHANGED <<codes, link, uses>>
      BY <1>18 DEF EndLine
    <2> HIDE DEF lines
    <2> QED
      BY <2>1, <2>2, UsedEnds
  <1>19. ASSUME NEW k \in Kinds, LinkExpires(k) PROVE P
    <2>1. UNCHANGED <<tokens, codes, req>> /\ UNCHANGED uses /\ link' = [link EXCEPT ![k].open = FALSE]
      BY <1>19 DEF LinkExpires
    <2>2. link \in [Kinds -> Link]
      BY DEF Typed, LinksOK
    <2>3. \A l \in Kinds : link'[l].nr = link[l].nr /\ (link'[l].open => link[l].open)
      BY <2>1, <2>2 DEF Link
    <2>4. OpenLinks' \subseteq OpenLinks /\ LiveTokens' = LiveTokens
      BY <2>1, <2>3, LinksLess DEF LiveTokens
    <2>5. Usable' \subseteq Usable
      BY <2>1, <2>4 DEF Usable
    <2>6. Known \subseteq Known'
      BY <1>k, <2>1, <2>3, KnownGrows
    <2> QED
      BY <2>1, <2>5, <2>6, UsedQuiet
  <1>20. ASSUME RequestPasswordReset PROVE P
    <2>1. NewLink("reset") /\ "reset" \in Kinds /\ UNCHANGED <<tokens, codes, req>> /\ UNCHANGED uses
      BY <1>20 DEF RequestPasswordReset, Kinds
    <2>2. Known \subseteq Known' /\ Usable' \cap Known \subseteq Usable
      BY <2>1, LinkIsNew
    <2> QED
      BY <2>1, <2>2, UsedQuiet
  <1>21. ASSUME LogOut PROVE P
    BY <1>21, <1>same DEF LogOut, server
  <1> HIDE DEF P
  <1>22. P
    BY NextCases, <1>1, <1>2, <1>3, <1>4, <1>5, <1>6, <1>7, <1>8, <1>9, <1>10, <1>11, <1>12,
       <1>13, <1>14, <1>15, <1>16, <1>17, <1>18, <1>19, <1>20, <1>21
  <1> QED
    BY <1>22 DEF P

LEMMA InitUsed == Init => Used
  BY DEF Init, Used, Holds, Idle

LEMMA StutterUsed == ASSUME Used, UNCHANGED vars PROVE Used'
  BY ServerSame, UsedQuiet DEF vars, uses

\* A token, link or recovery code works once (SpentOnce), unless two requests had
\* looked at it at once.
THEOREM WorksOnce == Spec => []SpentOnce
  <1> DEFINE I == Typed /\ Used
  <1>1. Init => I
    BY InitTyped, InitUsed
  <1>2. I /\ [Next]_vars => I'
    BY NextTyped, StutterTyped, NextUsed, StutterUsed
  <1>3. I => SpentOnce
    BY DEF Used, SpentOnce
  <1> HIDE DEF I
  <1> QED
    BY <1>1, <1>2, <1>3, PTL DEF Spec

-----------------------------------------------------------------------------
(***************************************************************************)
(* Nobody is thrown out without a reason.                                  *)
(***************************************************************************)
Reason(t) == tokens[t].line \in ended \/ t \in doubted
Good(t) == tokens[t].live \/ Reason(t)

\* What a request asks for its tab: the tab that waits for the answer is at this
\* token, and whoever went on without waiting has put it in doubt.
Own(r) ==
    /\ req[r].op = "refresh" =>
          IF req[r].tab = None THEN req[r].token \in doubted ELSE tab[req[r].tab].token = req[r].token
    /\ req[r].op = "signin" /\ req[r].tab # None => tab[req[r].tab].token = 0

TabsAsk ==
    /\ \A b \in Tabs : tab[b].token # 0 /\ ~Waiting(b) => tab[b].token \in doubted
    /\ \A r \in Requests : Own(r)
    /\ \A r \in Requests : \A q \in Requests \ {r} : req[r].tab # None => req[q].tab # req[r].tab
    /\ \A b \in Tabs : \A c \in Tabs \ {b} :
          tab[b].token # 0 /\ tab[c].token = tab[b].token => tab[b].token \in doubted

\* A token on its way to its tab is nobody else's.
Fresh(t) == Good(t) /\ stored # t /\ \A b \in Tabs : tab[b].token # t

\* The stored token works, or a tab is exchanging it, or there is a reason.
TokensGood ==
    /\ stored # 0 => Good(stored) \/ \E b \in Tabs : tab[b].token = stored
    /\ \A r \in Requests : req[r].made # 0 => Fresh(req[r].made)
    /\ \A r \in Requests : \A q \in Requests \ {r} : req[r].made # 0 => req[q].made # req[r].made
    /\ \A r \in Requests : At(r, "find") => Good(req[r].token)
    /\ \A r \in Requests :
          req[r].op = "refresh" /\ At(r, "answer") /\ req[r].made = 0 => Reason(req[r].token)

\* The request's tab and token stay, or it has no tab.
Calm(r) ==
    \/ req'[r].op = req[r].op /\ req'[r].tab = req[r].tab /\ req'[r].token = req[r].token
    \/ req[r].tab = None /\ req'[r].tab = None /\ req'[r].op # "refresh"

LEMMA CalmSteps ==
    ASSUME NEW r \in Requests
    PROVE  /\ req'[r] = req[r] => Calm(r)
           /\ Keeps(req[r], req'[r]) => Calm(r)
           /\ req'[r] = Idle /\ req[r].tab = None => Calm(r)
  BY DEF Calm, Keeps, Idle

LEMMA AskQuiet ==
    ASSUME TabsAsk, UNCHANGED tab, doubted \subseteq doubted', \A r \in Requests : Calm(r)
    PROVE  TabsAsk'
  <1>1. \A r \in Requests : req'[r].tab = req[r].tab
    BY DEF Calm
  <1>2. \A b \in Tabs : Waiting(b)' <=> Waiting(b)
    BY <1>1 DEF Waiting
  <1>3. \A b \in Tabs : tab'[b].token # 0 /\ ~Waiting(b)' => tab'[b].token \in doubted'
    BY <1>2 DEF TabsAsk
  <1>4. ASSUME NEW r \in Requests PROVE Own(r)'
    <2>1. Own(r) /\ Calm(r)
      BY DEF TabsAsk
    <2>2. CASE req'[r].op = req[r].op /\ req'[r].tab = req[r].tab /\ req'[r].token = req[r].token
      BY <2>1, <2>2 DEF Own
    <2>3. CASE req[r].tab = None /\ req'[r].tab = None /\ req'[r].op # "refresh"
      BY <2>3 DEF Own
    <2> QED
      BY <2>1, <2>2, <2>3 DEF Calm
  <1>5. \A r \in Requests : \A q \in Requests \ {r} : req'[r].tab # None => req'[q].tab # req'[r].tab
    BY <1>1 DEF TabsAsk
  <1>6. \A b \in Tabs : \A c \in Tabs \ {b} :
           tab'[b].token # 0 /\ tab'[c].token = tab'[b].token => tab'[b].token \in doubted'
    BY DEF TabsAsk
  <1> QED
    BY <1>3, <1>4, <1>5, <1>6 DEF TabsAsk

\* Tokens keep their line, and stop working for a reason.
Ages ==
    /\ DOMAIN tokens \subseteq DOMAIN tokens' /\ ended \subseteq ended' /\ doubted \subseteq doubted'
    /\ \A t \in DOMAIN tokens :
          /\ tokens'[t].line = tokens[t].line
          /\ tokens[t].live => tokens'[t].live \/ tokens[t].line \in ended'

LEMMA StaysGood ==
    ASSUME Ages, NEW t \in DOMAIN tokens
    PROVE  (Reason(t) => Reason(t)') /\ (Good(t) => Good(t)')
  BY DEF Ages, Reason, Good

\* What a request asks for or is refused, if it goes on.
Asked(r) ==
    /\ req'[r].at = "find" =>
          req'[r].token \in DOMAIN tokens /\ (Good(req'[r].token) \/ req'[r].token \in doubted')
    /\ req'[r].op = "refresh" /\ req'[r].at = "answer" /\ req'[r].made = 0 =>
          req'[r].token \in DOMAIN tokens /\ Reason(req'[r].token)
Kept(r) == Asked(r) /\ (req'[r].made # 0 => req'[r].made = req[r].made)

LEMMA KeptSteps ==
    ASSUME Typed, TokensGood, NEW r \in Requests
    PROVE  /\ req'[r].at = req[r].at /\ req'[r].op = req[r].op /\ req'[r].token = req[r].token
                 /\ req'[r].made = req[r].made => Kept(r)
           /\ req'[r].at \notin {"find", "answer"} /\ req'[r].made = 0 => Kept(r)
           /\ req'[r] = Idle => Kept(r)
  <1>1. req[r].op = "refresh" => req[r].token \in DOMAIN tokens
    BY Numbered DEF Typed, RequestsOK, Sound, RequestSet
  <1>2. req[r].at = "find" => req[r].op = "refresh"
    BY DEF Typed, RequestsOK, Sound, OpsAt
  <1>3. /\ req'[r].at = req[r].at /\ req'[r].op = req[r].op /\ req'[r].token = req[r].token
             /\ req'[r].made = req[r].made => Kept(r)
    BY <1>1, <1>2 DEF TokensGood, Kept, Asked, At
  <1> QED
    BY <1>3 DEF Kept, Asked, Idle

LEMMA GoodAsks ==
    ASSUME Typed, TokensGood, Ages, \A r \in Requests : Asked(r)
    PROVE  /\ \A r \in Requests : At(r, "find")' => Good(req[r].token)'
           /\ \A r \in Requests :
                 req'[r].op = "refresh" /\ At(r, "answer")' /\ req'[r].made = 0 => Reason(req[r].token)'
  <1>1. ASSUME NEW r \in Requests, req'[r].at = "find" PROVE Good(req[r].token)'
    <2> DEFINE t == req'[r].token
    <2>1. t \in DOMAIN tokens /\ (Good(t) \/ t \in doubted')
      BY <1>1 DEF Asked
    <2> HIDE DEF t
    <2>2. tokens'[t].live \/ tokens'[t].line \in ended' \/ t \in doubted'
      BY <2>1, StaysGood DEF Good, Reason
    <2> QED
      BY <2>2 DEF t, Good, Reason
  <1>2. ASSUME NEW r \in Requests, req'[r].op = "refresh", req'[r].at = "answer", req'[r].made = 0
        PROVE  Reason(req[r].token)'
    <2> DEFINE t == req'[r].token
    <2>1. t \in DOMAIN tokens /\ Reason(t)
      BY <1>2 DEF Asked
    <2> HIDE DEF t
    <2>2. tokens'[t].line \in ended' \/ t \in doubted'
      BY <2>1, StaysGood DEF Reason
    <2> QED
      BY <2>2 DEF t, Reason
  <1> QED
    BY <1>1, <1>2 DEF At

\* A token that was good still is.
LEMMA MadeGood ==
    ASSUME Typed, TokensGood, Ages, NEW r \in Requests, req[r].made # 0
    PROVE  LET t == req[r].made
           IN  tokens'[t].live \/ tokens'[t].line \in ended' \/ t \in doubted'
  <1> DEFINE t == req[r].made
  <1>1. t \in DOMAIN tokens
    BY Numbered DEF Typed, RequestsOK, Sound, RequestSet
  <1>2. Good(t)
    BY DEF TokensGood, Fresh
  <1> HIDE DEF t
  <1>3. tokens'[t].live \/ tokens'[t].line \in ended' \/ t \in doubted'
    BY <1>1, <1>2, StaysGood DEF Good, Reason
  <1> QED
    BY <1>3 DEF t

LEMMA GoodQuiet ==
    ASSUME Typed, TokensGood, Ages, stored' \in {stored, 0},
           \A b \in Tabs : tab'[b].token = tab[b].token, \A r \in Requests : Kept(r)
    PROVE  TokensGood'
  <1>1. stored # 0 => stored \in DOMAIN tokens
    BY Numbered DEF Typed, TabsOK
  <1>2. stored' # 0 => Good(stored)' \/ \E b \in Tabs : tab'[b].token = stored'
    BY <1>1, StaysGood DEF TokensGood
  <1>3. ASSUME NEW r \in Requests, req'[r].made # 0 PROVE Fresh(req[r].made)'
    <2> DEFINE t == req'[r].made
    <2>1. t = req[r].made /\ t # 0 /\ Fresh(t)
      BY <1>3 DEF Kept, TokensGood
    <2>2. tokens'[t].live \/ tokens'[t].line \in ended' \/ t \in doubted'
      BY <2>1, MadeGood
    <2> HIDE DEF t
    <2>3. stored' # t /\ \A b \in Tabs : tab'[b].token # t
      BY <2>1 DEF Fresh
    <2> QED
      BY <2>2, <2>3 DEF t, Fresh, Good, Reason
  <1>4. ASSUME NEW r \in Requests, NEW q \in Requests \ {r}, req'[r].made # 0
        PROVE  req'[q].made # req'[r].made
    BY <1>4 DEF Kept, TokensGood
  <1>5. \A r \in Requests : Asked(r)
    BY DEF Kept
  <1> QED
    BY <1>2, <1>3, <1>4, <1>5, GoodAsks DEF TokensGood

\* Only refreshes and sign-ins are made for a tab.
LEMMA NoTab ==
    ASSUME Typed, NEW r \in Requests
    PROVE  /\ req[r].tab \in Tabs \cup {None}
           /\ req[r].op \notin {"refresh", "signin"} => req[r].tab = None
           /\ req[r].at = "issue" => req[r].tab = None
  BY DEF Typed, RequestsOK, RequestSet, Sound

\* A tab asks for something.
LEMMA AskBegins ==
    ASSUME TabsAsk, NEW r \in Requests, NEW b \in Tabs, ~Waiting(b), req[r].tab = None, Others(r),
           req'[r].tab = b, req'[r].op = "refresh" => tab'[b].token = req'[r].token,
           req'[r].op = "signin" => tab'[b].token = 0,
           \A c \in Tabs \ {b} : tab'[c].token = tab[c].token, doubted \subseteq doubted',
           \A c \in Tabs \ {b} : tab'[b].token # 0 /\ tab'[c].token = tab'[b].token => tab'[b].token \in doubted',
           \A q \in Requests : req[q].tab \in Tabs \cup {None}
    PROVE  TabsAsk'
  <1>1. \A q \in Requests \ {r} : req'[q] = req[q] /\ req[q].tab # b
    BY DEF Others, Waiting
  <1>2. b # None
    BY NoneAssumption
  <1>3. ASSUME NEW c \in Tabs, tab'[c].token # 0, ~Waiting(c)' PROVE tab'[c].token \in doubted'
    <2>1. c # b
      BY <1>3 DEF Waiting
    <2>2. ~Waiting(c)
      BY <1>1, <1>3, <2>1, NoneAssumption DEF Waiting
    <2> QED
      BY <1>3, <2>1, <2>2 DEF TabsAsk
  <1>4. ASSUME NEW q \in Requests PROVE Own(q)'
    <2>1. CASE q = r
      BY <1>2, <2>1 DEF Own
    <2>2. CASE q # r
      BY <1>1, <2>2 DEF Own, TabsAsk
    <2> QED
      BY <2>1, <2>2
  <1>5. ASSUME NEW x \in Requests, NEW q \in Requests \ {x}, req'[x].tab # None
        PROVE  req'[q].tab # req'[x].tab
    BY <1>1, <1>5 DEF TabsAsk
  <1>6. ASSUME NEW c \in Tabs, NEW d \in Tabs \ {c}, tab'[c].token # 0, tab'[d].token = tab'[c].token
        PROVE  tab'[c].token \in doubted'
    <2>1. CASE c = b \/ d = b
      BY <1>6, <2>1
    <2>2. CASE c # b /\ d # b
      BY <1>6, <2>2 DEF TabsAsk
    <2> QED
      BY <2>1, <2>2
  <1> QED
    BY <1>3, <1>4, <1>5, <1>6 DEF TabsAsk

\* A tab hears of its request, or does not wait for it any longer.
LEMMA AskEnds ==
    ASSUME TabsAsk, NEW r \in Requests, Others(r), req'[r].tab = None,
           req'[r].op = "refresh" => req'[r].token \in doubted', doubted \subseteq doubted',
           \A c \in Tabs : c # req[r].tab => tab'[c].token = tab[c].token,
           \A c \in Tabs : c = req[r].tab => tab'[c].token = 0 \/ (tab'[c].token = tab[c].token /\ tab[c].token \in doubted'),
           \A q \in Requests : req[q].tab \in Tabs \cup {None}
    PROVE  TabsAsk'
  <1>1. \A q \in Requests \ {r} : req'[q] = req[q] /\ (req[q].tab # None => req[q].tab # req[r].tab)
    BY DEF Others, TabsAsk
  <1>2. ASSUME NEW c \in Tabs, tab'[c].token # 0, ~Waiting(c)' PROVE tab'[c].token \in doubted'
    <2>1. CASE c = req[r].tab
      BY <1>2, <2>1
    <2>2. CASE c # req[r].tab
      <3>1. ~Waiting(c)
        BY <1>1, <1>2, <2>2 DEF Waiting
      <3> QED
        BY <1>2, <2>2, <3>1 DEF TabsAsk
    <2> QED
      BY <2>1, <2>2
  <1>3. ASSUME NEW q \in Requests PROVE Own(q)'
    <2>1. CASE q = r
      BY <2>1 DEF Own
    <2>2. CASE q # r
      BY <1>1, <2>2 DEF Own, TabsAsk
    <2> QED
      BY <2>1, <2>2
  <1>4. ASSUME NEW x \in Requests, NEW q \in Requests \ {x}, req'[x].tab # None
        PROVE  req'[q].tab # req'[x].tab
    BY <1>1, <1>4 DEF TabsAsk
  <1>5. ASSUME NEW c \in Tabs, NEW d \in Tabs \ {c}, tab'[c].token # 0, tab'[d].token = tab'[c].token
        PROVE  tab'[c].token \in doubted'
    BY <1>5 DEF TabsAsk
  <1> QED
    BY <1>2, <1>3, <1>4, <1>5 DEF TabsAsk

LEMMA NextAsk ==
    ASSUME Typed, TabsAsk, Next
    PROVE  TabsAsk'
  <1> DEFINE P == TabsAsk'
  <1>t. \A q \in Requests : req[q].tab \in Tabs \cup {None}
    BY NoTab
  <1>i. Idle.tab = None /\ Idle.op = "none"
    BY DEF Idle
  <1>one. ASSUME NEW r \in Requests, Others(r), Calm(r), UNCHANGED <<tab, doubted>> PROVE P
    BY <1>one, CalmSteps, AskQuiet DEF Others
  <1>end. ASSUME NEW r \in Requests, Ended(r), UNCHANGED <<tab, doubted>> PROVE P
    <2>1. Others(r) /\ Calm(r)
      BY <1>end, CalmSteps DEF Ended
    <2> QED
      BY <1>end, <1>one, <2>1
  <1>went. ASSUME NEW r \in Requests, NEW place, Went(r, place), UNCHANGED <<tab, doubted>> PROVE P
    BY <1>went, <1>one, CalmSteps DEF Went
  <1>late. ASSUME NEW lines, \A q \in Requests : req'[q] = BeLate(req[q], lines) \/ (req'[q] = Idle /\ req[q].tab = None),
                  UNCHANGED <<tab, doubted>>
           PROVE  P
    <2>1. \A q \in Requests : Calm(q)
      BY <1>late, LateDoes, CalmSteps DEF Same, Typed, RequestsOK
    <2> QED
      BY <1>late, <2>1, AskQuiet
  <1>same. ASSUME UNCHANGED <<req, tab, doubted>> PROVE P
    BY <1>same, CalmSteps, AskQuiet
  <1>1. ASSUME NEW r \in Requests, FindToken(r) PROVE P
    <2>1. UNCHANGED <<tab, doubted>>
      BY <1>1 DEF FindToken, browser
    <2> QED
      BY <1>1, <1>end, <1>went, <2>1, FindDoes
  <1>2. ASSUME NEW r \in Requests, Revoke(r) PROVE P
    BY <1>2, <1>went, RevokeDoes DEF Revoke, browser
  <1>3. ASSUME NEW r \in Requests, Create(r) PROVE P
    <2>1. Others(r) /\ Calm(r)
      BY <1>3, CreateDoes, CalmSteps DEF Calm
    <2> QED
      BY <1>3, <1>one, <2>1 DEF Create, browser
  <1>4. ASSUME NEW r \in Requests, IssueChallenge(r) PROVE P
    <2>1. End(r) /\ At(r, "issue") /\ UNCHANGED <<tab, doubted>>
      BY <1>4 DEF IssueChallenge, browser
    <2>2. req[r].tab = None
      BY <2>1, NoTab DEF At
    <2>3. req' = [req EXCEPT ![r] = Idle] /\ req \in [Requests -> RequestSet]
      BY <2>1, <2>2 DEF End, Answer, Typed, RequestsOK
    <2> QED
      BY <1>one, <2>1, <2>2, <2>3, CalmSteps DEF Others
  <1>5. ASSUME NEW r \in Requests, UseLink(r) PROVE P
    BY <1>5, <1>went, UseLinkDoes DEF UseLink, browser
  <1>6. ASSUME NEW r \in Requests, CheckCode(r) PROVE P
    <2>1. UNCHANGED <<tab, doubted>>
      BY <1>6 DEF CheckCode, browser
    <2>2. Went(r, "create") \/ Went(r, "spend") \/ Ended(r)
      BY <1>6, CheckCodeDoes
    <2> QED
      BY <1>end, <1>went, <2>1, <2>2
  <1>7. ASSUME NEW r \in Requests, SpendCode(r) PROVE P
    BY <1>7, <1>went, SpendCodeDoes DEF SpendCode, browser
  <1>8. ASSUME NEW r \in Requests, SetPassword(r) PROVE P
    <2>1. UNCHANGED <<tab, doubted>>
      BY <1>8 DEF SetPassword, browser
    <2> DEFINE lines == {tokens[t].line : t \in DOMAIN tokens}
    <2>2. /\ req'[r] = Idle /\ req[r].tab = None
          /\ \A q \in Requests \ {r} : req'[q] = BeLate(req[q], lines)
      BY <1>8, SetPasswordDoes
    <2> HIDE DEF lines
    <2> QED
      BY <1>late, <2>1, <2>2
  <1>9. ASSUME NEW r \in Requests, RefusePassword(r) PROVE P
    <2>1. End(r) /\ UNCHANGED <<tokens, link>> /\ UNCHANGED <<tab, doubted>>
      BY <1>9 DEF RefusePassword, server, browser
    <2> QED
      BY <1>end, <2>1, EndDoes
  <1>10. ASSUME NEW r \in Requests, NEW b \in Tabs \cup {None}, SignIn(r, b) PROVE P
    <2>1. /\ ~Busy(r) /\ Others(r) /\ req'[r].op = "signin" /\ req'[r].tab = b
          /\ UNCHANGED <<tab, doubted>>
      BY <1>10, SignInDoes DEF SignIn, browser
    <2>2. req[r].tab = None
      BY <2>1, NoTab DEF Busy
    <2>3. CASE b = None
      BY <1>one, <2>1, <2>2, <2>3 DEF Calm
    <2>4. CASE b \in Tabs
      <3>1. tab[b].token = 0 /\ ~Waiting(b)
        BY <1>10, <2>4, NoneAssumption DEF SignIn, NoRefresh
      <3> QED
        BY <1>t, <2>1, <2>2, <2>4, <3>1, AskBegins
    <2> QED
      BY <2>3, <2>4
  <1>11. ASSUME NEW r \in Requests, NEW op \in Kinds, LookAtLink(r, op) PROVE P
    <2>1. /\ ~Busy(r) /\ Others(r) /\ req'[r].op = op /\ req'[r].tab = None /\ op # "refresh"
          /\ UNCHANGED <<tab, doubted>>
      BY <1>11, LookAtLinkDoes DEF LookAtLink, browser, Kinds
    <2>2. req[r].tab = None
      BY <2>1, NoTab DEF Busy
    <2> QED
      BY <1>one, <2>1, <2>2 DEF Calm
  <1>doubt. ASSUME NEW r \in Requests, NEW c \in Tabs, c = req[r].tab, Fault(r)
            PROVE  tab[c].token = 0 \/ tab[c].token \in doubted'
    <2>1. req[r].op \in {"refresh", "signin"} /\ Own(r) /\ c # None
      BY <1>doubt, NoTab, NoneAssumption DEF TabsAsk
    <2>2. doubted' = doubted \cup ({req[r].token} \ {0})
      BY <1>doubt DEF Fault
    <2> QED
      BY <1>doubt, <2>1, <2>2 DEF Own
  <1>12. ASSUME NEW r \in Requests, Die(r) PROVE P
    <2>1. Others(r) /\ req'[r] = Idle /\ Fault(r) /\ UNCHANGED tab /\ doubted \subseteq doubted'
      BY <1>12, IdleDoes DEF Die, Fault, server
    <2> QED
      BY <1>doubt, <1>i, <1>t, <2>1, AskEnds
  <1>13. ASSUME NEW r \in Requests, Receive(r) PROVE P
    <2>1. Others(r) /\ req'[r] = Idle /\ tab' = [tab EXCEPT ![req[r].tab] = NoRefresh] /\ UNCHANGED doubted
      BY <1>13, IdleDoes DEF Receive, server
    <2>2. tab \in [Tabs -> TabSet]
      BY DEF Typed, TabsOK
    <2>3. /\ \A c \in Tabs : c # req[r].tab => tab'[c].token = tab[c].token
          /\ \A c \in Tabs : c = req[r].tab => tab'[c].token = 0
      BY <2>1, <2>2 DEF NoRefresh
    <2> QED
      BY <1>i, <1>t, <2>1, <2>3, AskEnds
  <1>14. ASSUME NEW r \in Requests, LoseAnswer(r) PROVE P
    <2>1. /\ Others(r) /\ Fault(r) /\ UNCHANGED tab /\ doubted' = doubted \cup ({req[r].token} \ {0})
          /\ req'[r].tab = None /\ (req'[r].op = "refresh" => req[r].op = "refresh" /\ req'[r].token = req[r].token)
      BY <1>i, <1>14, LoseAnswerDoes DEF LoseAnswer, Fault
    <2>2. req[r].op = "refresh" => req[r].token # 0
      BY DEF Typed, RequestsOK, Sound
    <2> QED
      BY <1>doubt, <1>t, <2>1, <2>2, AskEnds
  <1>15. ASSUME NEW r \in Requests, NEW b \in Tabs, Refresh(r, b) PROVE P
    <2>1. /\ stored \in 1 .. Len(tokens) /\ UNCHANGED <<tokens, link>> /\ Ask(r, b, stored) /\ ~Waiting(b)
          /\ tab' = [tab EXCEPT ![b] = [attempt |-> 1, token |-> stored]] /\ tab \in [Tabs -> TabSet]
          /\ doubted' = doubted \cup {t \in {stored} : \E x \in Tabs \ {b} : tab[x].token = t}
      BY <1>15 DEF Refresh, StartRefresh, server, Typed, TabsOK
    <2>2. ~Busy(r) /\ Others(r) /\ req'[r].op = "refresh" /\ req'[r].tab = b /\ req'[r].token = stored
      BY <2>1, AskDoes
    <2>3. req[r].tab = None
      BY <2>2, NoTab DEF Busy
    <2>4. tab'[b].token = stored /\ \A c \in Tabs \ {b} : tab'[c].token = tab[c].token
      BY <2>1
    <2>5. \A c \in Tabs \ {b} : tab'[c].token = tab'[b].token => tab'[b].token \in doubted'
      BY <2>1, <2>4
    <2> QED
      BY <1>t, <2>1, <2>2, <2>3, <2>4, <2>5, AskBegins
  <1>16. ASSUME NEW r \in Requests, NEW b \in Tabs, Retry(r, b) PROVE P
    <2>1. /\ tab[b].token \in 1 .. Len(tokens) /\ UNCHANGED <<tokens, link, doubted>>
          /\ Ask(r, b, tab[b].token) /\ ~Waiting(b)
          /\ tab' = [tab EXCEPT ![b].attempt = @ + 1] /\ tab \in [Tabs -> TabSet]
      BY <1>16, RetryAsks DEF Retry, server, Typed, TabsOK
    <2>2. ~Busy(r) /\ Others(r) /\ req'[r].op = "refresh" /\ req'[r].tab = b /\ req'[r].token = tab[b].token
      BY <2>1, AskDoes
    <2>3. req[r].tab = None
      BY <2>2, NoTab DEF Busy
    <2>4. \A c \in Tabs : tab'[c].token = tab[c].token
      BY <2>1 DEF TabSet
    <2>5. \A c \in Tabs \ {b} : tab'[b].token # 0 /\ tab'[c].token = tab'[b].token => tab'[b].token \in doubted'
      BY <2>1, <2>4 DEF TabsAsk
    <2> QED
      BY <1>t, <2>1, <2>2, <2>3, <2>4, <2>5, AskBegins
  <1>17. ASSUME NEW b \in Tabs, GiveUp(b) PROVE P
    <2>1. /\ ~Waiting(b) /\ UNCHANGED <<req, doubted>> /\ tab' = [tab EXCEPT ![b] = NoRefresh]
          /\ tab \in [Tabs -> TabSet]
      BY <1>17 DEF GiveUp, Typed, TabsOK
    <2>2. tab'[b].token = 0 /\ \A c \in Tabs \ {b} : tab'[c].token = tab[c].token
      BY <2>1 DEF NoRefresh
    <2>3. \A c \in Tabs : tab'[c].token # 0 /\ ~Waiting(c)' => tab'[c].token \in doubted'
      BY <2>1, <2>2 DEF TabsAsk, Waiting
    <2>4. ASSUME NEW q \in Requests PROVE Own(q)'
      <3>1. req[q].tab # b /\ req[q].tab \in Tabs \cup {None} /\ Own(q)
        BY <1>t, <2>1 DEF Waiting, TabsAsk
      <3> QED
        BY <2>1, <2>2, <3>1 DEF Own
    <2>5. \A c \in Tabs : \A d \in Tabs \ {c} :
             tab'[c].token # 0 /\ tab'[d].token = tab'[c].token => tab'[c].token \in doubted'
      BY <2>1, <2>2 DEF TabsAsk
    <2> QED
      BY <2>1, <2>3, <2>4, <2>5 DEF TabsAsk
  <1>18. ASSUME NEW t \in DOMAIN tokens, EndLine(t) PROVE P
    <2> DEFINE lines == {tokens[t].line}
    <2>1. \A q \in Requests : req'[q] = BeLate(req[q], lines)
      BY <1>18, EndLineDoes
    <2>2. UNCHANGED <<tab, doubted>>
      BY <1>18 DEF EndLine, browser
    <2> HIDE DEF lines
    <2> QED
      BY <1>late, <2>1, <2>2
  <1>19. ASSUME NEW k \in Kinds, LinkExpires(k) PROVE P
    BY <1>19, <1>same DEF LinkExpires, browser
  <1>20. ASSUME RequestPasswordReset PROVE P
    BY <1>20, <1>same DEF RequestPasswordReset, browser
  <1>21. ASSUME LogOut PROVE P
    BY <1>21, <1>same DEF LogOut
  <1> HIDE DEF P
  <1>22. P
    BY NextCases, <1>1, <1>2, <1>3, <1>4, <1>5, <1>6, <1>7, <1>8, <1>9, <1>10, <1>11, <1>12,
       <1>13, <1>14, <1>15, <1>16, <1>17, <1>18, <1>19, <1>20, <1>21
  <1> QED
    BY <1>22 DEF P

LEMMA MadeNone ==
    ASSUME Typed, NEW r \in Requests, req[r].at # "answer"
    PROVE  req[r].made = 0
  BY DEF Typed, RequestsOK, Sound

\* A token is exchanged: whoever still names it is exchanging it, or it is in doubt.
LEMMA GoodRevoke ==
    ASSUME Typed, TabsAsk, TokensGood, NEW r \in Requests, Revoke(r)
    PROVE  TokensGood'
  <1> DEFINE t == req[r].token
  <1>1. /\ t \in DOMAIN tokens /\ req[r].op = "refresh" /\ Others(r) /\ req'[r].at = "create"
        /\ \A u \in DOMAIN tokens : tokens'[u].line = tokens[u].line /\ (u # t => tokens'[u] = tokens[u])
        /\ req[r].at = "revoke" /\ req'[r].made = req[r].made /\ UNCHANGED <<ended, stored, tab, doubted>>
    BY RevokeDoes DEF Went, Keeps, Revoke, At, browser
  <1>2. t # 0 /\ Own(r) /\ req'[r].made = 0
    BY <1>1, MadeNone DEF Typed, RequestsOK, Sound, TabsAsk
  <1>3. t \in doubted \/ (req[r].tab \in Tabs /\ tab[req[r].tab].token = t)
    BY <1>1, <1>2, NoTab DEF Own
  <1> HIDE DEF t
  <1>4. ASSUME NEW u \in DOMAIN tokens, Reason(u) PROVE tokens'[u].line \in ended' \/ u \in doubted'
    BY <1>1, <1>4 DEF Reason
  <1>5. ASSUME NEW u \in DOMAIN tokens, Good(u), u # t \/ u \in doubted
        PROVE  tokens'[u].live \/ tokens'[u].line \in ended' \/ u \in doubted'
    BY <1>1, <1>5 DEF Good, Reason
  <1>6. stored' # 0 => Good(stored)' \/ \E b \in Tabs : tab'[b].token = stored'
    <2>1. stored # 0 => stored \in DOMAIN tokens
      BY Numbered DEF Typed, TabsOK
    <2>2. CASE stored = t
      BY <1>1, <1>3, <2>2 DEF Good, Reason
    <2>3. CASE stored # t
      BY <1>1, <1>5, <2>1, <2>3 DEF TokensGood, Good, Reason
    <2> QED
      BY <2>2, <2>3
  <1>7. ASSUME NEW q \in Requests, req'[q].made # 0 PROVE Fresh(req[q].made)'
    <2> DEFINE u == req'[q].made
    <2>1. u = req[q].made /\ u # 0 /\ Fresh(u) /\ u \in DOMAIN tokens
      BY <1>1, <1>2, <1>7, Numbered DEF Others, TokensGood, Typed, RequestsOK, Sound, RequestSet
    <2> HIDE DEF u
    <2>2. u # t \/ u \in doubted
      BY <1>3, <2>1 DEF Fresh
    <2>3. tokens'[u].live \/ tokens'[u].line \in ended' \/ u \in doubted'
      BY <1>5, <2>1, <2>2 DEF Fresh
    <2> QED
      BY <1>1, <2>1, <2>3 DEF u, Fresh, Good, Reason
  <1>8. \A q \in Requests : \A x \in Requests \ {q} : req'[q].made # 0 => req'[x].made # req'[q].made
    BY <1>1, <1>2 DEF Others, TokensGood
  <1>9. ASSUME NEW q \in Requests, req'[q].at = "find" PROVE Good(req[q].token)'
    <2> DEFINE u == req'[q].token
    <2>1. q # r /\ req'[q] = req[q] /\ Good(u) /\ req[q].op = "refresh" /\ u \in DOMAIN tokens /\ u = req[q].token
      <3>1. q # r /\ req'[q] = req[q]
        BY <1>1, <1>9 DEF Others
      <3>2. req[q].op = "refresh" /\ Good(req[q].token)
        BY <1>9, <3>1 DEF Typed, RequestsOK, Sound, OpsAt, TokensGood, At
      <3>3. req[q].token \in DOMAIN tokens
        BY <3>2, Numbered DEF Typed, RequestsOK, Sound, RequestSet
      <3> QED
        BY <3>1, <3>2, <3>3
    <2>2. Own(q) /\ req[q].tab \in Tabs \cup {None} /\ (req[q].tab # None => req[r].tab # req[q].tab)
      BY <2>1, NoTab DEF TabsAsk
    <2> HIDE DEF u
    <2>3. u # t \/ u \in doubted
      <3>1. CASE req[q].tab = None
        BY <2>1, <2>2, <3>1 DEF Own
      <3>2. CASE req[q].tab # None
        BY <1>2, <1>3, <2>1, <2>2, <3>2 DEF Own, TabsAsk
      <3> QED
        BY <3>1, <3>2
    <2>4. tokens'[u].live \/ tokens'[u].line \in ended' \/ u \in doubted'
      BY <1>5, <2>1, <2>3
    <2> QED
      BY <2>4 DEF u, Good, Reason
  <1>10. ASSUME NEW q \in Requests, req'[q].op = "refresh", req'[q].at = "answer", req'[q].made = 0
         PROVE  Reason(req[q].token)'
    <2> DEFINE u == req'[q].token
    <2>1. req'[q] = req[q] /\ Reason(u) /\ u \in DOMAIN tokens
      <3>1. req'[q] = req[q]
        BY <1>1, <1>10 DEF Others
      <3>2. Reason(req[q].token) /\ req[q].token \in DOMAIN tokens
        BY <1>10, <3>1, Numbered DEF TokensGood, At, Typed, RequestsOK, Sound, RequestSet
      <3> QED
        BY <3>1, <3>2
    <2> HIDE DEF u
    <2>2. tokens'[u].line \in ended' \/ u \in doubted'
      BY <1>4, <2>1
    <2> QED
      BY <2>2 DEF u, Reason
  <1> QED
    BY <1>6, <1>7, <1>8, <1>9, <1>10 DEF TokensGood, At

\* A new token is nobody's yet.
LEMMA GoodCreate ==
    ASSUME Typed, TokensGood, NEW r \in Requests, Create(r)
    PROVE  TokensGood'
  <1> DEFINE id == Len(tokens) + 1
  <1>1. /\ DOMAIN tokens' = DOMAIN tokens \cup {id} /\ id \notin DOMAIN tokens /\ id # 0
        /\ \A t \in DOMAIN tokens : tokens'[t] = tokens[t]
        /\ tokens'[id].live /\ Others(r)
        /\ IF req[r].tab = None THEN req'[r] = Idle
           ELSE req'[r].at = "answer" /\ req'[r].made = id
        /\ UNCHANGED <<ended, stored, tab, doubted>> /\ req[r].at = "create"
    <2>1. id # 0
      BY Numbered
    <2> QED
      BY <2>1, CreateDoes DEF Create, browser, At
  <1> HIDE DEF id
  <1>2. Ages
    BY <1>1 DEF Ages
  <1>3. stored # id /\ (\A b \in Tabs : tab[b].token # id) /\ \A q \in Requests : req[q].made # id
    BY <1>1, Numbered DEF Typed, TabsOK, TabSet, RequestsOK, Sound, RequestSet
  <1>4. \A q \in Requests \ {r} : req'[q] = req[q]
    BY <1>1 DEF Others
  <1>5. stored' # 0 => Good(stored)' \/ \E b \in Tabs : tab'[b].token = stored'
    <2>1. stored # 0 => stored \in DOMAIN tokens
      BY Numbered DEF Typed, TabsOK
    <2> QED
      BY <1>1, <1>2, <2>1, StaysGood DEF TokensGood
  <1>6. ASSUME NEW q \in Requests, req'[q].made # 0 PROVE Fresh(req[q].made)'
    <2>1. CASE q = r
      <3>1. req'[r].made = id
        BY <1>1, <1>6, <2>1 DEF Idle
      <3> QED
        BY <1>1, <1>3, <2>1, <3>1 DEF Fresh, Good
    <2>2. CASE q # r
      <3> DEFINE t == req[q].made
      <3>1. req'[q].made = t /\ t # 0 /\ Fresh(t)
        BY <1>4, <1>6, <2>2 DEF TokensGood
      <3>2. tokens'[t].live \/ tokens'[t].line \in ended' \/ t \in doubted'
        BY <1>2, <3>1, MadeGood
      <3> HIDE DEF t
      <3> QED
        BY <1>1, <3>1, <3>2 DEF Fresh, Good, Reason
    <2> QED
      BY <2>1, <2>2
  <1>7. \A q \in Requests : \A x \in Requests \ {q} : req'[q].made # 0 => req'[x].made # req'[q].made
    <2>1. req'[r].made \in {0, id}
      BY <1>1 DEF Idle
    <2>2. \A q \in Requests : \A x \in Requests \ {q} : req[q].made # 0 => req[x].made # req[q].made
      BY DEF TokensGood
    <2> QED
      BY <1>1, <1>3, <1>4, <2>1, <2>2
  <1>8. \A q \in Requests : Asked(q)
    <2>1. Asked(r)
      BY <1>1 DEF Asked, Idle
    <2> QED
      BY <1>4, <2>1, KeptSteps DEF Kept
  <1> QED
    BY <1>2, <1>5, <1>6, <1>7, <1>8, GoodAsks DEF TokensGood

\* A tab hears of the new token.
LEMMA GoodReceive ==
    ASSUME Typed, TokensGood, NEW r \in Requests, Receive(r)
    PROVE  TokensGood'
  <1>1. /\ Others(r) /\ req'[r] = Idle /\ UNCHANGED <<tokens, ended, doubted>>
        /\ stored' = req[r].made /\ tab' = [tab EXCEPT ![req[r].tab] = NoRefresh]
    BY IdleDoes DEF Receive, server
  <1>2. Ages
    BY <1>1 DEF Ages
  <1>3. \A q \in Requests \ {r} : req'[q] = req[q]
    BY <1>1 DEF Others
  <1>4. \A b \in Tabs : tab'[b].token \in {tab[b].token, 0}
    BY <1>1 DEF Typed, TabsOK, NoRefresh
  <1>5. stored' # 0 => Good(stored)'
    BY <1>1 DEF TokensGood, Fresh, Good, Reason
  <1>6. ASSUME NEW q \in Requests, req'[q].made # 0 PROVE Fresh(req[q].made)'
    <2>1. q # r
      BY <1>1, <1>6 DEF Idle
    <2>2. req'[q] = req[q] /\ Fresh(req[q].made) /\ req[q].made # req[r].made
      BY <1>3, <1>6, <2>1 DEF TokensGood
    <2> QED
      BY <1>1, <1>4, <1>6, <2>2 DEF Fresh, Good, Reason
  <1>7. \A q \in Requests : \A x \in Requests \ {q} : req'[q].made # 0 => req'[x].made # req'[q].made
    <2>1. req'[r].made = 0
      BY <1>1 DEF Idle
    <2>2. \A q \in Requests : \A x \in Requests \ {q} : req[q].made # 0 => req[x].made # req[q].made
      BY DEF TokensGood
    <2> QED
      BY <1>3, <2>1, <2>2
  <1>8. \A q \in Requests : Asked(q)
    BY <1>1, <1>3, KeptSteps DEF Kept
  <1> QED
    BY <1>2, <1>5, <1>6, <1>7, <1>8, GoodAsks DEF TokensGood

\* A tab begins to exchange the stored token, or gives up a token in doubt.
LEMMA GoodTab ==
    ASSUME Typed, TokensGood, Ages, UNCHANGED <<tokens, ended, stored>>, NEW b \in Tabs,
           \A c \in Tabs \ {b} : tab'[c].token = tab[c].token, tab'[b].token \in {stored, 0},
           tab[b].token # 0 /\ tab'[b].token = 0 => tab[b].token \in doubted',
           \A q \in Requests : Asked(q) /\ req'[q].made = req[q].made
    PROVE  TokensGood'
  <1>1. stored' # 0 => Good(stored)' \/ \E c \in Tabs : tab'[c].token = stored'
    <2> SUFFICES ASSUME stored # 0, ~Good(stored)', \A c \in Tabs : tab'[c].token # stored PROVE FALSE
      OBVIOUS
    <2>1. stored \in DOMAIN tokens
      BY Numbered DEF Typed, TabsOK
    <2>2. ~Good(stored)
      BY <2>1, StaysGood
    <2>3. PICK c \in Tabs : tab[c].token = stored
      BY <2>2 DEF TokensGood
    <2>4. c = b /\ tab'[b].token = 0
      BY <2>3
    <2>5. stored \in doubted'
      BY <2>3, <2>4
    <2> QED
      BY <2>5 DEF Good, Reason
  <1>2. ASSUME NEW q \in Requests, req'[q].made # 0 PROVE Fresh(req[q].made)'
    <2> DEFINE t == req[q].made
    <2>1. req'[q].made = t /\ t # 0 /\ Fresh(t)
      BY <1>2 DEF TokensGood
    <2>2. tokens'[t].live \/ tokens'[t].line \in ended' \/ t \in doubted'
      BY <2>1, MadeGood
    <2> HIDE DEF t
    <2>3. \A c \in Tabs : tab'[c].token # t
      BY <2>1 DEF Fresh
    <2> QED
      BY <2>1, <2>2, <2>3 DEF Fresh, Good, Reason
  <1>3. \A q \in Requests : \A x \in Requests \ {q} : req'[q].made # 0 => req'[x].made # req'[q].made
    BY DEF TokensGood
  <1> QED
    BY <1>1, <1>2, <1>3, GoodAsks DEF TokensGood

LEMMA NextGood ==
    ASSUME Typed, TabsAsk, TokensGood, Next
    PROVE  TokensGood'
  <1> DEFINE P == TokensGood'
  <1>i. Idle.made = 0 /\ Idle.at = "idle" /\ Idle.op = "none"
    BY DEF Idle
  <1>all. ASSUME Ages, stored' \in {stored, 0}, UNCHANGED tab, \A q \in Requests : Kept(q) PROVE P
    BY <1>all, GoodQuiet
  <1>still. UNCHANGED <<tokens, ended>> /\ doubted \subseteq doubted' => Ages
    BY DEF Ages
  <1>one. ASSUME NEW r \in Requests, Others(r), Kept(r), UNCHANGED <<tokens, ended, stored, tab>>,
                 doubted \subseteq doubted'
          PROVE  P
    <2>1. \A q \in Requests : Kept(q)
      BY <1>one, KeptSteps DEF Others
    <2> QED
      BY <1>one, <1>all, <1>still, <2>1
  <1>went. ASSUME NEW r \in Requests, NEW place \in {"revoke", "create", "check", "spend", "write"}, Went(r, place),
                  req[r].at # "answer", UNCHANGED <<tokens, ended, stored, tab, doubted>>
           PROVE  P
    <2>1. req'[r].at \notin {"find", "answer"} /\ req'[r].made = 0 /\ Others(r)
      BY <1>went, MadeNone DEF Went, Keeps
    <2> QED
      BY <1>went, <1>one, <2>1, KeptSteps
  <1>end. ASSUME NEW r \in Requests, Ended(r), req[r].tab = None, UNCHANGED <<tokens, ended, stored, tab, doubted>>
          PROVE  P
    <2>1. req'[r] = Idle /\ Others(r)
      BY <1>end DEF Ended
    <2> QED
      BY <1>end, <1>one, <2>1, KeptSteps
  <1>late. ASSUME NEW lines \in SUBSET (1 .. Len(tokens)), EndLines(lines),
                  \A q \in Requests : req'[q] = BeLate(req[q], lines) \/ req'[q] = Idle,
                  UNCHANGED <<stored, tab, doubted>>
           PROVE  P
    <2>1. Ages
      BY <1>late, LinesEnd DEF Ages
    <2>2. ASSUME NEW q \in Requests PROVE Kept(q)
      <3>1. CASE req'[q] = Idle
        BY <3>1, KeptSteps
      <3>2. CASE req'[q] = BeLate(req[q], lines)
        <4>1. Same(req[q], req'[q])
          BY <3>2, LateDoes DEF Typed, RequestsOK
        <4> QED
          BY <4>1, KeptSteps DEF Same, Keeps
      <3> QED
        BY <1>late, <3>1, <3>2
    <2> QED
      BY <1>late, <1>all, <2>1, <2>2
  <1>same. ASSUME UNCHANGED <<tokens, ended, req, tab, doubted>>, stored' \in {stored, 0} PROVE P
    BY <1>same, <1>all, <1>still, KeptSteps
  <1>1. ASSUME NEW r \in Requests, FindToken(r) PROVE P
    <2>1. UNCHANGED <<tokens, ended, stored, tab, doubted>> /\ req[r].at = "find"
      BY <1>1 DEF FindToken, server, browser, At
    <2>2. CASE tokens[req[r].token].live
      BY <1>1, <1>went, <2>1, <2>2, FindDoes
    <2>3. CASE ~tokens[req[r].token].live
      <3>1. /\ req[r].token \in DOMAIN tokens /\ Ended(r) /\ Reason(req[r].token) /\ req[r].made = 0
        BY <1>1, <2>1, <2>3, FindDoes, MadeNone DEF TokensGood, At, Good
      <3>2. CASE req[r].tab = None
        BY <1>end, <2>1, <3>1, <3>2
      <3>3. CASE req[r].tab # None
        <4>1. Others(r) /\ req'[r].at = "answer" /\ req'[r].token = req[r].token /\ req'[r].made = 0
          BY <3>1, <3>3 DEF Ended, Keeps
        <4>2. Kept(r)
          BY <3>1, <4>1 DEF Kept, Asked
        <4> QED
          BY <1>one, <2>1, <4>1, <4>2
      <3> QED
        BY <3>2, <3>3
    <2> QED
      BY <2>2, <2>3
  <1>2. ASSUME NEW r \in Requests, Revoke(r) PROVE P
    BY <1>2, GoodRevoke
  <1>3. ASSUME NEW r \in Requests, Create(r) PROVE P
    BY <1>3, GoodCreate
  <1>4. ASSUME NEW r \in Requests, IssueChallenge(r) PROVE P
    <2>1. End(r) /\ At(r, "issue") /\ UNCHANGED <<tokens, ended, stored, tab, doubted>>
      BY <1>4 DEF IssueChallenge, browser
    <2>2. req' = [req EXCEPT ![r] = Idle] /\ req \in [Requests -> RequestSet]
      BY <2>1, NoTab DEF At, End, Answer, Typed, RequestsOK
    <2>3. Others(r) /\ req'[r] = Idle
      BY <2>2 DEF Others
    <2> QED
      BY <1>one, <2>1, <2>3, KeptSteps
  <1>5. ASSUME NEW r \in Requests, UseLink(r) PROVE P
    <2>1. Went(r, "write") \/ Went(r, "check")
      BY <1>5, UseLinkDoes
    <2> QED
      BY <1>5, <1>went, <2>1 DEF UseLink, browser, At
  <1>6. ASSUME NEW r \in Requests, CheckCode(r) PROVE P
    <2>1. UNCHANGED <<tokens, ended, stored, tab, doubted>> /\ req[r].at = "check"
      BY <1>6 DEF CheckCode, server, browser, At
    <2>2. (Went(r, "create") \/ Went(r, "spend") \/ Ended(r)) /\ req[r].tab = None
      BY <1>6, CheckCodeDoes
    <2> QED
      BY <1>end, <1>went, <2>1, <2>2
  <1>7. ASSUME NEW r \in Requests, SpendCode(r) PROVE P
    BY <1>7, <1>went, SpendCodeDoes DEF SpendCode, browser, At
  <1>8. ASSUME NEW r \in Requests, SetPassword(r) PROVE P
    <2>1. UNCHANGED <<stored, tab, doubted>>
      BY <1>8 DEF SetPassword, browser
    <2> DEFINE lines == {tokens[t].line : t \in DOMAIN tokens}
    <2>2. /\ EndLines(lines) /\ lines \in SUBSET (1 .. Len(tokens)) /\ req'[r] = Idle
          /\ \A q \in Requests \ {r} : req'[q] = BeLate(req[q], lines)
      BY <1>8, SetPasswordDoes
    <2> HIDE DEF lines
    <2> QED
      BY <1>late, <2>1, <2>2
  <1>9. ASSUME NEW r \in Requests, RefusePassword(r) PROVE P
    <2>1. /\ End(r) /\ req[r].at = "write" /\ UNCHANGED <<tokens, link>>
          /\ UNCHANGED <<tokens, ended, stored, tab, doubted>>
      BY <1>9 DEF RefusePassword, server, browser, At
    <2>2. req[r].op = "reset"
      BY <2>1 DEF Typed, RequestsOK, Sound, OpsAt
    <2> QED
      BY <1>end, <2>1, <2>2, EndDoes, NoTab
  <1>10. ASSUME NEW r \in Requests, NEW b \in Tabs \cup {None}, SignIn(r, b) PROVE P
    <2>1. /\ Others(r) /\ req'[r].at \in {"create", "issue"} /\ req'[r].made = 0
          /\ UNCHANGED <<tokens, ended, stored, tab, doubted>>
      BY <1>10, SignInDoes DEF SignIn, server, browser
    <2> QED
      BY <1>one, <2>1, KeptSteps
  <1>11. ASSUME NEW r \in Requests, NEW op \in Kinds, LookAtLink(r, op) PROVE P
    <2>1. /\ Others(r) /\ req'[r].at = "use" /\ req'[r].made = 0
          /\ UNCHANGED <<tokens, ended, stored, tab, doubted>>
      BY <1>11, LookAtLinkDoes DEF LookAtLink, server, browser
    <2> QED
      BY <1>one, <2>1, KeptSteps
  <1>12. ASSUME NEW r \in Requests, Die(r) PROVE P
    <2>1. /\ Others(r) /\ req'[r] = Idle /\ UNCHANGED <<tokens, ended, stored, tab>>
          /\ doubted \subseteq doubted'
      BY <1>12, IdleDoes DEF Die, Fault, server
    <2> QED
      BY <1>one, <2>1, KeptSteps
  <1>13. ASSUME NEW r \in Requests, Receive(r) PROVE P
    BY <1>13, GoodReceive
  <1>14. ASSUME NEW r \in Requests, LoseAnswer(r) PROVE P
    <2>1. /\ Others(r) /\ UNCHANGED <<tokens, ended, stored, tab>> /\ doubted \subseteq doubted'
          /\ (req'[r] = Idle \/ (/\ req'[r].at = req[r].at /\ req'[r].op = req[r].op
                                /\ req'[r].token = req[r].token /\ req'[r].made = req[r].made))
      BY <1>14, LoseAnswerDoes DEF LoseAnswer, Fault, server
    <2> QED
      BY <1>one, <2>1, KeptSteps
  <1>15. ASSUME NEW r \in Requests, NEW b \in Tabs, Refresh(r, b) PROVE P
    <2>1. /\ stored \in DOMAIN tokens /\ stored # 0 /\ UNCHANGED <<tokens, link>> /\ UNCHANGED <<ended, stored>>
          /\ Ask(r, b, stored) /\ stored \in 1 .. Len(tokens)
          /\ tab[b].token = 0 /\ tab' = [tab EXCEPT ![b] = [attempt |-> 1, token |-> stored]]
          /\ doubted' = doubted \cup {t \in {stored} : \E x \in Tabs \ {b} : tab[x].token = t}
      BY <1>15, Numbered DEF Refresh, StartRefresh, NoRefresh, server, Typed, TabsOK
    <2>2. /\ ~Busy(r) /\ Others(r) /\ req'[r].at = "find" /\ req'[r].token = stored /\ req'[r].made = 0
      BY <2>1, AskDoes
    <2>3. req[r].made = 0
      BY <2>2, MadeNone, NotBusy
    <2>4. tab'[b].token = stored /\ \A c \in Tabs \ {b} : tab'[c].token = tab[c].token
      BY <2>1 DEF Typed, TabsOK
    <2>5. Good(stored) \/ stored \in doubted'
      <3>1. Good(stored) \/ \E c \in Tabs : tab[c].token = stored
        BY <2>1 DEF TokensGood
      <3> QED
        BY <2>1, <3>1
    <2>6. Asked(r)
      BY <2>1, <2>2, <2>5 DEF Asked
    <2>7. \A q \in Requests : Asked(q) /\ req'[q].made = req[q].made
      BY <2>2, <2>3, <2>6, KeptSteps DEF Others, Kept
    <2> QED
      BY <1>still, <2>1, <2>4, <2>7, GoodTab
  <1>16. ASSUME NEW r \in Requests, NEW b \in Tabs, Retry(r, b) PROVE P
    <2>1. /\ tab[b].token \in 1 .. Len(tokens) /\ UNCHANGED <<tokens, link>>
          /\ UNCHANGED <<ended, stored, doubted>> /\ Ask(r, b, tab[b].token) /\ ~Waiting(b)
          /\ tab' = [tab EXCEPT ![b].attempt = @ + 1] /\ tab \in [Tabs -> TabSet]
      BY <1>16, RetryAsks DEF Retry, server, browser, Typed, TabsOK
    <2>2. /\ Others(r) /\ req'[r].at = "find" /\ req'[r].token = tab[b].token /\ req'[r].made = 0
      BY <2>1, AskDoes
    <2>3. tab[b].token \in DOMAIN tokens /\ tab[b].token \in doubted
      BY <2>1, Numbered DEF TabsAsk
    <2>4. Kept(r)
      BY <2>2, <2>3, <2>1 DEF Kept, Asked
    <2>5. \A q \in Requests : Kept(q)
      BY <2>2, <2>4, KeptSteps DEF Others
    <2>6. \A c \in Tabs : tab'[c].token = tab[c].token
      BY <2>1 DEF TabSet
    <2> QED
      BY <1>still, <2>1, <2>5, <2>6, GoodQuiet
  <1>17. ASSUME NEW b \in Tabs, GiveUp(b) PROVE P
    <2>1. /\ ~Waiting(b) /\ UNCHANGED <<req, doubted, tokens, ended, stored>> /\ tab' = [tab EXCEPT ![b] = NoRefresh]
          /\ tab \in [Tabs -> TabSet]
      BY <1>17 DEF GiveUp, server, Typed, TabsOK
    <2>2. tab'[b].token = 0 /\ \A c \in Tabs \ {b} : tab'[c].token = tab[c].token
      BY <2>1 DEF NoRefresh
    <2>3. tab[b].token # 0 => tab[b].token \in doubted'
      BY <2>1 DEF TabsAsk
    <2>4. \A q \in Requests : Asked(q) /\ req'[q].made = req[q].made
      BY <2>1, KeptSteps DEF Kept
    <2> QED
      BY <1>still, <2>1, <2>2, <2>3, <2>4, GoodTab
  <1>18. ASSUME NEW t \in DOMAIN tokens, EndLine(t) PROVE P
    <2> DEFINE lines == {tokens[t].line}
    <2>1. /\ EndLines(lines) /\ lines \in SUBSET (1 .. Len(tokens))
          /\ \A q \in Requests : req'[q] = BeLate(req[q], lines)
      BY <1>18, EndLineDoes
    <2>2. UNCHANGED <<stored, tab, doubted>>
      BY <1>18 DEF EndLine, browser
    <2> HIDE DEF lines
    <2> QED
      BY <1>late, <2>1, <2>2
  <1>19. ASSUME NEW k \in Kinds, LinkExpires(k) PROVE P
    BY <1>19, <1>same DEF LinkExpires, browser
  <1>20. ASSUME RequestPasswordReset PROVE P
    BY <1>20, <1>same DEF RequestPasswordReset, browser
  <1>21. ASSUME LogOut PROVE P
    BY <1>21, <1>same DEF LogOut, server
  <1> HIDE DEF P
  <1>22. P
    BY NextCases, <1>1, <1>2, <1>3, <1>4, <1>5, <1>6, <1>7, <1>8, <1>9, <1>10, <1>11, <1>12,
       <1>13, <1>14, <1>15, <1>16, <1>17, <1>18, <1>19, <1>20, <1>21
  <1> QED
    BY <1>22 DEF P

LEMMA InitReasoned == Init => TabsAsk /\ TokensGood
  <1> SUFFICES ASSUME Init PROVE TabsAsk /\ TokensGood
    OBVIOUS
  <1>1. /\ \A r \in Requests : req[r].op = "none" /\ req[r].at = "idle" /\ req[r].tab = None /\ req[r].made = 0
        /\ \A b \in Tabs : tab[b].token = 0
        /\ stored = 1 /\ tokens[1].live
    BY DEF Init, Idle, NoRefresh
  <1> QED
    BY <1>1 DEF TabsAsk, TokensGood, Own, Good, At

LEMMA StutterReasoned == ASSUME Typed, TabsAsk, TokensGood, UNCHANGED vars PROVE TabsAsk' /\ TokensGood'
  <1>1. Ages /\ \A r \in Requests : Kept(r) /\ Calm(r)
    BY KeptSteps, CalmSteps DEF vars, Ages
  <1> QED
    BY <1>1, AskQuiet, GoodQuiet DEF vars

\* Nobody is thrown out but for a token that was ended or is in doubt
\* (RefusedForAReason), however many tabs share it.
THEOREM NotThrownOut == Spec => []RefusedForAReason
  <1> DEFINE I == Typed /\ TabsAsk /\ TokensGood
  <1>1. Init => I
    BY InitTyped, InitReasoned
  <1>2. I /\ [Next]_vars => I'
    BY NextTyped, StutterTyped, NextAsk, NextGood, StutterReasoned
  <1>3. I => RefusedForAReason
    BY DEF TokensGood, RefusedForAReason, Reason
  <1> HIDE DEF I
  <1> QED
    BY <1>1, <1>2, <1>3, PTL DEF Spec

=============================================================================

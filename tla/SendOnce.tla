------------------------------ MODULE SendOnce ------------------------------
(***************************************************************************)
(* What a chat promises to a client that labels its messages with          *)
(* idempotency keys (docs/database-design.md: "using                       *)
(* messages.idempotency_key to reconcile retries"): whatever the number of *)
(* attempts, a key stores at most one message, and every successful answer *)
(* for that key names that one message.                                    *)
(*                                                                         *)
(* stored and answered are relations between keys and message ids, so that *)
(* an implementation can be mapped onto them without choosing witnesses.   *)
(***************************************************************************)
CONSTANTS
    Keys,           \* idempotency keys
    Ids             \* message ids

VARIABLES
    stored,         \* <<key, id>>: the message a key is stored under
    answered        \* <<key, id>>: an answer a client has received

avars == <<stored, answered>>

Init ==
    /\ stored \in SUBSET (Keys \X Ids)
    /\ \A p, q \in stored : p[1] = q[1] => p = q
    /\ answered = {}

\* The first attempt with key k that reaches the table stores the message.
Store(k, i) ==
    /\ \A p \in stored : p[1] # k
    /\ stored' = stored \cup {<<k, i>>}
    /\ UNCHANGED answered

\* Any attempt with key k may be answered, always with the stored message.
Answer(k, i) ==
    /\ <<k, i>> \in stored
    /\ answered' = answered \cup {<<k, i>>}
    /\ UNCHANGED stored

Next == \E k \in Keys, i \in Ids : Store(k, i) \/ Answer(k, i)

Spec == Init /\ [][Next]_avars

-----------------------------------------------------------------------------
\* Two answers for one key name the same message.
AnswersAgree == \A p, q \in answered : p[1] = q[1] => p = q
=============================================================================

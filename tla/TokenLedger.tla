----------------------------- MODULE TokenLedger -----------------------------
(***************************************************************************)
(* What refresh sessions promise, with no request, transaction or clock:   *)
(* a session accepts one token at a time, its head.  Redeeming the head    *)
(* replaces it by a token never seen before; a revoked session redeems     *)
(* nothing any more.  AuthSessions implements this module.                 *)
(***************************************************************************)
CONSTANTS Session, Token

VARIABLES state,      \* "absent", "open" or "revoked", per session
          head,       \* the token the session accepts
          redeemed    \* every token redeemed so far

ledger == <<state, head, redeemed>>

Held == {head[s] : s \in {x \in Session : state[x] # "absent"}}

\* Not redeemed, and accepted by no session.
Unseen(t) == t \in Token /\ t \notin redeemed \cup Held

Init ==
    /\ state = [s \in Session |-> "absent"]
    /\ head \in [Session -> Token]
    /\ redeemed = {}

\* A registration or a login.
Open(s, t) ==
    /\ state[s] = "absent" /\ Unseen(t)
    /\ state' = [state EXCEPT ![s] = "open"]
    /\ head' = [head EXCEPT ![s] = t]
    /\ UNCHANGED redeemed

\* A refresh: t replaces the head, which is redeemed for the only time.
Redeem(s, t) ==
    /\ state[s] = "open" /\ Unseen(t)
    /\ head[s] \notin redeemed
    /\ head' = [head EXCEPT ![s] = t]
    /\ redeemed' = redeemed \cup {head[s]}
    /\ UNCHANGED state

\* A logout.
Revoke(s) ==
    /\ state[s] = "open"
    /\ state' = [state EXCEPT ![s] = "revoked"]
    /\ UNCHANGED <<head, redeemed>>

Next == \E s \in Session : \/ Revoke(s)
                           \/ \E t \in Token : Open(s, t) \/ Redeem(s, t)

Spec == Init /\ [][Next]_ledger
=============================================================================

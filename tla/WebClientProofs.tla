--------------------------- MODULE WebClientProofs ----------------------------
(***************************************************************************)
(* What the web client guarantees: its session for every number of         *)
(* concurrent calls, of logins and of token expiries, its chat for every   *)
(* number of conversations, questions, changes of view and sign-outs. The  *)
(* two are specified apart, and so are their invariants.                   *)
(***************************************************************************)
EXTENDS WebSession, WebChat, FiniteSetTheorems, TLAPS

(***************************************************************************)
(* The session. What has to be known besides the tab's own tokens is how   *)
(* far the server is with the refresh that is in flight: whether it still  *)
(* accepts the token sent, has replaced it, or has refused it because the  *)
(* session is closed.                                                      *)
(***************************************************************************)

\* Type correctness, as far as the properties depend on it: what a call has sent,
\* and which view is shown, they do not.
SessionTypeOK ==
    /\ held \in Token \cup {Nil} /\ logins \in 0..MaxLogins
    /\ flight \in [Call -> Flight \cup {Nil}] /\ sharing \in Call \cup {Nil}
    /\ head \in [Login -> Nat] /\ alive \subseteq Login

\* A refresh in flight is the one the calls share: there is never a second.
OneFlight == \A c \in Call : flight[c] # Nil => sharing = c

\* A session that is not opened yet is not alive, and starts at its first pair; no
\* token names one.
Opened ==
    /\ held # Nil => held.login <= logins
    /\ \A c \in Call : flight[c] # Nil => flight[c].tok.login <= logins
    /\ \A s \in Login : s > logins => head[s] = 0 /\ s \notin alive

\* How far the server is with the refresh in flight, unless a response was lost.
Answered ==
    \A c \in Call : flight[c] # Nil /\ flight[c].tok.login \notin lost =>
        /\ flight[c].got = "ok" => head[flight[c].tok.login] = flight[c].tok.n + 1
        /\ flight[c].got # "ok" => head[flight[c].tok.login] = flight[c].tok.n
        /\ flight[c].got = "no" => flight[c].tok.login \notin alive

\* The refresh in flight is not for the login whose pair the tab holds.
Unshared == \A c \in Call : flight[c] # Nil => flight[c].tok.login # held.login

\* The tab's pair is the one its session accepts, or the one the refresh in flight
\* has sent, unless a response was lost.
Fresh ==
    held # Nil /\ held.login \notin lost =>
        \/ head[held.login] = held.n /\ Unshared
        \/ \E c \in Call : flight[c] # Nil /\ flight[c].tok = held

Inv == SessionTypeOK /\ OneFlight /\ Opened /\ Answered /\ Fresh

-----------------------------------------------------------------------------
LEMMA TokenShape ==
    /\ \A t \in Token : t # Nil /\ t.login \in Login /\ t.n \in Nat
    /\ \A f \in Flight : f # Nil /\ f.tok \in Token /\ f.got \in {"none", "ok", "no"}
    /\ \A l \in Login, n \in Nat : [login |-> l, n |-> n] \in Token
    /\ \A t \in Token : /\ NextPair(t) \in Token /\ NextPair(t).login = t.login
                        /\ NextPair(t).n = t.n + 1
    /\ \A f \in Flight, g \in {"none", "ok", "no"} :
         /\ [f EXCEPT !.got = g] \in Flight /\ [f EXCEPT !.got = g].got = g
         /\ [f EXCEPT !.got = g].tok = f.tok
    /\ \A t \in Token : [tok |-> t, got |-> "none"] \in Flight
  BY WebAssumption DEF Token, Flight, NextPair

\* While a refresh is in flight, it is the only one.
LEMMA Alone ==
    ASSUME Inv, NEW c \in Call, flight[c] # Nil
    PROVE  flight[c] \in Flight /\ \A d \in Call \ {c} : flight[d] = Nil
  BY DEF Inv, SessionTypeOK, OneFlight

\* Steps that leave the refresh, the server's tokens and the sessions alone, and keep
\* the tab's pair or drop it.
LEMMA Quiet ==
    ASSUME Inv, held' \in {held, Nil}, alive' \subseteq alive,
           UNCHANGED <<flight, sharing, logins, head, lost>>
    PROVE  Inv'
<1>1. SessionTypeOK' /\ OneFlight' /\ Opened'
  BY DEF Inv, SessionTypeOK, OneFlight, Opened
<1>2. Answered'
  BY DEF Inv, Answered
<1>3. Fresh'
  BY DEF Inv, Fresh, Unshared
<1> QED
  BY <1>1, <1>2, <1>3 DEF Inv

LEMMA AuthenticateKeeps == ASSUME Inv, Authenticate PROVE Inv'
<1> USE DEF Authenticate
<1>1. logins + 1 \in Login /\ logins \in Nat
  BY WebAssumption DEF Inv, SessionTypeOK, Login
<1>2. held' \in Token /\ held'.login = logins + 1 /\ held'.n = 0
  BY <1>1, TokenShape
<1>3. SessionTypeOK' /\ OneFlight'
  BY <1>1, <1>2 DEF Inv, SessionTypeOK, OneFlight, Login
<1>4. Unshared' /\ head'[held'.login] = held'.n
  <2>1. \A c \in Call : flight[c] # Nil =>
          flight[c].tok.login <= logins /\ flight[c].tok.login \in Login
    BY TokenShape DEF Inv, SessionTypeOK, Opened
  <2> QED
    BY <1>1, <1>2, <2>1 DEF Inv, Opened, Unshared, Login
<1>5. Opened'
  <2>1. \A c \in Call : flight[c] # Nil =>
          flight[c].tok.login <= logins + 1
    BY <1>1, TokenShape DEF Inv, SessionTypeOK, Opened, Login
  <2> QED
    BY <1>1, <1>2, <2>1 DEF Inv, Opened, Login
<1>6. Answered'
  <2>1. \A c \in Call : flight[c] # Nil => flight[c].tok.login # logins + 1
    BY <1>2, <1>4 DEF Unshared
  <2> QED
    BY <2>1 DEF Inv, Answered
<1> QED
  BY <1>3, <1>4, <1>5, <1>6 DEF Inv, Fresh

\* A refresh is started with the pair the tab holds, and only when none is in flight.
LEMMA JoinKeeps ==
    ASSUME Inv, NEW c \in Call, held # Nil, Join(c),
           UNCHANGED <<held, logins, head, alive, lost>>
    PROVE  Inv'
<1>1. CASE sharing # Nil
  BY <1>1, Quiet DEF Join
<1>2. CASE sharing = Nil
  <2>1. /\ \A d \in Call : flight[d] = Nil
        /\ flight' = [flight EXCEPT ![c] = [tok |-> held, got |-> "none"]] /\ sharing' = c
    BY <1>2, WebAssumption DEF Inv, OneFlight, Join
  <2>2. held \in Token /\ held.login <= logins
    BY DEF Inv, SessionTypeOK, Opened
  <2>3. /\ flight'[c] = [tok |-> held, got |-> "none"] /\ flight'[c] \in Flight
        /\ \A d \in Call : flight'[d] # Nil => d = c
    BY <2>1, <2>2, TokenShape DEF Inv, SessionTypeOK
  <2>4. SessionTypeOK' /\ OneFlight' /\ Opened'
    BY <2>1, <2>2, <2>3 DEF Inv, SessionTypeOK, OneFlight, Opened
  <2>5. held.login \notin lost => head[held.login] = held.n
    BY <2>1 DEF Inv, Fresh, Unshared
  <2>6. Answered' /\ Fresh'
    BY <2>2, <2>3, <2>5, TokenShape DEF Answered, Fresh
  <2> QED
    BY <2>4, <2>6 DEF Inv
<1> QED
  BY <1>1, <1>2

\* A call that ends, or shows the application or fails for boot().
LEMMA EndKeeps == ASSUME Inv, NEW c \in Call, Served(c) \/ Broken(c) PROVE Inv'
<1>1. held' \in {held, Nil} /\ UNCHANGED <<flight, sharing, logins, head, alive, lost>>
  BY DEF Served, Broken, ShowApp, BootFailed, ClearSession, server
<1> QED
  BY <1>1, Quiet

LEMMA Handle401Keeps == ASSUME Inv, NEW c \in Call, Handle401(c) PROVE Inv'
<1>1. CASE call[c].retry /\ held # Nil
  BY <1>1, JoinKeeps DEF Handle401, server
<1>2. CASE ~(call[c].retry /\ held # Nil)
  BY <1>2, Quiet DEF Handle401, server
<1> QED
  BY <1>1, <1>2

\* The server answers: it has replaced the token, or its session is closed.
LEMMA RotateKeeps == ASSUME Inv, NEW c \in Call, Rotate(c) PROVE Inv'
<1> DEFINE t == flight[c].tok
<1>1. /\ flight[c] # Nil /\ flight[c].got = "none" /\ flight[c] \in Flight /\ t \in Token
      /\ t.login \in Login /\ t.n \in Nat /\ \A d \in Call \ {c} : flight[d] = Nil
  BY Alone, TokenShape DEF Rotate
<1>2. UNCHANGED <<held, sharing, logins, alive, lost>>
  BY DEF Rotate
<1>3. \E g \in {"ok", "no"} :
        /\ flight' = [flight EXCEPT ![c].got = g]
        /\ g = "ok" => head' = [head EXCEPT ![t.login] = @ + 1] /\ Accepts(t)
        /\ g = "no" => head' = head /\ ~Accepts(t)
  BY DEF Rotate
<1>4. PICK g \in {"ok", "no"} :
        /\ flight' = [flight EXCEPT ![c].got = g]
        /\ g = "ok" => head' = [head EXCEPT ![t.login] = @ + 1] /\ Accepts(t)
        /\ g = "no" => head' = head /\ ~Accepts(t)
  BY <1>3
<1>5. /\ flight'[c] = [flight[c] EXCEPT !.got = g] /\ flight'[c] \in Flight
      /\ flight'[c].tok = t /\ flight'[c].got = g /\ flight'[c] # Nil
      /\ flight' \in [Call -> Flight \cup {Nil}]
      /\ \A d \in Call \ {c} : flight'[d] = Nil
  <2>1. flight' = [flight EXCEPT ![c] = [flight[c] EXCEPT !.got = g]]
    BY <1>4
  <2>2. flight \in [Call -> Flight \cup {Nil}]
    BY DEF Inv, SessionTypeOK
  <2>3. /\ [flight[c] EXCEPT !.got = g] \in Flight /\ [flight[c] EXCEPT !.got = g] # Nil
        /\ [flight[c] EXCEPT !.got = g].tok = t /\ [flight[c] EXCEPT !.got = g].got = g
    <3>1. g \in {"none", "ok", "no"}
      OBVIOUS
    <3>2. \A f \in Flight, h \in {"none", "ok", "no"} :
            /\ [f EXCEPT !.got = h] \in Flight /\ [f EXCEPT !.got = h].got = h
            /\ [f EXCEPT !.got = h].tok = f.tok
      BY TokenShape
    <3>3. \A f \in Flight : f # Nil
      BY TokenShape
    <3> QED
      BY <1>1, <3>1, <3>2, <3>3
  <2> QED
    BY <1>1, <2>1, <2>2, <2>3
<1>6. /\ head' \in [Login -> Nat] /\ \A s \in Login \ {t.login} : head'[s] = head[s]
      /\ g = "ok" => head'[t.login] = head[t.login] + 1
      /\ g = "no" => head'[t.login] = head[t.login]
  BY <1>1, <1>4 DEF Inv, SessionTypeOK
<1>7. SessionTypeOK' /\ OneFlight'
  BY <1>1, <1>2, <1>5, <1>6 DEF Inv, SessionTypeOK, OneFlight
<1>8. Opened'
  <2>1. t.login <= logins
    BY <1>1 DEF Inv, Opened
  <2>2. logins \in Nat /\ t.login \in Nat
    BY <1>1, WebAssumption DEF Inv, SessionTypeOK, Login
  <2>3. \A d \in Call : flight'[d] # Nil => flight'[d].tok.login <= logins
    BY <1>5, <2>1
  <2>4. \A s \in Login : s > logins => s # t.login
    BY <2>1, <2>2 DEF Login
  <2> QED
    BY <1>2, <1>6, <2>3, <2>4 DEF Inv, Opened
<1>9. Answered'
  <2>1. t.login \notin lost => head[t.login] = t.n
    BY <1>1 DEF Inv, Answered
  <2> QED
    BY <1>1, <1>2, <1>4, <1>5, <1>6, <2>1 DEF Answered, Accepts
<1>10. Fresh'
  <2>1. held # Nil => held \in Token /\ held.login \in Login
    BY TokenShape DEF Inv, SessionTypeOK
  <2>2. CASE held # Nil /\ held.login \notin lost /\ head[held.login] = held.n /\ Unshared
    <3>1. held.login \in Login \ {t.login}
      BY <1>1, <2>1, <2>2 DEF Unshared
    <3>2. head'[held.login] = held.n
      BY <1>6, <2>2, <3>1
    <3>3. Unshared'
      BY <1>2, <1>5, <3>1 DEF Unshared
    <3> QED
      BY <1>2, <3>2, <3>3 DEF Fresh
  <2>3. CASE \E d \in Call : flight[d] # Nil /\ flight[d].tok = held
    BY <1>1, <1>2, <1>5, <2>3 DEF Fresh
  <2> QED
    BY <1>2, <2>2, <2>3 DEF Inv, Fresh
<1> QED
  BY <1>7, <1>8, <1>9, <1>10 DEF Inv

LEMMA LoseRefreshKeeps == ASSUME Inv, NEW c \in Call, LoseRefresh(c) PROVE Inv'
<1>1. /\ flight[c] # Nil /\ flight[c] \in Flight
      /\ \A d \in Call \ {c} : flight[d] = Nil
  BY Alone DEF LoseRefresh
<1>2. /\ flight' = [flight EXCEPT ![c].got = "no"]
      /\ lost' = lost \cup {flight[c].tok.login}
      /\ UNCHANGED <<held, sharing, logins, head, alive>>
  BY DEF LoseRefresh, server
<1>3. /\ flight'[c] \in Flight /\ flight'[c].tok = flight[c].tok /\ flight'[c] # Nil
      /\ flight' \in [Call -> Flight \cup {Nil}]
      /\ \A d \in Call \ {c} : flight'[d] = Nil
  BY <1>1, <1>2, TokenShape DEF Inv, SessionTypeOK
<1>4. SessionTypeOK' /\ OneFlight' /\ Opened'
  BY <1>1, <1>2, <1>3 DEF Inv, SessionTypeOK, OneFlight, Opened
<1>5. Answered' /\ Fresh'
  BY <1>1, <1>2, <1>3 DEF Inv, Answered, Fresh, Unshared
<1> QED
  BY <1>4, <1>5 DEF Inv

\* The refresh lands: the tab's pair is the one the server has just made.
LEMMA LandKeeps == ASSUME Inv, NEW c \in Call, Land(c) PROVE Inv'
<1>1. /\ flight[c] # Nil /\ flight[c] \in Flight /\ flight[c].tok \in Token
      /\ \A d \in Call \ {c} : flight[d] = Nil
  BY Alone, TokenShape DEF Land
<1>2. /\ flight' = [flight EXCEPT ![c] = Nil] /\ sharing' = Nil
      /\ UNCHANGED <<logins, head, alive, lost>>
      /\ \/ flight[c].got = "ok" /\ held' = NextPair(flight[c].tok)
         \/ held' = Nil
  BY DEF Land, ClearSession, server
<1>3. \A d \in Call : flight'[d] = Nil
  BY <1>1, <1>2 DEF Inv, SessionTypeOK
<1>4. SessionTypeOK'
  BY <1>1, <1>2, TokenShape DEF Inv, SessionTypeOK
<1>5. OneFlight' /\ Answered'
  BY <1>3 DEF OneFlight, Answered
<1>6. Opened'
  BY <1>1, <1>2, <1>3, TokenShape DEF Inv, Opened
<1>7. Fresh'
  BY <1>1, <1>2, <1>3, TokenShape DEF Inv, Answered, Fresh, Unshared
<1> QED
  BY <1>4, <1>5, <1>6, <1>7 DEF Inv

\* A reload forgets the refresh in flight: its session is one whose newest token may
\* never have arrived.
LEMMA ReloadKeeps == ASSUME Inv, Reload PROVE Inv'
<1> DEFINE owed == {flight[c].tok.login : c \in {d \in Call : flight[d] # Nil}}
           sent == {flight[c].tok : c \in {d \in Call : flight[d] # Nil /\ flight[d].got = "none"}}
           rotated == {t.login : t \in {u \in sent : Accepts(u)}}
<1>1. /\ flight' = [c \in Call |-> Nil] /\ sharing' = Nil
      /\ lost' = lost \cup owed /\ UNCHANGED <<held, logins, alive>>
  BY DEF Reload
<1>2. PICK arrived \in SUBSET rotated :
        head' = [s \in Login |-> IF s \in arrived THEN head[s] + 1 ELSE head[s]]
  BY Zenon DEF Reload
<1>3. rotated \subseteq owed
  OBVIOUS
<1>4. /\ head' \in [Login -> Nat]
      /\ \A s \in Login : s \notin owed => head'[s] = head[s]
  BY <1>2, <1>3 DEF Inv, SessionTypeOK
<1>5. \A s \in owed : s <= logins
  BY DEF Inv, Opened
<1>6. logins \in Nat
  BY WebAssumption DEF Inv, SessionTypeOK
<1> HIDE DEF owed, rotated
<1>7. SessionTypeOK' /\ OneFlight' /\ Answered'
  BY <1>1, <1>4 DEF Inv, SessionTypeOK, OneFlight, Answered
<1>8. Opened'
  BY <1>1, <1>4, <1>5, <1>6 DEF Inv, Opened, Login
<1>9. Fresh'
  <2>1. held # Nil => held.login \in Login
    BY TokenShape DEF Inv, SessionTypeOK
  <2>2. held # Nil /\ held.login \notin lost \cup owed => head[held.login] = held.n
    <3>1. \A c \in Call : flight[c] # Nil => flight[c].tok.login \in owed
      BY DEF owed
    <3> QED
      BY <3>1 DEF Inv, Fresh, Unshared
  <2> QED
    BY <1>1, <1>4, <2>1, <2>2 DEF Fresh, Unshared
<1> QED
  BY <1>7, <1>8, <1>9 DEF Inv

LEMMA Initially == SessionInit => Inv
<1> SUFFICES ASSUME SessionInit PROVE Inv
  OBVIOUS
<1>1. SessionTypeOK
  BY WebAssumption DEF SessionInit, SessionTypeOK, Login
<1> QED
  BY <1>1 DEF SessionInit, Inv, OneFlight, Opened, Answered, Fresh

LEMMA Inductive == ASSUME Inv, [SessionNext]_sessionVars PROVE Inv'
<1> USE DEF server, client
<1>1. ASSUME NEW c \in Call, Served(c) \/ Broken(c) PROVE Inv'
  BY <1>1, EndKeeps
<1>2. ASSUME NEW c \in Call, Denied(c) PROVE Inv'
  BY <1>2, Quiet DEF Denied
<1>3. ASSUME NEW c \in Call, Fetch(c) PROVE Inv'
  BY <1>3, Quiet DEF Fetch
<1>4. ASSUME NEW c \in Call, Handle401(c) PROVE Inv'
  BY <1>4, Handle401Keeps
<1>5. CASE LogoutAnswered
  <2>1. alive' \subseteq alive
    BY <1>5 DEF LogoutAnswered
  <2> QED
    BY <1>5, <2>1, Quiet DEF LogoutAnswered
<1>6. CASE LogoutStart
  BY <1>6, Quiet DEF LogoutStart
<1>7. CASE LogoutEnd
  BY <1>7, Quiet DEF LogoutEnd, ClearSession
<1>8. CASE Expire
  BY <1>8, Quiet DEF Expire
<1>9. CASE Close
  <2>1. alive' \subseteq alive
    BY <1>9 DEF Close
  <2> QED
    BY <1>9, <2>1, Quiet DEF Close
<1>10. CASE UNCHANGED sessionVars
  BY <1>10, Quiet DEF sessionVars
<1> QED
  BY <1>1, <1>2, <1>3, <1>4, <1>5, <1>6, <1>7, <1>8, <1>9, <1>10, AuthenticateKeeps,
     RotateKeeps, LoseRefreshKeeps, LandKeeps, ReloadKeeps
     DEF SessionNext

\* The refresh in flight is the one that all calls share, and the tab, the refresh and
\* the server agree on how far each session is (app.js:59-80).
THEOREM SharedRefresh == SessionSpec => []Inv
<1>1. SessionInit => Inv
  BY Initially
<1>2. Inv /\ [SessionNext]_sessionVars => Inv'
  BY Inductive
<1> QED
  BY <1>1, <1>2, PTL DEF SessionSpec

\* Once a refresh has landed the tab holds the token its session accepts, unless a
\* response was lost (app.js:94-102, setTokens).
THEOREM CurrentToken == SessionSpec => []HoldsTheHead
<1>1. Inv => HoldsTheHead
  BY DEF Inv, Fresh, HoldsTheHead
<1> QED
  BY <1>1, SharedRefresh, PTL

-----------------------------------------------------------------------------
\* What SignedOutForAReason says of a step.
Reason ==
    \/ logout.at = "answered" \/ \E c \in Call : /\ call[c].boot /\ ~call'[c].boot
                       /\ call[c].pc \in {"sent", "failing"}
    \/ held.login \in lost \/ held.login \notin alive
    \/ \E c \in Call : /\ flight[c] # Nil /\ flight'[c] = Nil
                       /\ flight[c].tok.login # held.login

LEMMA BootReason ==
    ASSUME NEW c \in Call, Broken(c), held # Nil, held' = Nil
    PROVE  Reason
<1>1. call[c].boot /\ BootFailed(c) /\ call[c].pc \in {"sent", "failing"}
  BY DEF Broken
<1>2. call'[c] = NoCall
  BY <1>1 DEF BootFailed
<1> QED
  BY <1>1, <1>2 DEF Reason, NoCall

\* A refresh is refused when it was for another login, when its session is closed, or
\* when a response was lost: never because its token had been spent by the tab itself.
LEMMA LandReason ==
    ASSUME Inv, NEW c \in Call, Land(c), held # Nil, held' = Nil
    PROVE  Reason
<1>1. /\ flight[c] # Nil /\ flight[c] \in Flight /\ flight[c].tok \in Token
  BY Alone, TokenShape DEF Land
<1>2. flight'[c] = Nil
  BY DEF Land, Inv, SessionTypeOK
<1>3. flight[c].got = "no"
  BY <1>1, TokenShape DEF Land
<1>4. CASE flight[c].tok.login # held.login
  BY <1>1, <1>2, <1>4 DEF Reason
<1>5. CASE flight[c].tok.login = held.login
  BY <1>1, <1>3, <1>5 DEF Reason, Inv, Answered
<1> QED
  BY <1>4, <1>5

LEMMA ReasonStep ==
    ASSUME Inv, [SessionNext]_sessionVars, held # Nil, held' = Nil
    PROVE  Reason
<1> USE DEF server, client
<1>1. ASSUME NEW c \in Call, Broken(c) PROVE Reason
  BY <1>1, BootReason
<1>4. ASSUME NEW c \in Call, Land(c) PROVE Reason
  BY <1>4, LandReason
<1>5. CASE LogoutEnd
  BY <1>5 DEF LogoutEnd, Reason
<1>6. CASE Authenticate
  <2>1. logins + 1 \in Login
    BY <1>6, WebAssumption DEF Authenticate, Inv, SessionTypeOK, Login
  <2> QED
    BY <1>6, <2>1, TokenShape DEF Authenticate
<1>7. \/ held' = held \/ LogoutEnd \/ Authenticate
      \/ \E c \in Call : Broken(c) \/ Land(c)
  BY DEF SessionNext, Served, ShowApp, Handle401, Denied, Fetch, Rotate, LoseRefresh, LogoutStart, LogoutAnswered,
         Reload, Expire, Close, sessionVars
<1> QED
  BY <1>1, <1>4, <1>5, <1>6, <1>7

\* Calls that find their token expired at the same time share one refresh: the tab
\* never signs itself out by presenting a token it has already spent (app.js:59-80).
THEOREM SignOutsHaveReasons == SessionSpec => SignedOutForAReason
<1>1. Inv /\ [SessionNext]_sessionVars =>
        [held # Nil /\ held' = Nil =>
         \/ logout.at = "answered" \/ \E c \in Call : /\ call[c].boot /\ ~call'[c].boot
                            /\ call[c].pc \in {"sent", "failing"}
         \/ held.login \in lost \/ held.login \notin alive
         \/ \E c \in Call : /\ flight[c] # Nil /\ flight'[c] = Nil
                            /\ flight[c].tok.login # held.login]_sessionVars
  BY ReasonStep DEF Reason
<1> QED
  BY <1>1, SharedRefresh, PTL DEF SessionSpec, SignedOutForAReason

(***************************************************************************)
(* The chat.                                                               *)
(***************************************************************************)

Waiting == {"posted", "reposted", "renewing"}
Active  == Waiting \cup {"streaming", "listing"}
Past    == {"over", "listed"}

History == [conv: Conv, view: 0..MaxViews]

TypeOK ==
    /\ sending \in BOOLEAN /\ signedIn \in BOOLEAN /\ loaded \in BOOLEAN
    /\ controller \in Id \cup {None} /\ conv \in Conv \cup {None} /\ page \in Conv \cup {None}
    /\ view \in 0..MaxViews /\ signOuts \in 0..MaxSignOuts
    /\ bubbles \subseteq Id
    /\ loads \subseteq History /\ removals \subseteq Conv
    /\ sends \in [Id -> Send] /\ work \in [Id -> Work]
    /\ saved \subseteq Conv /\ gone \subseteq Conv

\* Questions are numbered in the order they are sent.
Numbered == \A m, n \in Id : m < n /\ sends[n].at # "none" => sends[m].at # "none"

\* A send, the view and the sign-in it belongs to, and what the engine makes of it.
SendFits(n) ==
    LET s == sends[n] IN
    /\ s.view <= view /\ s.era <= signOuts
    /\ s.era < signOuts => s.view < view
    /\ s.late => s.at \in Past
    /\ s.told => s.at \notin Waiting
    /\ s.at = "none" => n \notin bubbles /\ ~s.told /\ work[n].at = "none"
    /\ work[n].at = "none" => work[n].conv = None /\ ~s.told
    /\ work[n].at # "none" => work[n].conv # None /\ s.asked \in {None, work[n].conv}
    /\ s.view = view /\ s.clean /\ s.at # "none" => loaded /\ n \in bubbles

\* The conversations there are: the old ones and one for each question.
IdsFit == saved \cup gone \subseteq Old \cup {work[n].conv : n \in Id}

\* A history that is awaited in the current view is the one of its conversation.
LoadFits(l) ==
    /\ l.view <= view
    /\ l.view = view => /\ ~loaded /\ conv = l.conv
                        /\ \A n \in Id : sends[n].at # "none" /\ sends[n].view = view
                                           => sends[n].asked = conv

ScreenFits ==
    loaded => /\ \A n \in bubbles : sends[n].view = view
              /\ page # None => /\ page = conv
                                /\ \A n \in Id : sends[n].at # "none" /\ sends[n].view = view
                                                   => sends[n].asked = conv

\* Without interference one send at most is in progress, and the composer is its own.
OneSend ==
    Interfered \/ \A n \in Id : sends[n].at \in Active =>
                    IF sends[n].era = signOuts THEN controller = n /\ sending
                    ELSE sends[n].stopped

\* Without interference a question still asks for what the tab shows.
AskFits ==
    Interfered \/ /\ \A n \in Id : sends[n].at \in Waiting /\ sends[n].view = view
                                    => sends[n].asked = conv
                  /\ loaded => \A n \in bubbles : sends[n].told => work[n].conv = conv

IInv == /\ TypeOK /\ Numbered /\ IdsFit /\ ScreenFits /\ OneSend /\ AskFits
        /\ \A n \in Id : SendFits(n)
        /\ \A l \in loads : LoadFits(l)

-----------------------------------------------------------------------------
(* Sends *)

\* A send may end, be stopped or move on, and keeps what it was sent with.
Steady ==
    /\ sends' \in [Id -> Send]
    /\ \A n \in Id :
         /\ sends'[n].view = sends[n].view /\ sends'[n].asked = sends[n].asked
         /\ sends'[n].told = sends[n].told /\ sends'[n].clean = sends[n].clean
         /\ sends'[n].era = sends[n].era
         /\ sends[n].at = "none" <=> sends'[n].at = "none"
         /\ sends'[n].at \in Waiting => sends[n].at \in Waiting
         /\ sends'[n].late => sends'[n].at \in Past
    /\ Interfered => Interfered'

LEMMA Constants ==
    /\ MaxSends \in Nat /\ MaxViews \in Nat /\ MaxSignOuts \in Nat
    /\ None \notin Conv /\ None \notin Id /\ Id \subseteq Nat
    /\ IsFiniteSet(Id) /\ Cardinality(Id) = MaxSends
<1>1. MaxSends \in Nat /\ MaxViews \in Nat /\ MaxSignOuts \in Nat
      /\ None \notin Conv /\ None \notin Id /\ Id \subseteq Nat
  BY ChatAssumption DEF Id
<1>2. IsFiniteSet(1..MaxSends) /\ Cardinality(1..MaxSends) = MaxSends
  BY <1>1, FS_Interval
<1> QED
  BY <1>1, <1>2 DEF Id

\* One send changes in its stage, in being stopped or in being late.
LEMMA Moved ==
    ASSUME IInv, NEW n \in Id, NEW at \in {"none"} \cup Past \cup Active,
           NEW stopped \in BOOLEAN, NEW late \in BOOLEAN,
           at = "none" <=> sends[n].at = "none", at \in Waiting => sends[n].at \in Waiting,
           late => at \in Past, sends[n].late => late,
           sends' = [sends EXCEPT ![n] = [sends[n] EXCEPT !.at = at, !.stopped = stopped,
                                                          !.late = late]]
    PROVE  /\ Steady
           /\ sends'[n].at = at /\ sends'[n].stopped = stopped /\ sends'[n].late = late
           /\ \A m \in Id : m # n => sends'[m] = sends[m]
<1> DEFINE s == [sends[n] EXCEPT !.at = at, !.stopped = stopped, !.late = late]
<1>1. sends \in [Id -> Send]
  BY DEF IInv, TypeOK
<1>2. at \in {"none", "listing", "listed", "over"} \cup Live
  BY DEF Active, Past, Waiting, Live, Posted
<1>3. /\ s \in Send
      /\ s.at = at /\ s.stopped = stopped /\ s.late = late
      /\ s.view = sends[n].view /\ s.asked = sends[n].asked /\ s.told = sends[n].told
      /\ s.clean = sends[n].clean /\ s.era = sends[n].era
  <2>1. sends[n] \in Send
    BY <1>1
  <2> QED
    BY <1>2, <2>1 DEF Send
<1> HIDE DEF s
<1>4. sends' = [sends EXCEPT ![n] = s]
  BY DEF s
<1>5. /\ sends' \in [Id -> Send] /\ sends'[n] = s
      /\ \A m \in Id : m # n => sends'[m] = sends[m]
  BY <1>1, <1>3, <1>4
<1>6. \A m \in Id : sends[m].late => sends[m].at \in Past
  BY DEF IInv, SendFits
<1>7. Interfered => Interfered'
  <2> SUFFICES ASSUME NEW m \in Id, sends[m].late PROVE sends'[m].late
    BY DEF Interfered
  <2> QED
    BY <1>3, <1>5
<1>8. ASSUME NEW m \in Id
      PROVE  /\ sends'[m].view = sends[m].view /\ sends'[m].asked = sends[m].asked
             /\ sends'[m].told = sends[m].told /\ sends'[m].clean = sends[m].clean
             /\ sends'[m].era = sends[m].era
             /\ sends[m].at = "none" <=> sends'[m].at = "none"
             /\ sends'[m].at \in Waiting => sends[m].at \in Waiting
             /\ sends'[m].late => sends'[m].at \in Past
  <2>1. CASE m = n
    BY <1>3, <1>5, <2>1
  <2>2. CASE m # n
    BY <1>5, <1>6, <2>2
  <2> QED
    BY <2>1, <2>2
<1> QED
  BY <1>3, <1>5, <1>7, <1>8 DEF Steady

LEMMA Unmoved == ASSUME IInv, UNCHANGED sends PROVE Steady
<1>1. sends \in [Id -> Send] /\ \A n \in Id : sends[n].late => sends[n].at \in Past
  BY DEF IInv, TypeOK, SendFits
<1>2. Interfered => Interfered'
  BY DEF Interfered
<1> QED
  BY <1>1, <1>2 DEF Steady

LEMMA Ended ==
    ASSUME IInv, NEW n \in Id, NEW how \in Past, sends[n].at \in Active,
           sends' = [sends EXCEPT ![n] = Closed(n, how)]
    PROVE  /\ Steady
           /\ sends'[n].at = how /\ sends'[n].late = (sends[n].era < signOuts)
           /\ \A m \in Id : m # n => sends'[m] = sends[m]
<1> DEFINE late == sends[n].era < signOuts
<1>1. sends[n] \in Send /\ sends \in [Id -> Send]
  BY DEF IInv, TypeOK
<1>2. sends' = [sends EXCEPT ![n] = [sends[n] EXCEPT !.at = how,
                          !.stopped = sends[n].stopped, !.late = late]]
  <2>1. [sends[n] EXCEPT !.at = how, !.stopped = sends[n].stopped, !.late = late]
          = [sends[n] EXCEPT !.at = how, !.late = late]
    BY <1>1 DEF Send
  <2> QED
    BY <2>1 DEF Closed
<1>3. /\ sends[n].stopped \in BOOLEAN /\ late \in BOOLEAN /\ how \notin Waiting /\ how # "none"
      /\ sends[n].at # "none" /\ sends[n].at \notin Past /\ ~sends[n].late
  BY <1>1 DEF Send, Active, Past, Waiting, IInv, SendFits
<1> HIDE DEF late
<1>4. /\ Steady
      /\ sends'[n].at = how /\ sends'[n].late = late
      /\ \A m \in Id : m # n => sends'[m] = sends[m]
  BY <1>2, <1>3, Moved
<1> QED
  BY <1>4 DEF late

\* Whoever ends frees the composer: its own, or that of a later sign-in.
LEMMA EndedOwner ==
    ASSUME IInv, NEW n \in Id, NEW how \in Past, sends[n].at \in Active,
           sends' = [sends EXCEPT ![n] = Closed(n, how)], UNCHANGED signOuts
    PROVE  OneSend'
<1>1. /\ Steady
      /\ sends'[n].at = how /\ sends'[n].late = (sends[n].era < signOuts)
      /\ \A m \in Id : m # n => sends'[m] = sends[m]
  BY Ended
<1>2. sends[n].era \in Nat /\ signOuts \in Nat /\ sends[n].era <= signOuts
  <2>1. sends[n] \in Send /\ signOuts \in 0..MaxSignOuts
    BY DEF IInv, TypeOK
  <2> QED
    BY <2>1, Constants DEF Send, IInv, SendFits
<1>3. CASE sends[n].era < signOuts
  BY <1>1, <1>3 DEF OneSend, Interfered
<1>4. CASE Interfered
  BY <1>1, <1>4 DEF OneSend, Steady
<1>5. CASE sends[n].era = signOuts /\ ~Interfered
  <2>1. /\ controller = n
        /\ \A m \in Id : sends[m].at \in Active =>
              IF sends[m].era = signOuts THEN controller = m /\ sending ELSE sends[m].stopped
    BY <1>5 DEF IInv, OneSend
  <2>2. ASSUME NEW m \in Id, sends'[m].at \in Active
        PROVE  sends'[m].era # signOuts /\ sends'[m].stopped
    <3>1. m # n
      BY <1>1, <2>2 DEF Active, Past, Waiting
    <3> QED
      BY <1>1, <2>1, <2>2, <3>1
  <2> QED
    BY <2>2 DEF OneSend
<1> QED
  BY <1>2, <1>3, <1>4, <1>5

\* The controller's send is over, or learns later that it is stopped.
LEMMA Aborted ==
    ASSUME IInv, Abort, UNCHANGED signOuts
    PROVE  /\ Steady /\ OneSend'
           /\ sending' \in BOOLEAN /\ controller' \in Id \cup {None}
<1>1. sending \in BOOLEAN /\ controller \in Id \cup {None}
  BY DEF IInv, TypeOK
<1>2. CASE controller = None
  <2>1. UNCHANGED <<sends, sending, controller>>
    BY <1>2 DEF Abort
  <2>2. OneSend'
    BY <2>1 DEF IInv, OneSend, Interfered
  <2> QED
    BY <1>1, <2>1, <2>2, Unmoved
<1>3. CASE controller # None /\ sends[controller].at \in Posted \cup {"streaming"}
  <2>1. /\ controller \in Id /\ Release(controller)
        /\ sends' = [sends EXCEPT ![controller] = Closed(controller, "over")]
    BY <1>1, <1>3 DEF Abort, Over
  <2>2. sends[controller].at \in Active /\ "over" \in Past
    BY <1>3 DEF Active, Past, Waiting, Posted
  <2> QED
    BY <2>1, <2>2, Ended, EndedOwner DEF Release
<1>4. CASE controller # None /\ sends[controller].at \notin Posted \cup {"streaming"}
  <2> DEFINE n == controller
  <2>1. /\ n \in Id /\ UNCHANGED <<sending, controller>>
        /\ sends' = [sends EXCEPT ![n].stopped = TRUE]
    BY <1>1, <1>4 DEF Abort
  <2>2. sends[n] \in Send /\ sends \in [Id -> Send]
    BY <2>1 DEF IInv, TypeOK
  <2>3. sends' = [sends EXCEPT ![n] = [sends[n] EXCEPT !.at = sends[n].at,
                            !.stopped = TRUE, !.late = sends[n].late]]
    <3>1. [sends[n] EXCEPT !.at = sends[n].at, !.stopped = TRUE, !.late = sends[n].late]
            = [sends[n] EXCEPT !.stopped = TRUE]
      BY <2>2 DEF Send
    <3> QED
      BY <2>1, <3>1
  <2>4. /\ sends[n].at \in {"none"} \cup Past \cup Active
        /\ sends[n].late \in BOOLEAN /\ TRUE \in BOOLEAN
        /\ sends[n].late => sends[n].at \in Past
    BY <2>1, <2>2 DEF Send, Live, Posted, Active, Past, Waiting, IInv, SendFits
  <2> HIDE DEF n
  <2>5. /\ Steady
        /\ sends'[n].at = sends[n].at /\ sends'[n].stopped = TRUE
        /\ \A m \in Id : m # n => sends'[m] = sends[m]
      BY <2>1, <2>3, <2>4, Moved, ZenonT(40)
  <2>6. OneSend'
    <3>1. CASE Interfered
      BY <2>5, <3>1 DEF OneSend, Steady
    <3>2. CASE ~Interfered
      <4>1. ASSUME NEW m \in Id, sends'[m].at \in Active
            PROVE  IF sends'[m].era = signOuts' THEN controller' = m /\ sending'
                   ELSE sends'[m].stopped
        <5>1. /\ sends[m].at \in Active /\ sends'[m].era = sends[m].era
              /\ sends[m].stopped => sends'[m].stopped
          BY <2>5, <4>1 DEF Steady
        <5>2. IF sends[m].era = signOuts THEN controller = m /\ sending ELSE sends[m].stopped
          BY <3>2, <5>1 DEF IInv, OneSend
        <5> QED
          BY <2>1, <5>1, <5>2
      <4> QED
        BY <4>1 DEF OneSend
    <3> QED
      BY <3>1, <3>2
  <2> QED
    BY <1>1, <2>1, <2>5, <2>6
<1> QED
  BY <1>2, <1>3, <1>4

-----------------------------------------------------------------------------
(* Steps *)

\* Sends move while the tab shows what it showed.
LEMMA QuietFits ==
    ASSUME IInv, Steady, OneSend', sending' \in BOOLEAN, signedIn' \in BOOLEAN,
           controller' \in Id \cup {None}, removals' \subseteq Conv,
           UNCHANGED <<view, conv, screen, loads, engine, signOuts>>
    PROVE  IInv'
<1>1. UNCHANGED <<view, conv, page, bubbles, loaded, loads, saved, gone, work, signOuts>>
  BY DEF screen, engine
<1>2. TypeOK'
  BY <1>1 DEF IInv, TypeOK, Steady
<1>3. Numbered'
  BY DEF IInv, Numbered, Steady
<1>4. IdsFit'
  BY <1>1 DEF IInv, IdsFit
<1>5. ScreenFits'
  BY <1>1 DEF IInv, TypeOK, ScreenFits, Steady
<1>6. AskFits'
  <2>1. CASE Interfered
    BY <2>1 DEF AskFits, Steady
  <2>2. CASE ~Interfered
    <3>1. \A n \in Id : sends'[n].at \in Waiting /\ sends'[n].view = view
                          => sends'[n].asked = conv
      BY <2>2 DEF IInv, AskFits, Steady
    <3>2. loaded => \A n \in bubbles : sends'[n].told => work[n].conv = conv
      BY <2>2 DEF IInv, TypeOK, AskFits, Steady
    <3> QED
      BY <1>1, <3>1, <3>2 DEF AskFits
  <2> QED
    BY <2>1, <2>2
<1>7. ASSUME NEW n \in Id PROVE SendFits(n)'
  BY <1>1 DEF IInv, SendFits, Steady
<1>8. ASSUME NEW l \in loads PROVE LoadFits(l)'
  BY <1>1 DEF IInv, LoadFits, Steady
<1> QED
  BY <1>1, <1>2, <1>3, <1>4, <1>5, <1>6, <1>7, <1>8 DEF IInv

\* What a new view leaves of the invariant, apart from what it shows.
LEMMA NewViewFits ==
    ASSUME IInv, Steady, OneSend', sending' \in BOOLEAN, signedIn' \in BOOLEAN,
           controller' \in Id \cup {None}, removals' \subseteq Conv,
           NewView, signOuts' \in 0..MaxSignOuts, signOuts <= signOuts',
           conv' \in Conv \cup {None}, page' \in Conv \cup {None}, bubbles' \subseteq bubbles,
           loaded' \in BOOLEAN, loaded' => page' = None /\ bubbles' = {},
           UNCHANGED engine,
           loads' \subseteq History,
           \A l \in loads' : \/ l \in loads
                             \/ ~loaded' /\ l.view = view' /\ conv' = l.conv
    PROVE  IInv'
<1>1. UNCHANGED <<saved, gone, work>>
  BY DEF engine
<1>2. /\ view \in Nat /\ view' \in 0..MaxViews /\ view' = view + 1
      /\ signOuts \in Nat /\ signOuts' \in Nat
      /\ \A n \in Id : sends[n].view \in Nat /\ sends[n].era \in Nat
  <2>1. \A n \in Id : sends[n] \in Send
    BY DEF IInv, TypeOK
  <2>2. \A n \in Id : sends[n].view \in Nat /\ sends[n].era \in Nat
    BY <2>1, Constants DEF Send
  <2> QED
    BY <2>2, Constants DEF IInv, TypeOK, NewView
<1>3. \A n \in Id : sends[n].view < view' /\ sends'[n].view < view'
  BY <1>2 DEF IInv, SendFits, Steady
<1>4. TypeOK'
  BY <1>1, <1>2 DEF IInv, TypeOK, Steady
<1>5. Numbered'
  BY DEF IInv, Numbered, Steady
<1>6. IdsFit'
  BY <1>1 DEF IInv, IdsFit
<1>7. ScreenFits'
  BY DEF ScreenFits
<1>8. AskFits'
  <2>1. \A n \in Id : ~(sends'[n].view = view')
    BY <1>2, <1>3 DEF Steady
  <2> QED
    BY <2>1 DEF AskFits
<1>9. ASSUME NEW n \in Id PROVE SendFits(n)'
  <2>1. /\ sends[n].view <= view /\ sends[n].era <= signOuts
        /\ sends'[n].view = sends[n].view /\ sends'[n].era = sends[n].era
        /\ sends'[n].told = sends[n].told /\ sends'[n].asked = sends[n].asked
        /\ (sends'[n].at = "none" <=> sends[n].at = "none")
        /\ sends'[n].late => sends'[n].at \in Past
        /\ sends'[n].at \in Waiting => sends[n].at \in Waiting
    BY DEF IInv, SendFits, Steady
  <2>2. sends'[n].view <= view' /\ sends'[n].era <= signOuts' /\ sends'[n].view < view'
    BY <1>2, <1>3, <2>1
  <2>3. sends'[n].view # view'
    BY <1>2, <2>1, <2>2
  <2> QED
    BY <1>1, <2>1, <2>2, <2>3 DEF IInv, SendFits
<1>10. ASSUME NEW l \in loads' PROVE LoadFits(l)'
  <2>1. CASE l \in loads
    <3>1. l.view <= view /\ l.view \in Nat
      BY <2>1, <1>2, Constants DEF IInv, TypeOK, History, LoadFits
    <3>2. l.view <= view' /\ l.view # view'
      BY <1>2, <3>1
    <3> QED
      BY <3>2 DEF LoadFits
  <2>2. CASE ~loaded' /\ l.view = view' /\ conv' = l.conv
    <3>1. l.view <= view'
      BY <1>2, <2>2
    <3>2. \A n \in Id : ~(sends'[n].view = view')
      BY <1>2, <1>3 DEF Steady
    <3> QED
      BY <2>2, <3>1, <3>2 DEF LoadFits
  <2> QED
    BY <2>1, <2>2
<1> QED
  BY <1>4, <1>5, <1>6, <1>7, <1>8, <1>9, <1>10 DEF IInv

\* A view that shows nothing yet.
LEMMA EmptyFits ==
    ASSUME IInv, Steady, OneSend', sending' \in BOOLEAN, signedIn' \in BOOLEAN,
           controller' \in Id \cup {None}, removals' \subseteq Conv,
           NewView, Empty, signOuts' \in 0..MaxSignOuts, signOuts <= signOuts',
           UNCHANGED <<loads, engine>>
    PROVE  IInv'
<1>1. /\ conv' \in Conv \cup {None} /\ page' \in Conv \cup {None} /\ bubbles' \subseteq bubbles
      /\ loaded' \in BOOLEAN /\ page' = None /\ bubbles' = {}
      /\ loads' \subseteq History /\ \A l \in loads' : l \in loads
  BY DEF Empty, IInv, TypeOK
<1>2. /\ UNCHANGED engine
      /\ \A l \in loads' : \/ l \in loads
                           \/ ~loaded' /\ l.view = view' /\ conv' = l.conv
  BY <1>1
<1>3. loaded' => page' = None /\ bubbles' = {}
  BY <1>1
<1> QED
  BY <1>1, <1>2, <1>3, NewViewFits

LEMMA InitFits == Init => IInv
<1> SUFFICES ASSUME Init PROVE IInv
  OBVIOUS
<1> USE DEF Init
<1>1. \A n \in Id : /\ sends[n] = NoSend
                    /\ work[n] = [at |-> "none", conv |-> None]
  OBVIOUS
<1>2. NoSend \in Send
  BY Constants DEF NoSend, Send
<1>3. TypeOK
  <2>1. /\ sends \in [Id -> Send] /\ work \in [Id -> Work]
        /\ signOuts \in 0..MaxSignOuts /\ view \in 0..MaxViews
    BY <1>2, Constants DEF Work
  <2>2. /\ sending \in BOOLEAN /\ signedIn \in BOOLEAN /\ loaded \in BOOLEAN
        /\ controller \in Id \cup {None} /\ conv \in Conv \cup {None}
        /\ page \in Conv \cup {None} /\ bubbles \subseteq Id
        /\ loads \subseteq History /\ removals \subseteq Conv
        /\ saved \subseteq Conv /\ gone \subseteq Conv
    BY ChatAssumption
  <2> QED
    BY <2>1, <2>2 DEF TypeOK
<1>4. Numbered /\ OneSend /\ AskFits /\ ScreenFits /\ IdsFit
  BY <1>1 DEF Numbered, OneSend, AskFits, ScreenFits, IdsFit, NoSend, Active, Waiting
<1>5. \A n \in Id : SendFits(n)
  BY <1>1 DEF NoSend, SendFits, Waiting
<1> QED
  BY <1>3, <1>4, <1>5 DEF IInv

\* The next number is free, and those before it are taken.
LEMMA NextNumber ==
    ASSUME IInv, NEW n \in Id, n = Cardinality({m \in Id : sends[m].at # "none"}) + 1
    PROVE  sends[n].at = "none" /\ \A m \in Id : m < n => sends[m].at # "none"
<1> DEFINE Begun == {m \in Id : sends[m].at # "none"}
<1>1. IsFiniteSet(Begun) /\ n \in Nat /\ n >= 1 /\ Id = 1..MaxSends /\ MaxSends \in Nat
  <2>1. Begun \subseteq Id
    OBVIOUS
  <2> QED
    BY <2>1, Constants, FS_Subset DEF Id
<1>2. Cardinality(Begun) = n - 1 /\ Cardinality(Begun) \in Nat
  BY <1>1, FS_CardinalityType
<1>3. \A k \in Nat : IsFiniteSet(1..k) /\ Cardinality(1..k) = k
  BY FS_Interval
<1>4. sends[n].at = "none"
  <2> SUFFICES ASSUME sends[n].at # "none" PROVE FALSE
    OBVIOUS
  <2>1. 1..n \subseteq Begun
    <3> SUFFICES ASSUME NEW k \in 1..n PROVE k \in Id /\ sends[k].at # "none"
      OBVIOUS
    <3>1. k \in Id /\ (k < n \/ k = n)
      BY <1>1
    <3> QED
      BY <3>1 DEF IInv, Numbered
  <2>2. Cardinality(1..n) <= Cardinality(Begun) /\ Cardinality(1..n) = n
    <3> HIDE DEF Begun
    <3> QED
      BY <1>1, <1>3, <2>1, FS_Subset
  <2> QED
    BY <1>1, <1>2, <2>2
<1>5. ASSUME NEW m \in Id, m < n PROVE sends[m].at # "none"
  <2> SUFFICES ASSUME sends[m].at = "none" PROVE FALSE
    OBVIOUS
  <2>1. m \in Nat /\ m - 1 \in Nat
    BY <1>1
  <2>2. Begun \subseteq 1..(m - 1)
    <3> SUFFICES ASSUME NEW k \in Id, sends[k].at # "none" PROVE k \in 1..(m - 1)
      OBVIOUS
    <3>1. ~(m < k) /\ m # k
      BY DEF IInv, Numbered
    <3> QED
      BY <1>1, <3>1
  <2>3. Cardinality(Begun) <= Cardinality(1..(m - 1)) /\ Cardinality(1..(m - 1)) = m - 1
    <3> HIDE DEF Begun
    <3> QED
      BY <1>3, <2>1, <2>2, FS_Subset
  <2> QED
    BY <1>1, <1>2, <1>5, <2>1, <2>3
<1> QED
  BY <1>4, <1>5

LEMMA SubmitFits == ASSUME IInv, NEW n \in Id, Submit(n) PROVE IInv'
<1> DEFINE s == [at |-> "posted", view |-> view, asked |-> conv, stopped |-> FALSE,
                 told |-> FALSE, clean |-> loaded, era |-> signOuts, late |-> FALSE]
<1>1. sends[n].at = "none" /\ \A m \in Id : m < n => sends[m].at # "none"
  BY NextNumber DEF Submit
<1>2. /\ UNCHANGED <<signedIn, view, conv, page, loaded, loads, removals, saved, gone, work,
                     signOuts>>
      /\ sending' = TRUE /\ controller' = n /\ bubbles' = bubbles \cup {n} /\ ~sending
  BY DEF Submit, Idle, engine
<1>3. /\ s \in Send
      /\ s.at = "posted" /\ s.view = view /\ s.asked = conv /\ s.clean = loaded
      /\ s.era = signOuts /\ ~s.told /\ ~s.late
  BY DEF Send, Live, Posted, IInv, TypeOK
<1>4. sends' = [sends EXCEPT ![n] = s] /\ sends \in [Id -> Send]
  BY DEF Submit, IInv, TypeOK
<1> HIDE DEF s
<1>5. /\ sends' \in [Id -> Send] /\ sends'[n] = s
      /\ \A m \in Id : m # n => sends'[m] = sends[m]
  BY <1>3, <1>4
<1>6. TypeOK'
  BY <1>2, <1>5 DEF IInv, TypeOK
<1>7. Numbered'
  BY <1>1, <1>3, <1>5 DEF IInv, Numbered
<1>8. IdsFit'
  BY <1>2 DEF IInv, IdsFit
<1>9. Interfered => Interfered'
  <2> SUFFICES ASSUME NEW m \in Id, sends[m].late PROVE sends'[m].late
    BY DEF Interfered
  <2>1. m # n
    BY <1>1 DEF IInv, SendFits, Past
  <2> QED
    BY <1>5, <2>1
<1>10. ScreenFits'
  <2> SUFFICES ASSUME loaded
               PROVE  /\ \A m \in bubbles' : sends'[m].view = view
                      /\ page # None =>
                           /\ page = conv
                           /\ \A m \in Id : sends'[m].at # "none" /\ sends'[m].view = view
                                              => sends'[m].asked = conv
    BY <1>2 DEF ScreenFits
  <2>1. \A m \in bubbles' : sends'[m].view = view
    BY <1>2, <1>3, <1>5 DEF IInv, TypeOK, ScreenFits
  <2> QED
    BY <1>3, <1>5, <2>1 DEF IInv, ScreenFits
<1>11. OneSend'
  <2>1. CASE Interfered
    BY <1>9, <2>1 DEF OneSend
  <2>2. CASE ~Interfered
    <3>1. \A m \in Id : sends[m].at \in Active => sends[m].era # signOuts /\ sends[m].stopped
      BY <1>2, <2>2 DEF IInv, OneSend
    <3>2. ASSUME NEW m \in Id, sends'[m].at \in Active
          PROVE  IF sends'[m].era = signOuts' THEN controller' = m /\ sending'
                 ELSE sends'[m].stopped
      BY <1>2, <1>3, <1>5, <3>1, <3>2
    <3> QED
      BY <3>2 DEF OneSend
  <2> QED
    BY <2>1, <2>2
<1>12. AskFits'
  <2>1. CASE Interfered
    BY <1>9, <2>1 DEF AskFits
  <2>2. CASE ~Interfered
    <3>1. \A m \in Id : sends'[m].at \in Waiting /\ sends'[m].view = view
                          => sends'[m].asked = conv
      BY <1>3, <1>5, <2>2 DEF IInv, AskFits
    <3>2. loaded => \A m \in bubbles' : sends'[m].told => work[m].conv = conv
      BY <1>2, <1>3, <1>5, <2>2 DEF IInv, TypeOK, AskFits
    <3> QED
      BY <1>2, <3>1, <3>2 DEF AskFits
  <2> QED
    BY <2>1, <2>2
<1>13. ASSUME NEW m \in Id PROVE SendFits(m)'
  <2>1. CASE m # n
    BY <1>2, <1>5, <2>1 DEF IInv, SendFits
  <2>2. CASE m = n
    <3>1. work[n].at = "none" /\ work[n].conv = None
      BY <1>1 DEF IInv, SendFits
    <3>2. s.view <= view /\ s.era <= signOuts /\ ~(s.era < signOuts)
      BY <1>3, Constants DEF IInv, TypeOK
    <3> QED
      BY <1>2, <1>3, <1>5, <2>2, <3>1, <3>2 DEF SendFits, Waiting
  <2> QED
    BY <2>1, <2>2
<1>14. ASSUME NEW l \in loads PROVE LoadFits(l)'
  BY <1>2, <1>3, <1>5 DEF IInv, LoadFits
<1> QED
  BY <1>2, <1>6, <1>7, <1>8, <1>10, <1>11, <1>12, <1>13, <1>14 DEF IInv

\* A question that is posted keeps its owner whatever becomes of it.
LEMMA SameOwner ==
    ASSUME IInv, Steady, UNCHANGED <<sending, controller, signOuts>>,
           \A n \in Id : /\ sends'[n].at \in Active => sends[n].at \in Active
                         /\ sends'[n].stopped = sends[n].stopped
    PROVE  OneSend'
<1>1. CASE Interfered
  BY <1>1 DEF OneSend, Steady
<1>2. CASE ~Interfered
  <2>1. ASSUME NEW n \in Id, sends'[n].at \in Active
        PROVE  IF sends'[n].era = signOuts' THEN controller' = n /\ sending' ELSE sends'[n].stopped
    <3>1. sends[n].at \in Active /\ sends'[n].era = sends[n].era
      BY <2>1 DEF Steady
    <3>2. IF sends[n].era = signOuts THEN controller = n /\ sending ELSE sends[n].stopped
      BY <1>2, <3>1 DEF IInv, OneSend
    <3> QED
      BY <3>1, <3>2
  <2> QED
    BY <2>1 DEF OneSend
<1> QED
  BY <1>1, <1>2

\* A send that only moves on.
LEMMA Advanced ==
    ASSUME IInv, NEW n \in Id, NEW at \in Active, sends[n].at \in Active,
           at \in Waiting => sends[n].at \in Waiting,
           sends' = [sends EXCEPT ![n].at = at], UNCHANGED <<sending, controller, signOuts>>
    PROVE  Steady /\ OneSend'
<1>1. sends[n] \in Send /\ sends \in [Id -> Send] /\ ~sends[n].late
  BY DEF IInv, TypeOK, SendFits, Past, Active, Waiting
<1>2. sends' = [sends EXCEPT ![n] = [sends[n] EXCEPT !.at = at,
                        !.stopped = sends[n].stopped, !.late = sends[n].late]]
  <2>1. [sends[n] EXCEPT !.at = at, !.stopped = sends[n].stopped, !.late = sends[n].late]
          = [sends[n] EXCEPT !.at = at]
    BY <1>1 DEF Send
  <2> QED
    BY <2>1
<1>3. sends[n].stopped \in BOOLEAN /\ sends[n].late \in BOOLEAN
      /\ at # "none" /\ sends[n].at # "none"
  BY <1>1 DEF Send, Active, Waiting
<1>4. /\ Steady /\ sends'[n].stopped = sends[n].stopped
      /\ \A m \in Id : m # n => sends'[m] = sends[m]
  BY <1>1, <1>2, <1>3, Moved
<1>5. \A m \in Id : /\ sends'[m].at \in Active => sends[m].at \in Active
                    /\ sends'[m].stopped = sends[m].stopped
  BY <1>4
<1> QED
  BY <1>4, <1>5, SameOwner

LEMMA SmallMoves ==
    ASSUME IInv, NEW n \in Id, Expired(n) \/ Renewed(n) \/ Done(n) \/ Listed(n) \/ Fail(n)
    PROVE  IInv'
<1>1. /\ sending \in BOOLEAN /\ signedIn' \in BOOLEAN /\ controller \in Id \cup {None}
      /\ removals' \subseteq Conv
      /\ UNCHANGED <<view, conv, screen, loads, engine, signOuts>>
  BY DEF IInv, TypeOK, Expired, Renewed, Done, Listed, Fail
<1>2. ASSUME NEW how \in Past, sends' = [sends EXCEPT ![n] = Closed(n, how)], Release(n),
             sends[n].at \in Active
      PROVE  IInv'
  <2>1. Steady /\ OneSend' /\ sending' \in BOOLEAN /\ controller' \in Id \cup {None}
    BY <1>1, <1>2, Ended, EndedOwner DEF Release
  <2> QED
    BY <1>1, <2>1, QuietFits
<1>3. ASSUME NEW at \in Active, sends[n].at \in Active, at \in Waiting => sends[n].at \in Waiting,
             sends' = [sends EXCEPT ![n].at = at], UNCHANGED <<sending, controller>>
      PROVE  IInv'
  <2>1. Steady /\ OneSend' /\ sending' \in BOOLEAN /\ controller' \in Id \cup {None}
    BY <1>1, <1>3, Advanced
  <2> QED
    BY <1>1, <2>1, QuietFits
<1>4. CASE Expired(n)
  BY <1>3, <1>4 DEF Expired, Active, Waiting
<1>5. CASE Renewed(n)
  BY <1>2, <1>3, <1>5 DEF Renewed, Over, Active, Past, Waiting
<1>6. CASE Done(n)
  BY <1>3, <1>6 DEF Done, Active, Waiting
<1>7. CASE Listed(n)
  BY <1>2, <1>7 DEF Listed, Active, Past
<1>8. CASE Fail(n)
  BY <1>2, <1>8 DEF Fail, Over, Active, Past, Waiting, Posted
<1> QED
  BY <1>4, <1>5, <1>6, <1>7, <1>8

LEMMA QuietSteps == ASSUME IInv, Stop \/ SignIn PROVE IInv'
<1>1. CASE Stop
  <2>1. /\ UNCHANGED <<signedIn, view, conv, screen, loads, removals, engine, signOuts>>
        /\ Abort
        /\ signedIn \in BOOLEAN /\ removals \subseteq Conv
    BY <1>1 DEF Stop, IInv, TypeOK
  <2>2. signedIn' \in BOOLEAN /\ removals' \subseteq Conv /\ UNCHANGED signOuts
        /\ UNCHANGED <<view, conv, screen, loads, engine, signOuts>>
    BY <2>1
  <2>3. Steady /\ OneSend' /\ sending' \in BOOLEAN /\ controller' \in Id \cup {None}
    BY <2>1, <2>2, Aborted
  <2> QED
    BY <2>2, <2>3, QuietFits
<1>2. CASE SignIn
  <2>1. /\ UNCHANGED <<sends, sending, controller, signOuts>>
        /\ UNCHANGED <<view, conv, screen, loads, engine, signOuts>>
        /\ sending' \in BOOLEAN /\ signedIn' \in BOOLEAN
        /\ controller' \in Id \cup {None} /\ removals' \subseteq Conv
    BY <1>2 DEF SignIn, IInv, TypeOK
  <2>2. Steady
    BY <2>1, Unmoved
  <2>3. \A n \in Id : /\ sends'[n].at \in Active => sends[n].at \in Active
                      /\ sends'[n].stopped = sends[n].stopped
    BY <2>1
  <2>4. OneSend'
    BY <2>1, <2>2, <2>3, SameOwner
  <2> QED
    BY <2>1, <2>2, <2>4, QuietFits
<1> QED
  BY <1>1, <1>2

\* New chat, and the deletion of the conversation that is shown.
LEMMA AbandonFits ==
    ASSUME IInv, Abort, NewView, Empty, UNCHANGED <<signedIn, loads, engine, signOuts>>,
           removals' \subseteq Conv
    PROVE  IInv'
<1>1. /\ UNCHANGED signOuts /\ UNCHANGED <<loads, engine>>
      /\ signedIn' \in BOOLEAN /\ signOuts' \in 0..MaxSignOuts /\ signOuts \in Nat
  BY Constants DEF IInv, TypeOK
<1>2. Steady /\ OneSend' /\ sending' \in BOOLEAN /\ controller' \in Id \cup {None}
  BY <1>1, Aborted
<1>3. signOuts <= signOuts'
  BY <1>1
<1> QED
  BY <1>1, <1>2, <1>3, EmptyFits

LEMMA NewChatFits == ASSUME IInv, NewChat PROVE IInv'
<1>1. /\ Abort /\ NewView /\ Empty /\ UNCHANGED <<signedIn, loads, engine, signOuts>>
      /\ removals' \subseteq Conv
  BY DEF NewChat, IInv, TypeOK
<1> QED
  BY <1>1, AbandonFits

LEMMA DeletedFits == ASSUME IInv, NEW c \in Conv, Deleted(c) PROVE IInv'
<1>1. removals' \subseteq Conv /\ UNCHANGED <<signedIn, loads, engine, signOuts>>
  BY DEF Deleted, IInv, TypeOK
<1>2. CASE conv = c
  BY <1>1, <1>2, AbandonFits DEF Deleted
<1>3. CASE conv # c
  <2>1. /\ UNCHANGED <<sends, sending, controller, signOuts>>
        /\ UNCHANGED <<view, conv, screen, loads, engine, signOuts>>
        /\ sending' \in BOOLEAN /\ signedIn' \in BOOLEAN
        /\ controller' \in Id \cup {None}
    BY <1>1, <1>3 DEF Deleted, IInv, TypeOK
  <2>2. Steady
    BY <2>1, Unmoved
  <2>3. \A n \in Id : /\ sends'[n].at \in Active => sends[n].at \in Active
                      /\ sends'[n].stopped = sends[n].stopped
    BY <2>1
  <2>4. OneSend'
    BY <2>1, <2>2, <2>3, SameOwner
  <2> QED
    BY <1>1, <2>1, <2>2, <2>4, QuietFits
<1> QED
  BY <1>2, <1>3

LEMMA OpenFits == ASSUME IInv, NEW c \in Conv, OpenConversation(c) PROVE IInv'
<1>1. /\ Abort /\ NewView
      /\ conv' = c /\ loaded' = FALSE
      /\ loads' = loads \cup {[conv |-> c, view |-> view + 1]}
      /\ UNCHANGED <<signedIn, page, bubbles, removals, engine, signOuts>>
  BY DEF OpenConversation
<1>2. view' = view + 1 /\ view + 1 \in 0..MaxViews
  BY <1>1, Constants DEF NewView, IInv, TypeOK
<1>3. /\ loads' \subseteq History
      /\ \A l \in loads' : l \in loads \/ (~loaded' /\ l.view = view' /\ conv' = l.conv)
  BY <1>1, <1>2 DEF IInv, TypeOK, History
<1>4. Steady /\ OneSend' /\ sending' \in BOOLEAN /\ controller' \in Id \cup {None}
  BY <1>1, Aborted
<1>5. /\ conv' \in Conv \cup {None} /\ page' \in Conv \cup {None} /\ bubbles' \subseteq bubbles
      /\ loaded' \in BOOLEAN /\ ~loaded'
      /\ signedIn' \in BOOLEAN /\ removals' \subseteq Conv
      /\ signOuts' \in 0..MaxSignOuts
      /\ UNCHANGED engine
  BY <1>1 DEF IInv, TypeOK
<1>6. signOuts <= signOuts'
  BY <1>1, Constants DEF IInv, TypeOK
<1> QED
  BY <1>1, <1>3, <1>4, <1>5, <1>6, NewViewFits

\* What clearSession makes of a send, and the refusal of the one it awaits.
LEMMA ClearedFits ==
    ASSUME IInv, NEW m \in Id, NEW s,
           s = Cleared(m) \/ (sends[m].at \in Active /\ s = Closed(m, "over"))
    PROVE  /\ s \in Send
           /\ s.view = sends[m].view /\ s.asked = sends[m].asked
           /\ s.told = sends[m].told /\ s.clean = sends[m].clean /\ s.era = sends[m].era
           /\ sends[m].at = "none" <=> s.at = "none"
           /\ s.at \in Waiting => sends[m].at \in Waiting
           /\ s.late => s.at \in Past
           /\ sends[m].late => s.late
           /\ m = controller /\ s.at \in Active => s.stopped
<1>1. sends[m] \in Send /\ (sends[m].late => sends[m].at \in Past)
  BY DEF IInv, TypeOK, SendFits
<1>2. CASE s = Closed(m, "over") /\ sends[m].at \in Active
  <2>1. PICK late \in BOOLEAN : s = [sends[m] EXCEPT !.at = "over", !.late = late]
    <3>1. s = [sends[m] EXCEPT !.at = "over", !.late = (sends[m].era < signOuts)]
      BY <1>2 DEF Closed
    <3>2. (sends[m].era < signOuts) \in BOOLEAN
      OBVIOUS
    <3> QED
      BY <3>1, <3>2, Zenon
  <2>2. sends[m].at # "none" /\ ~sends[m].late
    BY <1>1, <1>2 DEF Active, Past, Waiting
  <2> QED
    BY <1>1, <2>1, <2>2 DEF Send, Active, Past, Waiting
<1>3. CASE s = Cleared(m) /\ m # controller
  BY <1>1, <1>3 DEF Cleared
<1>4. CASE s = Cleared(m) /\ m = controller
  <2>1. CASE sends[m].at \in Posted \cup {"streaming"}
    <3>1. s = [sends[m] EXCEPT !.at = "over"]
      BY <1>4, <2>1 DEF Cleared
    <3> QED
      BY <1>1, <2>1, <3>1 DEF Send, Posted, Active, Past, Waiting
  <2>2. CASE sends[m].at \notin Posted \cup {"streaming"}
    <3>1. s = [sends[m] EXCEPT !.stopped = TRUE]
      BY <1>4, <2>2 DEF Cleared
    <3> QED
      BY <1>1, <3>1 DEF Send
  <2> QED
    BY <2>1, <2>2
<1> QED
  BY <1>2, <1>3, <1>4

\* The tab is signed out; the sends of this sign-in are over, or stopped.
LEMMA LeaveFits ==
    ASSUME IInv, SignOut \/ \E n \in Id : Refused(n)
    PROVE  IInv'
<1>1. PICK n \in Id \cup {None} :
        /\ n # None => sends[n].at \in Active
        /\ sends' = [m \in Id |-> IF m = n THEN Closed(m, "over") ELSE Cleared(m)]
  <2>1. CASE SignOut
    <3>1. sends' = [m \in Id |-> IF m = None THEN Closed(m, "over") ELSE Cleared(m)]
      BY <2>1, Constants DEF SignOut
    <3> QED
      BY <3>1
  <2>2. CASE \E n \in Id : Refused(n)
    BY <2>2, Constants DEF Refused, Active, Waiting
  <2> QED
    BY <2>1, <2>2
<1>2. /\ signedIn' = FALSE /\ signOuts' = signOuts + 1 /\ signOuts < MaxSignOuts
      /\ sending' = FALSE /\ controller' = None
      /\ NewView /\ Empty /\ UNCHANGED <<loads, engine>> /\ removals' \subseteq Conv
  BY DEF SignOut, Refused, Clear, IInv, TypeOK
<1>3. \A m \in Id :
        \/ sends'[m] = Cleared(m) /\ m # n
        \/ sends[m].at \in Active /\ sends'[m] = Closed(m, "over") /\ m = n
  BY <1>1, Constants
<1>4. /\ sends' \in [Id -> Send]
      /\ \A m \in Id :
           /\ sends'[m].view = sends[m].view /\ sends'[m].asked = sends[m].asked
           /\ sends'[m].told = sends[m].told /\ sends'[m].clean = sends[m].clean
           /\ sends'[m].era = sends[m].era
           /\ sends[m].at = "none" <=> sends'[m].at = "none"
           /\ sends'[m].at \in Waiting => sends[m].at \in Waiting
           /\ sends'[m].late => sends'[m].at \in Past
           /\ sends[m].late => sends'[m].late
           /\ m = controller /\ sends'[m].at \in Active => sends'[m].stopped
  <2>1. \A m \in Id : sends'[m] \in Send
    BY <1>3, ClearedFits
  <2>2. sends' \in [Id -> Send]
    BY <1>1, <2>1
  <2> QED
    BY <1>3, <2>2, ClearedFits
<1>5. Interfered => Interfered'
  BY <1>4 DEF Interfered
<1>6. Steady
  BY <1>4, <1>5 DEF Steady
<1>7. /\ signOuts \in Nat
      /\ \A m \in Id : sends[m].era \in Nat /\ sends[m].era <= signOuts
  <2>1. \A m \in Id : sends[m] \in Send
    BY DEF IInv, TypeOK
  <2> QED
    BY <2>1, Constants DEF IInv, TypeOK, SendFits, Send
<1>8. OneSend'
  <2>1. CASE Interfered
    BY <1>5, <2>1 DEF OneSend
  <2>2. CASE ~Interfered
    <3>1. ASSUME NEW m \in Id, sends'[m].at \in Active
          PROVE  sends'[m].era # signOuts' /\ sends'[m].stopped
      <4>1. sends'[m].era # signOuts'
        BY <1>2, <1>4, <1>7
      <4>2. m # n
        <5> SUFFICES ASSUME m = n PROVE FALSE
          OBVIOUS
        <5>1. sends'[m] = [sends[m] EXCEPT !.at = "over", !.late = sends[m].era < signOuts]
          BY <1>3 DEF Closed
        <5>2. sends[m] \in Send
          BY DEF IInv, TypeOK
        <5>3. sends'[m].at = "over"
          BY <5>1, <5>2 DEF Send
        <5> QED
          BY <3>1, <5>3 DEF Active, Waiting
      <4>3. CASE m = controller
        BY <1>4, <3>1, <4>1, <4>3
      <4>4. CASE m # controller
        <5>1. sends'[m] = sends[m]
          BY <1>3, <4>2, <4>4 DEF Cleared
        <5>2. sends[m].era # signOuts
          BY <2>2, <3>1, <4>4, <5>1 DEF IInv, OneSend
        <5> QED
          BY <2>2, <3>1, <4>1, <5>1, <5>2 DEF IInv, OneSend
      <4> QED
        BY <4>3, <4>4
    <3> QED
      BY <3>1 DEF OneSend
  <2> QED
    BY <2>1, <2>2
<1>9. signOuts' \in 0..MaxSignOuts /\ signOuts <= signOuts'
  BY <1>2, <1>7, Constants
<1>10. sending' \in BOOLEAN /\ signedIn' \in BOOLEAN /\ controller' \in Id \cup {None}
  BY <1>2
<1> QED
  BY <1>2, <1>6, <1>8, <1>9, <1>10, EmptyFits

\* The answer that starts is the only one in progress, or the tab is interfered with.
LEMMA StartFits == ASSUME IInv, NEW n \in Id, Start(n) PROVE IInv'
<1>1. /\ sends[n].at \in Posted /\ work[n].at \in {"working", "stored"}
      /\ sends' = [sends EXCEPT ![n].at = "streaming", ![n].told = Started(n)]
      /\ conv' = IF Started(n) THEN work[n].conv ELSE conv
      /\ UNCHANGED <<signedIn, sending, controller, view, page, bubbles, loaded, loads,
                     removals, saved, gone, work, signOuts>>
  BY DEF Start, screen, engine
<1>2. /\ sends \in [Id -> Send] /\ sends[n] \in Send /\ work[n] \in Work
      /\ sends[n].at \in Waiting /\ "streaming" \notin Waiting /\ "streaming" # "none"
      /\ sends[n].at # "none" /\ Started(n) = (view = sends[n].view)
  BY <1>1 DEF IInv, TypeOK, Waiting, Posted, Started
<1>3. /\ sends' \in [Id -> Send]
      /\ sends'[n].at = "streaming" /\ sends'[n].told = (view = sends[n].view)
      /\ \A m \in Id : m # n => sends'[m] = sends[m]
      /\ \A m \in Id : /\ sends'[m].view = sends[m].view /\ sends'[m].asked = sends[m].asked
                       /\ sends'[m].clean = sends[m].clean /\ sends'[m].era = sends[m].era
                       /\ sends'[m].stopped = sends[m].stopped
                       /\ sends'[m].late = sends[m].late
  <2> DEFINE s == [sends[n] EXCEPT !.at = "streaming", !.told = (view = sends[n].view)]
  <2>1. sends' = [sends EXCEPT ![n] = s]
    BY <1>1, <1>2
  <2>2. /\ s \in Send /\ s.at = "streaming" /\ s.told = (view = sends[n].view)
        /\ s.view = sends[n].view /\ s.asked = sends[n].asked /\ s.clean = sends[n].clean
        /\ s.era = sends[n].era /\ s.stopped = sends[n].stopped /\ s.late = sends[n].late
    BY <1>2 DEF Send, Live
  <2> HIDE DEF s
  <2>3. sends' \in [Id -> Send] /\ sends'[n] = s /\ \A m \in Id : m # n => sends'[m] = sends[m]
    BY <1>2, <2>1, <2>2
  <2> QED
    BY <2>2, <2>3
<1>4. Interfered' <=> Interfered
  BY <1>3 DEF Interfered
<1>5. /\ work[n].conv \in Conv
      /\ sends[n].asked \in {None, work[n].conv}
  BY <1>1, <1>2 DEF IInv, SendFits, Work
<1>6. TypeOK'
  BY <1>1, <1>3, <1>5 DEF IInv, TypeOK
<1>7. Numbered'
  BY <1>2, <1>3 DEF IInv, Numbered
<1>8. IdsFit'
  BY <1>1 DEF IInv, IdsFit
<1>9. OneSend'
  <2>1. CASE Interfered
    BY <1>4, <2>1 DEF OneSend
  <2>2. CASE ~Interfered
    <3>1. ASSUME NEW m \in Id, sends'[m].at \in Active
          PROVE  IF sends'[m].era = signOuts' THEN controller' = m /\ sending'
                 ELSE sends'[m].stopped
      <4>1. sends[m].at \in Active
        BY <1>2, <1>3, <3>1 DEF Active
      <4> QED
        BY <1>1, <1>3, <2>2, <4>1 DEF IInv, OneSend
    <3> QED
      BY <3>1 DEF OneSend
  <2> QED
    BY <2>1, <2>2
\* In a conversation that was opened the question was asked of that conversation.
<1>10. ScreenFits'
  <2> SUFFICES ASSUME loaded
               PROVE  /\ \A m \in bubbles : sends'[m].view = view
                      /\ page # None =>
                           /\ page = conv'
                           /\ \A m \in Id : sends'[m].at # "none" /\ sends'[m].view = view
                                              => sends'[m].asked = conv'
    BY <1>1 DEF ScreenFits
  <2>1. \A m \in bubbles : sends'[m].view = view
    BY <1>3 DEF IInv, TypeOK, ScreenFits
  <2>2. ASSUME page # None
        PROVE  /\ page = conv'
               /\ \A m \in Id : sends'[m].at # "none" /\ sends'[m].view = view
                                  => sends'[m].asked = conv'
    <3>1. /\ page = conv
          /\ \A m \in Id : sends[m].at # "none" /\ sends[m].view = view => sends[m].asked = conv
      BY <2>2 DEF IInv, ScreenFits
    <3>2. conv' = conv
      BY <1>1, <1>2, <1>5, <2>2, <3>1
    <3>3. \A m \in Id : sends'[m].at # "none" => sends[m].at # "none"
      BY <1>2, <1>3
    <3> QED
      BY <1>3, <3>1, <3>2, <3>3
  <2> QED
    BY <2>1, <2>2
<1>11. ASSUME NEW l \in loads PROVE LoadFits(l)'
  <2>1. l.conv \in Conv /\ l.view <= view
    BY DEF IInv, TypeOK, History, LoadFits
  <2>2. ASSUME l.view = view
        PROVE  /\ ~loaded /\ conv' = l.conv
               /\ \A m \in Id : sends'[m].at # "none" /\ sends'[m].view = view
                                  => sends'[m].asked = conv'
    <3>1. /\ ~loaded /\ conv = l.conv
          /\ \A m \in Id : sends[m].at # "none" /\ sends[m].view = view => sends[m].asked = conv
      BY <2>2 DEF IInv, LoadFits
    <3>2. conv' = conv
      <4>1. Started(n) => sends[n].asked = conv
        BY <1>2, <2>2, <3>1
      <4>2. conv # None
        BY <2>1, <3>1, Constants
      <4>3. sends[n].asked = conv => work[n].conv = conv
        BY <1>5, <4>2
      <4> QED
        BY <1>1, <4>1, <4>3, Zenon
    <3>3. \A m \in Id : sends'[m].at # "none" => sends[m].at # "none"
      BY <1>2, <1>3
    <3> QED
      BY <1>3, <3>1, <3>2, <3>3
  <2> QED
    BY <1>1, <2>1, <2>2 DEF LoadFits
<1>12. AskFits'
  <2>1. CASE Interfered
    BY <1>4, <2>1 DEF AskFits
  <2>2. CASE ~Interfered /\ view # sends[n].view
    <3>1. /\ conv' = conv
          /\ \A m \in Id : sends'[m].at \in Waiting => sends[m].at \in Waiting
          /\ \A m \in Id : sends'[m].told => sends[m].told
      BY <1>1, <1>2, <1>3, <2>2
    <3>2. \A m \in Id : sends'[m].at \in Waiting /\ sends'[m].view = view
                          => sends'[m].asked = conv
      BY <1>3, <2>2, <3>1 DEF IInv, AskFits
    <3>3. loaded => \A m \in bubbles : sends'[m].told => work[m].conv = conv
      BY <2>2, <3>1 DEF IInv, TypeOK, AskFits
    <3> QED
      BY <1>1, <3>1, <3>2, <3>3 DEF AskFits
  <2>3. CASE ~Interfered /\ view = sends[n].view
    <3>1. conv' = work[n].conv /\ sends[n].asked = conv
      BY <1>1, <1>2, <2>3 DEF IInv, AskFits
    <3>2. \A m \in Id : sends[m].at \in Active /\ sends[m].view = view => m = n
      <4>1. \A m \in Id : sends[m].view = view => sends[m].era = signOuts
        <5>1. \A m \in Id : sends[m].view \in Nat /\ sends[m].era \in Nat
          <6> SUFFICES ASSUME NEW m \in Id PROVE sends[m].view \in Nat /\ sends[m].era \in Nat
            OBVIOUS
          <6>1. sends[m] \in Send
            BY <1>2
          <6>2. sends[m].view \in 0..MaxViews /\ sends[m].era \in 0..MaxSignOuts
            BY <6>1 DEF Send
          <6> QED
            BY <6>2, Constants
        <5>2. view \in Nat /\ signOuts \in Nat
          BY Constants DEF IInv, TypeOK
        <5> QED
          BY <5>1, <5>2 DEF IInv, SendFits
      <4>2. \A m \in Id : sends[m].at \in Active /\ sends[m].era = signOuts => controller = m
        BY <2>3 DEF IInv, OneSend
      <4>3. sends[n].at \in Active
        BY <1>2 DEF Active
      <4> QED
        BY <2>3, <4>1, <4>2, <4>3
    <3>3. \A m \in Id : ~(sends'[m].at \in Waiting /\ sends'[m].view = view)
      BY <1>2, <1>3, <3>2 DEF Active
    <3>4. ASSUME loaded, NEW m \in bubbles, sends'[m].told
          PROVE  work[m].conv = conv'
      <4>1. CASE m = n
        BY <3>1, <4>1
      <4>2. CASE m # n
        <5>1. m \in Id /\ sends[m].told
          BY <1>3, <3>4, <4>2 DEF IInv, TypeOK
        <5>2. work[m].conv = conv /\ work[m].conv # None
          BY <2>3, <3>4, <5>1 DEF IInv, AskFits, SendFits
        <5> QED
          BY <1>5, <3>1, <5>2
      <4> QED
        BY <4>1, <4>2
    <3> QED
      BY <1>1, <3>3, <3>4 DEF AskFits
  <2> QED
    BY <2>1, <2>2, <2>3
<1>13. ASSUME NEW m \in Id PROVE SendFits(m)'
  <2>1. CASE m # n
    BY <1>1, <1>3, <2>1 DEF IInv, SendFits
  <2>2. CASE m = n
    <3>1. /\ sends[n].view <= view /\ sends[n].era <= signOuts
          /\ sends[n].era < signOuts => sends[n].view < view
          /\ ~sends[n].late
          /\ work[n].at # "none" /\ work[n].conv # None
          /\ sends[n].view = view /\ sends[n].clean => loaded /\ n \in bubbles
      BY <1>1, <1>2, <1>5, Constants DEF IInv, SendFits, Past, Waiting
    <3> QED
      BY <1>1, <1>2, <1>3, <1>5, <2>2, <3>1 DEF SendFits
  <2> QED
    BY <2>1, <2>2
<1> QED
  BY <1>1, <1>6, <1>7, <1>8, <1>9, <1>10, <1>11, <1>12, <1>13 DEF IInv

LEMMA LoadStepFits == ASSUME IInv, NEW l \in loads, Load(l) PROVE IInv'
<1>1. /\ loads' = loads \ {l}
      /\ UNCHANGED <<signedIn, sending, controller, view, conv, removals, sends, saved, gone,
                     work, signOuts>>
  BY DEF Load, engine
<1>2. Numbered' /\ IdsFit' /\ OneSend' /\ (Interfered' <=> Interfered)
  BY <1>1 DEF IInv, Numbered, IdsFit, OneSend, Interfered
<1>3. CASE UNCHANGED screen
  <2>1. UNCHANGED <<page, bubbles, loaded>>
    BY <1>3 DEF screen
  <2>2. TypeOK' /\ ScreenFits' /\ AskFits'
    BY <1>1, <1>2, <2>1 DEF IInv, TypeOK, ScreenFits, AskFits
  <2>3. \A n \in Id : SendFits(n)'
    BY <1>1, <2>1 DEF IInv, SendFits
  <2>4. \A k \in loads' : LoadFits(k)'
    BY <1>1, <2>1 DEF IInv, LoadFits
  <2> QED
    BY <1>2, <2>2, <2>3, <2>4 DEF IInv
<1>4. CASE Current(l) /\ page' = l.conv /\ bubbles' = {} /\ loaded' = TRUE
  <2>1. /\ l.view = view /\ conv = l.conv /\ ~loaded /\ l \in History
        /\ \A n \in Id : sends[n].at # "none" /\ sends[n].view = view => sends[n].asked = conv
    BY <1>4 DEF IInv, TypeOK, LoadFits, Current
  <2>2. TypeOK'
    BY <1>1, <1>4, <2>1 DEF IInv, TypeOK, History
  <2>3. ScreenFits' /\ AskFits'
    BY <1>1, <1>2, <1>4, <2>1 DEF ScreenFits, IInv, AskFits
  <2>4. ASSUME NEW n \in Id PROVE SendFits(n)'
    BY <1>1, <1>4, <2>1 DEF IInv, SendFits
  <2>5. ASSUME NEW k \in loads' PROVE LoadFits(k)'
    <3>1. k \in loads /\ k # l /\ k \in History
      BY <1>1 DEF IInv, TypeOK
    <3>2. k.view # view
      <4> SUFFICES ASSUME k.view = view PROVE FALSE
        OBVIOUS
      <4>1. k.conv = l.conv
        BY <2>1, <3>1 DEF IInv, LoadFits
      <4> QED
        BY <2>1, <3>1, <4>1 DEF History
    <3> QED
      BY <1>1, <3>1, <3>2 DEF IInv, LoadFits
  <2> QED
    BY <1>2, <2>2, <2>3, <2>4, <2>5 DEF IInv
<1> QED
  BY <1>3, <1>4 DEF Load

\* An id that neither a conversation nor a question has.
LEMMA NewId ==
    ASSUME IInv, NEW n \in Id, work[n].conv = None
    PROVE  FreshId \in Conv /\ FreshId \notin saved \cup gone
<1> DEFINE used == {work[m].conv : m \in Id} \cap (Conv \ Old)
           others == Id \ {n}
           f == [m \in {k \in others : work[k].conv \in Conv \ Old} |-> work[m].conv]
<1>1. /\ IsFiniteSet(others) /\ Cardinality(others) = MaxSends - 1
  BY Constants, FS_RemoveElement
<1>2. /\ IsFiniteSet(DOMAIN f) /\ Cardinality(DOMAIN f) <= MaxSends - 1
  <2>1. DOMAIN f \subseteq others
    OBVIOUS
  <2>2. IsFiniteSet(DOMAIN f) /\ Cardinality(DOMAIN f) <= Cardinality(others)
    <3> HIDE DEF f, others
    <3> QED
      BY <1>1, <2>1, FS_Subset
  <2> QED
    BY <1>1, <2>2
<1>3. f \in Surjection(DOMAIN f, used)
  BY Constants DEF Surjection
<1>4. IsFiniteSet(used) /\ Cardinality(used) < MaxSends /\ used \in SUBSET (Conv \ Old)
  <2>1. used \in SUBSET (Conv \ Old)
    OBVIOUS
  <2> HIDE DEF f, used
  <2>2. IsFiniteSet(used) /\ Cardinality(used) <= Cardinality(DOMAIN f)
    BY <1>2, <1>3, FS_Surjection
  <2>3. Cardinality(used) \in Nat /\ Cardinality(DOMAIN f) \in Nat /\ MaxSends \in Nat
    BY <1>2, <2>2, FS_CardinalityType, Constants
  <2> QED
    BY <1>2, <2>1, <2>2, <2>3
<1>5. used # Conv \ Old
  <2> HIDE DEF used
  <2> QED
    BY <1>4, ChatAssumption
<1>6. PICK c \in Conv \ Old : c \notin used
  BY <1>4, <1>5
<1>7. c \in Conv /\ c \notin saved \cup gone \cup {work[m].conv : m \in Id}
  BY <1>6 DEF IInv, IdsFit
<1> QED
  BY <1>7 DEF FreshId

\* The engine gives each question one conversation, and keeps it.
LEMMA EngineFits ==
    ASSUME IInv, work' \in [Id -> Work], saved' \subseteq Conv, gone' \subseteq Conv,
           UNCHANGED <<signedIn, sending, controller, view, conv, screen, loads, sends, signOuts>>,
           removals' \subseteq Conv,
           saved' \cup gone' \subseteq saved \cup gone \cup {work'[n].conv : n \in Id},
           \A n \in Id : \/ work'[n] = work[n]
                         \/ /\ sends[n].at # "none" /\ work'[n].at # "none"
                            /\ work'[n].conv # None
                            /\ sends[n].asked \in {None, work'[n].conv}
                            /\ work[n].at = "none" \/ work'[n].conv = work[n].conv
    PROVE  IInv'
<1>1. UNCHANGED <<signedIn, sending, controller, view, conv, page, bubbles, loaded, loads, sends,
                  signOuts>>
  BY DEF screen
<1>2. TypeOK'
  BY <1>1 DEF IInv, TypeOK
<1>3. Numbered' /\ ScreenFits' /\ OneSend' /\ (Interfered' <=> Interfered)
  BY <1>1 DEF IInv, Numbered, ScreenFits, OneSend, Interfered
<1>4. \A n \in Id : sends[n].told => work'[n].conv = work[n].conv
  BY DEF IInv, SendFits
<1>5. AskFits'
  <2>1. CASE Interfered
    BY <1>3, <2>1 DEF AskFits
  <2>2. CASE ~Interfered
    <3>1. \A n \in Id : sends[n].at \in Waiting /\ sends[n].view = view => sends[n].asked = conv
      BY <2>2 DEF IInv, AskFits
    <3>2. loaded => \A n \in bubbles : sends[n].told => work'[n].conv = conv
      BY <1>4, <2>2 DEF IInv, TypeOK, AskFits
    <3> QED
      BY <1>1, <3>1, <3>2 DEF AskFits
  <2> QED
    BY <2>1, <2>2
<1>6. IdsFit'
  <2>1. \A n \in Id : work[n].conv \in Conv => work'[n].conv = work[n].conv
    <3>1. \A n \in Id : work[n].conv \in Conv => work[n].at # "none"
      BY Constants DEF IInv, SendFits
    <3> QED
      BY <3>1
  <2>2. saved \cup gone \subseteq Old \cup {work'[n].conv : n \in Id}
    <3>1. saved \cup gone \subseteq Conv
      BY DEF IInv, TypeOK
    <3> QED
      BY <2>1, <3>1 DEF IInv, IdsFit
  <2> QED
    BY <2>2 DEF IdsFit
<1>7. ASSUME NEW n \in Id PROVE SendFits(n)'
  <2>1. CASE work'[n] = work[n]
    BY <1>1, <2>1 DEF IInv, SendFits
  <2>2. CASE work'[n] # work[n]
    <3>1. /\ sends[n].at # "none" /\ work'[n].at # "none" /\ work'[n].conv # None
          /\ sends[n].asked \in {None, work'[n].conv}
      BY <2>2
    <3> QED
      BY <1>1, <3>1 DEF IInv, SendFits
  <2> QED
    BY <2>1, <2>2
<1>8. ASSUME NEW l \in loads PROVE LoadFits(l)'
  BY <1>1 DEF IInv, LoadFits
<1> QED
  BY <1>1, <1>2, <1>3, <1>5, <1>6, <1>7, <1>8 DEF IInv

LEMMA ReceiveFits == ASSUME IInv, NEW n \in Id, Receive(n) PROVE IInv'
<1> DEFINE c == sends[n].asked
           w == IF c = None THEN [at |-> "working", conv |-> FreshId]
                ELSE [at |-> IF c \in saved THEN "working" ELSE "undone", conv |-> c]
<1>1. /\ sends[n].at \in Posted /\ work[n].at = "none"
      /\ work' = [work EXCEPT ![n] = w]
      /\ UNCHANGED <<signedIn, sending, controller, view, conv, screen, loads, removals, sends,
                     saved, gone, signOuts>>
  BY DEF Receive
<1>2. /\ c \in Conv \cup {None} /\ work \in [Id -> Work] /\ work[n].conv = None
      /\ removals \subseteq Conv /\ saved \subseteq Conv /\ gone \subseteq Conv
  <2>1. sends[n] \in Send
    BY DEF IInv, TypeOK
  <2> QED
    BY <1>1, <2>1 DEF IInv, TypeOK, SendFits, Send
<1>3. FreshId \in Conv
  BY <1>2, NewId
<1>4. w \in Work /\ w.at # "none" /\ w.conv # None /\ c \in {None, w.conv}
  BY <1>2, <1>3, Constants DEF Work
<1> HIDE DEF w
<1>5. /\ work' \in [Id -> Work] /\ work'[n] = w
      /\ \A m \in Id : m # n => work'[m] = work[m]
  BY <1>1, <1>2, <1>4
<1>6. sends[n].at # "none"
  BY <1>1 DEF Posted
<1>7. \A m \in Id : \/ work'[m] = work[m]
                    \/ /\ sends[m].at # "none" /\ work'[m].at # "none"
                       /\ work'[m].conv # None
                       /\ sends[m].asked \in {None, work'[m].conv}
                       /\ work[m].at = "none" \/ work'[m].conv = work[m].conv
  BY <1>1, <1>4, <1>5, <1>6
<1>8. /\ saved' \subseteq Conv /\ gone' \subseteq Conv /\ removals' \subseteq Conv
      /\ saved' \cup gone' \subseteq saved \cup gone \cup {work'[m].conv : m \in Id}
  BY <1>1, <1>2
<1> QED
  BY <1>1, <1>5, <1>7, <1>8, EngineFits

LEMMA SettleFits == ASSUME IInv, NEW n \in Id, Settle(n) PROVE IInv'
<1>1. PICK at \in {"stored", "undone"} :
        /\ work' = [work EXCEPT ![n].at = at]
        /\ saved' = saved \/ saved' = saved \cup {work[n].conv}
  BY DEF Settle
<1>2. /\ work[n].at = "working"
      /\ UNCHANGED <<signedIn, sending, controller, view, conv, screen, loads, removals, sends,
                     gone, signOuts>>
  BY DEF Settle
<1>3. /\ work \in [Id -> Work] /\ work[n] \in Work
      /\ removals \subseteq Conv /\ saved \subseteq Conv /\ gone \subseteq Conv
  BY DEF IInv, TypeOK
<1>4. /\ sends[n].at # "none" /\ work[n].conv # None
      /\ sends[n].asked \in {None, work[n].conv}
  BY <1>2 DEF IInv, SendFits
<1>5. /\ work' \in [Id -> Work]
      /\ work'[n].at = at /\ work'[n].conv = work[n].conv
      /\ \A m \in Id : m # n => work'[m] = work[m]
  BY <1>1, <1>3 DEF Work
<1>6. \A m \in Id : \/ work'[m] = work[m]
                    \/ /\ sends[m].at # "none" /\ work'[m].at # "none"
                       /\ work'[m].conv # None
                       /\ sends[m].asked \in {None, work'[m].conv}
                       /\ work[m].at = "none" \/ work'[m].conv = work[m].conv
  BY <1>4, <1>5
<1>7. /\ saved' \subseteq Conv /\ gone' \subseteq Conv /\ removals' \subseteq Conv
      /\ saved' \cup gone' \subseteq saved \cup gone \cup {work'[m].conv : m \in Id}
  BY <1>1, <1>2, <1>3, <1>4, <1>5 DEF Work
<1> QED
  BY <1>2, <1>5, <1>6, <1>7, EngineFits

LEMMA DeleteFits == ASSUME IInv, NEW c \in Conv, Delete(c) PROVE IInv'
<1>1. /\ c \in saved /\ saved' = saved \ {c} /\ gone' = gone \cup {c}
      /\ removals' = removals \cup {c} /\ UNCHANGED work
      /\ UNCHANGED <<signedIn, sending, controller, view, conv, screen, loads, sends, signOuts>>
  BY DEF Delete
<1>2. /\ work' \in [Id -> Work] /\ \A n \in Id : work'[n] = work[n]
      /\ saved' \subseteq Conv /\ gone' \subseteq Conv /\ removals' \subseteq Conv
      /\ saved' \cup gone' \subseteq saved \cup gone \cup {work'[n].conv : n \in Id}
  BY <1>1 DEF IInv, TypeOK
<1> QED
  BY <1>1, <1>2, EngineFits

LEMMA NextFits == IInv /\ [Next]_vars => IInv'
<1> SUFFICES ASSUME IInv, [Next]_vars PROVE IInv'
  OBVIOUS
<1>1. ASSUME NEW n \in Id,
             \/ Submit(n) \/ Expired(n) \/ Renewed(n) \/ Refused(n) \/ Start(n)
             \/ Done(n) \/ Listed(n) \/ Fail(n) \/ Receive(n) \/ Settle(n)
      PROVE  IInv'
  BY <1>1, SubmitFits, SmallMoves, LeaveFits, StartFits, ReceiveFits, SettleFits
<1>2. ASSUME NEW c \in Conv, OpenConversation(c) \/ Delete(c) \/ Deleted(c)
      PROVE  IInv'
  BY <1>2, OpenFits, DeleteFits, DeletedFits
<1>3. CASE Stop \/ NewChat \/ SignOut \/ SignIn
  BY <1>3, QuietSteps, NewChatFits, LeaveFits
<1>4. ASSUME NEW l \in loads, Load(l) PROVE IInv'
  BY <1>4, LoadStepFits
<1>5. CASE UNCHANGED vars
  BY <1>5 DEF vars, screen, engine, IInv, TypeOK, Numbered, IdsFit, ScreenFits, OneSend, AskFits,
              Interfered, SendFits, LoadFits
<1> QED
  BY <1>1, <1>2, <1>3, <1>4, <1>5 DEF Next

LEMMA Fits == Spec => []IInv
  BY InitFits, NextFits, PTL DEF Spec

-----------------------------------------------------------------------------
(* Theorems *)

\* What is on the screen is one conversation, the one the next question goes to, in
\* whatever order answers, histories and deletions arrive (app.js:247-275, 334-335).
THEOREM OneConversationOnScreen == Spec => []ScreenIsOneConversation
<1>1. IInv => ScreenIsOneConversation
  BY DEF IInv, ScreenFits, AskFits, ScreenIsOneConversation
<1> QED
  BY <1>1, Fits, PTL

\* One answer is streamed at a time, and the composer holds its controller (app.js:298-349).
THEOREM OneAnswerAtATime == Spec => []OneLiveStream
<1>1. IInv => OneLiveStream
  <2> SUFFICES ASSUME IInv, ~Interfered, NEW m \in Id, NEW n \in Id,
                      {sends[m].at, sends[n].at} \subseteq Live,
                      ~sends[m].stopped, ~sends[n].stopped
               PROVE  m = n
    BY DEF OneLiveStream
  <2>1. sends[m].at \in Active /\ sends[n].at \in Active
    BY DEF Live, Posted, Active, Waiting
  <2> QED
    BY <2>1 DEF IInv, OneSend
<1> QED
  BY <1>1, Fits, PTL

\* An answer that has ended is on the screen as long as its view is shown, unless the
\* listing after it failed (app.js:254-264, 334-342).
THEOREM ShownAnswers == Spec => []AnswersAreShown
<1>1. IInv => AnswersAreShown
  BY DEF IInv, SendFits, AnswersAreShown
<1> QED
  BY <1>1, Fits, PTL
===============================================================================

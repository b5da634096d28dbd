------------------------------ MODULE WebSession ------------------------------
(***************************************************************************)
(* MyAgent-Web/app.js: the tokens one browser tab holds, its API calls,    *)
(* the refresh they share, logout and reload; and what the server keeps of *)
(* the tab's sessions (AuthSessions has the server in full).  JavaScript   *)
(* runs each stretch between two awaits, and the continuations of a        *)
(* settled promise, as one step.                                           *)
(***************************************************************************)
EXTENDS Naturals, FiniteSets

CONSTANTS Call,        \* calls of authorizedFetch in flight, two at least
          MaxLogins,   \* bound: logins of the tab
          MaxExpiries, \* bound: access tokens that expire
          Nil

Login  == 1..MaxLogins
Token  == [login: Login, n: Nat]   \* the n-th pair of a login, access and refresh
Flight == [tok: Token, got: {"none", "ok", "no"}]

ASSUME WebAssumption == /\ MaxLogins \in Nat /\ MaxExpiries \in Nat
                        /\ Nil \notin Call \cup Token \cup Flight

VARIABLES
    held,     \* state.accessToken and state.refreshToken, in sessionStorage too
    showing,  \* which view is shown; "boot" while boot() waits for /auth/me
    call,     \* the calls
    flight,   \* the POST to /auth/refresh a call started
    sharing,  \* refreshPromise: the call that started the one others join
    logout,   \* logout(): where it is, and the token it posts
    logins,   \* sessions opened so far
    head,     \* server: the refresh token each session accepts
    alive,    \* server: sessions neither revoked nor expired
    stale,    \* server: access tokens past their exp
    lost      \* history: sessions whose newest token may never have arrived

client      == <<held, showing, call, flight, sharing, logout, logins>>
server      == <<head, alive, stale>>
sessionVars == <<client, server, lost>>

NoCall     == [pc |-> "idle", tok |-> Nil, retry |-> FALSE, boot |-> FALSE]
Sent(boot) == [pc |-> "sent", tok |-> held, retry |-> TRUE, boot |-> boot]

SessionInit ==
    /\ held = Nil /\ showing = "auth" /\ sharing = Nil
    /\ call = [c \in Call |-> NoCall] /\ flight = [c \in Call |-> Nil]
    /\ logout = [at |-> "idle", tok |-> Nil]
    /\ logins = 0 /\ head = [s \in Login |-> 0]
    /\ alive = {} /\ stale = {} /\ lost = {}

-----------------------------------------------------------------------------
\* authenticate: a login or a registration, setTokens and showApp.
Authenticate ==
    /\ showing = "auth" /\ logins < MaxLogins
    /\ logins' = logins + 1
    /\ alive' = alive \cup {logins + 1}
    /\ held' = [login |-> logins + 1, n |-> 0] /\ showing' = "app"
    /\ UNCHANGED <<call, flight, sharing, logout, head, stale, lost>>

\* clearSession, and the showAuth that goes with it, as far as the tokens go.
ClearSession == held' = Nil /\ showing' = "auth"

\* authorizedFetch sends a request; boot() sends one, before any other.
Fetch(c) ==
    /\ call[c].pc = "idle"
    /\ \/ showing = "app"
       \/ showing = "boot" /\ \A d \in Call : ~call[d].boot
    /\ call' = [call EXCEPT ![c] = Sent(showing = "boot")]
    /\ UNCHANGED <<held, showing, flight, sharing, logout, logins, server, lost>>

\* boot() has its user: showApp, which requests two lists at once.
ShowApp(c) ==
    \E d \in Call \ {c} :
        /\ call[d].pc = "idle"
        /\ call' = [call EXCEPT ![c] = Sent(TRUE), ![d] = Sent(TRUE)]
        /\ showing' = "app" /\ UNCHANGED held

Served(c) ==
    /\ call[c].pc = "sent" /\ call[c].tok \notin stale \cup {Nil}
    /\ IF call[c].boot /\ showing = "boot" THEN ShowApp(c)
       ELSE call' = [call EXCEPT ![c] = NoCall] /\ UNCHANGED <<held, showing>>
    /\ UNCHANGED <<flight, sharing, logout, logins, server, lost>>

Denied(c) ==
    /\ call[c].pc = "sent" /\ call[c].tok \in stale \cup {Nil}
    /\ call' = [call EXCEPT ![c].pc = "denied"]
    /\ UNCHANGED <<held, showing, flight, sharing, logout, logins, server, lost>>

\* A call is left with its 401; boot() only knows once the body is read.
Unanswered(c) == IF call[c].boot THEN [call[c] EXCEPT !.pc = "failing"] ELSE NoCall

\* The catch of boot(), at the first of its calls that fails.
BootFailed(c) ==
    /\ ClearSession
    /\ call' = [d \in Call |-> IF d = c THEN NoCall ELSE [call[d] EXCEPT !.boot = FALSE]]

\* fetch rejects, or the call fails otherwise.
Broken(c) ==
    /\ call[c].pc \in {"sent", "failing"}
    /\ IF call[c].boot THEN BootFailed(c)
       ELSE call' = [call EXCEPT ![c] = NoCall] /\ UNCHANGED <<held, showing>>
    /\ UNCHANGED <<flight, sharing, logout, logins, server, lost>>

\* Fault: each call refreshes for itself.
MutJoin(c) ==
    /\ flight' = [flight EXCEPT ![c] = [tok |-> held, got |-> "none"]]
    /\ sharing' = c

\* refreshAccessToken: the refresh in flight is joined, or one is started.
Join(c) ==
    IF sharing # Nil THEN UNCHANGED <<flight, sharing>>
    ELSE /\ flight' = [flight EXCEPT ![c] = [tok |-> held, got |-> "none"]]
         /\ sharing' = c

\* The 401 arrives: refresh once, if there is a token to refresh with.
Handle401(c) ==
    /\ call[c].pc = "denied"
    /\ IF call[c].retry /\ held # Nil
         THEN call' = [call EXCEPT ![c].pc = "waiting"] /\ Join(c)
         ELSE call' = [call EXCEPT ![c] = Unanswered(c)] /\ UNCHANGED <<flight, sharing>>
    /\ UNCHANGED <<held, showing, logout, logins, server, lost>>

\* Server: the token is rotated when its session is open and still accepts it.
Accepts(t) == t.login \in alive /\ head[t.login] = t.n

Rotate(c) ==
    /\ flight[c] # Nil /\ flight[c].got = "none"
    /\ LET t == flight[c].tok IN
         IF Accepts(t)
           THEN /\ head' = [head EXCEPT ![t.login] = @ + 1]
                /\ flight' = [flight EXCEPT ![c].got = "ok"]
           ELSE flight' = [flight EXCEPT ![c].got = "no"] /\ UNCHANGED head
    /\ UNCHANGED <<held, showing, call, sharing, logout, logins, alive, stale, lost>>

\* The request or its response is lost: the catch returns false.
LoseRefresh(c) ==
    /\ flight[c] # Nil /\ flight[c].got \in {"none", "ok"}
    /\ flight' = [flight EXCEPT ![c].got = "no"]
    /\ lost' = lost \cup {flight[c].tok.login}
    /\ UNCHANGED <<held, showing, call, sharing, logout, logins, server>>

\* The calls that await the refresh of c.
Awaiting(c) == {d \in Call : call[d].pc = "waiting" /\ (sharing = c \/ d = c)}

\* Fault: setTokens keeps the refresh token it had.
MutNextPair(t) == t

\* setTokens: the pair the refresh returned.
NextPair(t) == [t EXCEPT !.n = t.n + 1]

\* The promise settles and is forgotten: those who wait repeat their request once, or sign out.
Land(c) ==
    /\ flight[c] # Nil /\ flight[c].got # "none"
    /\ flight' = [flight EXCEPT ![c] = Nil]
    /\ sharing' = Nil
    /\ IF flight[c].got = "ok"
         THEN /\ held' = NextPair(flight[c].tok)
              /\ call' = [d \in Call |-> IF d \notin Awaiting(c) THEN call[d] ELSE
                            [call[d] EXCEPT !.pc = "sent", !.tok = held', !.retry = FALSE]]
              /\ UNCHANGED showing
         ELSE /\ ClearSession
              /\ call' = [d \in Call |-> IF d \in Awaiting(c) THEN Unanswered(d) ELSE call[d]]
    /\ UNCHANGED <<logout, logins, server, lost>>

-----------------------------------------------------------------------------
\* logout(): the refresh token is posted; whatever comes of it, clearSession.
LogoutStart ==
    /\ showing = "app" /\ logout.at = "idle"
    /\ logout' = [at |-> IF held = Nil THEN "answered" ELSE "posted", tok |-> held]
    /\ UNCHANGED <<held, showing, call, flight, sharing, logins, server, lost>>

LogoutAnswered ==
    /\ logout.at = "posted"
    /\ logout' = [logout EXCEPT !.at = "answered"]
    /\ alive' \in {alive, alive \ {logout.tok.login}}
    /\ UNCHANGED <<held, showing, call, flight, sharing, logins, head, stale, lost>>

LogoutEnd ==
    /\ logout.at = "answered"
    /\ logout' = [at |-> "idle", tok |-> Nil]
    /\ ClearSession
    /\ UNCHANGED <<call, flight, sharing, logins, server, lost>>

\* The page is reloaded: only sessionStorage is left.  A refresh in flight may
\* or may not have reached the server.
Reload ==
    LET sent == {flight[c].tok : c \in {d \in Call : flight[d] # Nil /\ flight[d].got = "none"}}
        rotated == {t.login : t \in {u \in sent : Accepts(u)}}
    IN
    /\ showing # "auth"
    /\ call' = [c \in Call |-> NoCall] /\ flight' = [c \in Call |-> Nil]
    /\ sharing' = Nil /\ logout' = [at |-> "idle", tok |-> Nil]
    /\ showing' = IF held = Nil THEN "auth" ELSE "boot"
    /\ \E arrived \in SUBSET rotated :
         head' = [s \in Login |-> IF s \in arrived THEN head[s] + 1 ELSE head[s]]
    /\ lost' = lost \cup {flight[c].tok.login : c \in {d \in Call : flight[d] # Nil}}
    /\ UNCHANGED <<held, logins, alive, stale>>

\* Server: an access token expires; a session expires or is revoked elsewhere.
Expire ==
    /\ Cardinality(stale) < MaxExpiries
    /\ \E s \in Login : stale' = stale \cup {[login |-> s, n |-> head[s]]}
    /\ UNCHANGED <<client, head, alive, lost>>

Close == /\ \E s \in alive : alive' = alive \ {s}
         /\ UNCHANGED <<client, head, stale, lost>>

SessionNext ==
    \/ \E c \in Call : \/ Fetch(c) \/ Served(c) \/ Denied(c) \/ Broken(c) \/ Handle401(c)
                       \/ Rotate(c) \/ LoseRefresh(c) \/ Land(c)
    \/ Authenticate \/ LogoutStart \/ LogoutAnswered \/ LogoutEnd
    \/ Reload \/ Expire \/ Close

SessionSpec == SessionInit /\ [][SessionNext]_sessionVars

-----------------------------------------------------------------------------
\* Calls that find their token expired at the same time share one refresh: the tab
\* never signs itself out by presenting a token it has already spent.  It does so
\* only for a logout, a call of boot() that fails, a closed session, a lost response or
\* (app.js:98 does not ask which login it was for) the refresh of an earlier login.
SignedOutForAReason ==
    [][held # Nil /\ held' = Nil =>
         \/ logout.at = "answered" \/ \E c \in Call : /\ call[c].boot /\ ~call'[c].boot
                            /\ call[c].pc \in {"sent", "failing"}
         \/ held.login \in lost \/ held.login \notin alive
         \/ \E c \in Call : /\ flight[c] # Nil /\ flight'[c] = Nil
                            /\ flight[c].tok.login # held.login]_sessionVars

\* Once a refresh has landed the tab holds the token its session accepts, unless a
\* response was lost: late 401s, reloads and repeated calls leave none behind.
HoldsTheHead ==
    held # Nil /\ held.login \in alive /\ held.login \notin lost
    /\ (\A c \in Call : flight[c] = Nil) => head[held.login] = held.n

\* "local logout still proceeds" (MyAgent-Web/app.js:195): a tab that shows the
\* sign-in view holds no tokens.
LogoutLeavesNoTokens == showing = "auth" => held = Nil
==============================================================================

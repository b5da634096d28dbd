---------------------------- MODULE AuthSessions ----------------------------
(***************************************************************************)
(* Registration, login, refresh-token rotation and logout of the engine    *)
(* (services/auth_service.py over repositories/sql_repositories.py and     *)
(* core/security/jwt.py), served concurrently.                             *)
(*                                                                         *)
(* A request is a process of Req.  Each of its steps is the code between   *)
(* two awaits; its transaction is invisible to the others until it         *)
(* commits, and a row written by an uncommitted transaction is locked      *)
(* (PostgreSQL locks the row, SQLite the database: fewer interleavings).   *)
(* Reads see committed rows.                                               *)
(*                                                                         *)
(* Every random id drawn by a request (session id, jti) is named by the    *)
(* serial number of the request: a request draws at most one of each.  The *)
(* fingerprint of a token is its jti, SHA-256 being injective on the       *)
(* tokens the server signs.                                                *)
(***************************************************************************)
EXTENDS Naturals

CONSTANTS Req,           \* request slots served at the same time
          User,          \* accounts, named by their lower-cased email
          MaxRequests,   \* bound: requests received in a behaviour
          MaxTime,       \* bound: the clock
          RefreshLife,   \* refresh_token_expire_days, in clock units
          None           \* no request, no user

ASSUME BoundsAssumption == MaxRequests \in Nat /\ MaxTime \in Nat
ASSUME LifeAssumption   == RefreshLife \in Nat \ {0}
ASSUME NoneAssumption   == None \notin Req /\ None \notin User

VARIABLES users,      \* committed table users: is_active per email
          sess,       \* committed table refresh_sessions
          rowLock,    \* request whose open transaction wrote the session row
          emailLock,  \* request whose open transaction inserted the user
          clock,      \* datetime.now(UTC)
          received,   \* requests received so far
          delivered,  \* refresh tokens some client has received
          spent,      \* history: committed rotations, and whether the
                      \* account was still active at the commit
          pc, serial, tok, who, now, exp, answer   \* locals of each request

db   == <<users, sess, rowLock, emailLock>>
env  == <<clock, received, delivered, spent>>
args == <<serial, tok, who>>
vars == <<db, env, args, pc, now, exp, answer>>

Serial == 0..MaxRequests
Time   == 0..(MaxTime + RefreshLife)

Row   == [state: {"absent", "open", "revoked"}, user: User \cup {None},
          hash: Serial, exp: Time]
Token == [sid: Serial, sub: User \cup {None}, jti: Serial, exp: Time]
Spent == [sid: Serial, old: Serial, new: Serial,
          owner: {"active", "inactive"}]

NoRow   == [state |-> "absent", user |-> None, hash |-> 0, exp |-> 0]
NoToken == [sid |-> 0, sub |-> None, jti |-> 0, exp |-> 0]

Refreshing  == {"refreshLoad", "refreshUser", "refreshRotate", "refreshCommit"}
LoggingOut  == {"logoutLoad", "logoutRevoke", "logoutCommit"}
LoggingIn   == {"loginLoad", "loginCommit"}
Registering == {"registerCheck", "registerInsert", "registerCommit"}
Working     == Refreshing \cup LoggingOut \cup LoggingIn \cup Registering
Pc          == Working \cup {"idle", "answer"}
Answer == {"none", "tokens", "noContent", "unauthorized", "invalid",
           "serverError"}

TypeOK ==
    /\ users     \in [User -> {"absent", "active", "disabled"}]
    /\ sess      \in [Serial -> Row]
    /\ rowLock   \in [Serial -> Req \cup {None}]
    /\ emailLock \in [User -> Req \cup {None}]
    /\ clock     \in 0..MaxTime
    /\ received  \in Serial
    /\ delivered \subseteq Token
    /\ spent     \subseteq Spent
    /\ pc        \in [Req -> Pc]
    /\ serial    \in [Req -> Serial]
    /\ tok       \in [Req -> Token]
    /\ who       \in [Req -> User \cup {None}]
    /\ now       \in [Req -> 0..MaxTime]
    /\ exp       \in [Req -> Time]
    /\ answer    \in [Req -> Answer]

Init ==
    /\ users \in [User -> {"absent", "active"}]
    /\ sess = [s \in Serial |-> NoRow]
    /\ rowLock = [s \in Serial |-> None]
    /\ emailLock = [u \in User |-> None]
    /\ clock = 0 /\ received = 0
    /\ delivered = {} /\ spent = {}
    /\ pc = [r \in Req |-> "idle"]
    /\ serial = [r \in Req |-> 0]
    /\ tok = [r \in Req |-> NoToken]
    /\ who = [r \in Req |-> None]
    /\ now = [r \in Req |-> 0]
    /\ exp = [r \in Req |-> 0]
    /\ answer = [r \in Req |-> "none"]

-----------------------------------------------------------------------------
(* Steps common to all handlers *)

Goto(r, from, to) == pc[r] = from /\ pc' = [pc EXCEPT ![r] = to]

\* The handler returns or raises: the response is on its way.
Reply(r, from, what) ==
    /\ Goto(r, from, "answer")
    /\ answer' = [answer EXCEPT ![r] = what]

\* A check: go on to the next await, or raise.
Check(r, from, ok, to, refusal) ==
    /\ pc[r] = from
    /\ IF ok THEN Goto(r, from, to) /\ UNCHANGED answer
             ELSE Reply(r, from, refusal)

\* A request arrives, carrying token t or naming account u.
Receive(r, first, t, u) ==
    /\ received < MaxRequests
    /\ Goto(r, "idle", first)
    /\ received' = received + 1
    /\ serial' = [serial EXCEPT ![r] = received + 1]
    /\ tok' = [tok EXCEPT ![r] = t]
    /\ who' = [who EXCEPT ![r] = u]

\* TokenService.decode: the JWT is refused from its exp claim onwards.
Decodes(t) == clock < t.exp

\* A refresh or a logout, with a token some client holds or replays.
ReceiveToken(r, first) ==
    /\ \E t \in delivered :
         IF Decodes(t)
           THEN Receive(r, first, t, t.sub) /\ UNCHANGED answer
           ELSE /\ Receive(r, "answer", t, t.sub)
                /\ answer' = [answer EXCEPT ![r] = "unauthorized"]
    /\ UNCHANGED <<db, clock, delivered, spent, now, exp>>

\* A login or a registration.
ReceiveEmail(r, first) ==
    /\ \E u \in User : Receive(r, first, NoToken, u)
    /\ UNCHANGED <<db, clock, delivered, spent, now, exp, answer>>

\* The refresh token create_pair signs for this request.
Minted(r, sid) == [sid |-> sid, sub |-> who[r], jti |-> serial[r],
                   exp |-> exp[r]]

\* The session a request's tokens belong to: the one it presents, or a new
\* one named by the request itself.
SidOf(r) == IF tok[r] = NoToken THEN serial[r] ELSE tok[r].sid

\* _save_refresh_session: the row inserted for a new pair.
NewRow(r) == [state |-> "open", user |-> who[r], hash |-> serial[r],
              exp |-> exp[r]]

\* The request is over: its slot is free.
Clear(r) ==
    /\ pc'     = [pc EXCEPT ![r] = "idle"]
    /\ serial' = [serial EXCEPT ![r] = 0]
    /\ tok'    = [tok EXCEPT ![r] = NoToken]
    /\ who'    = [who EXCEPT ![r] = None]
    /\ now'    = [now EXCEPT ![r] = 0]
    /\ exp'    = [exp EXCEPT ![r] = 0]
    /\ answer' = [answer EXCEPT ![r] = "none"]

\* Fault: the transaction of a finished request is left open.
MutUnlockNone(r) == UNCHANGED rowLock

\* The end of a transaction releases the rows it wrote.
UnlockRows(r)   == rowLock' = [s \in Serial |->
                                 IF rowLock[s] = r THEN None ELSE rowLock[s]]
UnlockEmails(r) == emailLock' = [u \in User |->
                                   IF emailLock[u] = r THEN None ELSE emailLock[u]]

-----------------------------------------------------------------------------
(* AuthService.refresh *)

ReceiveRefresh(r) == ReceiveToken(r, "refreshLoad")

\* The checks made on the row that sessions.get returned.
Presentable(t, row, time) ==
    /\ row.state = "open"
    /\ time < row.exp
    /\ t.sub = row.user
    /\ row.hash = t.jti

\* sessions.get, then `now` and the checks, with no await in between.
RefreshLoad(r) ==
    /\ now' = [now EXCEPT ![r] = clock]
    /\ Check(r, "refreshLoad", Presentable(tok[r], sess[tok[r].sid], clock),
             "refreshUser", "unauthorized")
    /\ UNCHANGED <<db, env, args, exp>>

\* Fault: the account is not read again.
MutRefreshUserUnchecked(r) ==
    /\ Goto(r, "refreshUser", "refreshRotate")
    /\ exp' = [exp EXCEPT ![r] = clock + RefreshLife]
    /\ UNCHANGED <<db, env, args, now, answer>>

\* users.get, the is_active check and create_pair.
RefreshUser(r) ==
    /\ Check(r, "refreshUser", users[who[r]] = "active",
             "refreshRotate", "unauthorized")
    /\ exp' = [exp EXCEPT ![r] = clock + RefreshLife]
    /\ UNCHANGED <<db, env, args, now>>

\* Fault: rotation without the compare of compare-and-swap.
MutRotatableBlind(t, row, time) == row.state = "open" /\ time < row.exp

\* Fault: the WHERE clause forgets revoked_at.
MutRotatableRevoked(t, row, time) == row.hash = t.jti /\ time < row.exp

\* The WHERE clause of rotate_if_active, on the current row.
Rotatable(t, row, time) ==
    /\ row.hash = t.jti
    /\ row.state = "open"
    /\ time < row.exp

\* rotate_if_active: the UPDATE waits for the row, then writes it or not;
\* `if not rotated` rolls back and raises.
RefreshRotate(r) ==
    /\ rowLock[tok[r].sid] = None
    /\ LET ok == Rotatable(tok[r], sess[tok[r].sid], now[r]) IN
         /\ Check(r, "refreshRotate", ok, "refreshCommit", "unauthorized")
         /\ rowLock' = [rowLock EXCEPT ![tok[r].sid] = IF ok THEN r ELSE None]
    /\ UNCHANGED <<users, sess, emailLock, env, args, now, exp>>

\* Fault: expires_at is not part of the UPDATE.
MutRotatedOldExpiry(r, row) ==
    [state |-> row.state, user |-> row.user, hash |-> serial[r], exp |-> row.exp]

\* The SET clause of rotate_if_active.
Rotated(r, row) ==
    [state |-> row.state, user |-> row.user, hash |-> serial[r], exp |-> exp[r]]

\* For the history only: is the account still active at the commit?
Owner(r) == IF users[who[r]] = "active" THEN "active" ELSE "inactive"

\* _record and session.commit: the rotation becomes visible.
RefreshCommit(r) ==
    /\ Reply(r, "refreshCommit", "tokens")
    /\ sess' = [sess EXCEPT ![tok[r].sid] = Rotated(r, @)]
    /\ spent' = spent \cup {[sid |-> tok[r].sid, old |-> tok[r].jti,
                             new |-> serial[r],
                             owner |-> Owner(r)]}
    /\ UnlockRows(r)
    /\ UNCHANGED <<users, emailLock, clock, received, delivered, args, now, exp>>

-----------------------------------------------------------------------------
(* AuthService.logout *)

ReceiveLogout(r) == ReceiveToken(r, "logoutLoad")

\* sessions.get: neither the fingerprint nor the expiry of the row is looked at.
LogoutLoad(r) ==
    /\ Check(r, "logoutLoad", sess[tok[r].sid].state = "open",
             "logoutRevoke", "noContent")
    /\ UNCHANGED <<db, env, args, now, exp>>

\* sessions.revoke: UPDATE ... SET revoked_at WHERE id, whatever the row holds.
LogoutRevoke(r) ==
    /\ rowLock[tok[r].sid] = None
    /\ Goto(r, "logoutRevoke", "logoutCommit")
    /\ rowLock' = [rowLock EXCEPT ![tok[r].sid] = r]
    /\ UNCHANGED <<users, sess, emailLock, env, args, now, exp, answer>>

\* Fault: only a row that still holds the presented token is revoked.
MutRevokedCurrent(r, row) ==
    IF row.hash # tok[r].jti THEN row ELSE
    [state |-> "revoked", user |-> row.user, hash |-> row.hash, exp |-> row.exp]

\* The SET clause of revoke.
Revoked(r, row) ==
    [state |-> "revoked", user |-> row.user, hash |-> row.hash, exp |-> row.exp]

LogoutCommit(r) ==
    /\ Reply(r, "logoutCommit", "noContent")
    /\ sess' = [sess EXCEPT ![tok[r].sid] = Revoked(r, @)]
    /\ UnlockRows(r)
    /\ UNCHANGED <<users, emailLock, env, args, now, exp>>

-----------------------------------------------------------------------------
(* AuthService.login *)

ReceiveLogin(r) == ReceiveEmail(r, "loginLoad")

\* get_by_email, the password and is_active checks, create_pair.
LoginLoad(r) ==
    /\ \E passwordMatches \in BOOLEAN :
         Check(r, "loginLoad", users[who[r]] = "active" /\ passwordMatches,
               "loginCommit", "unauthorized")
    /\ exp' = [exp EXCEPT ![r] = clock + RefreshLife]
    /\ UNCHANGED <<db, env, args, now>>

\* The INSERT of a row nobody else can name, _record and commit.
LoginCommit(r) ==
    /\ Reply(r, "loginCommit", "tokens")
    /\ sess' = [sess EXCEPT ![serial[r]] = NewRow(r)]
    /\ UNCHANGED <<users, rowLock, emailLock, env, args, now, exp>>

-----------------------------------------------------------------------------
(* AuthService.register *)

ReceiveRegister(r) == ReceiveEmail(r, "registerCheck")

\* get_by_email, then the checks and the hashing of the password.
RegisterCheck(r) ==
    /\ \E valid \in BOOLEAN :
         Check(r, "registerCheck", users[who[r]] = "absent" /\ valid,
               "registerInsert", "invalid")
    /\ UNCHANGED <<db, env, args, now, exp>>

\* users.add flushes: the INSERT waits for another uncommitted INSERT of the
\* email.  The IntegrityError of a duplicate is raised here, outside the try
\* around commit, and reaches the handler of unexpected exceptions.
RegisterInsert(r) ==
    /\ LET ok == users[who[r]] = "absent" IN
         /\ Check(r, "registerInsert", ok, "registerCommit", "serverError")
         /\ emailLock[who[r]] = None
         /\ emailLock' = [emailLock EXCEPT ![who[r]] = IF ok THEN r ELSE None]
    /\ exp' = [exp EXCEPT ![r] = clock + RefreshLife]
    /\ UNCHANGED <<users, sess, rowLock, env, args, now>>

\* The user, its first refresh session and the audit row commit together.
RegisterCommit(r) ==
    /\ Reply(r, "registerCommit", "tokens")
    /\ users' = [users EXCEPT ![who[r]] = "active"]
    /\ sess' = [sess EXCEPT ![serial[r]] = NewRow(r)]
    /\ UnlockEmails(r)
    /\ UNCHANGED <<rowLock, env, args, now, exp>>

-----------------------------------------------------------------------------
(* Responses, failures and the environment *)

\* The response reaches the client, with the refresh token it carries.
Deliver(r) ==
    /\ pc[r] = "answer"
    /\ Clear(r)
    /\ delivered' = IF answer[r] = "tokens"
                      THEN delivered \cup {Minted(r, SidOf(r))}
                      ELSE delivered
    /\ UNCHANGED <<db, clock, received, spent>>

\* The handler is cancelled, its connection or the process fails, or the
\* response is lost: get_session closes the session, which rolls back.
Abort(r) ==
    /\ pc[r] # "idle"
    /\ Clear(r)
    /\ UnlockRows(r) /\ UnlockEmails(r)
    /\ UNCHANGED <<users, sess, env>>

\* An operator clears users.is_active; no handler does.
Disable(u) ==
    /\ users[u] = "active"
    /\ users' = [users EXCEPT ![u] = "disabled"]
    /\ UNCHANGED <<sess, rowLock, emailLock, env, args, pc, now, exp, answer>>

Tick ==
    /\ clock < MaxTime
    /\ clock' = clock + 1
    /\ UNCHANGED <<db, received, delivered, spent, args, pc, now, exp, answer>>

Steps(r) ==
    \/ RefreshLoad(r)   \/ RefreshUser(r)    \/ RefreshRotate(r)
    \/ RefreshCommit(r) \/ LogoutLoad(r)     \/ LogoutRevoke(r)
    \/ LogoutCommit(r)  \/ LoginLoad(r)      \/ LoginCommit(r)
    \/ RegisterCheck(r) \/ RegisterInsert(r) \/ RegisterCommit(r)
    \/ Deliver(r)

Next ==
    \/ \E r \in Req : \/ Steps(r) \/ Abort(r)
                      \/ ReceiveRefresh(r) \/ ReceiveLogout(r)
                      \/ ReceiveLogin(r)   \/ ReceiveRegister(r)
    \/ \E u \in User : Disable(u)
    \/ Tick

Spec == Init /\ [][Next]_vars

\* The event loop resumes every coroutine whose await is over, and the
\* database serves the waiters of a lock in turn; nothing forces a client to
\* send, a session to be aborted or an account to be disabled.
Fairness == \A r \in Req : /\ WF_vars(Steps(r))
                           /\ SF_vars(RefreshRotate(r))
                           /\ SF_vars(LogoutRevoke(r))
                           /\ SF_vars(RegisterInsert(r))

FairSpec == Spec /\ Fairness

-----------------------------------------------------------------------------
(* Properties *)

\* One winner: whatever the interleaving of concurrent refreshes, a refresh
\* token is redeemed at most once (docs/SECURITY.md, "Concurrent use allows
\* one winner only").
OneWinner == \A x, y \in spent : x.old = y.old => x = y

\* A losing or lost refresh never invalidates the winner: a delivered token
\* is still the one its session accepts unless it was itself redeemed, and a
\* token on its way to its client is always the one its session accepts.
WinnerKeepsSession ==
    /\ \A t \in delivered : \/ sess[t.sid].hash = t.jti
                             \/ \E x \in spent : x.old = t.jti
    /\ \A r \in Req : answer[r] = "tokens" =>
                        sess[SidOf(r)].hash = serial[r]

\* The row of a session and the token it accepts expire together, so that
\* neither check of the expiry (the claim, the column) outlives the other.
RowExpiresWithItsToken ==
    \A t \in delivered : sess[t.sid].hash = t.jti => sess[t.sid].exp = t.exp

\* A logout that was answered 204 has revoked the session, whichever of its
\* tokens it presented and whatever refresh it raced with.
LogoutIsFinal ==
    \A r \in Req : answer[r] = "noContent" => sess[tok[r].sid].state = "revoked"

\* A disabled account gets at most one more rotation per session, the one
\* whose handler had already passed the is_active check.
OneLateRotation ==
    \A x, y \in spent :
        x.owner = "inactive" /\ y.owner = "inactive" /\ x.sid = y.sid => x = y

\* Once revoked a session never changes again: a refresh in flight cannot
\* bring it back nor give it a new token.
RevokedIsFrozen ==
    [][\A s \in Serial : sess[s].state = "revoked" => sess'[s] = sess[s]]_vars

\* What the sessions promise whoever holds their tokens: see TokenLedger.
Ledger == INSTANCE TokenLedger WITH
    Session  <- Serial,
    Token    <- Serial,
    state    <- [s \in Serial |-> sess[s].state],
    head     <- [s \in Serial |-> sess[s].hash],
    redeemed <- {x.old : x \in spent}
LedgerSpec == Ledger!Spec

\* Every request that arrives is answered: no transaction waits forever for
\* a row another one wrote.
EveryRequestEnds == \A r \in Req : pc[r] # "idle" ~> pc[r] = "idle"
=============================================================================

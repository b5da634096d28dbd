------------------------------- MODULE MobileApp -------------------------------
(***************************************************************************)
(* MyAgent-Mobile/lib: the Flutter client.  Its controllers run as tasks   *)
(* that await API calls; ApiClient refreshes an expired token once for all *)
(* of them and repeats their calls; the chat controller drops what returns *)
(* after the view has changed; the app may be killed at any point and      *)
(* finds only the token store again.  One user is modelled; the spinner of *)
(* state.loading, which guards nothing, is not.                            *)
(***************************************************************************)
EXTENDS Naturals, FiniteSets

CONSTANTS Conv,        \* conversation ids; bound: those that are ever created
          Old,         \* those that exist at first
          Id,          \* bound: the tasks that are ever started
          MaxViews,    \* bound: _viewRevision
          MaxLogins,   \* bound
          MaxExpiries, \* bound: access tokens that expire
          None

Key    == {"access", "refresh"}      \* of the token store
Login  == 1..MaxLogins
Token  == [login: Login, n: Nat]     \* the n-th pair of a login
Flight == [tok: Token \cup {None}, got: {"reading", "none", "ok", "no"}, written: SUBSET Key]
Entry  == [tok: Token, written: SUBSET Key]

ASSUME MobileAssumption ==
    /\ {MaxViews, MaxLogins, MaxExpiries} \subseteq Nat
    /\ Old \subseteq Conv /\ Conv \cap Id = {}
    /\ None \notin Conv \cup Id \cup Token \cup Flight \cup Entry

VARIABLES
    status,      \* AuthStatus: "initial", "loading", "in" or "out"
    store,       \* TokenStore: the access and the refresh token
    flight,      \* _refreshing: the token that is redeemed, and the outcome
    entry,       \* the login whose tokens are being saved
    task,        \* the tasks
    conv,        \* state.conversationId
    shown,       \* whose messages are in state.messages: of conversations, and the
                 \* questions of sends that the engine has not stored yet
    sending,     \* state.sending
    rev,         \* _viewRevision
    loaded,      \* history: the messages are those of the current view
    stray,       \* history: conversations whose first answer failed to arrive
    logins,      \* sessions opened so far
    head, alive, \* engine: the token each session accepts, and the open ones
    stale,       \* engine: access tokens past their exp
    saved, gone, \* engine: conversations that exist, and that were deleted
    lost         \* history: sessions whose newest token may not have been stored

screen == <<conv, shown, loaded, stray>>
chat   == <<screen, sending, rev>>
server == <<head, alive, stale, saved, gone>>
vars   == <<status, store, flight, entry, task, chat, logins, server, lost>>

NoPair     == [k \in Key |-> None]
Renewed(t) == [t EXCEPT !.n = @ + 1]

Kind == {"restore", "initialize", "open", "send", "delete", "logout"}
Task == [kind: Kind \cup {None},
         at: {"none", "call", "waiting", "over"},
         arg: Conv \cup {None},     \* the conversation it is about
         step: {"first", "done", "second"},  \* of a send or a deletion: the engine has
                                    \* done it; the conversations are listed
         rev: 0..MaxViews,          \* revision
         tok: Token \cup {None},    \* the token its call carries
         valid: BOOLEAN,            \* which was valid when it was sent
         retried: BOOLEAN]          \* extra['retried']
NoTask == [kind |-> None, at |-> "none", arg |-> None, step |-> "first", rev |-> 0,
           tok |-> None, valid |-> FALSE, retried |-> FALSE]
Gone   == [NoTask EXCEPT !.at = "over"]

Init ==
    /\ status = "initial" /\ store = NoPair /\ flight = None /\ entry = None
    /\ task = [n \in Id |-> NoTask]
    /\ conv = None /\ shown = {} /\ rev = 0
    /\ sending = FALSE /\ loaded = TRUE /\ stray = {}
    /\ logins = 0 /\ head = [s \in Login |-> 0] /\ alive = {} /\ stale = {}
    /\ saved = Old /\ gone = {} /\ lost = {}

-----------------------------------------------------------------------------
(* Starting tasks *)

\* onRequest: a call carries the access token in the store.
Sent(t) == [t EXCEPT !.at = "call", !.tok = store["access"],
                     !.valid = store["access"] \notin stale \cup {None}]

Started(kind, arg, revision) ==
    Sent([NoTask EXCEPT !.kind = kind, !.arg = arg, !.rev = revision])

Begin(n, kind, arg, revision) ==
    /\ task[n].at = "none"
    /\ task' = [task EXCEPT ![n] = Started(kind, arg, revision)]

\* The messages are cleared, and the view is another one.
Revise  == rev < MaxViews /\ rev' = rev + 1
Cleared == conv' = None /\ shown' = {} /\ loaded' = TRUE /\ stray' = {}
Reset   == Revise /\ Cleared /\ sending' = FALSE

\* The button of the composer is there and enabled.
CanSend == status = "in" /\ ~sending

\* restoreSession, as the app starts.
Restore(n) ==
    /\ status = "initial"
    /\ IF store["access"] = None THEN status' = "out" /\ UNCHANGED task
       ELSE Begin(n, "restore", None, rev) /\ status' = "loading"
    /\ UNCHANGED <<store, flight, entry, chat, logins, server, lost>>

\* login, register: a session is opened, and _save begins.  Bound: one at a time.
Authenticate ==
    /\ status = "out" /\ logins < MaxLogins /\ entry = None
    /\ logins' = logins + 1 /\ alive' = alive \cup {logins + 1}
    /\ entry' = [tok |-> [login |-> logins + 1, n |-> 0], written |-> {}]
    /\ status' = "loading"
    /\ UNCHANGED <<store, flight, task, chat, head, stale, saved, gone, lost>>

SaveLogin(k) ==
    /\ entry # None /\ k \in Key \ entry.written
    /\ store' = [store EXCEPT ![k] = entry.tok]
    /\ entry' = [entry EXCEPT !.written = @ \cup {k}]
    /\ UNCHANGED <<status, flight, task, chat, logins, server, lost>>

Authenticated ==
    /\ entry # None /\ entry.written = Key /\ entry' = None
    /\ status' = "in"
    /\ UNCHANGED <<store, flight, task, chat, logins, server, lost>>

\* initialize: the conversations and the providers, at once.
Initialize(m, n) ==
    /\ status = "in" /\ m # n /\ {task[m].at, task[n].at} = {"none"}
    /\ task' = [i \in Id |-> IF i \in {m, n} THEN Started("initialize", None, rev) ELSE task[i]]
    /\ UNCHANGED <<status, store, flight, entry, chat, logins, server, lost>>

OpenConversation(n, c) ==
    /\ status = "in" /\ c \in saved \cup gone
    /\ Revise /\ Begin(n, "open", c, rev + 1)
    /\ conv' = c /\ loaded' = FALSE
    /\ UNCHANGED <<status, store, flight, entry, shown, stray, sending, logins, server, lost>>

NewConversation ==
    /\ status = "in" /\ Revise /\ Cleared
    /\ UNCHANGED <<status, store, flight, entry, task, sending, logins, server, lost>>

\* The question is on the screen at once.
Send(n) ==
    /\ CanSend
    /\ Begin(n, "send", conv, rev)
    /\ shown' = shown \cup {n} /\ sending' = TRUE
    /\ UNCHANGED <<status, store, flight, entry, conv, loaded, stray, rev, logins, server, lost>>

DeleteConversation(n, c) ==
    /\ status = "in" /\ c \in saved
    /\ Begin(n, "delete", c, rev)
    /\ UNCHANGED <<status, store, flight, entry, chat, logins, server, lost>>

\* The chat is reset, then the repository posts the refresh token.
Logout(n) ==
    /\ status = "in" /\ Reset
    /\ task[n].at = "none"
    /\ task' = [task EXCEPT ![n] = [Started("logout", None, rev + 1) EXCEPT
                                      !.tok = store["refresh"]]]
    /\ UNCHANGED <<status, store, flight, entry, logins, server, lost>>

-----------------------------------------------------------------------------
(* The calls *)

\* Fault: what returns late is shown.
MutCurrent(n) == TRUE

Current(n) == task[n].rev = rev

\* Tasks fail together, after the store was cleared or not.  A question that was not
\* stored is of no conversation; one that was, and whose answer fails to arrive or to
\* be listed, stays on the screen of a view that does not know its conversation.
Fail(S, clear) ==
    LET asking == {n \in S : task[n].kind = "send" /\ Current(n)}
        restoring == \E n \in S : task[n].kind = "restore"
    IN
    /\ task' = [n \in Id |-> IF n \in S THEN Gone ELSE task[n]]
    /\ sending' = (sending /\ asking = {})
    /\ shown' = shown \ S
    /\ stray' = stray \cup {task[n].arg : n \in {m \in asking : task[m].step # "first"}}
    /\ status' = IF restoring THEN "out" ELSE status
    /\ store' = IF clear \/ restoring THEN NoPair ELSE store
    /\ UNCHANGED <<conv, rev, loaded>>

\* A call fails for any reason but a 401; a repeated one is in onError's try, whose
\* catch clears the store.
Broken(n) ==
    /\ task[n].at = "call" /\ task[n].kind # "logout"
    /\ Fail({n}, task[n].retried)
    /\ UNCHANGED <<flight, entry, logins, server, lost>>

\* Fault: every 401 starts a refresh.
MutJoin == flight' = [tok |-> None, got |-> "reading", written |-> {}]

\* _refreshAccessToken: the refresh in flight, or a new one.
Join == flight' = IF flight # None THEN flight
                  ELSE [tok |-> None, got |-> "reading", written |-> {}]

\* onError: a 401 arrives.  The call had no token, or one that has expired by now.
Denied(n) ==
    /\ task[n].at = "call" /\ task[n].kind # "logout" /\ task[n].step # "done"
    /\ stale' = stale \cup ({task[n].tok} \ {None}) /\ Cardinality(stale') <= MaxExpiries
    /\ IF ~task[n].retried
         THEN /\ task' = [task EXCEPT ![n] = [@ EXCEPT !.at = "waiting", !.tok = None,
                                                       !.valid = FALSE]]
              /\ Join
              /\ UNCHANGED <<status, store, chat>>
         ELSE Fail({n}, TRUE) /\ UNCHANGED flight
    /\ UNCHANGED <<entry, logins, head, alive, saved, gone, lost>>

Waiting == {n \in Id : task[n].at = "waiting"}

\* _performRefresh has read its token; without one those who wait fail, and clear nothing.
Read ==
    /\ flight # None /\ flight.got = "reading"
    /\ IF store["refresh"] # None
         THEN /\ flight' = [flight EXCEPT !.tok = store["refresh"], !.got = "none"]
              /\ UNCHANGED <<status, store, task, chat>>
         ELSE flight' = None /\ Fail(Waiting, FALSE)
    /\ UNCHANGED <<entry, logins, server, lost>>

Accepted(t) == t.login \in alive /\ head[t.login] = t.n

\* Engine: the token is rotated if its session accepts it.
Rotate ==
    /\ flight # None /\ flight.got = "none" /\ Accepted(flight.tok)
    /\ head' = [head EXCEPT ![flight.tok.login] = @ + 1]
    /\ flight' = [flight EXCEPT !.got = "ok"]
    /\ UNCHANGED <<status, store, entry, task, chat, logins, alive, stale, saved, gone, lost>>

\* Engine: it does not, or the session has been closed or has expired by now.
Refuse ==
    /\ flight # None /\ flight.got = "none"
    /\ flight' = [flight EXCEPT !.got = "no"]
    /\ alive' = IF Accepted(flight.tok) THEN alive \ {flight.tok.login} ELSE alive
    /\ UNCHANGED <<status, store, entry, task, chat, logins, head, stale, saved, gone, lost>>

\* The request or its response is lost.
Lose ==
    /\ flight # None /\ flight.got \in {"none", "ok"} /\ flight.written = {}
    /\ flight' = [flight EXCEPT !.got = "no"]
    /\ lost' = lost \cup {flight.tok.login}
    /\ UNCHANGED <<status, store, entry, task, chat, logins, server>>

\* TokenStore.save: two writes, in either order.
SaveRenewed(k) ==
    /\ flight # None /\ flight.got = "ok" /\ k \in Key \ flight.written
    /\ store' = [store EXCEPT ![k] = Renewed(flight.tok)]
    /\ flight' = [flight EXCEPT !.written = @ \cup {k}]
    /\ UNCHANGED <<status, entry, task, chat, logins, server, lost>>

Repeated(t, tok) == [t EXCEPT !.at = "call", !.tok = tok, !.valid = tok \notin stale,
                              !.retried = TRUE]

\* The refresh completes: those who wait repeat their calls, or fail and clear the store.
Land ==
    /\ flight # None /\ flight' = None
    /\ \/ /\ flight.got = "ok" /\ flight.written = Key
          /\ task' = [n \in Id |-> IF n \in Waiting THEN Repeated(task[n], Renewed(flight.tok))
                                  ELSE task[n]]
          /\ UNCHANGED <<status, store, chat>>
       \/ flight.got = "no" /\ Fail(Waiting, TRUE)
    /\ UNCHANGED <<entry, logins, server, lost>>

-----------------------------------------------------------------------------
(* Answered calls *)

Answered(n, kind) == task[n].at = "call" /\ task[n].valid /\ task[n].kind = kind
Over(n) == task' = [task EXCEPT ![n] = Gone]

Restored(n) ==
    /\ Answered(n, "restore") /\ Over(n) /\ status' = "in"
    /\ UNCHANGED <<store, flight, entry, chat, logins, server, lost>>

Initialized(n) ==
    /\ Answered(n, "initialize") /\ Over(n)
    /\ UNCHANGED <<status, store, flight, entry, chat, logins, server, lost>>

Opened(n) ==
    /\ Answered(n, "open") /\ task[n].arg \in saved /\ Over(n)
    /\ IF Current(n) /\ conv = task[n].arg
         THEN shown' = {conv} /\ loaded' = TRUE /\ stray' = {}
         ELSE UNCHANGED <<shown, loaded, stray>>
    /\ UNCHANGED <<status, store, flight, entry, conv, sending, rev, logins, server, lost>>

FreshId == CHOOSE c \in Conv : c \notin saved \cup gone

Done(n, c) == task' = [task EXCEPT ![n] = [@ EXCEPT !.step = "done", !.arg = c]]

\* Engine: POST /chat stores the question and its answer.
Store(n) ==
    /\ Answered(n, "send") /\ task[n].step = "first" /\ task[n].arg \in saved \cup {None}
    /\ task[n].arg = None => Conv # saved \cup gone
    /\ LET c == IF task[n].arg = None THEN FreshId ELSE task[n].arg IN
       /\ Done(n, c) /\ saved' = saved \cup {c}
       /\ shown' = IF n \in shown THEN (shown \ {n}) \cup {c} ELSE shown
    /\ UNCHANGED <<status, store, flight, entry, conv, loaded, stray, sending, rev, logins,
                   head, alive, stale, gone, lost>>

\* Engine: the conversation is deleted.
Delete(n) ==
    /\ Answered(n, "delete") /\ task[n].step = "first" /\ task[n].arg \in saved
    /\ Done(n, task[n].arg)
    /\ saved' = saved \ {task[n].arg} /\ gone' = gone \cup {task[n].arg}
    /\ UNCHANGED <<status, store, flight, entry, chat, logins, head, alive, stale, lost>>

\* The response arrives, and the conversations are listed: the task's second call.
List(n) ==
    /\ task[n].at = "call" /\ task[n].step = "done"
    /\ task' = [task EXCEPT ![n] = Sent([@ EXCEPT !.step = "second", !.retried = FALSE])]
    /\ UNCHANGED <<status, store, flight, entry, chat, logins, server, lost>>

Shown(n) ==
    /\ Answered(n, "send") /\ task[n].step = "second" /\ Over(n)
    /\ IF Current(n)
         THEN conv' = task[n].arg /\ shown' = shown \cup {task[n].arg} /\ sending' = FALSE
         ELSE UNCHANGED <<conv, shown, sending>>
    /\ UNCHANGED <<status, store, flight, entry, loaded, stray, rev, logins, server, lost>>

Removed(n) ==
    /\ Answered(n, "delete") /\ task[n].step = "second" /\ Over(n)
    /\ IF Current(n) /\ conv = task[n].arg THEN Revise /\ Cleared
       ELSE UNCHANGED <<screen, rev>>
    /\ UNCHANGED <<status, store, flight, entry, sending, logins, server, lost>>

\* logout: whatever came of the post, the tokens are cleared.
LoggedOut(n) ==
    /\ task[n].at = "call" /\ task[n].kind = "logout" /\ Over(n)
    /\ alive' \in {alive} \cup {alive \ {t.login} : t \in {task[n].tok} \ {None}}
    /\ store' = NoPair /\ status' = "out"
    /\ UNCHANGED <<flight, entry, chat, logins, head, stale, saved, gone, lost>>

-----------------------------------------------------------------------------
\* A task whose next failure, or whose end, clears the store: two deletes.
Clearing(n) ==
    \/ task[n].at = "call" /\ (task[n].retried \/ task[n].kind \in {"logout", "restore"})
    \/ task[n].at = "waiting" /\ flight # None /\ flight.got = "no"

\* The app is killed and started again, perhaps between the two deletes.  A refresh
\* on its way may or may not reach the engine.
Kill ==
    /\ status' = "initial" /\ flight' = None /\ entry' = None
    /\ task' = [n \in Id |-> IF task[n].at = "none" THEN NoTask ELSE Gone]
    /\ Cleared /\ sending' = FALSE /\ rev' = 0
    /\ \/ UNCHANGED store
       \/ (\E n \in Id : Clearing(n)) /\ \E k \in Key : store' = [store EXCEPT ![k] = None]
    /\ \/ UNCHANGED head
       \/ /\ flight # None /\ flight.got = "none" /\ Accepted(flight.tok)
          /\ head' = [head EXCEPT ![flight.tok.login] = @ + 1]
    /\ lost' = IF flight # None /\ flight.got \in {"none", "ok"} /\ "refresh" \notin flight.written
               THEN lost \cup {flight.tok.login} ELSE lost
    /\ UNCHANGED <<logins, alive, stale, saved, gone>>

Next ==
    \/ \E n \in Id :
         \/ Restore(n) \/ Send(n) \/ Logout(n) \/ \E m \in Id : Initialize(m, n)
         \/ Broken(n) \/ Denied(n) \/ Restored(n) \/ Initialized(n) \/ Opened(n)
         \/ Store(n) \/ Delete(n) \/ List(n) \/ Shown(n) \/ Removed(n) \/ LoggedOut(n)
         \/ \E c \in Conv : OpenConversation(n, c) \/ DeleteConversation(n, c)
    \/ \E k \in Key : SaveLogin(k) \/ SaveRenewed(k)
    \/ Authenticate \/ Authenticated \/ NewConversation
    \/ Read \/ Rotate \/ Refuse \/ Lose \/ Land \/ Kill

Spec == Init /\ [][Next]_vars

-----------------------------------------------------------------------------
(* Properties *)

\* A send of the current view is in progress.
Asking(n) == task[n].at \in {"call", "waiting"} /\ task[n].kind = "send" /\ Current(n)

\* Whatever is opened, deleted or answered late, the messages are those of the
\* conversation the next question goes to, or of the one that a question in progress
\* has just opened.  That is not so where a history was never shown, nor of a question
\* whose answer failed to arrive or to be listed (chat_controller.dart:130, 141): it
\* stays there, and the next question opens another conversation under it.
ScreenIsOneConversation ==
    loaded => \A c \in shown \cap Conv :
                 \/ c = conv \/ c \in stray
                 \/ conv = None /\ \E n \in Id : Asking(n) /\ task[n].arg = c

Ends(n) == task[n].at = "call" /\ task'[n].at = "over"

\* Tasks that find the token expired at the same time share one refresh: the app
\* never gives up its session because it presented a token it has already spent.  It
\* does so for a logout, a failed restore, a closed session, a refresh that was lost or
\* was of an earlier login, and (api_client.dart:40) for any failure of a repeated call,
\* wherever it is killed.
ClearedForAReason ==
    [][store["refresh"] # None /\ store'["refresh"] = None =>
         \/ \E n \in Id : Ends(n) /\ (task[n].retried \/ task[n].kind \in {"logout", "restore"})
         \/ store["refresh"].login \in lost \/ store["refresh"].login \notin alive
         \/ flight # None /\ flight.got = "no"
            /\ flight.tok.login # store["refresh"].login]_vars
==============================================================================

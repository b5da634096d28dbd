---------------------------- MODULE MobileAppProofs ----------------------------
(***************************************************************************)
(* What the mobile client guarantees for every number of tasks, logins,    *)
(* views, conversations and kills.                                         *)
(***************************************************************************)
EXTENDS MobileApp, TLAPS

TypeOK ==
    /\ status \in {"initial", "loading", "in", "out"}
    /\ store \in [Key -> Token \cup {None}]
    /\ flight \in Flight \cup {None} /\ entry \in Entry \cup {None}
    /\ task \in [Id -> Task]
    /\ conv \in Conv \cup {None} /\ shown \subseteq Conv \cup Id /\ rev \in 0..MaxViews
    /\ sending \in BOOLEAN /\ loaded \in BOOLEAN /\ stray \subseteq Conv
    /\ logins \in 0..MaxLogins /\ head \in [Login -> Nat]
    /\ alive \subseteq Login /\ stale \subseteq Token
    /\ saved \subseteq Conv /\ gone \subseteq Conv

Active(n) == task[n].at \in {"call", "waiting"}

\* No task is of a later view than the current one, and each that the engine has done
\* is about a conversation.
Dated == \A n \in Id : /\ Active(n) => task[n].rev <= rev
                       /\ task[n].step # "first" => task[n].arg \in Conv

\* One send at most is of the current view.  It asks for the conversation of that
\* view, or has opened one where there was none.
Composer ==
    \A n \in Id : Asking(n) =>
        /\ sending
        /\ \A m \in Id : Asking(m) => m = n
        /\ IF task[n].step = "first" THEN conv = task[n].arg ELSE conv \in {task[n].arg, None}

\* A question on the screen that is not stored yet was asked in the current view.
Asked == loaded => \A n \in shown \cap Id : Asking(n) /\ task[n].step = "first"

Of(t, s)    == t # None /\ t.login = s
Redeemed(s) == flight # None /\ Of(flight.tok, s)
Fresh(s)    == head[s] = 0 /\ ~Redeemed(s) /\ ~Of(store["refresh"], s)

\* A session that is not opened yet is at its first pair, and no token names it.
Unopened == \A s \in Login : s > logins => Fresh(s) /\ ~(entry # None /\ entry.tok.login = s)

\* Nor does one name a session whose refresh token is still to be saved.
Entering ==
    entry # None /\ "refresh" \notin entry.written =>
        entry.tok.n = 0 /\ Fresh(entry.tok.login)

\* How far the engine is with the refresh in flight, as long as its session is open
\* and no pair of it was lost.
Reached ==
    \A s \in alive \ lost : Redeemed(s) =>
        \/ flight.got = "none" /\ head[s] = flight.tok.n
        \/ flight.got = "ok" /\ head[s] = flight.tok.n + 1

\* What the refresh in flight has saved.
Written ==
    flight # None =>
        /\ flight.got = "reading" <=> flight.tok = None
        /\ flight.got # "ok" => flight.written = {}
        /\ "refresh" \in flight.written /\ Of(store["refresh"], flight.tok.login) =>
               store["refresh"] = Renewed(flight.tok)

\* The stored token is then the one its session accepts, unless the refresh in flight
\* is of that session.
Stored ==
    \A s \in alive \ lost : Of(store["refresh"], s) =>
        head[s] = store["refresh"].n \/ Redeemed(s)

ChatInv    == Dated /\ Composer /\ Asked /\ ScreenIsOneConversation
SessionInv == Unopened /\ Entering /\ Reached /\ Written /\ Stored

Inv == TypeOK /\ ChatInv /\ SessionInv

-----------------------------------------------------------------------------
(* Shapes *)

LEMMA BasicFacts ==
    /\ \A t \in Token : t # None /\ t.login \in Login /\ t.n \in Nat /\ Renewed(t) \in Token
                        /\ Renewed(t).login = t.login /\ Renewed(t).n = t.n + 1
    /\ \A f \in Flight : /\ f # None /\ f.tok \in Token \cup {None} /\ f.written \subseteq Key
                         /\ f.got \in {"reading", "none", "ok", "no"}
    /\ \A e \in Entry : e # None /\ e.tok \in Token /\ e.written \subseteq Key
    /\ \A s \in Login : [login |-> s, n |-> 0] \in Token
    /\ 0 \in 0..MaxViews /\ Login \subseteq Nat /\ "refresh" \in Key
<1>1. \A t \in Token : t # None /\ t.login \in Login /\ t.n \in Nat
  BY MobileAssumption DEF Token
<1>2. \A t \in Token : /\ Renewed(t) \in Token
                       /\ Renewed(t).login = t.login /\ Renewed(t).n = t.n + 1
  BY DEF Token, Renewed
<1>3. \A f \in Flight : /\ f # None /\ f.tok \in Token \cup {None} /\ f.written \subseteq Key
                        /\ f.got \in {"reading", "none", "ok", "no"}
  BY MobileAssumption DEF Flight
<1>4. \A e \in Entry : e # None /\ e.tok \in Token /\ e.written \subseteq Key
  BY MobileAssumption DEF Entry
<1>5. \A s \in Login : [login |-> s, n |-> 0] \in Token
  BY DEF Token
<1>6. 0 \in 0..MaxViews /\ Login \subseteq Nat /\ "refresh" \in Key
  BY MobileAssumption DEF Login, Key
<1> QED
  BY <1>1, <1>2, <1>3, <1>4, <1>5, <1>6

LEMMA IdleTasks == /\ NoTask \in Task /\ NoTask.at = "none" /\ NoTask.step = "first"
                   /\ Gone \in Task /\ Gone.at = "over" /\ Gone.step = "first"
BY BasicFacts DEF NoTask, Gone, Task

LEMMA SentIs ==
    ASSUME TypeOK, NEW t \in Task
    PROVE  /\ Sent(t) \in Task /\ Sent(t).at = "call"
           /\ Sent(t).kind = t.kind /\ Sent(t).arg = t.arg
           /\ Sent(t).rev = t.rev /\ Sent(t).step = t.step
<1> DEFINE v == store["access"] \notin stale \cup {None}
<1>1. v \in BOOLEAN
  BY Zenon
<1>2. Sent(t) = [t EXCEPT !.at = "call", !.tok = store["access"], !.valid = v]
  BY DEF Sent
<1>3. store["access"] \in Token \cup {None}
  BY DEF TypeOK, Key
<1> HIDE DEF v
<1> QED
  BY <1>1, <1>2, <1>3 DEF Task

\* What a task that is started is like.
LEMMA StartedIs ==
    ASSUME TypeOK, NEW kind \in Kind, NEW arg \in Conv \cup {None}, NEW revision \in 0..MaxViews
    PROVE  LET t == Started(kind, arg, revision) IN
           /\ t \in Task /\ t.at = "call" /\ t.kind = kind /\ t.arg = arg
           /\ t.rev = revision /\ t.step = "first"
<1> DEFINE t == [NoTask EXCEPT !.kind = kind, !.arg = arg, !.rev = revision]
<1>1. t \in Task /\ t.kind = kind /\ t.arg = arg /\ t.rev = revision /\ t.step = "first"
  BY IdleTasks DEF NoTask, Task
<1>2. Started(kind, arg, revision) = Sent(t)
  BY DEF Started
<1> HIDE DEF t
<1> QED
  BY <1>1, <1>2, SentIs

LEMMA BeginIs ==
    ASSUME TypeOK, NEW n \in Id, NEW kind \in Kind, NEW arg \in Conv \cup {None},
           NEW revision \in 0..MaxViews, Begin(n, kind, arg, revision)
    PROVE  /\ task' \in [Id -> Task] /\ task[n].at = "none"
           /\ \A m \in Id \ {n} : task'[m] = task[m]
           /\ task'[n].at = "call" /\ task'[n].kind = kind /\ task'[n].arg = arg
           /\ task'[n].rev = revision /\ task'[n].step = "first"
<1> DEFINE t == Started(kind, arg, revision)
<1>1. /\ t \in Task /\ t.at = "call" /\ t.kind = kind /\ t.arg = arg
      /\ t.rev = revision /\ t.step = "first"
  BY StartedIs
<1>2. task[n].at = "none" /\ task' = [task EXCEPT ![n] = t]
  BY DEF Begin
<1> HIDE DEF t
<1> QED
  BY <1>1, <1>2 DEF TypeOK

-----------------------------------------------------------------------------
(* The chat: what keeps its half of the invariant *)

\* A task is no further than it was, or lists the conversations, or is over.
Same(n) == /\ task'[n].at \in {"call", "waiting"} =>
                /\ task[n].at \in {"call", "waiting"} /\ task'[n].kind = task[n].kind
                /\ task'[n].arg = task[n].arg /\ task'[n].rev = task[n].rev
                /\ task'[n].step = "first" <=> task[n].step = "first"
           /\ task'[n].step # "first" => task'[n].arg \in Conv

\* Or is started, in a view, and sends nothing.
Starts(n, revision) == /\ task[n].at = "none" /\ task'[n].rev = revision
                       /\ task'[n].kind # "send" /\ task'[n].step = "first"

\* Nothing happens in the view but that tasks start and end; a question leaves the
\* screen if it was not stored, and is a stray one if it was.
LEMMA SameView ==
    ASSUME TypeOK, ChatInv, \A n \in Id : Same(n) \/ Starts(n, rev),
           UNCHANGED <<conv, rev, loaded>>,
           shown' \subseteq shown, stray \subseteq stray',
           \A n \in Id : Asking(n)' => sending',
           \A n \in Id : Asking(n) /\ ~Asking(n)' =>
                            n \notin shown' /\ (task[n].step # "first" => task[n].arg \in stray')
    PROVE  ChatInv'
<1>1. Dated'
  BY DEF TypeOK, ChatInv, Dated, Active, Same, Starts
<1>2. \A n \in Id : Asking(n)' => /\ Asking(n) /\ task'[n].arg = task[n].arg
                                  /\ task'[n].step = "first" <=> task[n].step = "first"
  BY DEF Same, Starts, Asking, Current
<1>3. Composer'
  <2> SUFFICES ASSUME NEW n \in Id, Asking(n)'
               PROVE  /\ sending' /\ \A m \in Id : Asking(m)' => m = n
                      /\ IF task'[n].step = "first" THEN conv' = task'[n].arg
                                                    ELSE conv' \in {task'[n].arg, None}
    BY DEF Composer
  <2> QED
    BY <1>2 DEF ChatInv, Composer
<1>4. Asked'
  <2> SUFFICES ASSUME loaded', NEW n \in shown' \cap Id
               PROVE  Asking(n)' /\ task'[n].step = "first"
    BY DEF Asked
  <2>1. Asking(n) /\ task[n].step = "first"
    BY DEF ChatInv, Asked
  <2> QED
    BY <1>2, <2>1
<1>5. ScreenIsOneConversation'
  <2> SUFFICES ASSUME loaded', NEW c \in shown' \cap Conv, c # conv', c \notin stray'
               PROVE  conv' = None /\ \E n \in Id : Asking(n)' /\ task'[n].arg = c
    BY DEF ScreenIsOneConversation
  <2>1. PICK n \in Id : conv = None /\ Asking(n) /\ task[n].arg = c
    BY DEF ChatInv, ScreenIsOneConversation
  <2>2. task[n].step # "first"
    BY <2>1 DEF ChatInv, Composer
  <2> QED
    BY <1>2, <2>1, <2>2
<1> QED
  BY <1>1, <1>3, <1>4, <1>5 DEF ChatInv

\* The view changes: no question is of the new one, where nothing is shown or
\* a history is to be.
LEMMA NewView ==
    ASSUME TypeOK, ChatInv, Revise, ~loaded' \/ shown' = {},
           \A n \in Id : Same(n) \/ Starts(n, rev + 1)
    PROVE  ChatInv'
<1>1. rev' = rev + 1 /\ rev \in Nat
  BY DEF TypeOK, Revise
<1>2. \A n \in Id : Active(n) => task[n].rev \in Nat /\ task[n].rev <= rev
  BY DEF TypeOK, Task, ChatInv, Dated
<1>3. Dated'
  BY <1>1, <1>2 DEF Dated, Active, Same, Starts
<1>4. \A n \in Id : ~Asking(n)'
  BY <1>1, <1>2 DEF Asking, Active, Current, Same, Starts
<1> QED
  BY <1>3, <1>4 DEF ChatInv, Composer, Asked, ScreenIsOneConversation

\* Steps that touch neither the tasks nor the screen.
LEMMA ChatUntouched ==
    ASSUME ChatInv, UNCHANGED <<task, chat>>
    PROVE  ChatInv'
BY DEF ChatInv, Dated, Composer, Asked, ScreenIsOneConversation, Asking, Active, Current,
       chat, screen

-----------------------------------------------------------------------------
(* The session: what keeps its half *)

LEMMA SessionUntouched ==
    ASSUME SessionInv, UNCHANGED <<flight, entry, logins, head, lost>>,
           alive' \subseteq alive, store'["refresh"] \in {store["refresh"], None}
    PROVE  SessionInv'
BY DEF SessionInv, Unopened, Entering, Reached, Written, Stored, Fresh, Redeemed, Of

\* The steps of tasks: what they leave alone of a session.
LEMMA StoreKept ==
    ASSUME SessionInv, UNCHANGED <<flight, entry, logins, head, alive, lost>>,
           store' \in {store, NoPair}
    PROVE  SessionInv'
<1>1. store'["refresh"] \in {store["refresh"], None}
  BY BasicFacts DEF NoPair
<1> QED
  BY <1>1, SessionUntouched

-----------------------------------------------------------------------------
(* Starting tasks *)

\* A task is started in the current view.
LEMMA BeginsHere ==
    ASSUME Inv, NEW n \in Id, NEW kind \in Kind \ {"send"}, NEW arg \in Conv \cup {None},
           Begin(n, kind, arg, rev), UNCHANGED chat
    PROVE  task' \in [Id -> Task] /\ ChatInv'
<1>1. /\ task' \in [Id -> Task] /\ task[n].at = "none"
      /\ \A m \in Id \ {n} : task'[m] = task[m]
      /\ task'[n].at = "call" /\ task'[n].kind = kind /\ task'[n].rev = rev
      /\ task'[n].step = "first"
  BY BeginIs DEF Inv, TypeOK
<1>2. \A m \in Id : Same(m) \/ Starts(m, rev)
  BY <1>1 DEF Same, Starts, Inv, ChatInv, Dated
<1>3. \A m \in Id : Asking(m)' <=> Asking(m)
  BY <1>1 DEF Asking, Current, chat
<1>4. \A m \in Id : Asking(m)' => sending'
  BY <1>3 DEF Inv, ChatInv, Composer, chat
<1> QED
  BY <1>1, <1>2, <1>3, <1>4, SameView DEF Inv, chat, screen

LEMMA RestoreKeeps == ASSUME Inv, NEW n \in Id, Restore(n) PROVE Inv'
<1>1. SessionInv'
  BY SessionUntouched DEF Restore, server, Inv
<1>2. CASE UNCHANGED task
  BY <1>1, <1>2, ChatUntouched DEF Restore, Inv, TypeOK, chat, screen, server
<1>3. CASE Begin(n, "restore", None, rev)
  <2>1. task' \in [Id -> Task] /\ ChatInv'
    BY <1>3, BeginsHere DEF Restore, Kind
  <2> QED
    BY <1>1, <2>1 DEF Restore, Inv, TypeOK, chat, screen, server
<1> QED
  BY <1>2, <1>3 DEF Restore

LEMMA AuthenticateKeeps == ASSUME Inv, Authenticate PROVE Inv'
<1> DEFINE t == [login |-> logins + 1, n |-> 0]
<1>1. /\ logins \in Nat /\ logins' = logins + 1 /\ logins' \in 0..MaxLogins /\ logins' \in Login
      /\ entry = None
  BY MobileAssumption DEF Authenticate, Inv, TypeOK, Login
<1>2. t \in Token /\ t.login = logins + 1 /\ t.n = 0
  BY <1>1, BasicFacts DEF Authenticate
<1>3. entry' = [tok |-> t, written |-> {}] /\ alive' = alive \cup {logins + 1}
  BY DEF Authenticate
<1> HIDE DEF t
<1>4. entry' \in Entry /\ entry' # None /\ entry'.tok = t
  BY <1>2, <1>3, BasicFacts DEF Entry
<1>5. TypeOK'
  BY <1>1, <1>3, <1>4 DEF Authenticate, Inv, TypeOK, chat, screen
<1>6. ChatInv'
  BY ChatUntouched DEF Authenticate, Inv
<1>7. /\ UNCHANGED <<flight, store, head, lost>>
      /\ \A s \in Login : s > logins => Fresh(s)
  BY DEF Authenticate, Inv, SessionInv, Unopened
<1>8. \A s \in Login : s > logins => Fresh(s)'
  BY <1>7 DEF Fresh, Redeemed, Of
<1>9. Unopened' /\ Entering'
  BY <1>1, <1>2, <1>4, <1>8, BasicFacts DEF Unopened, Entering
<1>10. \A s \in alive' \ lost' : s \in alive \ lost \/ s = logins + 1
  BY <1>3, <1>7
<1>11. Fresh(logins + 1)
  BY <1>1, <1>7
<1>12. Reached' /\ Written' /\ Stored'
  BY <1>7, <1>10, <1>11 DEF Inv, SessionInv, Reached, Written, Stored, Fresh, Redeemed, Of
<1> QED
  BY <1>5, <1>6, <1>9, <1>12 DEF Inv, SessionInv

\* The refresh token of a login is the first of its session, and no other names it.
LEMMA SaveLoginKeeps == ASSUME Inv, NEW k \in Key, SaveLogin(k) PROVE Inv'
<1>1. /\ entry \in Entry /\ entry.tok \in Token /\ entry # None /\ entry.tok # None
      /\ entry.tok.login \in Login
  BY BasicFacts DEF SaveLogin, Inv, TypeOK
<1>2. /\ entry' \in Entry /\ entry'.tok = entry.tok /\ entry'.written = entry.written \cup {k}
      /\ entry' # None
  BY <1>1, BasicFacts DEF SaveLogin, Entry
<1>3. /\ store' = [store EXCEPT ![k] = entry.tok] /\ store' \in [Key -> Token \cup {None}]
      /\ UNCHANGED <<flight, logins, head, alive, lost>> /\ k \notin entry.written
  BY <1>1 DEF SaveLogin, Inv, TypeOK, server
<1>4. TypeOK'
  BY <1>2, <1>3 DEF SaveLogin, Inv, TypeOK, chat, screen, server
<1>5. ChatInv'
  BY ChatUntouched DEF SaveLogin, Inv
<1>6. CASE k # "refresh"
  <2>1. store'["refresh"] = store["refresh"]
    BY <1>3, <1>6, BasicFacts DEF Inv, TypeOK
  <2>2. SessionInv'
    BY <1>1, <1>2, <1>3, <1>6, <2>1 DEF Inv, SessionInv, Unopened, Entering, Reached, Written,
       Stored, Fresh, Redeemed, Of
  <2> QED
    BY <1>4, <1>5, <2>2 DEF Inv
<1>7. CASE k = "refresh"
  <2>1. store'["refresh"] = entry.tok
    BY <1>3, <1>7, BasicFacts DEF Inv, TypeOK
  <2>2. entry.tok.n = 0 /\ Fresh(entry.tok.login)
    BY <1>1, <1>3, <1>7 DEF Inv, SessionInv, Entering
  <2>3. Unopened'
    BY <1>1, <1>2, <1>3, <2>1 DEF Inv, SessionInv, Unopened, Fresh, Redeemed, Of
  <2>4. Entering'
    BY <1>2, <1>7 DEF Entering
  <2>5. Reached' /\ Stored'
    BY <1>1, <1>3, <2>1, <2>2 DEF Inv, SessionInv, Reached, Stored, Fresh, Redeemed, Of
  <2>6. Written'
    <3>1. flight # None => flight.tok = None \/ flight.tok.login # entry.tok.login
      BY <2>2 DEF Fresh, Redeemed, Of
    <3>2. flight # None /\ "refresh" \in flight.written => flight.tok # None
      BY DEF Inv, SessionInv, Written
    <3> QED
      BY <1>1, <1>3, <2>1, <3>1, <3>2 DEF Inv, SessionInv, Written, Of
  <2> QED
    BY <1>4, <1>5, <2>3, <2>4, <2>5, <2>6 DEF Inv, SessionInv
<1> QED
  BY <1>6, <1>7

LEMMA AuthenticatedKeeps == ASSUME Inv, Authenticated PROVE Inv'
<1>1. TypeOK'
  BY DEF Authenticated, Inv, TypeOK, chat, screen, server
<1>2. ChatInv'
  BY ChatUntouched DEF Authenticated, Inv
<1>3. SessionInv'
  BY DEF Authenticated, server, Inv, SessionInv, Unopened, Entering, Reached, Written, Stored,
     Fresh, Redeemed, Of
<1> QED
  BY <1>1, <1>2, <1>3 DEF Inv

LEMMA InitializeKeeps == ASSUME Inv, NEW m \in Id, NEW n \in Id, Initialize(m, n) PROVE Inv'
<1>1. SessionInv'
  BY SessionUntouched DEF Initialize, server, Inv
<1> DEFINE t == Started("initialize", None, rev)
<1>2. /\ t \in Task /\ t.at = "call" /\ t.kind = "initialize" /\ t.rev = rev /\ t.step = "first"
  BY StartedIs DEF Inv, TypeOK, Kind
<1>3. /\ task' = [i \in Id |-> IF i \in {m, n} THEN t ELSE task[i]]
      /\ task[m].at = "none" /\ task[n].at = "none"
  BY DEF Initialize
<1> HIDE DEF t
<1>4. task' \in [Id -> Task]
  BY <1>2, <1>3 DEF Inv, TypeOK
<1>5. \A i \in Id : Same(i) \/ Starts(i, rev)
  BY <1>2, <1>3 DEF Same, Starts, Inv, ChatInv, Dated
<1>6. \A i \in Id : Asking(i)' <=> Asking(i)
  BY <1>2, <1>3 DEF Initialize, Asking, Current, chat
<1>7. \A i \in Id : Asking(i)' => sending'
  BY <1>6 DEF Initialize, Inv, ChatInv, Composer, chat
<1>8. ChatInv'
  BY <1>5, <1>6, <1>7, SameView DEF Initialize, Inv, chat, screen
<1> QED
  BY <1>1, <1>4, <1>8 DEF Initialize, Inv, TypeOK, server, chat, screen

LEMMA DeleteConversationKeeps ==
    ASSUME Inv, NEW n \in Id, NEW c \in Conv, DeleteConversation(n, c) PROVE Inv'
<1>1. SessionInv'
  BY SessionUntouched DEF DeleteConversation, server, Inv
<1>2. task' \in [Id -> Task] /\ ChatInv'
  BY BeginsHere DEF DeleteConversation, Kind
<1> QED
  BY <1>1, <1>2 DEF DeleteConversation, Inv, TypeOK, server, chat, screen

\* The question is the only one of its view: the composer was not in use.
LEMMA SendKeeps == ASSUME Inv, NEW n \in Id, Send(n) PROVE Inv'
<1>1. SessionInv'
  BY SessionUntouched DEF Send, server, Inv
<1>2. /\ task' \in [Id -> Task] /\ task[n].at = "none"
      /\ \A m \in Id \ {n} : task'[m] = task[m]
      /\ task'[n].at = "call" /\ task'[n].kind = "send" /\ task'[n].arg = conv
      /\ task'[n].rev = rev /\ task'[n].step = "first"
  BY BeginIs DEF Inv, TypeOK, Send, Kind
<1>3. /\ TypeOK' /\ ~sending /\ sending' /\ shown' = shown \cup {n}
      /\ UNCHANGED <<conv, rev, loaded, stray>>
  BY <1>2 DEF Send, CanSend, Inv, TypeOK, server
<1>4. Dated'
  BY <1>2, <1>3 DEF Inv, TypeOK, ChatInv, Dated, Active
<1>5. \A m \in Id : ~Asking(m) /\ (Asking(m)' => m = n)
  BY <1>2, <1>3 DEF Asking, Current, Inv, ChatInv, Composer
<1>6. Asking(n)'
  BY <1>2, <1>3 DEF Asking, Current
<1>7. Composer'
  BY <1>2, <1>3, <1>5 DEF Composer
<1>8. Asked'
  BY <1>2, <1>3, <1>5, <1>6 DEF Inv, ChatInv, Asked
<1>9. ScreenIsOneConversation'
  BY <1>3, <1>5, MobileAssumption DEF Inv, ChatInv, ScreenIsOneConversation
<1> QED
  BY <1>1, <1>3, <1>4, <1>7, <1>8, <1>9 DEF Inv, ChatInv

LEMMA RevisedRev == ASSUME Inv, Revise PROVE rev' = rev + 1 /\ rev' \in 0..MaxViews
BY MobileAssumption DEF Inv, TypeOK, Revise

LEMMA OpenKeeps ==
    ASSUME Inv, NEW n \in Id, NEW c \in Conv, OpenConversation(n, c) PROVE Inv'
<1>1. SessionInv'
  BY SessionUntouched DEF OpenConversation, server, Inv
<1>2. rev' = rev + 1 /\ rev' \in 0..MaxViews /\ Revise
  BY RevisedRev DEF OpenConversation
<1>3. /\ task' \in [Id -> Task] /\ task[n].at = "none"
      /\ \A m \in Id \ {n} : task'[m] = task[m]
      /\ task'[n].at = "call" /\ task'[n].kind = "open" /\ task'[n].rev = rev + 1
      /\ task'[n].step = "first"
  BY <1>2, BeginIs DEF Inv, OpenConversation, Kind
<1>4. TypeOK'
  BY <1>2, <1>3 DEF OpenConversation, Inv, TypeOK, server
<1>5. \A m \in Id : Same(m) \/ Starts(m, rev + 1)
  BY <1>3 DEF Same, Starts, Inv, ChatInv, Dated
<1>6. ChatInv'
  BY <1>2, <1>5, NewView DEF OpenConversation, Inv
<1> QED
  BY <1>1, <1>4, <1>6 DEF Inv

LEMMA NewConversationKeeps == ASSUME Inv, NewConversation PROVE Inv'
<1>1. SessionInv'
  BY SessionUntouched DEF NewConversation, server, Inv
<1>2. TypeOK'
  BY RevisedRev DEF NewConversation, Inv, TypeOK, Cleared, server
<1>3. \A m \in Id : Same(m)
  BY DEF NewConversation, Same, Inv, ChatInv, Dated
<1>4. ChatInv'
  BY <1>3, NewView DEF NewConversation, Cleared, Inv
<1> QED
  BY <1>1, <1>2, <1>4 DEF Inv

LEMMA LogoutKeeps == ASSUME Inv, NEW n \in Id, Logout(n) PROVE Inv'
<1>1. SessionInv'
  BY SessionUntouched DEF Logout, server, Inv
<1>2. rev' = rev + 1 /\ rev' \in 0..MaxViews /\ Revise
  BY RevisedRev DEF Logout, Reset
<1> DEFINE s == Started("logout", None, rev + 1)
           t == [s EXCEPT !.tok = store["refresh"]]
<1>3. /\ s \in Task /\ s.at = "call" /\ s.kind = "logout" /\ s.rev = rev + 1
      /\ s.step = "first"
  BY <1>2, StartedIs DEF Inv, Kind
<1>4. store["refresh"] \in Token \cup {None}
  BY BasicFacts DEF Inv, TypeOK
<1>5. task[n].at = "none" /\ task' = [task EXCEPT ![n] = t]
  BY DEF Logout
<1> HIDE DEF s
<1>6. t \in Task /\ t.kind = "logout" /\ t.rev = rev + 1 /\ t.step = "first"
  BY <1>3, <1>4 DEF Task
<1> HIDE DEF t
<1>7. /\ task' \in [Id -> Task] /\ task'[n] = t
      /\ \A m \in Id \ {n} : task'[m] = task[m]
  BY <1>5, <1>6 DEF Inv, TypeOK
<1>8. TypeOK'
  BY <1>2, <1>7 DEF Logout, Reset, Cleared, Inv, TypeOK, server
<1>9. \A m \in Id : Same(m) \/ Starts(m, rev + 1)
  BY <1>5, <1>6, <1>7 DEF Same, Starts, Inv, ChatInv, Dated
<1>10. ChatInv'
  BY <1>2, <1>9, NewView DEF Logout, Reset, Cleared, Inv
<1> QED
  BY <1>1, <1>8, <1>10 DEF Inv

-----------------------------------------------------------------------------
(* The calls *)

LEMMA FailKeeps ==
    ASSUME Inv, NEW S \in SUBSET Id, NEW clear \in BOOLEAN, Fail(S, clear),
           \A n \in S : Active(n)
    PROVE  /\ status' \in {"initial", "loading", "in", "out"} /\ store' \in {store, NoPair}
           /\ store' \in [Key -> Token \cup {None}]
           /\ task' \in [Id -> Task] /\ sending' \in BOOLEAN
           /\ shown' \subseteq shown /\ stray' \subseteq Conv
           /\ UNCHANGED <<conv, rev, loaded>> /\ ChatInv'
<1> DEFINE asking == {n \in S : task[n].kind = "send" /\ Current(n)}
           left == {task[n].arg : n \in {m \in asking : task[m].step # "first"}}
<1>1. /\ task' = [n \in Id |-> IF n \in S THEN Gone ELSE task[n]]
      /\ UNCHANGED <<conv, rev, loaded>>
      /\ \A n \in Id \ S : task'[n] = task[n]
      /\ \A n \in S : task'[n] = Gone
      /\ sending' = (sending /\ asking = {}) /\ shown' = shown \ S
      /\ stray' = stray \cup left
  BY DEF Fail
<1>2. task' \in [Id -> Task]
  BY <1>1, IdleTasks DEF Inv, TypeOK
<1>3. sending' \in BOOLEAN
  BY Zenon DEF Fail
<1>4. /\ status' \in {"initial", "loading", "in", "out"} /\ store' \in {store, NoPair}
      /\ NoPair \in [Key -> Token \cup {None}]
  BY DEF Fail, Inv, TypeOK, NoPair
<1>5. \A n \in Id : Same(n)
  BY <1>1, IdleTasks DEF Same, Inv, ChatInv, Dated
<1>6. \A n \in Id : Asking(n) /\ ~Asking(n)' => n \in asking
  BY <1>1 DEF Asking, Current
<1>7. \A n \in Id : Asking(n)' => n \notin S /\ Asking(n)
  BY <1>1, IdleTasks DEF Asking, Current
<1>8. \A n \in asking : Asking(n)
  BY DEF Asking, Active
<1>9. left \subseteq Conv
  BY DEF Inv, ChatInv, Dated
<1>10. \A n \in asking : n \notin shown' /\ (task[n].step # "first" => task[n].arg \in stray')
  BY <1>1
<1>11. \A n \in Id : Asking(n)' => sending'
  <2> SUFFICES ASSUME NEW n \in Id, Asking(n)' PROVE sending'
    OBVIOUS
  <2>1. n \notin asking /\ Asking(n)
    BY <1>7
  <2>2. sending /\ \A m \in Id : Asking(m) => m = n
    BY <2>1 DEF Inv, ChatInv, Composer
  <2>3. asking = {}
    BY <1>8, <2>1, <2>2
  <2> QED
    BY <1>1, <2>2, <2>3
<1> HIDE DEF asking, left
<1>12. ChatInv'
  BY <1>1, <1>5, <1>6, <1>10, <1>11, SameView DEF Inv
<1> QED
  BY <1>1, <1>2, <1>3, <1>4, <1>9, <1>12 DEF Inv, TypeOK

LEMMA BrokenKeeps == ASSUME Inv, NEW n \in Id, Broken(n) PROVE Inv'
<1>1. /\ task[n].retried \in BOOLEAN /\ {n} \in SUBSET Id
      /\ \A m \in {n} : Active(m)
  BY DEF Inv, TypeOK, Task, Broken, Active
<1>2. Fail({n}, task[n].retried) /\ UNCHANGED <<flight, entry, logins, server, lost>>
  BY DEF Broken
<1>3. /\ status' \in {"initial", "loading", "in", "out"} /\ store' \in {store, NoPair}
      /\ store' \in [Key -> Token \cup {None}]
      /\ task' \in [Id -> Task] /\ sending' \in BOOLEAN
      /\ shown' \subseteq shown /\ stray' \subseteq Conv
      /\ UNCHANGED <<conv, rev, loaded>> /\ ChatInv'
  <2> DEFINE S == {n}
             b == task[n].retried
  <2>1. S \in SUBSET Id /\ b \in BOOLEAN /\ Fail(S, b) /\ \A m \in S : Active(m)
    BY <1>1, <1>2
  <2> HIDE DEF S, b
  <2> QED
    BY <2>1, FailKeeps
<1>4. TypeOK'
  BY <1>2, <1>3 DEF Inv, TypeOK, server
<1>5. SessionInv'
  BY <1>2, <1>3, StoreKept DEF server, Inv
<1> QED
  BY <1>3, <1>4, <1>5 DEF Inv

\* The refresh that is joined is the one in flight, or a new one.
LEMMA JoinKeeps ==
    ASSUME Inv, Join, UNCHANGED <<store, entry, logins, head, alive, lost>>
    PROVE  flight' \in Flight \cup {None} /\ SessionInv'
<1>1. CASE flight # None
  BY <1>1, StoreKept DEF Join, Inv, TypeOK
<1>2. CASE flight = None
  <2>1. /\ flight' \in Flight /\ flight'.tok = None /\ flight'.got = "reading"
        /\ flight'.written = {}
    BY <1>2 DEF Join, Flight
  <2> QED
    BY <1>2, <2>1 DEF Inv, SessionInv, Unopened, Entering, Reached, Written, Stored, Fresh,
       Redeemed, Of
<1> QED
  BY <1>1, <1>2

LEMMA DeniedKeeps == ASSUME Inv, NEW n \in Id, Denied(n) PROVE Inv'
<1>1. task[n] \in Task /\ task[n].retried \in BOOLEAN /\ Active(n)
  BY DEF Inv, TypeOK, Task, Denied, Active
<1>2. /\ stale' = stale \cup ({task[n].tok} \ {None})
      /\ UNCHANGED <<entry, logins, head, alive, saved, gone, lost>>
  BY DEF Denied
<1>3. stale' \subseteq Token
  BY <1>1, <1>2 DEF Inv, TypeOK, Task
<1>4. CASE ~task[n].retried
  <2>1. /\ task' = [task EXCEPT ![n] = [@ EXCEPT !.at = "waiting", !.tok = None,
                                                 !.valid = FALSE]]
        /\ Join /\ UNCHANGED <<status, store, chat>>
    BY <1>4 DEF Denied
  <2>2. flight' \in Flight \cup {None} /\ SessionInv'
    BY <1>2, <2>1, JoinKeeps
  <2>3. /\ task' \in [Id -> Task] /\ \A m \in Id \ {n} : task'[m] = task[m]
        /\ task'[n].kind = task[n].kind /\ task'[n].arg = task[n].arg
        /\ task'[n].rev = task[n].rev /\ task'[n].step = task[n].step
        /\ task'[n].at = "waiting"
    BY <1>1, <2>1 DEF Inv, TypeOK, Task
  <2>4. TypeOK'
    BY <1>2, <1>3, <2>1, <2>2, <2>3 DEF Inv, TypeOK, chat, screen
  <2>5. \A m \in Id : Same(m)
    BY <1>1, <2>3 DEF Same, Inv, ChatInv, Dated, Active
  <2>6. \A m \in Id : Asking(m)' <=> Asking(m)
    BY <1>1, <2>1, <2>3 DEF Asking, Active, Current, chat
  <2>7. \A m \in Id : Asking(m)' => sending'
    BY <2>1, <2>6 DEF Inv, ChatInv, Composer, chat
  <2>8. ChatInv'
    BY <2>1, <2>5, <2>6, <2>7, SameView DEF Inv, chat, screen
  <2> QED
    BY <2>2, <2>4, <2>8 DEF Inv
<1>5. CASE task[n].retried
  <2>1. Fail({n}, TRUE) /\ UNCHANGED flight
    BY <1>5 DEF Denied
  <2>2. /\ status' \in {"initial", "loading", "in", "out"} /\ store' \in {store, NoPair}
        /\ store' \in [Key -> Token \cup {None}]
        /\ task' \in [Id -> Task] /\ sending' \in BOOLEAN
        /\ shown' \subseteq shown /\ stray' \subseteq Conv
        /\ UNCHANGED <<conv, rev, loaded>> /\ ChatInv'
    <3> DEFINE S == {n}
    <3>1. S \in SUBSET Id /\ Fail(S, TRUE) /\ \A m \in S : Active(m)
      BY <1>1, <2>1
    <3> HIDE DEF S
    <3> QED
      BY <3>1, FailKeeps
  <2>3. TypeOK'
    BY <1>2, <1>3, <2>1, <2>2 DEF Inv, TypeOK
  <2>4. SessionInv'
    BY <1>2, <2>1, <2>2, StoreKept DEF Inv
  <2> QED
    BY <2>2, <2>3, <2>4 DEF Inv
<1> QED
  BY <1>1, <1>4, <1>5

-----------------------------------------------------------------------------
(* The refresh *)

LEMMA WaitersAreActive == Waiting \in SUBSET Id /\ \A n \in Waiting : Active(n)
BY DEF Waiting, Active

LEMMA ReadKeeps == ASSUME Inv, Read PROVE Inv'
<1>1. /\ flight \in Flight /\ flight # None /\ flight.got = "reading" /\ flight.tok = None
      /\ flight.written = {} /\ UNCHANGED <<entry, logins, server, lost>>
  BY BasicFacts DEF Read, Inv, TypeOK, SessionInv, Written
<1>2. CASE store["refresh"] # None
  <2>1. /\ store["refresh"] \in Token
        /\ flight' = [flight EXCEPT !.tok = store["refresh"], !.got = "none"]
        /\ UNCHANGED <<status, store, task, chat>>
    BY <1>2, BasicFacts DEF Read, Inv, TypeOK
  <2>2. /\ flight' \in Flight /\ flight'.tok = store["refresh"] /\ flight'.got = "none"
        /\ flight'.written = {} /\ flight' # None
    <3>1. flight' \in Flight /\ flight'.tok = store["refresh"] /\ flight'.got = "none"
      BY <1>1, <2>1 DEF Flight
    <3>2. flight'.written = flight.written
      BY <1>1, <2>1 DEF Flight
    <3> QED
      BY <1>1, <3>1, <3>2, BasicFacts
  <2>3. TypeOK'
    BY <1>1, <2>1, <2>2 DEF Inv, TypeOK, server, chat, screen
  <2>4. ChatInv'
    BY <2>1, ChatUntouched DEF Inv
  <2>5. Unopened' /\ Entering' /\ Written'
    BY <1>1, <1>2, <2>1, <2>2 DEF Inv, SessionInv, Unopened, Entering, Written, Fresh, Redeemed,
       Of, server
  <2>6. Reached' /\ Stored'
    BY <1>1, <1>2, <2>1, <2>2 DEF Inv, SessionInv, Reached, Stored, Redeemed, Of, server
  <2> QED
    BY <2>3, <2>4, <2>5, <2>6 DEF Inv, SessionInv
<1>3. CASE store["refresh"] = None
  <2>1. flight' = None /\ Fail(Waiting, FALSE)
    BY <1>3 DEF Read
  <2>2. /\ status' \in {"initial", "loading", "in", "out"} /\ store' \in {store, NoPair}
        /\ store' \in [Key -> Token \cup {None}]
        /\ task' \in [Id -> Task] /\ sending' \in BOOLEAN
        /\ shown' \subseteq shown /\ stray' \subseteq Conv
        /\ UNCHANGED <<conv, rev, loaded>> /\ ChatInv'
    BY <2>1, FailKeeps, WaitersAreActive
  <2>3. TypeOK'
    BY <1>1, <2>1, <2>2 DEF Inv, TypeOK, server
  <2>4. store'["refresh"] = None
    BY <1>3, <2>2, BasicFacts DEF NoPair
  <2>5. SessionInv'
    BY <1>1, <2>1, <2>4 DEF Inv, SessionInv, Unopened, Entering, Reached, Written, Stored,
       Fresh, Redeemed, Of, server
  <2> QED
    BY <2>2, <2>3, <2>5 DEF Inv
<1> QED
  BY <1>2, <1>3

LEMMA RotateKeeps == ASSUME Inv, Rotate PROVE Inv'
<1> DEFINE s == flight.tok.login
<1>1. /\ flight \in Flight /\ flight # None /\ flight.got = "none" /\ flight.tok \in Token
      /\ flight.tok # None /\ s \in Login /\ flight.tok.n \in Nat /\ head[s] = flight.tok.n
      /\ flight.written = {}
  BY BasicFacts DEF Inv, TypeOK, Rotate, Accepted, SessionInv, Written
<1>2. /\ flight' \in Flight /\ flight'.tok = flight.tok /\ flight'.got = "ok"
      /\ flight'.written = {} /\ flight' # None
      /\ head' = [head EXCEPT ![s] = @ + 1]
      /\ UNCHANGED <<status, store, entry, task, chat, logins, alive, stale, saved, gone, lost>>
  BY <1>1, BasicFacts DEF Rotate, Flight
<1>3. head' \in [Login -> Nat] /\ head'[s] = flight.tok.n + 1
      /\ \A z \in Login \ {s} : head'[z] = head[z]
  BY <1>1, <1>2 DEF Inv, TypeOK
<1>4. TypeOK'
  BY <1>2, <1>3 DEF Inv, TypeOK, chat, screen
<1>5. ChatInv'
  BY <1>2, ChatUntouched DEF Inv
<1>6. \A z \in Login : Redeemed(z) <=> z = s
  BY <1>1 DEF Redeemed, Of
<1>7. \A z \in Login : Redeemed(z)' <=> Redeemed(z)
  BY <1>1, <1>2 DEF Redeemed, Of
<1>8. \A z \in Login : Fresh(z) => Fresh(z)'
  BY <1>2, <1>3, <1>6, <1>7 DEF Fresh
<1>9. entry # None => entry.tok.login \in Login
  BY BasicFacts DEF Inv, TypeOK
<1> HIDE DEF s
<1>10. Unopened' /\ Entering'
  BY <1>2, <1>8, <1>9 DEF Inv, SessionInv, Unopened, Entering
<1>11. alive \subseteq Login
  BY DEF Inv, TypeOK
<1>12. Reached' /\ Stored'
  BY <1>2, <1>3, <1>6, <1>7, <1>11 DEF Inv, SessionInv, Reached, Stored
<1>13. Written'
  BY <1>1, <1>2 DEF Written
<1> QED
  BY <1>4, <1>5, <1>10, <1>12, <1>13 DEF Inv, SessionInv

LEMMA RefuseKeeps == ASSUME Inv, Refuse PROVE Inv'
<1>1. /\ flight \in Flight /\ flight # None /\ flight.got = "none" /\ flight.tok # None
      /\ flight.written = {}
  BY BasicFacts DEF Inv, TypeOK, Refuse, SessionInv, Written
<1>2. /\ flight' \in Flight /\ flight'.tok = flight.tok /\ flight'.got = "no"
      /\ flight'.written = {} /\ flight' # None
      /\ alive' = IF Accepted(flight.tok) THEN alive \ {flight.tok.login} ELSE alive
      /\ UNCHANGED <<status, store, entry, task, chat, logins, head, stale, saved, gone, lost>>
  BY <1>1, BasicFacts DEF Refuse, Flight
<1>3. TypeOK'
  BY <1>2 DEF Inv, TypeOK, chat, screen
<1>4. ChatInv'
  BY <1>2, ChatUntouched DEF Inv
<1>5. Unopened' /\ Entering' /\ Written' /\ Stored'
  BY <1>1, <1>2 DEF Inv, SessionInv, Unopened, Entering, Written, Stored, Fresh, Redeemed, Of
<1>6. Reached'
  BY <1>1, <1>2 DEF Inv, SessionInv, Reached, Accepted, Redeemed, Of
<1> QED
  BY <1>3, <1>4, <1>5, <1>6 DEF Inv, SessionInv

LEMMA LoseKeeps == ASSUME Inv, Lose PROVE Inv'
<1>1. /\ flight \in Flight /\ flight # None /\ flight.got # "reading" /\ flight.tok # None
      /\ flight.written = {}
  BY BasicFacts DEF Inv, TypeOK, Lose, SessionInv, Written
<1>2. /\ flight' \in Flight /\ flight'.tok = flight.tok /\ flight'.got = "no"
      /\ flight'.written = {} /\ flight' # None
      /\ lost' = lost \cup {flight.tok.login}
      /\ UNCHANGED <<status, store, entry, task, chat, logins, server>>
  BY <1>1, BasicFacts DEF Lose, Flight
<1>3. TypeOK'
  BY <1>2 DEF Inv, TypeOK, chat, screen, server
<1>4. ChatInv'
  BY <1>2, ChatUntouched DEF Inv
<1>5. SessionInv'
  BY <1>1, <1>2 DEF Inv, SessionInv, Unopened, Entering, Reached, Written, Stored, Fresh,
     Redeemed, Of, server
<1> QED
  BY <1>3, <1>4, <1>5 DEF Inv

\* What a refresh saves is the token its session accepts by now.
LEMMA SaveRenewedKeeps == ASSUME Inv, NEW k \in Key, SaveRenewed(k) PROVE Inv'
<1> DEFINE new == Renewed(flight.tok)
<1>1. /\ flight \in Flight /\ flight # None /\ flight.got = "ok" /\ flight.tok # None
      /\ flight.tok \in Token /\ flight.tok.login \in Login
      /\ new \in Token /\ new # None /\ new.login = flight.tok.login /\ new.n = flight.tok.n + 1
  BY BasicFacts DEF SaveRenewed, Inv, TypeOK, SessionInv, Written
<1>2. /\ flight' \in Flight /\ flight'.tok = flight.tok /\ flight'.got = "ok"
      /\ flight'.written = flight.written \cup {k} /\ flight' # None
      /\ k \notin flight.written
  BY <1>1, BasicFacts DEF SaveRenewed, Flight
<1>3. /\ store' = [store EXCEPT ![k] = new] /\ store' \in [Key -> Token \cup {None}]
      /\ UNCHANGED <<entry, logins, head, alive, lost>>
  BY <1>1 DEF SaveRenewed, Inv, TypeOK, server
<1> HIDE DEF new
<1>4. TypeOK'
  BY <1>2, <1>3 DEF SaveRenewed, Inv, TypeOK, chat, screen, server
<1>5. ChatInv'
  BY ChatUntouched DEF SaveRenewed, Inv
<1>6. CASE k # "refresh"
  <2>1. store'["refresh"] = store["refresh"]
    BY <1>3, <1>6, BasicFacts DEF Inv, TypeOK
  <2>2. SessionInv'
    BY <1>1, <1>2, <1>3, <1>6, <2>1 DEF Inv, SessionInv, Unopened, Entering, Reached, Written,
       Stored, Fresh, Redeemed, Of
  <2> QED
    BY <1>4, <1>5, <2>2 DEF Inv
<1>7. CASE k = "refresh"
  <2>1. store'["refresh"] = new
    BY <1>3, <1>7, BasicFacts DEF Inv, TypeOK
  <2>2. \A s \in Login : Of(new, s) <=> Redeemed(s)
    BY <1>1 DEF Of, Redeemed
  <2>3. \A s \in Login : Redeemed(s)' <=> Redeemed(s)
    BY <1>1, <1>2 DEF Of, Redeemed
  <2>4. \A s \in Login : Fresh(s) => Fresh(s)'
    BY <1>3, <2>1, <2>2, <2>3 DEF Fresh, Of
  <2>5. entry # None => entry.tok.login \in Login
    BY BasicFacts DEF Inv, TypeOK
  <2>6. Unopened' /\ Entering'
    BY <1>3, <2>4, <2>5 DEF Inv, SessionInv, Unopened, Entering
  <2>7. Reached'
    BY <1>1, <1>2, <1>3 DEF Inv, SessionInv, Reached, Redeemed, Of
  <2>8. Stored'
    BY <1>1, <1>2, <1>3, <2>1 DEF Stored, Redeemed, Of
  <2>9. Written'
    BY <1>1, <1>2, <2>1 DEF Written, new
  <2> QED
    BY <1>4, <1>5, <2>6, <2>7, <2>8, <2>9 DEF Inv, SessionInv
<1> QED
  BY <1>6, <1>7

LEMMA LandKeeps == ASSUME Inv, Land PROVE Inv'
<1> DEFINE new == Renewed(flight.tok)
<1>1. /\ flight \in Flight /\ flight # None /\ flight' = None
      /\ UNCHANGED <<entry, logins, server, lost>>
  BY BasicFacts DEF Inv, TypeOK, Land
<1>2. CASE /\ flight.got = "ok" /\ flight.written = Key
           /\ task' = [n \in Id |-> IF n \in Waiting THEN Repeated(task[n], new) ELSE task[n]]
           /\ UNCHANGED <<status, store, chat>>
  <2>1. flight.tok \in Token /\ new \in Token /\ new.n = flight.tok.n + 1
    BY <1>1, <1>2, BasicFacts DEF Inv, TypeOK, SessionInv, Written
  <2> HIDE DEF new
  <2>2. \A n \in Id : /\ task'[n] \in Task /\ task'[n].step = task[n].step
                      /\ task'[n].arg = task[n].arg /\ task'[n].kind = task[n].kind
                      /\ task'[n].rev = task[n].rev
                      /\ task'[n].at \in {"call", "waiting"} <=> task[n].at \in {"call", "waiting"}
    <3> SUFFICES ASSUME NEW n \in Id
                 PROVE  /\ task'[n] \in Task /\ task'[n].step = task[n].step
                        /\ task'[n].arg = task[n].arg /\ task'[n].kind = task[n].kind
                        /\ task'[n].rev = task[n].rev
                        /\ task'[n].at \in {"call", "waiting"}
                             <=> task[n].at \in {"call", "waiting"}
      OBVIOUS
    <3>1. CASE n \notin Waiting
      BY <1>2, <3>1 DEF Inv, TypeOK
    <3>2. CASE n \in Waiting
      <4> DEFINE v == new \notin stale
      <4>1. v \in BOOLEAN
        BY Zenon
      <4>2. task'[n] = [task[n] EXCEPT !.at = "call", !.tok = new, !.valid = v,
                                       !.retried = TRUE]
        BY <1>2, <3>2 DEF Repeated
      <4> HIDE DEF v
      <4>3. task[n] \in Task /\ task[n].at = "waiting"
        BY <3>2 DEF Inv, TypeOK, Waiting
      <4> QED
        BY <2>1, <4>1, <4>2, <4>3 DEF Task
    <3> QED
      BY <3>1, <3>2
  <2>3. task' \in [Id -> Task]
    BY <1>2, <2>2
  <2>4. TypeOK'
    BY <1>1, <1>2, <2>3 DEF Inv, TypeOK, chat, screen, server
  <2>5. \A m \in Id : Asking(m)' <=> Asking(m)
    BY <1>2, <2>2 DEF Asking, Current, chat
  <2>6. \A m \in Id : Same(m)
    BY <2>2 DEF Same, Inv, ChatInv, Dated
  <2>7. \A m \in Id : Asking(m)' => sending'
    BY <1>2, <2>5 DEF Inv, ChatInv, Composer, chat
  <2>8. ChatInv'
    BY <1>2, <2>5, <2>6, <2>7, SameView DEF Inv, chat, screen
  <2>9. \A s \in alive \ lost : Redeemed(s) /\ Of(store["refresh"], s) =>
                                    head[s] = store["refresh"].n
    <3> SUFFICES ASSUME NEW s \in alive \ lost, Redeemed(s), Of(store["refresh"], s)
                 PROVE  head[s] = store["refresh"].n
      OBVIOUS
    <3>1. head[s] = flight.tok.n + 1
      BY <1>2 DEF Inv, SessionInv, Reached
    <3>2. store["refresh"] = new
      BY <1>1, <1>2, BasicFacts DEF Inv, SessionInv, Written, Redeemed, Of, new
    <3> QED
      BY <2>1, <3>1, <3>2
  <2>10. SessionInv'
    BY <1>1, <1>2, <2>9 DEF Inv, SessionInv, Unopened, Entering, Reached, Written, Stored, Fresh,
       Redeemed, Of, server
  <2> QED
    BY <2>4, <2>8, <2>10 DEF Inv
<1>3. CASE flight.got = "no" /\ Fail(Waiting, TRUE)
  <2>1. /\ status' \in {"initial", "loading", "in", "out"} /\ store' \in {store, NoPair}
        /\ store' \in [Key -> Token \cup {None}]
        /\ task' \in [Id -> Task] /\ sending' \in BOOLEAN
        /\ shown' \subseteq shown /\ stray' \subseteq Conv
        /\ UNCHANGED <<conv, rev, loaded>> /\ ChatInv'
    BY <1>3, FailKeeps, WaitersAreActive
  <2>2. store'["refresh"] = None
    BY <1>3, BasicFacts DEF Fail, NoPair
  <2>3. TypeOK'
    BY <1>1, <2>1 DEF Inv, TypeOK, server
  <2>4. SessionInv'
    BY <1>1, <2>2 DEF Inv, SessionInv, Unopened, Entering, Reached, Written, Stored,
       Fresh, Redeemed, Of, server
  <2> QED
    BY <2>1, <2>3, <2>4 DEF Inv
<1> QED
  BY <1>2, <1>3 DEF Land

-----------------------------------------------------------------------------
(* Answered calls *)

LEMMA OverIs ==
    ASSUME Inv, NEW n \in Id, Over(n)
    PROVE  /\ task' \in [Id -> Task] /\ \A m \in Id \ {n} : task'[m] = task[m]
           /\ task'[n] = Gone /\ ~Active(n)' /\ \A m \in Id : Same(m)
<1>1. /\ task' \in [Id -> Task] /\ task'[n] = Gone
      /\ \A m \in Id \ {n} : task'[m] = task[m]
  BY IdleTasks DEF Over, Inv, TypeOK
<1> QED
  BY <1>1, IdleTasks DEF Same, Active, Inv, ChatInv, Dated

\* A task of no send of the view ends, and the view stays as it is.
LEMMA EndsHere ==
    ASSUME Inv, NEW n \in Id, Over(n), ~Asking(n), UNCHANGED chat
    PROVE  task' \in [Id -> Task] /\ ChatInv'
<1>1. /\ task' \in [Id -> Task] /\ \A m \in Id \ {n} : task'[m] = task[m]
      /\ ~Active(n)' /\ \A m \in Id : Same(m)
  BY OverIs
<1>2. \A m \in Id : Asking(m)' <=> Asking(m)
  BY <1>1 DEF Asking, Active, Current, chat
<1>3. \A m \in Id : Asking(m)' => sending'
  BY <1>2 DEF Inv, ChatInv, Composer, chat
<1> QED
  BY <1>1, <1>2, <1>3, SameView DEF Inv, chat, screen

LEMMA RestoredKeeps == ASSUME Inv, NEW n \in Id, Restored(n) PROVE Inv'
<1>1. task' \in [Id -> Task] /\ ChatInv'
  BY EndsHere DEF Restored, Answered, Asking
<1>2. SessionInv'
  BY SessionUntouched DEF Restored, server, Inv
<1> QED
  BY <1>1, <1>2 DEF Restored, Inv, TypeOK, chat, screen, server

LEMMA InitializedKeeps == ASSUME Inv, NEW n \in Id, Initialized(n) PROVE Inv'
<1>1. task' \in [Id -> Task] /\ ChatInv'
  BY EndsHere DEF Initialized, Answered, Asking
<1>2. SessionInv'
  BY SessionUntouched DEF Initialized, server, Inv
<1> QED
  BY <1>1, <1>2 DEF Initialized, Inv, TypeOK, chat, screen, server

LEMMA OpenedKeeps == ASSUME Inv, NEW n \in Id, Opened(n) PROVE Inv'
<1>1. /\ task' \in [Id -> Task] /\ \A m \in Id \ {n} : task'[m] = task[m]
      /\ ~Active(n)' /\ \A m \in Id : Same(m) /\ ~Asking(n)
  BY OverIs DEF Opened, Answered, Asking
<1>2. SessionInv'
  BY SessionUntouched DEF Opened, server, Inv
<1>3. CASE Current(n) /\ conv = task[n].arg
  <2>1. /\ shown' = {conv} /\ loaded' = TRUE /\ stray' = {} /\ conv \in Conv
        /\ UNCHANGED <<status, store, flight, entry, conv, sending, rev, logins, server, lost>>
    BY <1>3 DEF Opened, Inv, TypeOK
  <2>2. \A m \in Id : /\ Asking(m)' => Asking(m) /\ task'[m] = task[m]
    BY <1>1, <2>1 DEF Asking, Active, Current
  <2>3. Dated' /\ Composer'
    BY <1>1, <2>1, <2>2 DEF Inv, ChatInv, Dated, Composer, Active, Same
  <2>4. Asked' /\ ScreenIsOneConversation'
    BY <2>1, MobileAssumption DEF Asked, ScreenIsOneConversation
  <2>5. TypeOK'
    BY <1>1, <2>1 DEF Inv, TypeOK, server
  <2> QED
    BY <1>2, <2>3, <2>4, <2>5 DEF Inv, ChatInv
<1>4. CASE ~(Current(n) /\ conv = task[n].arg)
  <2>1. Over(n) /\ UNCHANGED <<status, store, flight, entry, chat, logins, server, lost>>
    BY <1>4 DEF Opened, chat, screen
  <2>2. ChatInv'
    BY <1>1, <2>1, EndsHere
  <2>3. TypeOK'
    BY <1>1, <2>1 DEF Inv, TypeOK, server, chat, screen
  <2> QED
    BY <1>2, <2>2, <2>3 DEF Inv
<1> QED
  BY <1>3, <1>4

LEMMA DoneIs ==
    ASSUME Inv, NEW n \in Id, NEW c \in Conv, Done(n, c)
    PROVE  /\ task' \in [Id -> Task] /\ \A m \in Id \ {n} : task'[m] = task[m]
           /\ task'[n].at = task[n].at /\ task'[n].kind = task[n].kind /\ task'[n].arg = c
           /\ task'[n].rev = task[n].rev /\ task'[n].step = "done"
<1>1. task[n] \in Task /\ task' = [task EXCEPT ![n] = [@ EXCEPT !.step = "done", !.arg = c]]
  BY DEF Inv, TypeOK, Done
<1> QED
  BY <1>1 DEF Inv, TypeOK, Task

\* The engine stores a question: it is of the conversation it was asked in, or of a new one.
LEMMA StoreKeeps == ASSUME Inv, NEW n \in Id, Store(n) PROVE Inv'
<1> DEFINE c == IF task[n].arg = None THEN FreshId ELSE task[n].arg
<1>1. c \in Conv /\ (task[n].arg # None => c = task[n].arg)
  <2>1. CASE task[n].arg = None
    <3>1. \E x \in Conv : x \notin saved \cup gone
      BY <2>1 DEF Store, Inv, TypeOK
    <3> QED
      BY <2>1, <3>1 DEF FreshId
  <2>2. CASE task[n].arg # None
    BY <2>2 DEF Store, Inv, TypeOK
  <2> QED
    BY <2>1, <2>2
<1>2. /\ Done(n, c) /\ saved' = saved \cup {c}
      /\ shown' = IF n \in shown THEN (shown \ {n}) \cup {c} ELSE shown
      /\ UNCHANGED <<status, store, flight, entry, conv, loaded, stray, sending, rev, logins,
                     head, alive, stale, gone, lost>>
      /\ task[n].at = "call" /\ task[n].kind = "send" /\ task[n].step = "first"
  BY DEF Store, Answered
<1> HIDE DEF c
<1>3. /\ task' \in [Id -> Task] /\ \A m \in Id \ {n} : task'[m] = task[m]
      /\ task'[n].at = task[n].at /\ task'[n].kind = task[n].kind /\ task'[n].arg = c
      /\ task'[n].rev = task[n].rev /\ task'[n].step = "done"
  BY <1>1, <1>2, DoneIs
<1>4. shown' \subseteq Conv \cup Id /\ shown' \cap Id \subseteq (shown \cap Id) \ {n}
  BY <1>1, <1>2, MobileAssumption DEF Inv, TypeOK
<1>5. TypeOK'
  BY <1>1, <1>2, <1>3, <1>4 DEF Inv, TypeOK
<1>6. Dated'
  BY <1>1, <1>2, <1>3 DEF Inv, ChatInv, Dated, Active
<1>7. \A m \in Id : Asking(m)' <=> Asking(m)
  BY <1>2, <1>3 DEF Asking, Current
<1>8. Asking(n) => conv = task[n].arg
  BY <1>2 DEF Inv, ChatInv, Composer
<1>9. Composer'
  <2> SUFFICES ASSUME NEW q \in Id, Asking(q)'
               PROVE  /\ sending' /\ \A m \in Id : Asking(m)' => m = q
                      /\ IF task'[q].step = "first" THEN conv' = task'[q].arg
                                                    ELSE conv' \in {task'[q].arg, None}
    BY DEF Composer
  <2>1. Asking(q) /\ sending' /\ \A m \in Id : Asking(m)' => m = q
    BY <1>2, <1>7 DEF Inv, ChatInv, Composer
  <2>2. CASE q = n
    BY <1>1, <1>2, <1>3, <1>8, <2>1, <2>2
  <2>3. CASE q # n
    BY <1>2, <1>3, <2>1, <2>3 DEF Inv, ChatInv, Composer
  <2> QED
    BY <2>1, <2>2, <2>3
<1>10. Asked'
  BY <1>2, <1>3, <1>4, <1>7 DEF Inv, ChatInv, Asked
<1>11. ScreenIsOneConversation'
  <2> SUFFICES ASSUME loaded', NEW d \in shown' \cap Conv, d # conv', d \notin stray'
               PROVE  conv' = None /\ \E m \in Id : Asking(m)' /\ task'[m].arg = d
    BY DEF ScreenIsOneConversation
  <2>1. CASE d \in shown
    <3>1. PICK m \in Id : conv = None /\ Asking(m) /\ task[m].arg = d
      BY <1>2, <2>1 DEF Inv, ChatInv, ScreenIsOneConversation
    <3>2. m # n
      BY <1>8, <3>1, MobileAssumption
    <3> QED
      BY <1>2, <1>3, <1>7, <3>1, <3>2
  <2>2. CASE d \notin shown
    <3>1. d = c /\ n \in shown
      BY <1>2, <2>2
    <3>2. Asking(n)
      BY <1>2, <3>1 DEF Inv, ChatInv, Asked
    <3> QED
      BY <1>1, <1>2, <1>3, <1>7, <1>8, <3>1, <3>2
  <2> QED
    BY <2>1, <2>2
<1>12. SessionInv'
  BY <1>2, SessionUntouched DEF Inv
<1> QED
  BY <1>5, <1>6, <1>9, <1>10, <1>11, <1>12 DEF Inv, ChatInv

LEMMA DeleteKeeps == ASSUME Inv, NEW n \in Id, Delete(n) PROVE Inv'
<1>1. /\ Done(n, task[n].arg) /\ task[n].arg \in Conv
      /\ task[n].at = "call" /\ task[n].kind = "delete"
      /\ saved' = saved \ {task[n].arg} /\ gone' = gone \cup {task[n].arg}
      /\ UNCHANGED <<status, store, flight, entry, chat, logins, head, alive, stale, lost>>
  BY DEF Delete, Answered, Inv, TypeOK
<1>2. /\ task' \in [Id -> Task] /\ \A m \in Id \ {n} : task'[m] = task[m]
      /\ task'[n].at = task[n].at /\ task'[n].kind = task[n].kind
      /\ task'[n].arg = task[n].arg
      /\ task'[n].rev = task[n].rev /\ task'[n].step = "done"
  BY <1>1, DoneIs
<1>3. TypeOK'
  BY <1>1, <1>2 DEF Inv, TypeOK, chat, screen
<1>4. Dated'
  BY <1>1, <1>2 DEF Inv, ChatInv, Dated, Active, chat
<1>5. \A m \in Id : (Asking(m)' <=> Asking(m)) /\ (Asking(m) => m # n)
  BY <1>1, <1>2 DEF Asking, Current, chat
<1>6. Composer'
  BY <1>1, <1>2, <1>5 DEF Inv, ChatInv, Composer, chat, screen
<1>7. Asked'
  BY <1>1, <1>2, <1>5 DEF Inv, ChatInv, Asked, chat, screen
<1>8. ScreenIsOneConversation'
  BY <1>1, <1>2, <1>5 DEF Inv, ChatInv, ScreenIsOneConversation, chat, screen
<1>9. SessionInv'
  BY <1>1, SessionUntouched DEF Inv
<1> QED
  BY <1>3, <1>4, <1>6, <1>7, <1>8, <1>9 DEF Inv, ChatInv

LEMMA ListKeeps == ASSUME Inv, NEW n \in Id, List(n) PROVE Inv'
<1> DEFINE t == [task[n] EXCEPT !.step = "second", !.retried = FALSE]
<1>1. /\ t \in Task /\ t.kind = task[n].kind /\ t.arg = task[n].arg /\ t.rev = task[n].rev
      /\ t.step = "second"
  <2>1. task[n] \in Task
    BY DEF Inv, TypeOK
  <2> QED
    BY <2>1 DEF Task
<1>2. /\ task' = [task EXCEPT ![n] = Sent(t)] /\ task[n].step = "done" /\ task[n].at = "call"
      /\ UNCHANGED <<status, store, flight, entry, chat, logins, server, lost>>
  BY DEF List
<1> HIDE DEF t
<1>3. /\ Sent(t) \in Task /\ Sent(t).at = "call" /\ Sent(t).kind = t.kind
      /\ Sent(t).arg = t.arg /\ Sent(t).rev = t.rev /\ Sent(t).step = t.step
  BY <1>1, SentIs DEF Inv
<1>4. /\ task' \in [Id -> Task] /\ \A m \in Id \ {n} : task'[m] = task[m]
      /\ task'[n] = Sent(t)
  BY <1>2, <1>3 DEF Inv, TypeOK
<1>5. \A m \in Id : Same(m)
  BY <1>1, <1>2, <1>3, <1>4 DEF Same, Inv, ChatInv, Dated
<1>6. \A m \in Id : Asking(m)' <=> Asking(m)
  BY <1>1, <1>2, <1>3, <1>4 DEF Asking, Current, chat
<1>7. \A m \in Id : Asking(m)' => sending'
  BY <1>2, <1>6 DEF Inv, ChatInv, Composer, chat
<1>8. ChatInv'
  BY <1>2, <1>5, <1>6, <1>7, SameView DEF Inv, chat, screen
<1>9. SessionInv'
  BY <1>2, SessionUntouched DEF server, Inv
<1> QED
  BY <1>2, <1>4, <1>8, <1>9 DEF Inv, TypeOK, server, chat, screen

\* The answer is shown where its question was asked: nothing else is on the screen.
LEMMA ShownKeeps == ASSUME Inv, NEW n \in Id, Shown(n) PROVE Inv'
<1>1. /\ task' \in [Id -> Task] /\ \A m \in Id \ {n} : task'[m] = task[m]
      /\ ~Active(n)' /\ \A m \in Id : Same(m)
  BY OverIs DEF Shown
<1>2. /\ task[n].step = "second" /\ task[n].arg \in Conv /\ task[n].at = "call"
      /\ task[n].kind = "send" /\ Over(n)
      /\ UNCHANGED <<status, store, flight, entry, loaded, stray, rev, logins, server, lost>>
  BY DEF Shown, Answered, Inv, ChatInv, Dated
<1>3. SessionInv'
  BY <1>2, SessionUntouched DEF server, Inv
<1>4. CASE Current(n)
  <2>1. conv' = task[n].arg /\ shown' = shown \cup {task[n].arg} /\ sending' = FALSE
    BY <1>4 DEF Shown
  <2>2. Asking(n)
    BY <1>2, <1>4 DEF Asking
  <2>3. conv \in {task[n].arg, None} /\ \A m \in Id : Asking(m) => m = n
    BY <1>2, <2>2 DEF Inv, ChatInv, Composer
  <2>4. \A m \in Id : ~Asking(m)'
    BY <1>1, <1>2, <2>3 DEF Asking, Active, Current
  <2>5. ScreenIsOneConversation'
    BY <1>2, <2>1, <2>3, MobileAssumption DEF Inv, ChatInv, ScreenIsOneConversation
  <2>6. Asked'
    <3>1. \A m \in shown \cap Id : ~loaded
      BY <1>2, <2>3 DEF Inv, ChatInv, Asked
    <3>2. shown' \cap Id = shown \cap Id
      BY <1>2, <2>1, MobileAssumption
    <3> QED
      BY <1>2, <3>1, <3>2 DEF Asked
  <2>7. Dated' /\ Composer'
    BY <1>1, <1>2, <2>4 DEF Inv, ChatInv, Dated, Composer, Active, Same
  <2>8. TypeOK'
    BY <1>1, <1>2, <2>1 DEF Inv, TypeOK, server
  <2> QED
    BY <1>3, <2>5, <2>6, <2>7, <2>8 DEF Inv, ChatInv
<1>5. CASE ~Current(n)
  <2>1. UNCHANGED chat /\ ~Asking(n)
    BY <1>2, <1>5 DEF Shown, Asking, chat, screen
  <2>2. ChatInv'
    BY <1>2, <2>1, EndsHere
  <2>3. TypeOK'
    BY <1>1, <1>2, <2>1 DEF Inv, TypeOK, server, chat, screen
  <2> QED
    BY <1>3, <2>2, <2>3 DEF Inv
<1> QED
  BY <1>4, <1>5

LEMMA RemovedKeeps == ASSUME Inv, NEW n \in Id, Removed(n) PROVE Inv'
<1>1. task' \in [Id -> Task] /\ (\A m \in Id : Same(m)) /\ Over(n) /\ ~Asking(n)
  BY OverIs DEF Removed, Answered, Asking
<1>2. SessionInv'
  BY SessionUntouched DEF Removed, server, Inv
<1>3. CASE Current(n) /\ conv = task[n].arg
  <2>1. Revise /\ Cleared
    BY <1>3 DEF Removed
  <2>2. ChatInv'
    BY <1>1, <2>1, NewView DEF Cleared, Inv
  <2>3. TypeOK'
    BY <1>1, <2>1, RevisedRev DEF Removed, Cleared, Inv, TypeOK, server
  <2> QED
    BY <1>2, <2>2, <2>3 DEF Inv
<1>4. CASE ~(Current(n) /\ conv = task[n].arg)
  <2>1. UNCHANGED chat
    BY <1>4 DEF Removed, chat, screen
  <2>2. ChatInv'
    BY <1>1, <2>1, EndsHere
  <2>3. TypeOK'
    BY <1>1, <2>1 DEF Removed, Inv, TypeOK, server, chat, screen
  <2> QED
    BY <1>2, <2>2, <2>3 DEF Inv
<1> QED
  BY <1>3, <1>4

LEMMA LoggedOutKeeps == ASSUME Inv, NEW n \in Id, LoggedOut(n) PROVE Inv'
<1>1. task' \in [Id -> Task] /\ ChatInv'
  BY EndsHere DEF LoggedOut, Asking
<1>2. alive' \subseteq alive /\ store' = NoPair /\ store'["refresh"] = None
  BY BasicFacts DEF LoggedOut, NoPair
<1>3. SessionInv'
  BY <1>2, SessionUntouched DEF LoggedOut, Inv
<1> QED
  BY <1>1, <1>2, <1>3 DEF LoggedOut, Inv, TypeOK, NoPair, chat, screen

-----------------------------------------------------------------------------
(* Kills, and every step *)

LEMMA KillKeeps == ASSUME Inv, Kill PROVE Inv'
<1>1. /\ flight' = None /\ entry' = None /\ status' = "initial"
      /\ task' = [n \in Id |-> IF task[n].at = "none" THEN NoTask ELSE Gone]
      /\ conv' = None /\ shown' = {} /\ loaded' = TRUE /\ stray' = {}
      /\ sending' = FALSE /\ rev' = 0
      /\ UNCHANGED <<logins, alive, stale, saved, gone>>
  BY DEF Kill, Cleared
<1>2. task' \in [Id -> Task] /\ \A n \in Id : ~Active(n)' /\ task'[n].step = "first"
  BY <1>1, IdleTasks DEF Active
<1>3. \A n \in Id : ~Asking(n)'
  BY <1>2 DEF Active, Asking
<1>4. ChatInv'
  BY <1>1, <1>2, <1>3 DEF ChatInv, Dated, Composer, Asked, ScreenIsOneConversation
<1>5. /\ store' \in [Key -> Token \cup {None}]
      /\ store'["refresh"] \in {store["refresh"], None}
  <2>1. CASE UNCHANGED store
    BY <2>1 DEF Inv, TypeOK
  <2>2. ASSUME NEW k \in Key, store' = [store EXCEPT ![k] = None]
        PROVE  /\ store' \in [Key -> Token \cup {None}]
               /\ store'["refresh"] \in {store["refresh"], None}
    BY <2>2, BasicFacts DEF Inv, TypeOK
  <2> QED
    BY <2>1, <2>2 DEF Kill
<1>6. \/ UNCHANGED head
      \/ /\ flight # None /\ flight.got = "none" /\ flight.tok \in Token
         /\ head' = [head EXCEPT ![flight.tok.login] = @ + 1]
         /\ flight.tok.login \in lost' /\ flight.tok.login \in Login
  <2> SUFFICES ASSUME flight # None, flight.got = "none",
                      head' = [head EXCEPT ![flight.tok.login] = @ + 1]
               PROVE  /\ flight.tok.login \in lost' /\ flight.tok.login \in Login
                      /\ flight.tok \in Token
    BY DEF Kill
  <2>1. flight.tok # None /\ flight.written = {}
    BY DEF Inv, SessionInv, Written
  <2>2. flight.tok \in Token
    BY <2>1, BasicFacts DEF Inv, TypeOK
  <2> QED
    BY <2>1, <2>2, BasicFacts DEF Kill
<1>7. head' \in [Login -> Nat] /\ lost \subseteq lost'
  BY <1>6 DEF Kill, Inv, TypeOK
<1>8. TypeOK'
  BY <1>1, <1>2, <1>5, <1>7, BasicFacts DEF Inv, TypeOK
<1>9. \A s \in Login : head'[s] = head[s] \/ (s \in lost' /\ Redeemed(s))
  <2>1. CASE UNCHANGED head
    BY <2>1
  <2>2. CASE /\ flight # None /\ flight.got = "none" /\ flight.tok \in Token
             /\ head' = [head EXCEPT ![flight.tok.login] = @ + 1]
             /\ flight.tok.login \in lost' /\ flight.tok.login \in Login
    <3>1. \A s \in Login : s # flight.tok.login => head'[s] = head[s]
      BY <2>2 DEF Inv, TypeOK
    <3>2. flight.tok # None
      BY <2>2, BasicFacts
    <3> QED
      BY <2>2, <3>1, <3>2 DEF Redeemed, Of
  <2> QED
    BY <1>6, <2>1, <2>2
<1>10. Unopened'
  BY <1>1, <1>5, <1>9 DEF Inv, SessionInv, Unopened, Fresh, Redeemed, Of
<1>11. \A s \in alive' \ lost' : Of(store["refresh"], s) => head'[s] = store["refresh"].n
  <2> SUFFICES ASSUME NEW s \in alive' \ lost', Of(store["refresh"], s)
               PROVE  head'[s] = store["refresh"].n
    OBVIOUS
  <2>1. s \in alive \ lost /\ s \in Login /\ head'[s] = head[s]
    BY <1>1, <1>7, <1>9 DEF Inv, TypeOK
  <2>2. CASE ~Redeemed(s)
    BY <2>1, <2>2 DEF Inv, SessionInv, Stored
  <2>3. CASE Redeemed(s)
    <3>1. flight # None /\ flight.tok # None /\ flight.tok.login = s
      BY <2>3 DEF Redeemed, Of
    <3>2. \/ flight.got = "none"
          \/ flight.got = "ok" /\ head[s] = flight.tok.n + 1
      BY <2>1, <2>3 DEF Inv, SessionInv, Reached
    <3>3. "refresh" \in flight.written
      BY <3>1, <3>2 DEF Kill
    <3>4. flight.got = "ok"
      BY <3>1, <3>2, <3>3 DEF Inv, SessionInv, Written
    <3>5. store["refresh"] = Renewed(flight.tok)
      BY <3>1, <3>3 DEF Inv, SessionInv, Written
    <3>6. flight.tok \in Token
      BY <3>1, BasicFacts DEF Inv, TypeOK
    <3> QED
      BY <2>1, <3>2, <3>4, <3>5, <3>6, BasicFacts
  <2> QED
    BY <2>2, <2>3
<1>12. Entering' /\ Reached' /\ Written' /\ Stored'
  BY <1>1, <1>5, <1>11 DEF Entering, Reached, Written, Stored, Redeemed, Of
<1> QED
  BY <1>4, <1>8, <1>10, <1>12 DEF Inv, SessionInv

LEMMA InvInit == Init => Inv
<1> SUFFICES ASSUME Init PROVE Inv
  OBVIOUS
<1>1. task \in [Id -> Task] /\ \A n \in Id : ~Active(n) /\ task[n].step = "first"
  BY IdleTasks DEF Init, Active
<1>2. TypeOK
  <2>1. 0 \in 0..MaxViews /\ 0 \in 0..MaxLogins /\ Old \subseteq Conv
    BY MobileAssumption
  <2>2. head \in [Login -> Nat] /\ NoPair \in [Key -> Token \cup {None}]
    BY DEF Init, NoPair
  <2> QED
    BY <1>1, <2>1, <2>2 DEF Init, TypeOK
<1>3. \A n \in Id : ~Asking(n)
  BY <1>1 DEF Active, Asking
<1>4. ChatInv
  BY <1>1, <1>3 DEF Init, ChatInv, Dated, Composer, Asked, ScreenIsOneConversation
<1>5. SessionInv
  BY BasicFacts DEF Init, SessionInv, Unopened, Entering, Reached, Written, Stored, Fresh,
     Redeemed, Of, NoPair
<1> QED
  BY <1>2, <1>4, <1>5 DEF Inv

LEMMA InvStep == ASSUME Inv, [Next]_vars PROVE Inv'
<1>1. ASSUME NEW n \in Id,
             \/ Restore(n) \/ Send(n) \/ Logout(n) \/ \E m \in Id : Initialize(m, n)
             \/ Broken(n) \/ Denied(n) \/ Restored(n) \/ Initialized(n) \/ Opened(n)
             \/ Store(n) \/ Delete(n) \/ List(n) \/ Shown(n) \/ Removed(n) \/ LoggedOut(n)
             \/ \E c \in Conv : OpenConversation(n, c) \/ DeleteConversation(n, c)
      PROVE  Inv'
  <2>1. CASE Restore(n) \/ Send(n) \/ Logout(n) \/ \E m \in Id : Initialize(m, n)
    BY <2>1, RestoreKeeps, InitializeKeeps, SendKeeps, LogoutKeeps
  <2>2. CASE \E c \in Conv : OpenConversation(n, c) \/ DeleteConversation(n, c)
    BY <2>2, OpenKeeps, DeleteConversationKeeps
  <2>3. CASE \/ Broken(n) \/ Denied(n) \/ Restored(n) \/ Initialized(n) \/ Opened(n)
             \/ Store(n) \/ Delete(n) \/ List(n) \/ Shown(n) \/ Removed(n) \/ LoggedOut(n)
    BY <2>3, BrokenKeeps, DeniedKeeps, RestoredKeeps, InitializedKeeps, OpenedKeeps,
       StoreKeeps, DeleteKeeps, ListKeeps, ShownKeeps, RemovedKeeps, LoggedOutKeeps
  <2> QED
    BY <1>1, <2>1, <2>2, <2>3
<1>2. ASSUME NEW k \in Key, SaveLogin(k) \/ SaveRenewed(k) PROVE Inv'
  BY <1>2, SaveLoginKeeps, SaveRenewedKeeps
<1>3. CASE \/ Authenticate \/ Authenticated \/ NewConversation
           \/ Read \/ Rotate \/ Refuse \/ Lose \/ Land \/ Kill
  BY <1>3, AuthenticateKeeps, AuthenticatedKeeps, NewConversationKeeps, ReadKeeps, RotateKeeps,
     RefuseKeeps, LoseKeeps, LandKeeps, KillKeeps
<1>4. CASE UNCHANGED vars
  <2>1. ChatInv' /\ SessionInv'
    BY <1>4, ChatUntouched, SessionUntouched DEF vars, server, Inv
  <2> QED
    BY <1>4, <2>1 DEF vars, chat, screen, server, Inv, TypeOK
<1> QED
  BY <1>1, <1>2, <1>3, <1>4 DEF Next

LEMMA Inductive == Spec => []Inv
BY InvInit, InvStep, PTL DEF Spec

-----------------------------------------------------------------------------
\* Whatever is opened, deleted or answered late, and however many tasks run, the
\* conversations on the screen are the one the next question goes to, one that a
\* question in progress has opened, and those whose answer failed to arrive.
THEOREM OneConversationOnScreen == Spec => []ScreenIsOneConversation
BY Inductive, PTL DEF Inv, ChatInv

\* A refresh that comes back refused was lost, or its session is closed.
LEMMA RefusedForAReason ==
    ASSUME Inv, flight # None, flight.got = "no"
    PROVE  flight.tok.login \in lost \/ flight.tok.login \notin alive
BY DEF Inv, SessionInv, Reached, Written, Redeemed, Of

\* No number of tasks that find the token expired together costs the user the
\* session, wherever the app is killed: the refresh token goes for one of the listed
\* reasons.
THEOREM ClearsHaveReasons == Spec => ClearedForAReason
<1> DEFINE Reason ==
             \/ \E n \in Id : Ends(n) /\ (task[n].retried \/ task[n].kind \in {"logout", "restore"})
             \/ store["refresh"].login \in lost \/ store["refresh"].login \notin alive
             \/ flight # None /\ flight.got = "no"
                /\ flight.tok.login # store["refresh"].login
<1>1. ASSUME Inv, [Next]_vars, store["refresh"] # None, store'["refresh"] = None
      PROVE  Reason
  <2>1. ASSUME NEW n \in Id, task[n].at = "call", Fail({n}, task[n].retried)
        PROVE  Reason
    <3>1. task'[n].at = "over"
      BY <2>1, IdleTasks DEF Fail
    <3>2. task[n].retried \/ task[n].kind = "restore"
      BY <1>1, <2>1 DEF Fail
    <3> QED
      BY <2>1, <3>1, <3>2 DEF Ends
  <2>2. ASSUME NEW n \in Id, Broken(n) PROVE Reason
    BY <2>1, <2>2 DEF Broken
  <2>3. ASSUME NEW n \in Id, Denied(n) PROVE Reason
    <3>1. task[n].retried /\ Fail({n}, TRUE)
      BY <1>1, <2>3 DEF Denied
    <3>2. task[n].at = "call" /\ task'[n].at = "over"
      BY <2>3, <3>1, IdleTasks DEF Fail, Denied
    <3> QED
      BY <3>1, <3>2 DEF Ends
  <2>4. ASSUME NEW n \in Id, LoggedOut(n) PROVE Reason
    <3>1. task'[n].at = "over"
      BY <1>1, <2>4, OverIs, IdleTasks DEF LoggedOut
    <3> QED
      BY <2>4, <3>1 DEF LoggedOut, Ends
  <2>5. ASSUME flight # None, flight.got = "no" PROVE Reason
    BY <1>1, <2>5, RefusedForAReason
  <2>6. CASE Land
    BY <1>1, <2>5, <2>6 DEF Land
  <2>7. ~Read
    BY <1>1 DEF Read
  <2>8. \A k \in Key : ~SaveLogin(k)
    <3> SUFFICES ASSUME NEW k \in Key, SaveLogin(k) PROVE FALSE
      OBVIOUS
    <3>1. entry.tok # None /\ store' = [store EXCEPT ![k] = entry.tok]
      BY <1>1, BasicFacts DEF SaveLogin, Inv, TypeOK
    <3> QED
      BY <1>1, <3>1, BasicFacts DEF Inv, TypeOK
  <2>9. \A k \in Key : ~SaveRenewed(k)
    <3> SUFFICES ASSUME NEW k \in Key, SaveRenewed(k) PROVE FALSE
      OBVIOUS
    <3>1. flight.tok # None
      BY <1>1 DEF SaveRenewed, Inv, SessionInv, Written
    <3>2. Renewed(flight.tok) # None /\ store' = [store EXCEPT ![k] = Renewed(flight.tok)]
      BY <1>1, <3>1, BasicFacts DEF SaveRenewed, Inv, TypeOK
    <3> QED
      BY <1>1, <3>2, BasicFacts DEF Inv, TypeOK
  <2>10. CASE Kill
    <3>1. PICK n \in Id : Clearing(n)
      BY <1>1, <2>10 DEF Kill
    <3>2. CASE task[n].at = "call" /\ (task[n].retried \/ task[n].kind \in {"logout", "restore"})
      <4>1. task'[n].at = "over"
        BY <2>10, <3>2, IdleTasks DEF Kill
      <4> QED
        BY <3>2, <4>1 DEF Ends
    <3>3. CASE flight # None /\ flight.got = "no"
      BY <2>5, <3>3
    <3> QED
      BY <3>1, <3>2, <3>3 DEF Clearing
  <2>11. store' # store
    BY <1>1
  <2> QED
    BY <1>1, <2>2, <2>3, <2>4, <2>6, <2>7, <2>8, <2>9, <2>10, <2>11
       DEF Next, vars, server, Restore, Initialize, Send, Logout, Restored, Initialized, Opened,
           Store, Delete, List, Shown, Removed, OpenConversation, DeleteConversation,
           NewConversation, Authenticate, Authenticated, Rotate, Refuse, Lose
<1>2. Inv /\ [Next]_vars =>
        [store["refresh"] # None /\ store'["refresh"] = None => Reason]_vars
  BY <1>1
<1> QED
  BY <1>2, Inductive, PTL DEF Spec, ClearedForAReason

==============================================================================

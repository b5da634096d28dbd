# MyAgent Community Edition in TLA+

A verification development for the MyAgent engine (Python, FastAPI, SQLAlchemy) and its web and
mobile clients.  The modules say what the code does, step by step, where several requests,
responses, transactions or tasks meet; TLC checks them on small instances, and TLAPS proves the
safety of sessions, providers, conversations, documents, migrations, limiters and both clients for
every size of the system (section 4).

Paths below are relative to `src/`; `E/` stands for `MyAgent-Engine/`.

    tlc -workers 2 -config AuthSessions.cfg MCAuthSessions.tla     # likewise each .cfg, see "Runs"
    tlapm AuthSessionsProofs.tla                                   # likewise each *Proofs.tla

## 1. The system

One process of the engine serves HTTP and WebSocket requests as coroutines over an async database
session each (PostgreSQL, or SQLite for one node).  It calls model servers over HTTP.  The web
client is one JavaScript page, the mobile client a Flutter application; both hold an access and a
refresh token and repeat a request once when the access token has expired.

| Component | State it keeps | Operations | Meets the others by | What is hard | What makes it correct |
|---|---|---|---|---|---|
| Accounts and refresh sessions (`E/services/auth_service.py`, `E/core/security/jwt.py`) | tables `users`, `refresh_sessions` | register, login, refresh, logout | both clients redeem its tokens; `is_active` is changed by others | a row is read, other requests commit, the row is written; a response may be lost | a token is redeemed once; the winner keeps its session; logout is final |
| Provider router (`E/core/providers/router.py`, `E/agents/`) | none between requests; candidate, attempt and `emitted` of a request | chat, stream | called by chat; calls a provider | retries within fallbacks, failure after partial output | text of one call only; order; no skipped fallback; an end |
| HTTP model providers (`E/core/providers/http_providers.py`) | none between requests; usage counted so far | chat, stream, health | under the router | every fault of the wire at every point of a stream | usage is the answering call's last |
| Chat, conversations, projects (`E/services/chat_service.py`, `E/core/memory/manager.py`, routes) | tables `projects`, `conversations`, `messages` | chat, stream, create, rename, delete, delete project | asks the router between two of its writes, its transaction open | a row read before the provider call is written after it; deletions meanwhile | whole exchanges, references, current history, nothing forgotten |
| Rate limiting (`E/core/security/rate_limiter.py`, `E/apps/backend/api/middleware.py`) | two tables of timestamps by client or user | check | before every handler | boundary of the window; sweep; eviction at the limit | quota; bounded memory; deserved rejections |
| Web client: session (`MyAgent-Web/app.js` 1-198) | tokens, `refreshPromise`, `sessionStorage` | boot, login, request, refresh, logout | the engine's sessions | several 401s at once, answers after a logout, reloads | one refresh for all; no needless sign-out |
| Web client: chat (`app.js` 215-375) | view version, conversation, bubbles, abort controller | open, new, send, stop, delete | streams of the engine | late histories, late streams, late `finally` | the screen is one conversation |
| Mobile client (`MyAgent-Mobile/lib`) | secure store, `_refreshing`, `AuthState`, `ChatState`, `_viewRevision` | restore, login, initialize, open, send, delete, logout | the engine's sessions and chats | tasks that await calls; the system kills the app | as for the web client |
| Knowledge and RAG (`E/core/rag`, `E/apps/backend/api/routes/knowledge.py`, `search_candidates`) | table `knowledge_documents` | create, upload, list, delete, search | chat asks it for sources; projects are deleted under it | a project looked up before a file is read and parsed; a LIKE filter, a cap and a ranker in a row | documents are whole, outlive projects, and are found unless there is a reason |
| Request size (`RequestSizeMiddleware`) | the body buffered so far | buffer, reject, replay | in front of every route with a body | a body without a length, a client that leaves | what is passed on is the body |
| WebSocket chat (`E/apps/backend/api/routes/websocket.py`) | one database session for all chats of a socket | receive, stream, close | chat | authenticated once; its session lives on between chats | as for chat |
| Migrations (`E/migrations`, `E/Dockerfile`) | the schema, every row, `alembic_version` | upgrade, downgrade | run before the engine each time the container starts | a crash or a refusal between two statements; orphans removed in an order | the version is the schema; rows are as they were or as they should be |
| Tools | none | calculator and two others | none | bounds of a recursive evaluator | not modelled yet |
| Settings, container, lifespan, health, costs, roles, validation, logging, service worker, desktop shell, scripts | configuration, caches | see PROJECT.json | | sequential code and plain I/O | not modelled |

Two facts of the code shape the models.  Between two `await`s nothing else of the process runs, so
a step of a model is the code between two `await`s; and a transaction's writes are seen by others
only after its commit, while the rows it has written are locked.  Where PostgreSQL locks a row the
models lock that row; SQLite locks the database, which allows fewer interleavings.

## 2. Modules

| Module | Stands for |
|---|---|
| `TokenLedger` | abstract: what a refresh session promises, with no requests, transactions or clock |
| `AuthSessions` | registration, login, refresh and logout as concurrent transactions; refines `TokenLedger` |
| `ProviderRouter` | the router: candidates, retries, fallbacks, partial output |
| `HttpProviders` | composes the router with the exchange behind each provider call |
| `Conversations` | chats and the conversation and project routes as concurrent transactions, with memory |
| `Knowledge` | request bodies, documents and projects as concurrent transactions; the search of a chat |
| `Migrations` | the revisions, statement by statement, on PostgreSQL and on SQLite, with crashes |
| `RateLimiter` | the two limiters behind the middleware |
| `WebSession` | the tab's tokens against the engine's sessions |
| `WebChat` | the tab's chat view against late histories and streams |
| `MobileApp` | tasks of the mobile client: tokens, chat controller, kills |
| `AuthSessionsProofs`, `HttpProvidersProofs`, `ConversationsProofs`, `KnowledgeProofs`, `MigrationsProofs`, `RateLimiterProofs`, `MobileAppProofs` | theorems about the module each is named after |
| `WebClientProofs` | theorems about `WebSession` and about `WebChat` |
| `MC*` | instances for TLC: model values and symmetry only |

No module declares a RECURSIVE operator, so every one of them can be proved about.  PROJECT.json
maps each definition to the lines it stands for.

### AuthSessions

`users`, `sess` are committed rows; `rowLock` and `emailLock` name the request whose open
transaction has written a row or inserted an email; `spent` is the history of committed rotations.
A refresh is `RefreshLoad` (row, hash, state and expiry checked), `RefreshUser` (account and
`is_active`), `RefreshRotate` (the compare-and-set UPDATE, which waits for the row),
`RefreshCommit`; logout, login and registration likewise.  The environment advances the clock,
disables accounts, drops responses and aborts transactions.  Random ids are the serial numbers of
the requests that draw them; a fingerprint is the id of its token.

### ProviderRouter and HttpProviders

`ProviderRouter` is `chat` and `stream` of the router as one action per way a provider call can go
on: a chunk, an end, a failure of a kind (`retryable`, `permanent`, `error` for any other
ProviderError, `other` for what is not one), a sleep, a cancellation.  `HttpProviders` extends it
and replaces "fails somehow" by the HTTP exchange: a status, a dropped connection, malformed data,
events of each provider's stream and the token counts they carry, by provider class (`Style`).
`MaySend` is what a server sends, and is external.

### Conversations

Each request is a transaction with the row its session loaded (`base`), the messages it added
(`own`) and the history it read (`seen`).  `Touch` is the read of the history, which first flushes
`updated_at`: it waits for the row and keeps it through the provider call (`think`) to `Commit`.
`Sharing` and `Linking` are the key-share locks that foreign keys take.  `Commit` writes the
columns the session changed and no others.  The deletion of a project takes rows one by one: the
project's (`Unlink`), then ON DELETE SET NULL comes to one of its conversations after the other
(`Reach`), waits for whoever writes it and keeps it (`Tie`, `tied`), and at the end commits
(`Unlinked`).  It holds the rows it has while it waits for the next.

A message is its author, role, time and length.  `Context` is `recent_context`: the recent messages
from the last one back until `CharLimit` characters are used, of which the one that crosses the limit
is cut and kept (`Full`).  A question is left out when what others said after it fills the
characters, which `QuestionInContext` excepts by name: the code does that.  A summary is the set of
messages folded into it: the cut to `summary_max_chars` is left out, so `NothingForgotten` is about
which messages are folded, not about how much of each survives.

`socket` says which chats share a WebSocket, as one of the `Wirings` of the instance: the requests
of a socket follow one another, the next received when the stream of the last one has ended, and a
chat that fails closes the socket.  The chats of a socket share a database
session, but not rows: SQLAlchemy refers weakly to what it has loaded, and nothing holds the
conversation between two chats, so each chat reads it again.  Token and account are looked at as
the socket opens and not again; `Conversations` has no tokens, and the hazard is listed.

### Knowledge

A request with a body passes `RequestSizeMiddleware` first: `Arrive` (a declared length),
`BadLength`, `Piece`, `Disconnect`.  Then `Begin` (the transaction and the project's lookup),
`ReadFile`, `Insert` (the foreign key, which also keeps the project's row), `Commit`; `Find` looks a
row up and `Forget` or `DropProject` deletes it.  A document's time stands for its id.  The search
only reads and in one query, so it is an operator on the committed rows: `Candidates` is
`search_candidates`, `Score` is `BM25Lite.score`, `Relevant` is `_rank_documents`.  A text is how
often each term occurs in it; `Norm` folds Arabic spellings and `Within` says which terms are
part of others' letters, as LIKE sees them.  Texts are below the 400 terms at which the score is
divided by the length.  `InputsAssumption` says what requests and shelves are: the size sent is the
file's, texts count terms, and the documents there are could have been stored under the same limits.

### Migrations

`disk` is what is committed, `work` what the connection sees.  `Up1` to `Up4` and `Down1` to
`Down4` are the revisions as lists of statements, in the order of the scripts; `Refuses` and
`After` say what the databases do with one, and are external, as is alembic (`Boot`, `Stamp`,
`Finish`).  PostgreSQL runs an upgrade of several revisions in one transaction.  On SQLite each
revision commits, and the driver opens the transaction only at the first statement that changes
rows, so schema statements before it are committed one by one (`Begins`).  `Crash` forgets what is
not committed; `Downgrade` is an operator's.  Columns that a revision adds are part of the schema,
not of the rows, and a row is its table, its id and its links (`Row`).  `Fill` is the UPDATE that
copies `users.email` (up to 320 characters) into `display_name` (up to 120): PostgreSQL refuses it
when a user of `Long`, whose email is longer, is there.  A database that starts at
the head revision has had its foreign keys all along, so no link of it dangles
(`LinkedAssumption`); one of an earlier version may hold any rows.

### RateLimiter

Two limiters (`auth` for login and register, `general` for the rest), each a table from keys to
timestamps; a check sweeps when due, evicts the idlest at the limit, trims, and decides.  `Recent`
is the `popleft` loop: it keeps a bucket from its first request that is still in the window.
`granted` and `dropped` are history.

### WebSession, WebChat, MobileApp

`WebSession` (its `SessionInit`, `SessionNext` and `SessionSpec` are named apart from those of
`WebChat`, so that one module can prove about both): the calls of a page, the shared
`refreshPromise` (`flight`), the tokens held and stored, and the engine reduced to one accepted
token per login, which `AuthSessions` justifies (`LedgerSpec`).  A response may be lost, the page
reloaded, the user may log out at any point.  `boot()` sends one call and, once that is answered,
shows the application and sends the two listings of `showApp` in the same `try` (`ShowApp`): the
first of the three that fails clears the tokens, by then perhaps those of a later login (`BootFailed`).
`WebChat`: `sends` are `sendMessage` calls in their `await`s, the listing after the stream included
(`Listed`; when that fails, `Fail` puts the error in the place of the answer), `work` the conversations their streams
announce; `view` is the view version.  `late` is history: the send ended after the user had signed
out, when its `finally` still resets the composer of whoever signed in next (`Interfered`).  The
provider and knowledge panels are left out.
`MobileApp`: tasks are the controllers' asynchronous methods; a task is in its call, waiting for
the shared refresh, or over.  `initialize` starts two of them at once, and each goes on whatever
becomes of the other (`Future.wait` waits for both).  A send and a deletion make two calls: the
engine has done the first before the listing is asked for (`Store`, `Delete`, `List`).  What is on
the screen includes the question just asked, of no conversation until the engine stores it.  The
refresh first reads its token (`Join`, `Read`), and a pair is saved in two writes (`SaveLogin`,
`SaveRenewed`).  `Kill`, at any point, leaves only the token store, between two writes or two deletes
too.  Widgets appear only as the guard of the composer (`CanSend`).

## 3. Runs

Violations are disagreements between the code and what the repository says of it; see section 5.

| Run | Instance | Shows |
|---|---|---|
| `AuthSessions` | 2 requests at a time, 3 in all, 1 account, clock 0..1 | `OneWinner`, `WinnerKeepsSession`, `RowExpiresWithItsToken`, `LogoutIsFinal`, `OneLateRotation`, `RevokedIsFrozen`, that it implements `TokenLedger`, and `EveryRequestEnds` |
| `Providers` | 6 providers: one of each class and an unusable one; fallbacks name one twice; 2 retries | `NeverMixes`, `CallsAreInOrder`, `FailsOnlyWhenAllFailed`, `UsageIsTheLastReported`, `RequestEnds` |
| `Conversations` | 3 requests of any kind, two of them perhaps on one WebSocket, or two WebSockets with 2 chats each; 4 conversations, the first with 8 messages; 1 project; context 6, trigger 8, characters for two answers | `ExchangesAreWhole`, `ReferencesResolve`, `HistoryIsCurrent`, `UpdatesAreKept`, `QuestionInContext`, `NothingForgotten`, `NoDeadlock` |
| `ConversationsRace` | 3 chats on a conversation of 8 messages, context 4, trigger 8 | violation of `NothingForgotten` |
| `RateLimiter` | 2 clients, 1 user, table of 2 keys, sweep every 3 checks, 6 checks | `Quota`, `MemoryIsBounded`, `RejectionsAreDeserved`, `OnlyTheIdlestIsForgotten` |
| `WebSession` | 2 calls, 2 logins, 2 expiries | `HoldsTheHead`, `SignedOutForAReason` |
| `WebSessionLogout` | 2 calls, 1 login, 1 expiry | violation of `LogoutLeavesNoTokens` |
| `WebChat` | 3 conversations (1 old), 2 sends, 3 views, 1 sign-out | `ScreenIsOneConversation`, `OneLiveStream`, `AnswersAreShown`, `ComposerReturns` |
| `MobileApp` | 3 tasks, 3 conversations (1 old), 1 change of view, 2 logins, 1 expiry, kills | `ScreenIsOneConversation`, `ClearedForAReason` |
| `Knowledge` | 2 requests, 2 users, a project each, shelves of up to 3 documents; body 9, file 7; 2 terms looked for, 2 candidates, 1 result; 6 queries | `UploadsArriveWhole`, `SearchFindsTheBest`, `DocumentsOutliveProjects` |
| `Migrations` | both databases; empty, of version 1 and of version 3, with every mixture of sound and dangling links, and users whose email is too long to copy; 1 crash, 1 downgrade | `CleanupIsExact`, `VersionIsSchema`, `ModelsAgree`, `UpgradeSucceeds` |
| `MigrationsSqlite` | SQLite, a database of version 1 in use, no crash | violation of `SamePath` |

Each property has a mutant of the code that breaks it (PROJECT.json): a definition `Mut...`, which
stands before the definition it would replace and says which fault it is.

### Bounds, and why they are enough

- `AuthSessions`: a login and two refreshes or logouts; two requests at a time are enough for every
  pair of steps to meet, and a third comes later and finds what they left.  The clock reaches the
  expiry (`RefreshLife = 1`), so expired tokens and rows occur.  A second account would only meet
  the first in `emailLock`, which is per account.  The theorems remove these bounds; three requests
  at a time hold too, but with liveness take longer than the other runs together.
- `Providers`: the first candidate that fails, one that is unusable, one listed twice, and a last
  one; every count from 0 to 2 and its absence; up to two texts before the end of a stream.
- `Conversations`: an existing conversation and one new one for each request; a chat, the deletion
  of its conversation and the deletion of its project meet in pairs and all three at once.  Eight
  messages are at the trigger, and four chats on two sockets move the first of them out of the
  window.  A question has one character and an answer five of the nine: one answer and the questions
  fit, two answers leave the question before them out.  With 1,586,322 states it is the largest run,
  about two and a half minutes.  Requests r1 to r3 are alike, so it is sound to exchange them: `MCWirings` is closed under
  that.
- `RateLimiter`: a window, a step beyond it, a table that overflows by one and a sweep before the
  last check.  With limits 1 and 2 a second rejection is possible in the window of the first.
- `WebSession`: two calls that meet a 401 together, one that arrives late; the two listings of
  `boot()` take both; the second login
  separates refreshes of the earlier session.
- `WebChat`: a view left and come back to, a send that ends in each, and one more conversation to
  be mixed with.
- `MobileApp`: a view and the next, with three tasks begun in either: two that find the token
  expired together and one that follows.  Two views more than double the 1,566,294 states.
- `Knowledge`: a file below, at and beyond each of the two limits, in pieces that stop before and
  beyond them; an upload meets the deletion of its project, a deletion its like.  Three documents exceed
  the candidates by one and those the results by one; a query of three terms exceeds the terms by
  one; terms that fold to another and that are part of another occur.
- `Migrations`: one row of a table and its links, sound, missing or dangling, stand for each way the
  cleanup treats a row; a chain from message to user is as long as the links go.  A crash at any
  statement and an upgrade repeated from there, or after a downgrade to any version.
- `AuthSessions`, `RateLimiter` and `WebSession` count requests and time, `WebChat` and `MobileApp`
  user actions, `Migrations` crashes and downgrades: they stop when the bound is used up, and so
  does the router when its request is answered.  That is why those configurations do not check
  deadlock; `Conversations` and `Knowledge` do.

### Fairness

- `AuthSessions`: weak fairness of each request's next step, for the event loop resumes a coroutine
  whose `await` is over; strong fairness of the three steps that wait for a lock, which databases
  grant in order.  Nothing forces clients to send, transactions to abort or accounts to change.
- `Providers` (`HttpFairSpec`): a sleep ends (`Again`), and the caller takes what is yielded
  (`HandsOver`).  Nothing is assumed of the servers: timeouts are per read and there is no total
  deadline, so one that drips holds the request for ever.  `RequestEnds` excepts just that: either
  the request ends or from some moment on it reads one response (`Waits`).
- `Conversations` states no fairness: `NoDeadlock` says that some request can always go on, and
  since a request takes a few steps and no more, that is what could go wrong with its locks.
- `WebChat`: a fetch or a read ends with a response or an error, and a refresh is answered.  No
  liveness is claimed of `WebSession`.
- `Migrations`: the container is started again whenever it stops (`restart: unless-stopped`,
  `docker-compose.yml`), and a migration goes on.
- No liveness is claimed of `MobileApp`: `sending` and `loading` may stick, see section 5.

## 4. Theorems

Each holds for any sets of requests, users, providers, conversations and so on, and for any bounds,
from the named assumptions of the modules only; TLC evaluates those on every run.

| Theorem | Statement | From |
|---|---|---|
| `TypeCorrect` (`AuthSessionsProofs`) | `Spec => []TypeOK` | `BoundsAssumption`, `LifeAssumption`, `NoneAssumption`, which the rest of this module share |
| `RefreshHasOneWinner` | `Spec => []OneWinner` | |
| `WinnersKeepTheirSession` | `Spec => []WinnerKeepsSession` | |
| `LogoutsAreFinal` | `Spec => []LogoutIsFinal` | |
| `RowsExpireWithTheirTokens` | `Spec => []RowExpiresWithItsToken` | |
| `DisabledAccountsRotateOnce` | `Spec => []OneLateRotation` | |
| `RevocationIsForever` | `Spec => RevokedIsFrozen` | |
| `ImplementsLedger` | `Spec => LedgerSpec`: every step of the code is a step of `TokenLedger` or none | |
| `ImplementsRouter` (`HttpProvidersProofs`) | `HttpSpec => Spec`: the exchanges implement the router's abstract calls | `RouterAssumption`, `StyleAssumption` |
| `OneProvidersText` | `HttpSpec => []NeverMixes` | |
| `OrderedCalls` | `HttpSpec => []CallsAreInOrder` | |
| `NoFallbackIsSkipped` | `HttpSpec => []FailsOnlyWhenAllFailed` | |
| `LastUsage` | `HttpSpec => []UsageIsTheLastReported` | |
| `TypeCorrect` (`ConversationsProofs`) | `Spec => []TypeOK` | `NamesAssumption`, `MemoryAssumption` |
| `WholeExchanges` | `Spec => []ExchangesAreWhole` | |
| `ResolvedReferences` | `Spec => []ReferencesResolve` | |
| `CurrentHistory` | `Spec => []HistoryIsCurrent` | |
| `KeptUpdates` | `Spec => UpdatesAreKept` | |
| `AskedInContext` | `Spec /\ []FewAhead => []QuestionInContext` | the same and `Recent <= HistoryCap` |
| `NothingIsForgotten` | `Spec /\ []FewAhead => []NothingForgotten` | the same and `WindowFits` |
| `SomeoneAlwaysGoesOn` | `Spec => []SomeoneGoesOn`: while a request is unanswered, the guards of some request's next step are open | the same, `EnoughIds` and `Provider # {}` |
| `WholeUploads` (`KnowledgeProofs`) | `Spec => []UploadsArriveWhole` | `KnowledgeAssumption`, `InputsAssumption` |
| `DocumentsSurvive` | `Spec => DocumentsOutliveProjects` | |
| `SearchIsFair` | `Spec => []SearchFindsTheBest` | |
| `ExactCleanup` (`MigrationsProofs`) | `Spec => []CleanupIsExact` | `MigrationAssumption`, `LinkedAssumption` |
| `VersionsAreSchemas` | `Spec => []VersionIsSchema` | |
| `ServedOnTheModelsKeys` | `Spec => []ModelsAgree` | |
| `NothingIsRefused` | `Spec /\ Short(legacy) => []NeverRefused`: PostgreSQL refuses no statement when no email is longer than `display_name` | |
| `LimitersAreBounded` (`RateLimiterProofs`) | `Spec => []MemoryIsBounded` | `LimitAssumption` |
| `QuotaHolds` | `Spec => []Quota` | |
| `DeservedRejections` | `Spec => RejectionsAreDeserved` | |
| `OnlyTheIdlest` | `Spec => OnlyTheIdlestIsForgotten` | |
| `CurrentToken` (`WebClientProofs`) | `SessionSpec => []HoldsTheHead` | `WebAssumption` |
| `SignOutsHaveReasons` | `SessionSpec => SignedOutForAReason` | |
| `OneConversationOnScreen` | `Spec => []ScreenIsOneConversation` | `ChatAssumption` |
| `OneAnswerAtATime` | `Spec => []OneLiveStream` | |
| `ShownAnswers` | `Spec => []AnswersAreShown` | |
| `OneConversationOnScreen` (`MobileAppProofs`) | `Spec => []ScreenIsOneConversation` | `MobileAssumption` |
| `ClearsHaveReasons` | `Spec => ClearedForAReason` | |

None of these properties is inductive.  What follows says what each invariant adds and why; the
step proofs have one lemma per action, or per group of actions that touch the same state, and a
frame lemma for those that leave the state of interest alone.

### Sessions

`OneWinner` depends on why two commits cannot carry the same old token.  `IndInv` adds

- `Bounded`: names in use were drawn by requests already received;
- `Fresh`: the names a request in flight will hand out are its own, unused and unknown;
- `Heads`: the token a session accepts was never redeemed, and no two sessions accept the same;
- `Locked`: a request about to commit holds its row, and a rotation still finds there the token it
  compared with;
- `Carried`: a refresh or logout presents a token some client was given.

A commit of a rotation moves the head of its session (`Locked`) into `spent`, where it was not
(`Heads`), and puts a fresh name in its place (`Fresh`): `OneWinner` and `WinnerKeepsSession` follow.
A logout holds its row from its write to its answer, so that no rotation comes between, and no
action reopens a revoked row.

`AccountInv` adds what a request has found out about its account and still holds of the row
(`Owned`), that the row of a token on its way has the token's expiry (`Dated`), and `Late`: once a
session was rotated for an account no longer active, no request that passed the check of
`is_active` before carries the session's new token.  A second late rotation would have to.

### Router and providers

Each step of an exchange is a step of the router or leaves it alone (`ExchangeStep`), so the
invariant of the router is proved once, of `ProviderRouter`, and carries over by `ImplementsRouter`.
It says that the log of calls is cut into blocks (`Blocks`): the last `attempt + 1` calls are the
current candidate's, every other one an earlier candidate's, and each earlier candidate was called;
and that a text in the answer is the current candidate's and was emitted (`Texts`), after which no
way leads to another call.  `Follows` and `Few` are the order and the number of calls.  `CallsAreInOrder` says that before each call of a request without a
name the other providers called are exactly the usable ones that the default and the fallbacks
name before it: the log is compared with the configuration, not with the list the code made of it.

`Candidates` is a fold over the configured names.  What a fold computes is proved by induction,
which is out of reach here for want of its rule; but a fold is a function with a recursive equation,
and that such a function exists, and that it gives a list of usable providers, each once and in the
order of their first naming, follows from the least number at which it would fail (`FoldExists`,
`FoldLists`).  `Usage` says that the count the code holds is the last valid one the server sent in
this call, and is reset with the call.

### Conversations

`Inv` relates where a request is to what it holds in the database: it is the only one that adds to
the conversation it opens (`Reserves`); from its flush to its commit nobody deletes or writes its
conversation (`Holds`); what it has added is its question, and its answer just before the commit
(`Exchange`); what it has read is the history still (`Current`); and what is not there has no
messages and is named by none (`Rooted`).  `Tied` says what a deletion of a project holds: the rows
in `tied` are there and are the project's, no other deletion holds the project, and no conversation
is being added to it.

The memory is harder.  A chat folds messages into the summary *it loaded*, before it waited for the
row, and reads a window that others have moved meanwhile.  `MInv` adds that stamps order the messages
(`Stamped`), that the requests of a socket follow one another (`Turns`), that each message is of a
chat that is over, two at most from each (`Senders`), that the summary covers what is not recent
(`Covered`), and the step that makes it work: but for the messages of those ahead, what a chat did not
find folded when it loaded the conversation is within the window it will read (`Loaded`).

Two hypotheses name what this needs, and both can fail in the code.

- `FewAhead`: the requests that commit to a chat's conversation between its load of it and its
  reading of the history (`ahead`) are fewer than half the context limit.  Those before and after do
  not count, so histories may be of any length.  The code bounds them by nothing.  Past this
  `NothingForgotten` does not hold: in `ConversationsRace` the context is 4 and two get ahead.  The
  run `Conversations` satisfies it with context 6 and two, the most that allows; the default context
  of 30 allows fourteen.
- `WindowFits`: the history read (trigger or context, whichever is longer, and the context again)
  is within the 500 messages at which `MemoryManager` caps it.  The settings allow a context of 4 to
  200 and a trigger of 8 to 500 (`E/core/config/settings.py:126`, `130`), so it fails for some
  settings, as section 5 says.

Deadlock needs `Inv` and `Tied`.  Who waits for whom goes one way.  A chat from its flush to its
commit, and one that inserts a message, waits for nobody; a deletion of a project that has begun
waits only for such writers, though it holds other rows; a chat that is about to flush waits for
either, one that inserts its conversation for the deletion; a rename, a deletion of a conversation
and a deletion of a project that has not begun wait for any of these.  `CanGoOn` is the disjunction of the guards of `Step`, `FreeIds` the step that is not about
locks: the ids taken map into the requests other than the one that wants one, so one is left when
there are more ids than requests (`EnoughIds`: ids are uuids).  `Provider # {}` says that somebody
can have answered.

### Documents

`Whole` follows the bytes: what a request has read is no more than it declared or than the limit,
and what it goes on with is the file it sent.  `Shelved`, `Pending` and `Named` are about rows:
documents have a time each and a project that is there; a request that will store one has a time of
its own, and its project is there from the insert to the commit, for the foreign key keeps the row;
a request that will delete one names a row of its user's, or one that is gone for ever.

The search only reads, so `SearchFindsTheBest` holds in any state of finitely many documents with a
time each (`FinitelyMany`).  The candidates and the answer are both the first so many of a finite set
in a strict order: there are no more than so many of them, and all are taken that come before one
left out (`ForemostFew`, `ForemostFull`).  Of the score the argument needs only that it is a number.
It is a sum over terms, defined by recursion over sets; that the recursion has a solution, and that
the solution is a number, follow from the least size of a set at which they would fail (`SumExists`,
`SumIsNumber`), as for the fold of the router.

### Migrations

`CleanupIsExact` speaks of commits, but what the last one commits was made statement by statement,
in eight steps each of which changes what the next will find.  `Inv` says what a migration has
reached after any number of statements:

- `Placed`: where it is between its version and its goal, and which statement comes next.
- `Committed`: while no transaction is open nothing is uncommitted, and one is open on PostgreSQL
  all the time, on SQLite from the first statement of revision 4 (a DELETE) and of its downgrade (the
  copy of a table) on.  Without this a crash could leave half a cleanup.
- `Schemas`: the schema is that of the version plus what the statements so far have made, or less
  what they have dropped (`Reached`).  On SQLite this holds of the foreign keys only, for a failed
  attempt leaves columns behind.
- `Rows`: the rows of an upgrade are the `Stage` of the cleanup after so many statements, in terms
  of the rows it found.

`Stage` is the heart: it says of each row whether it is still there and which of its links are, by
looking only at the rows the upgrade found.  That a DELETE which asks for the rows there *now* does
the same is shown statement by statement (`StageStep`); it holds because the statements come in an
order in which each finds its parents as they will stay, and the swap of two of them (`MutOrder`)
breaks it.  `StageLast` says that the eighth stage is `Cleaned`.  After a downgrade the rows of the
head revision are what the next upgrade finds, so that `Cleaned` of a cleaned set must be that set
(`CleanedTwice`).

A version is a schema because no two revisions make the same object (`Fresh`) and a downgrade drops
what its upgrade made (`DownUndoesUp`).  `NothingIsRefused` adds that within a script no object occurs
twice (`Apart`), that no link is dangling among the cleaned rows (`NothingDangles`), which is what
PostgreSQL looks for as it adds a foreign key, and that no email is too long to copy if none was at
first (`ShortInv`).  The scripts are long constants; they enter the proofs through one lemma per script (`Up1Is` to `Down4Is`).

### Limiters

`IInv` adds to `MemoryIsBounded` that the tables are functions on the keys and hold finitely many of
them, without which a cardinality says nothing.  `RoomForTheKey` is the step that matters:
whichever way a check makes room, the key is in the table already or fewer than `max_keys` others
are; what the check then records adds the key at most.

`QInv` relates a bucket to the history of its client, which the bucket forgets: a bucket is the end
of that history (`Latest`); what it does not hold has left the window, or was forgotten in an
eviction that `dropped` dates (`Forgotten`).  When a check admits a request the bucket has fewer
than `max_requests`, so the request that many before is one it does not hold: `Quota`.  When it
rejects one the bucket holds `max_requests` of the window, and each is an admitted request.

### Web client

`WebSession`: `SignedOutForAReason` follows the calls of `boot()` until its `catch` ran, whoever is
signed in by then.  There is never a second refresh in flight (`OneFlight`), and the server is where the
answer says (`Answered`), so that the tab's pair is the head of its session or the one the refresh
in flight has sent (`Fresh`), unless a response was lost.  A refresh of an earlier login may still be
in flight after a new one; it is then not for the session whose pair is held.

`WebChat`: the invariant ties the view version to what is on screen.  A history that is awaited in
the current view is that of the conversation shown, and nothing is shown yet (`LoadFits`); all that is
shown was sent in this view (`ScreenFits`); a question still asks for the conversation shown
(`AskFits`); one send is in progress and the stop button is its own (`OneSend`).  The last two hold
only until a send of an earlier sign-in has ended late (`Interfered`).

### Mobile client

The screen needs `Composer`: one send at most is of the current view, `sending` is set while it is in
progress, and it asks for the conversation of that view or has opened one where there was none, so
that what it shows belongs to what is shown.  `Dated` (no task is of a later view than the current
one) makes each new view start without a send.

The tokens need how far the engine is: with the refresh in flight where its answer says (`Reached`),
and with the stored pair otherwise (`Stored`), as long as the session is open and no pair of it was
lost; and that a session not opened yet is at its first pair and named by no token (`Unopened`).  A
refused refresh is then one of a session that was closed or that lost a pair, which
`ClearedForAReason` lists with the other reasons.

### Only model-checked

- Liveness under fairness is beyond the prover: `EveryRequestEnds`, `RequestEnds`, `ComposerReturns`,
  `UpgradeSucceeds`.  Of the last, `NothingIsRefused` and `ServedOnTheModelsKeys`
  are the safety part; what is left is that restarts come and crashes end.
- ENABLED is too: `NoDeadlock`.  `SomeoneAlwaysGoesOn` is about the guards, written out in `CanGoOn`;
  that they are all the guards there are is what the run checks.

The properties of the runs `ConversationsRace`, `WebSessionLogout` and `MigrationsSqlite` do not hold.

## 5. What the checks found

1. *SQLite does not follow* (`MigrationsSqlite`).  Revision 0002 says that its first batch "keeps
   the documented SQLite fallback and the production database on the same migration path"
   (`E/migrations/versions/0002_product_v1_schema.py:18-20`).  Outside a batch it then adds
   `updated_at` with the default `now()` to projects (47-51) and conversations (61-65), which
   SQLite refuses unless the table is empty.  What the failed attempt had
   committed, `display_name`, makes every later one fail at that column: the container never serves.
2. *The rolling summary forgets* (`ConversationsRace`).  `chat` and `stream` roll the summary
   forward from the value loaded before they waited for the row (`E/services/chat_service.py:85`).
   With context 4 and trigger 8, the smallest values allowed, three concurrent chats leave a
   message in neither the history window nor the summary.
3. *Logout with a refresh in flight* (`WebSessionLogout`).  `refreshAccess` stores what it gets
   (`MyAgent-Web/app.js:70`) even after the logout cleared the session.

Behaviour the models reach that no text of the repository speaks against, listed as hazards or
named as reasons in properties:

- `SignedOutForAReason` and `ClearedForAReason` list every reason for which a client drops its
  tokens.  Some are not good ones: the refresh of an *earlier* login refused after a new login
  (`app.js:73`), a boot without network (`app.js:119`) or whose listings fail after a later login
  (`app.js:122`), any failure of a repeated call on mobile (`api_client.dart:40`).
- On the web a listing that fails after a stream overwrites the answer with its error
  (`app.js:342`).  On mobile it leaves a first question on a screen that does not know its
  conversation, and the next question opens another one under it (`chat_controller.dart:141`).
- An email of more than 120 characters makes PostgreSQL refuse revision 0002
  (`0002_product_v1_schema.py:23`), at every restart.
- Answers of other chats may use up the characters of the context before a question that waited is
  reached (`manager.py:29-31`); a server that drips holds a request and its row locks for ever; a
  WebSocket looks at token and account only as it opens.
- On mobile `sending` and `loading` stick when the view changes during a send or an initialize
  (`chat_controller.dart:142`); and a refresh that lands after logout saves live tokens.
- The history window is capped at 500.  With the trigger at 500 too, the oldest message leaves the
  window at the count at which nothing is folded yet.  `NothingForgotten` is checked with room
  below the cap.
- A body that is not text escapes `_post_json` as UnicodeDecodeError and is neither retried nor
  passed to a fallback (`Undecodable`).
- Two registrations of an email that pass the lookup together end in one 500: `users.add` flushes
  at `E/services/auth_service.py:67`, outside the `try` that turns an IntegrityError of the commit
  (71-75) into a rejection.
- The LIKE filter compares terms as they are typed and folded, the ranker folds the document too: a
  document that spells a term with another Arabic letter than the message and the folded form
  would be ranked, but never becomes a candidate.  A message of more than twelve terms is searched
  by the first twelve.  `SearchFindsTheBest` names both as reasons.
- The engine announces the id of a conversation before it commits it; a first answer that is
  stopped leaves the tab with an id that does not exist.

## 6. Not modelled, and why

The calculator is within reach and planned (section 7).  Left out for good: settings and container
(read once, no state after), health, provider list and cost estimates (reads and one
multiplication), roles and input validation (predicates without state), logging and errors, request
ids and security headers, the service worker's cache list, the desktop shell and scripts (plain
I/O).

Within the modelled components: request payloads and headers of the providers, the mock provider,
audit events, password hashing, listings and the single-row project routes; the handshake of a
WebSocket; the chunks and excerpts of documents, which are cut from what the search found, and the
parsers, which are the outcome `readable`; of migrations the offline mode, a crash inside SQLite's
copy of a table, a database that `AUTO_CREATE_TABLES` made before alembic came, and engines of an
older version that serve during an upgrade.

## 7. Plan

Done: the order was the engine's sessions first (their promises carry both clients), then the
router and its providers, conversations, the limiters, and the clients on top; then WebSockets in
`Conversations`, documents and their search, and the migrations.

Next, model: chat composed with the router over several chats (the stored provider becomes an
explicit name and switches fallback off), and the calculator's bounds.  Runs that grow are merged
with those that ask a related question before a new one is added.

Proved: the safety of sessions, router and providers, conversations and their memory, documents and
their search, migrations, limiters, the web client and the mobile client (section 4).  Every safety
property of a passing run is a theorem, `NoDeadlock` up to ENABLED.

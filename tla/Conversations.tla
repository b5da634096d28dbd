---------------------------- MODULE Conversations ----------------------------
(***************************************************************************)
(* services/chat_service.py and the conversation and project routes: the   *)
(* requests of one user's clients, each a transaction (READ COMMITTED) of  *)
(* its own on the tables projects, conversations and messages.             *)
(*                                                                         *)
(* chat and stream take the same steps here; they differ in what they send *)
(* while they run.  A list of messages is a set, ordered by created_at.    *)
(* The locks are those PostgreSQL takes: see Writing and Sharing.          *)
(***************************************************************************)
EXTENDS Naturals, FiniteSets, FiniteSetsExt, Functions

CONSTANTS Req, Conv, Project, Provider,
          Recent,      \* context_message_limit
          Trigger,     \* conversation_summary_trigger
          HistoryCap,  \* the 500 of _history_limit
          CharLimit,   \* context_character_limit
          Lengths,     \* bound: how many characters a message of each role may have
          Pasts,       \* bound: how many messages the first conversation starts with
          First,       \* a conversation that exists
          Socket,      \* WebSocket connections
          Wirings,     \* bound: the requests of a run and their sockets, see socket
          Kinds,       \* bound: what is asked for on each socket and apart from them
          None

\* What is asked for: "start" is a chat that names no conversation.
Kind == {"chat", "start", "create", "rename", "delete", "unlink"}

ASSUME MemoryAssumption ==
    /\ {Recent, Trigger, HistoryCap} \subseteq Nat \ {0}
    /\ Pasts \subseteq Nat
    /\ Lengths \in [{"user", "assistant"} -> SUBSET Nat]
ASSUME NamesAssumption ==
    /\ First \in Conv
    /\ None \notin Req \cup Conv \cup Project \cup Provider \cup Socket
    /\ Kinds \in [Socket \cup {None} -> SUBSET Kind]
    /\ \A s \in Socket : Kinds[s] \subseteq {"chat", "start"}
    /\ \A w \in Wirings : DOMAIN w \subseteq Req /\ Range(w) \subseteq Socket \cup {None}

VARIABLES
    socket,    \* of each request that is made: the WebSocket it is sent on; None
               \* for one of its own
    projects,  \* committed rows of projects
    exists,    \* of a conversation: its id is free, reserved by a transaction, ...
    row,       \* committed rows of conversations
    msgs,      \* committed rows of messages, by conversation
    clock,     \* datetime.now(UTC): each reading is later than the one before
    pc,        \* where each request is, or how it was answered
    job,       \* what each request asks for
    base,      \* the conversation as the request's session loaded it
    own,       \* the messages the request has added and not committed
    tied,      \* the conversations whose rows a deletion of their project holds
    seen,      \* history: what list_messages returned to the request
    ahead      \* history: the requests that committed to its conversation after it
               \* loaded it

vars == <<socket, projects, exists, row, msgs, clock, pc, job, base, own, tied, seen, ahead>>

Message == [by: Req \cup {None}, role: {"user", "assistant"}, at: Nat, chars: Nat]
Row     == [project: Project \cup {None}, provider: Provider \cup {None},
            summary: SUBSET Message, title: Req \cup {None}]
Job     == [kind: Kind, conv: Conv \cup {None}, project: Project \cup {None}]
Answers == {"done", "denied", "mismatch", "failed"}
Blank   == [project |-> None, provider |-> None, summary |-> {}, title |-> None]

-----------------------------------------------------------------------------
\* ConversationMemory and the limits of ChatService.

LastN(S, n) == {m \in S : Cardinality({x \in S : x.at > m.at}) < n}

\* Fault: the window is no longer than the trigger.
MutHistoryLimit == Min({HistoryCap, Max({Trigger, Recent})})
HistoryLimit == Min({HistoryCap, Max({Trigger, Recent}) + Recent})

\* list_messages(limit = _history_limit).
History(S) == LastN(S, HistoryLimit)

\* recent_context: the recent messages from the last one back, until CharLimit
\* characters are used; the one that reaches the limit is cut, not left out.
Chars(S)   == MapThenSumSet(LAMBDA m : m.chars, S)
Full(S, m) == CharLimit <= Chars({x \in S : x.at > m.at})
Context(S) == {m \in LastN(S, Recent) : ~Full(S, m)}

\* summarize: past the trigger, everything but the recent messages is folded in.
Summarize(S, previous) ==
    IF Cardinality(S) <= Trigger THEN previous
    ELSE previous \cup (S \ LastN(S, Recent))

-----------------------------------------------------------------------------
\* The first conversation, of some project or none, has had a few exchanges, one
\* after the other, and is summarized as they left it.
PastMessages(n) == {[by |-> None, at |-> i, chars |-> 1,
                     role |-> IF i % 2 = 1 THEN "user" ELSE "assistant"] : i \in 1..n}

Init ==
    /\ socket \in Wirings
    /\ projects = Project
    /\ exists = [c \in Conv |-> IF c = First THEN "live" ELSE "free"]
    /\ \E n \in Pasts, p \in Project \cup {None} :
         LET past == PastMessages(n) IN
         /\ row = [c \in Conv |-> IF c # First THEN Blank ELSE
                     [Blank EXCEPT !.project = p, !.summary = Summarize(past, {})]]
         /\ msgs = [c \in Conv |-> IF c = First THEN past ELSE {}]
         /\ clock = n
    /\ pc = [r \in Req |-> "idle"]
    /\ job = [r \in Req |-> None]
    /\ base = [r \in Req |-> Blank]
    /\ own = [r \in Req |-> {}] /\ tied = [r \in Req |-> {}]
    /\ seen = [r \in Req |-> {}] /\ ahead = [r \in Req |-> {}]

tables == <<socket, projects, exists, row, msgs>>
locals == <<base, own, tied, seen, ahead>>
Goto(r, l) == pc' = [pc EXCEPT ![r] = l]

\* A message of the request, stamped now.
Add(r, role) ==
    /\ clock' = clock + 1
    /\ \E n \in Lengths[role] :
         own' = [own EXCEPT ![r] = @ \cup
                   {[by |-> r, role |-> role, at |-> clock + 1, chars |-> n]}]

\* Rollback: what the transaction added is gone, an id it reserved too, and the
\* rows it holds are free.
Drop(r, l) ==
    /\ Goto(r, l)
    /\ own' = [own EXCEPT ![r] = {}] /\ tied' = [tied EXCEPT ![r] = {}]
    /\ ahead' = [ahead EXCEPT ![r] = {}]
    /\ LET c == job[r].conv IN
         exists' = IF c \in Conv /\ exists[c] = "reserved"
                     THEN [exists EXCEPT ![c] = "gone"] ELSE exists
    /\ UNCHANGED <<socket, projects, row, msgs, clock, job, base, seen>>

\* Fault: a chat that failed keeps its transaction open.
MutWriting(c) == {r \in Req : pc[r] \in {"think", "commit", "failed"} /\ job[r].conv = c}

\* Requests whose UPDATE of the row is not committed, requests that have yet to write
\* it, and requests whose INSERT of a message keeps the row from being deleted.
Writing(c) == {r \in Req : pc[r] \in {"think", "commit"} /\ job[r].conv = c}
Waiting(c) == {r \in Req : pc[r] \in {"insert", "touch"} /\ job[r].conv = c}
Sharing(c) == Writing(c) \cup {r \in Req : pc[r] = "touch" /\ job[r].conv = c}
\* Requests whose INSERT of a conversation keeps its project.
Linking(p) == {r \in Req : /\ pc[r] \in {"insert", "touch", "think", "commit"}
                           /\ exists[job[r].conv] = "reserved"
                           /\ job[r].project = p}
\* Deletions of the project, and of the conversation's project, under way: they
\* have the row of the one and, when they came to it, that of the other.
Unlinking(p) == {r \in Req : pc[r] = "unlink" /\ job[r].project = p}
Tying(c)     == {r \in Req : c \in tied[r]}

-----------------------------------------------------------------------------
\* websocket_chat: a message is received when the stream of the one before has ended;
\* a chat that fails closes the socket.
Open(r) == socket[r] # None =>
    \A q \in DOMAIN socket \ {r} : socket[q] = socket[r] => pc[q] \in {"idle", "done"}

\* A request arrives with ids its client was given at some time, or none.
Receive(r) ==
    /\ r \in DOMAIN socket /\ pc[r] = "idle" /\ Open(r)
    /\ \E k \in Kinds[socket[r]], p \in Project \cup {None},
          c \in {None} \cup {d \in Conv : exists[d] \in {"live", "gone"}} :
         /\ c = None <=> k \in {"start", "create", "unlink"}
         /\ k \in {"rename", "delete"} => p = None
         /\ k = "unlink" => p # None
         /\ job' = [job EXCEPT ![r] = [kind |-> k, conv |-> c, project |-> p]]
    /\ Goto(r, "load")
    /\ UNCHANGED <<tables, clock, locals>>

\* _conversation: the project, then the conversation, must be the user's.  An
\* existing conversation gets the question at once; a new one is inserted first.
ChatLoad(r) ==
    LET j == job[r] IN
    /\ pc[r] = "load" /\ j.kind \in {"chat", "start", "create"}
    /\ \/ /\ \/ j.project \notin projects \cup {None}
             \/ j.conv # None /\ exists[j.conv] # "live"
          /\ Goto(r, "denied") /\ UNCHANGED <<clock, base, own>>
       \/ /\ j.project \in projects \cup {None} /\ j.conv = None
          /\ Goto(r, "create") /\ UNCHANGED <<clock, base, own>>
       \/ /\ j.project \in projects \cup {None}
          /\ j.conv # None /\ exists[j.conv] = "live"
          /\ IF j.project \notin {None, row[j.conv].project}
               THEN Goto(r, "mismatch") /\ UNCHANGED <<clock, base, own>>
               ELSE /\ base' = [base EXCEPT ![r] = row[j.conv]]
                    /\ Goto(r, "insert") /\ Add(r, "user")
    /\ UNCHANGED <<tables, job, tied, seen, ahead>>

\* conv_ and a uuid: an id that no request ever had.
FreshId == CHOOSE c \in Conv : exists[c] = "free"

\* The INSERT of a new conversation, which waits for a deletion of the project;
\* the project may be gone since it was read.
Create(r) ==
    LET j == job[r] IN
    /\ pc[r] = "create"
    /\ \/ j.project \notin projects \cup {None} /\ Drop(r, "failed")
       \/ /\ j.project \in projects \cup {None} /\ Unlinking(j.project) = {}
          /\ \E c \in Conv, v \in Provider \cup {None} :
               /\ exists[c] = "free" /\ c = FreshId
               /\ exists' = [exists EXCEPT ![c] = "reserved"]
               /\ job' = [job EXCEPT ![r].conv = c]
               /\ base' = [base EXCEPT ![r] =
                             [Blank EXCEPT !.project = j.project, !.provider = v]]
          /\ IF j.kind = "start" THEN Goto(r, "insert") /\ Add(r, "user")
             ELSE Goto(r, "commit") /\ UNCHANGED <<clock, own>>
          /\ UNCHANGED <<socket, projects, row, msgs, tied, seen, ahead>>

\* Fault: the question is committed before it is answered.
MutInsert(r) ==
    LET c == job[r].conv IN
    /\ pc[r] = "insert"
    /\ IF exists[c] \in {"live", "reserved"}
         THEN /\ Goto(r, "touch")
              /\ msgs' = [msgs EXCEPT ![c] = @ \cup own[r]]
              /\ UNCHANGED <<socket, projects, exists, row, clock, job, locals>>
         ELSE Drop(r, "failed")

\* _add_user_message: the INSERT fails when the conversation was deleted since.
Insert(r) ==
    /\ pc[r] = "insert"
    /\ IF exists[job[r].conv] \in {"live", "reserved"}
         THEN Goto(r, "touch") /\ UNCHANGED <<tables, clock, job, locals>>
         ELSE Drop(r, "failed")

\* The history is read, and the provider called with it.
ReadHistory(r, S) ==
    /\ seen' = [seen EXCEPT ![r] = History(S)]
    /\ Goto(r, "think")
    /\ UNCHANGED <<tables, clock, job, base, own, tied, ahead>>

\* Fault: updated_at is not written, so nothing makes the chats wait.
MutTouch(r) == pc[r] = "touch" /\ ReadHistory(r, msgs[job[r].conv] \cup own[r])

\* Fault: no autoflush; the question is written only after the history is read.
MutFlush(r) ==
    LET c == job[r].conv IN
    /\ pc[r] = "touch" /\ Writing(c) \cup Tying(c) = {}
    /\ ReadHistory(r, msgs[c])

\* list_messages: autoflush first writes updated_at, waiting for whoever has the
\* row, and keeps it until the transaction ends.
Touch(r) ==
    LET c == job[r].conv IN
    /\ pc[r] = "touch" /\ Writing(c) \cup Tying(c) = {}
    /\ ReadHistory(r, msgs[c] \cup own[r])

\* agent.reply or agent.stream returned: the answer is added, stamped now.
Reply(r) ==
    /\ pc[r] = "think"
    /\ Goto(r, "commit") /\ Add(r, "assistant")
    /\ UNCHANGED <<tables, job, base, tied, seen, ahead>>

\* The provider failed, the client left, the process died, or the database chose
\* the transaction as a deadlock's victim.
Abort(r) ==
    /\ pc[r] \in {"create", "insert", "touch", "think", "commit", "write", "unlink"}
    /\ Drop(r, "failed")

\* Fault: the whole row is written back as it was loaded.
MutWritten(r, c, v, s) == [base[r] EXCEPT !.provider = v, !.summary = s]

\* The row a commit leaves: an UPDATE names only the columns whose value is no
\* longer the one the session loaded.
Written(r, c, v, s) ==
    IF exists[c] = "live"
      THEN [row[c] EXCEPT !.provider = IF v = base[r].provider THEN @ ELSE v,
                          !.summary  = IF s = base[r].summary THEN @ ELSE s]
      ELSE [base[r] EXCEPT !.provider = v, !.summary = s]

\* session.commit() of chat, stream and create_conversation.
Commit(r) ==
    LET c == job[r].conv
        s == Summarize(seen[r] \cup {m \in own[r] : m.role = "assistant"}, base[r].summary)
    IN
    /\ pc[r] = "commit"
    /\ \E v \in IF job[r].kind = "create" THEN {base[r].provider} ELSE Provider :
         row' = [row EXCEPT ![c] = Written(r, c, v, s)]
    /\ exists' = [exists EXCEPT ![c] = "live"]
    /\ msgs' = [msgs EXCEPT ![c] = @ \cup own[r]]
    /\ own' = [own EXCEPT ![r] = {}]
    /\ ahead' = [[q \in Req |-> ahead[q] \cup IF q \in Waiting(c) THEN {r} ELSE {}]
                   EXCEPT ![r] = {}]
    /\ Goto(r, "done")
    /\ UNCHANGED <<socket, projects, clock, job, base, tied, seen>>

-----------------------------------------------------------------------------
\* update_conversation, delete_conversation, delete_project: the row is read ...
RowLoad(r) ==
    LET j == job[r] IN
    /\ pc[r] = "load" /\ j.kind \in {"rename", "delete", "unlink"}
    /\ IF (IF j.kind = "unlink" THEN j.project \in projects ELSE exists[j.conv] = "live")
         THEN Goto(r, "write") ELSE Goto(r, "denied")
    /\ UNCHANGED <<tables, clock, job, locals>>

\* ... and written.  An UPDATE of a row deleted since raises StaleDataError.
Rename(r) ==
    LET c == job[r].conv IN
    /\ pc[r] = "write" /\ job[r].kind = "rename" /\ Writing(c) \cup Tying(c) = {}
    /\ \/ exists[c] # "live" /\ Drop(r, "failed")
       \/ /\ exists[c] = "live"
          /\ row' = [row EXCEPT ![c].title = r]
          /\ Goto(r, "done")
          /\ UNCHANGED <<socket, projects, exists, msgs, clock, job, locals>>

\* Fault: the delete does not wait for chats that are adding messages.
MutDelete(r) ==
    LET c == job[r].conv IN
    /\ pc[r] = "write" /\ job[r].kind = "delete" /\ Writing(c) \cup Tying(c) = {}
    /\ exists' = [exists EXCEPT ![c] = "gone"]
    /\ msgs' = [msgs EXCEPT ![c] = {}]
    /\ Goto(r, "done")
    /\ UNCHANGED <<socket, projects, row, clock, job, locals>>

\* The messages go with the conversation; deleting it twice is no error.
Delete(r) ==
    LET c == job[r].conv IN
    /\ pc[r] = "write" /\ job[r].kind = "delete" /\ Sharing(c) \cup Tying(c) = {}
    /\ exists' = [exists EXCEPT ![c] = "gone"]
    /\ msgs' = [msgs EXCEPT ![c] = {}]
    /\ Goto(r, "done")
    /\ UNCHANGED <<socket, projects, row, clock, job, locals>>

Linked(p) == {c \in Conv : exists[c] = "live" /\ row[c].project = p}

\* delete_project: the DELETE takes the project's row, once no INSERT of one of its
\* conversations and no other deletion has it.
Unlink(r) ==
    /\ pc[r] = "write" /\ job[r].kind = "unlink"
    /\ Linking(job[r].project) \cup Unlinking(job[r].project) = {}
    /\ Goto(r, "unlink")
    /\ UNCHANGED <<tables, clock, job, locals>>

\* ON DELETE SET NULL comes to one conversation after the other, in no known order ...
Reach(r) ==
    /\ pc[r] = "unlink" /\ job[r].conv = None
    /\ \E c \in Linked(job[r].project) \ tied[r] : job' = [job EXCEPT ![r].conv = c]
    /\ UNCHANGED <<tables, clock, pc, locals>>

\* ... and takes its row, if it was not deleted, keeping those it has.
Tie(r) ==
    LET c == job[r].conv IN
    /\ pc[r] = "unlink" /\ c # None /\ Writing(c) = {}
    /\ tied' = [tied EXCEPT ![r] = @ \cup ({c} \cap Linked(job[r].project))]
    /\ job' = [job EXCEPT ![r].conv = None]
    /\ UNCHANGED <<tables, clock, pc, base, own, seen, ahead>>

\* The commit: the conversations stay, without the project.
Unlinked(r) ==
    LET p == job[r].project IN
    /\ pc[r] = "unlink" /\ job[r].conv = None /\ Linked(p) \subseteq tied[r]
    /\ projects' = projects \ {p}
    /\ row' = [c \in Conv |-> IF c \in tied[r] THEN [row[c] EXCEPT !.project = None]
                              ELSE row[c]]
    /\ tied' = [tied EXCEPT ![r] = {}]
    /\ Goto(r, "done")
    /\ UNCHANGED <<socket, exists, msgs, clock, job, base, own, seen, ahead>>

-----------------------------------------------------------------------------
Finished(r) == pc[r] \in Answers

Step(r) == \/ ChatLoad(r) \/ Create(r) \/ Insert(r) \/ Touch(r) \/ Reply(r) \/ Commit(r)
           \/ RowLoad(r) \/ Rename(r) \/ Delete(r)
           \/ Unlink(r) \/ Reach(r) \/ Tie(r) \/ Unlinked(r)

\* Every request is answered, or cannot be sent because its socket was closed.
AllFinished == (\A r \in DOMAIN socket : Finished(r) \/ ~Open(r)) /\ UNCHANGED vars

Next == \/ \E r \in Req : Receive(r)
        \/ \E r \in Req : Step(r)
        \/ \E r \in Req : Abort(r)
        \/ AllFinished

Spec == Init /\ [][Next]_vars

-----------------------------------------------------------------------------
Committed == UNION {msgs[c] : c \in Conv}

\* chat and stream commit a question and its answer together or not at all: no
\* failure, cancellation or interleaving leaves one without the other.
ExchangesAreWhole ==
    \A m \in Committed : m.by # None =>
        \E n \in Committed : n.by = m.by /\ n.role # m.role

\* The foreign keys hold whatever is deleted meanwhile: messages, committed or
\* being written, are of a conversation that was not deleted, and conversations
\* name projects that exist.
ReferencesResolve ==
    \A c \in Conv :
        /\ msgs[c] # {} => exists[c] = "live"
        /\ \A r \in Sharing(c) \cup Tying(c) : exists[c] \in {"live", "reserved"}
        /\ exists[c] = "live" => row[c].project \in projects \cup {None}

\* While a provider composes an answer no other chat of the conversation commits:
\* the history it was given is still the conversation's when the answer is stored.
HistoryIsCurrent ==
    \A c \in Conv : \A r \in Writing(c) :
        job[r].kind # "create" =>
            seen[r] = History(msgs[c] \cup {m \in own[r] : m.role = "user"})

\* A request that had to wait still asks its own question: it is among the messages
\* the provider is sent, unless what other requests said after it fills the characters.
QuestionInContext ==
    \A r \in Req : pc[r] = "think" =>
        \A m \in own[r] : m \in Context(seen[r]) \/ Full(seen[r] \ own[r], m)

\* A message too old for list_messages to return is in the rolling summary.
NothingForgotten ==
    \A c \in Conv : exists[c] = "live" => msgs[c] \ History(msgs[c]) \subseteq row[c].summary

\* A chat that loaded the conversation before a rename or the deletion of its
\* project does not undo them when it commits.
UpdatesAreKept ==
    [][\A c \in Conv : exists[c] = "live" =>
         /\ row'[c].title # row[c].title =>
              \E r \in Req : /\ pc[r] = "write" /\ pc'[r] = "done"
                             /\ job[r].kind = "rename" /\ row'[c].title = r
         /\ row'[c].project # row[c].project =>
              row'[c].project = None /\ row[c].project \notin projects']_vars

\* Requests that wait for one another's rows never wait in a circle: as long as
\* one is unanswered, one can go on, without the database having to choose a victim.
NoDeadlock ==
    (\E r \in Req : pc[r] # "idle" /\ ~Finished(r)) => \E r \in Req : ENABLED Step(r)
==============================================================================
